-------------------------- MODULE CostIntelligence --------------------------
(* What a cart costs at checkout, computed from one checkout observation:    *)
(* the evaluators of cost_intelligence/ for fees, offers and memberships and *)
(* the aggregation of their results (effective_cost/).  Pure operators; the  *)
(* texts of an observation are kept as the words the evaluators look for.    *)
EXTENDS Integers, Sequences, SequencesExt

CONSTANTS
    Currency,  \* currencies of typed amounts
    INR,       \* the one of amounts that are read from a text with a rupee sign
    None       \* a missing value

ASSUME INRAssumption == INR \in Currency

------------------------------------------------------------------------------
(* Observations (observation/types.py): sequences of lines of four kinds     *)
(* that matter, and whether there is any evidence reference and any line.    *)

Money == [currency : Currency, units : Int]
Rupees(n) == [currency |-> INR, units |-> n]
Amount == Money \union {None}

\* Labels of totals, by what SubtotalExtractor makes of them.
ExactSubtotal == {"subtotal", "item total"}
LooseSubtotal == {"cart subtotal", "mrp total"}
TotalLine == [label : ExactSubtotal \union LooseSubtotal \union {"grand total"}, amount : Amount]

\* words: the fee kinds its text names; typed: its amount; written: the amount
\* its text holds.
FeeWord == {"delivery", "platform", "handling", "packaging", "small cart", "surge"}
FeeLine == [words : SUBSET FeeWord, typed : Amount, written : Amount]

\* form: how the text of an offer ends; value: the number before that, if it
\* is one (the typed amount of an offer is never read).
OfferForm == {"% OFF", "OFF", "CASHBACK", "WALLET CREDIT", "other"}
OfferLine == [form : OfferForm, value : Nat \union {None}]

\* words: which term lists of MembershipEvaluationService its text meets.
MembershipWord == {"negative", "benefit", "entitlement"}
MembershipLine == [words : SUBSET MembershipWord, written : Amount]

Observation == [evidenced : BOOLEAN, totals : Seq(TotalLine), fees : Seq(FeeLine),
                offers : Seq(OfferLine), memberships : Seq(MembershipLine)]

\* _validate_observation: what may be registered.  CostContext asks for the
\* evidence only.
Registrable(o) ==
    /\ o.evidenced
    /\ \E lines \in {o.totals, o.fees, o.offers, o.memberships} : lines # <<>>

------------------------------------------------------------------------------
(* The three evaluators, each on one line.                                   *)

FeeResult(f) ==
    LET named == f.words # {} IN
    [known |-> named,
     amount |-> IF ~named THEN None ELSE IF f.typed # None THEN f.typed ELSE f.written]

OfferResult(o) ==
    LET type == IF o.value = None \/ (o.form = "% OFF" /\ o.value > 100) THEN "other" ELSE o.form IN
    [type |-> type,
     immediate |-> IF type = "OFF" THEN Rupees(o.value) ELSE None,
     deferred  |-> IF type \in {"CASHBACK", "WALLET CREDIT"} THEN Rupees(o.value) ELSE None]

MembershipResult(m) ==
    [eligible |-> IF "negative" \in m.words THEN FALSE
                  ELSE IF m.words # {} THEN TRUE ELSE None,
     benefit  |-> IF "benefit" \in m.words THEN m.written ELSE None]

------------------------------------------------------------------------------
(* Aggregation.                                                              *)

\* SubtotalExtractor.extract: the lines with the best label must agree.
Subtotal(totals) ==
    LET of(labels) == {t \in ToSet(totals) : t.label \in labels /\ t.amount # None}
        best == IF of(ExactSubtotal) # {} THEN of(ExactSubtotal) ELSE of(LooseSubtotal)
        amounts == {t.amount : t \in best}
    IN  IF \E a \in amounts : amounts = {a} THEN CHOOSE a \in amounts : TRUE ELSE None

\* UnknownPropagationPolicy: the lines that keep the cost from being known.
\* (It would report a deferred value that is missing without blocking on it,
\* but an offer whose amount cannot be read is of the unknown type already.)
FeeUnknown(r) == ~r.known \/ r.amount = None
OfferUnknown(r) == r.type = "other"
MembershipUnknown(r) == r.eligible = None \/ (r.eligible = TRUE /\ r.benefit = None)

Where(lines, Result(_), Test(_)) == {i \in DOMAIN lines : Test(Result(lines[i]))}
Unknowns(o) ==
         (IF Subtotal(o.totals) = None THEN {<<"subtotal", 0>>} ELSE {})
  \union {<<"fee", i>> : i \in Where(o.fees, FeeResult, FeeUnknown)}
  \union {<<"offer", i>> : i \in Where(o.offers, OfferResult, OfferUnknown)}
  \union {<<"membership", i>> : i \in Where(o.memberships, MembershipResult, MembershipUnknown)}

\* collect_immediate_discounts, collect_fee_amounts, collect_deferred_value: an
\* amount per line, None where there is nothing to collect.
Discounts(o) ==
    [i \in DOMAIN o.offers |-> OfferResult(o.offers[i]).immediate]
    \o [i \in DOMAIN o.memberships |->
           LET r == MembershipResult(o.memberships[i]) IN
           IF r.eligible = TRUE THEN r.benefit ELSE None]
Fees(o) == [i \in DOMAIN o.fees |-> FeeResult(o.fees[i]).amount]
Deferred(o) == [i \in DOMAIN o.offers |-> OfferResult(o.offers[i]).deferred]

SumOf(amounts) ==
    LET sum[n \in 0..Len(amounts)] ==
            IF n = 0 THEN 0
            ELSE sum[n - 1] + (IF amounts[n] = None THEN 0 ELSE amounts[n].units)
    IN  sum[Len(amounts)]
OneCurrency(amounts) ==
    \A a, b \in ToSet(amounts) \ {None} : a.currency = b.currency

\* calculate_effective_cost.  A known percentage discount is neither unknown
\* nor subtracted.
EffectiveCost(o) ==
    LET subtotal == Subtotal(o.totals)
        known == Unknowns(o) = {} /\ OneCurrency(<<subtotal>> \o Discounts(o) \o Fees(o))
    IN  IF ~known THEN None
        ELSE [currency |-> subtotal.currency,
              units |-> subtotal.units - SumOf(Discounts(o)) + SumOf(Fees(o))]

\* EffectiveCostEvaluationService.evaluate; an evaluation is known by the
\* context it was made in, which is a digest of the observation.
Evaluate(o) == [cost |-> EffectiveCost(o), unknowns |-> Unknowns(o), deferred |-> SumOf(Deferred(o))]
=============================================================================
