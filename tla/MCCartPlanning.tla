---------------------------- MODULE MCCartPlanning ----------------------------
(* A cart of two items, one of them offered by two retailers; checkouts that *)
(* are plain, discounted, not understood; configurations that lack something. *)
EXTENDS CartPlanning, TLC

CONSTANTS i1, i2, l1, l2, l3, Other, E

MCSymmetry == Permutations(Thread)

MCItemOf == (l1 :> i1) @@ (l2 :> i1) @@ (l3 :> i2)

Rs(n) == [currency |-> INR, units |-> n]
Bill(amount) == [evidenced |-> TRUE, fees |-> <<>>, offers |-> <<>>, memberships |-> <<>>,
                 totals |-> <<[label |-> "item total", amount |-> amount]>>]
MCCheckout ==
    {Bill(Rs(3)),
     [Bill(Rs(3)) EXCEPT !.fees = <<[words |-> {"delivery"}, typed |-> None, written |-> Rs(1)]>>,
                         !.offers = <<[form |-> "OFF", value |-> 2],
                                      [form |-> "CASHBACK", value |-> 1]>>,
                         !.memberships = <<[words |-> {"entitlement", "negative"}, written |-> None]>>],
     [Bill(Rs(3)) EXCEPT !.offers = <<[form |-> "OFF", value |-> None]>>]}

Retailers == (l1 :> "a") @@ (l2 :> "b") @@ (l3 :> "a")
Groups == [p \in {i1, i2} \X {"a", "b"} |-> p[2]]
Full == [ready |-> {l1, l2, l3}, retailer |-> Retailers, group |-> Groups,
         context |-> [l \in {l1, l2, l3} |-> [retailer |-> Retailers[l], group |-> Retailers[l]]],
         policy |-> [penalty |-> 0, priority |-> 0, feasibility |-> "feasible"],
         registry |-> TRUE]
MCWorld ==
    {Full, [Full EXCEPT !.ready = {l1, l3}, !.retailer[l2] = None],
     [Full EXCEPT !.group[<<i1, "b">>] = None],
     [Full EXCEPT !.policy = None, !.registry = FALSE]}

\* Two plans on captured checkouts, one under the id that automatic planning has
\* for other listings and one under an id made up; checkouts of the caller, which
\* are understood, in two currencies, no evidence, for an id that is not planned,
\* the groups of the plan not declared; evaluations of the caller, referred to and
\* not, beside a checkout, and different ones with one id.
Near == (i1 :> l1) @@ (i2 :> l3)
Far == (i1 :> l2) @@ (i2 :> l3)
Both == [plans |-> (1 :> PlanOfChoice(Combinations[2])) @@ (7 :> PlanOfChoice(Combinations[1])),
         shown |-> <<>>, declared |-> TRUE, feasibility |-> "feasible"]
Given(c, units, reference) ==
    [PlanOfChoice(c) EXCEPT !.given = [id |-> E, cost |-> Rs(units), unknowns |-> {}],
                            !.reference = reference]
One(plan, shown) == [Both EXCEPT !.plans = 7 :> plan, !.shown = shown]
MCSupplied ==
    {Both, One(PlanOfChoice(Far), <<>>),
     [One(PlanOfChoice(Far), 7 :> Bill(Rs(3))) EXCEPT !.declared = FALSE],
     One(PlanOfChoice(Far), 7 :> [Bill(Rs(3)) EXCEPT !.evidenced = FALSE]),
     One(PlanOfChoice(Far), 1 :> Bill(Rs(3))),
     One(Given(Far, 2, None), <<>>), One(Given(Far, 2, E), 7 :> Bill(Rs(3)))}
    \union {One([PlanOfChoice(Far) EXCEPT !.reference = ref], 7 :> Bill(Rs(3)))
              : ref \in {E, Bill(Rs(3))}}
    \union {[Both EXCEPT !.plans = (1 :> Given(Near, 2, E)) @@ (7 :> Given(Far, far, E))]
              : far \in {2, 4}}
    \union {[Both EXCEPT !.feasibility = seen[1],
                         !.shown = (1 :> Bill(Rs(3))) @@ (7 :> Bill(seen[2]))]
              : seen \in {<<"feasible", Rs(4)>>, <<"unresolved", Rs(4)>>,
                          <<"feasible", [currency |-> Other, units |-> 1]>>}}

\* Two units of an item: allocations that bring them and that do not, beside a
\* plan that does, dearer or cheaper; plans the caller knows only in part.
Of(item, n, retailer, semantics) == Allocation(item, n, retailer, retailer, semantics)
AllocationsTried ==
    {<<Of(i1, 2, "a", None)>>, <<Of(i1, 1, "a", None), Of(i1, 1, "b", "resolved")>>,
     <<Of(i1, 1, "a", None)>>, <<Of(i1, 3, "a", None)>>, <<Of(i1, 2, "a", "unresolved")>>,
     <<Of(i1, 2, "a", "unsupported")>>, <<Of(i1, 1, "a", None), Of(i1, 1, "a", None)>>,
     <<Of(i1, 2, "a", None), Of(i2, 1, "a", None)>>, <<>>}
PlanOf(id, allocations, evaluation, feasibility) ==
    [id |-> id, penalty |-> id, priority |-> 0, allocations |-> allocations,
     groups |-> GroupsOf(allocations), evaluation |-> evaluation, feasibility |-> feasibility,
     unknowns |-> {}]
Submit(allocations, feasibility, units, coverage) ==
    [observation |-> Bill(Rs(3)),
     request |-> [cart |-> i1 :> 2, coverage |-> coverage,
                  plans |-> <<PlanOf(1, allocations, "observed", feasibility),
                              PlanOf(2, <<Of(i1, 2, "b", None)>>, "given", "feasible")>>,
                  evaluations |-> <<[id |-> "given", cost |-> Rs(units), unknowns |-> {}]>>]]
MCSubmitted ==
    {Submit(as, "feasible", 4, "complete") : as \in AllocationsTried}
    \union {Submit(<<>>, "infeasible", 4, "complete"),
            Submit(<<Of(i1, 2, "a", None)>>, "infeasible", 4, "complete"),
            Submit(<<Of(i1, 2, "a", None)>>, "feasible", 2, "complete"),
            Submit(<<Of(i1, 2, "a", None)>>, "feasible", 4, "partial"),
            Submit(<<Of(i1, 2, "a", None)>>, "invalid", 4, "complete")}
===============================================================================
