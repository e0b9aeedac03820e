--------------------------- MODULE ProductMatching ---------------------------
(* Matching a retailer's listing to canonical products and variants: the     *)
(* resolver's exact keys, candidate generation, the product matcher and the  *)
(* variant matcher.  Texts are sets of tokens; rationales and traces, which  *)
(* decide nothing, are left out.                                             *)
EXTENDS Integers, FiniteSets

CONSTANTS Token, QuantityToken, Key, PackValue

ASSUME TokenAssumption == QuantityToken \subseteq Token

(* Operators named X_Y are mutations of X; nothing uses them.                *)
None == "none"

------------------------------------------------------------------------------
(* Data.                                                                     *)

PackField == {"kind", "count", "content", "total", "form", "components"}
\* None stands for an absent field, the unknown kind and an empty component set.
Pack == [PackField -> PackValue \union {None}]

\* name, category: the governed keys.  folded: the product id in lower case.
\* fit: what the catalog demands of a product (established, active, ...).
Product ==
    [id : STRING, folded : STRING, name : Key, category : Key, brand : SUBSET Token,
     family : SUBSET Token, categories : SUBSET Token, attributes : SUBSET Token,
     unknownBrand : BOOLEAN, fit : BOOLEAN]

Variant ==
    [id : STRING, product : STRING, productFolded : STRING, attributes : SUBSET Token,
     pack : Pack, fit : BOOLEAN]

\* A normalized observation and the listing the ingestion adapter makes of it.
Observation ==
    [id : STRING, listing : STRING, artifact : STRING, name : Key, category : Key \union {None},
     quantity : PackValue \union {None}, title : SUBSET Token, quantityText : SUBSET Token,
     categoryText : SUBSET Token]

Freshness == {"fresh", "stale-compatible", "stale-unresolved", "stale-conflicting", "missing", "invalid"}
Coverage == {"unknown", "partial", "representative", "invalid"}
CoverageCheck == {"valid", "unverifiable", "invalid", "contradictory"}
FailureKind == {"missing", "invalid", "contradictory", "timeout", "partial"}
Dependency == {"product_context", "pack_identity", "other"}
\* pack: the normalized pack evidence, one or none; text: the quantity it quotes.
Governance ==
    [coverage : Coverage, check : CoverageCheck, freshness : Freshness,
     failures : SUBSET (Dependency \X FailureKind), pack : SUBSET Pack,
     text : PackValue \union {None}]

\* What the hooks of the runtime always answer.
DefaultGovernance ==
    [coverage |-> "unknown", check |-> "unverifiable", freshness |-> "missing", failures |-> {},
     pack |-> {}, text |-> None]

Outcome == {"mapped", "unresolved", "ambiguous", "conflicting", "rejected"}
Snapshot == [products : SUBSET Product, variants : SUBSET Variant]

------------------------------------------------------------------------------
(* Resolution of a listing by exact keys.                                    *)

ProductKey(p) == <<p.name, p.category>>
ObservedProductKey(o) == <<o.name, o.category>>
\* The catalog side folds the case of the product id, the observed side does not.
VariantKey(v) == <<v.productFolded, v.pack["content"]>>
ObservedVariantKey(o, p) == <<p.id, o.quantity>>

\* resolve: the pair the listing is of, or why there is none.
Resolution(o, catalog) ==
    LET products == {p \in catalog.products : p.fit /\ ProductKey(p) = ObservedProductKey(o)}
        variants(p) == {v \in catalog.variants : v.fit /\ v.pack["content"] # None
                                                /\ VariantKey(v) = ObservedVariantKey(o, p)}
        none(status) == [status |-> status, product |-> None, variant |-> None]
    IN  IF o.category = None \/ products = {} THEN none("unresolved")
        ELSE IF Cardinality(products) > 1 THEN none("ambiguous")
        ELSE LET p == CHOOSE p \in products : TRUE
                 found == variants(p)
             IN  IF o.quantity = None \/ found = {} THEN none("unresolved")
                 ELSE IF \E v \in found : v.product # p.id THEN none("conflicting")
                 ELSE IF Cardinality(found) > 1 THEN none("ambiguous")
                 ELSE [status |-> "mapped", product |-> p.id, variant |-> (CHOOSE v \in found : TRUE).id]

------------------------------------------------------------------------------
(* Candidate generation: whatever shares a token with the listing.  A        *)
(* quantity hint of the listing is one of its tokens, so it makes a          *)
(* candidate of every product and variant.  The ranking decides nothing: the *)
(* matchers choose by signals of their own and refuse ties.                  *)

Overlap(s, t) == Cardinality(s \intersect t)
ListingTokens(o) == o.title \union o.quantityText \union o.categoryText
Hints(o) == o.quantityText \intersect QuantityToken

ProductTokens(p, o) == p.brand \union p.family \union p.categories \union Hints(o)
VariantTokens(v, o, products) ==
    v.attributes \union Hints(o)
        \union UNION {p.brand \union p.family \union p.categories : p \in {q \in products : q.id = v.product}}

Candidates(o, s) ==
    [products |-> {p \in s.products : ProductTokens(p, o) \intersect ListingTokens(o) # {}},
     variants |-> {v \in s.variants : VariantTokens(v, o, s.products) \intersect ListingTokens(o) # {}}]

------------------------------------------------------------------------------
(* The product matcher.                                                      *)

MatchTokens(o) == o.title \union o.categoryText

Signal(p, o) ==
    LET brand == Overlap(p.brand, MatchTokens(o))
        family == Overlap(p.family, MatchTokens(o))
        category == Overlap(p.categories, MatchTokens(o))
        attribute == Overlap(p.attributes, MatchTokens(o))
    IN  [total |-> brand + family + category + attribute, brand |-> brand, family |-> family,
         category |-> category, attribute |-> attribute]

Order == <<"total", "brand", "family", "category", "attribute">>
Outranks(s, t) ==
    \E i \in DOMAIN Order : s[Order[i]] > t[Order[i]] /\ \A j \in 1..i - 1 : s[Order[j]] = t[Order[j]]

\* The candidates of the strongest signal.
Strongest(products, o) ==
    {p \in products : \A q \in products : ~Outranks(Signal(q, o), Signal(p, o))}

EvidenceConflicts(p, o) ==
    /\ \/ p.brand \intersect MatchTokens(o) # {}
       \/ o.title # {} /\ p.family \intersect MatchTokens(o) # {}
       \/ p.attributes # {}
    /\ o.categoryText # {} /\ p.categories # {}
    /\ o.categoryText \intersect p.categories = {}

\* The third rule of the code, no token of the family and none of the brand, is
\* the first again.
StrongReject(p, o) ==
    LET s == Signal(p, o)
    IN  \/ s.family = 0 /\ s.brand = 0
        \/ p.unknownBrand /\ s.family = 0 /\ s.attribute = 0

Match(outcome, selected) == [outcome |-> outcome, selected |-> selected]

MatchProduct(o, products) ==
    LET best == Strongest(products, o)
        p == CHOOSE p \in best : TRUE
    IN  IF products = {} THEN Match("unresolved", {})
        ELSE IF Cardinality(best) > 1 THEN Match("ambiguous", {})
        ELSE IF Signal(p, o).total = 0 THEN Match("rejected", {})
        ELSE IF EvidenceConflicts(p, o) THEN Match("conflicting", {})
        ELSE IF StrongReject(p, o) THEN Match("rejected", {})
        ELSE Match("mapped", {p})

------------------------------------------------------------------------------
(* The variant matcher, for the product the listing was matched to: a set of *)
(* one, or none.                                                             *)

Differ(a, b) == a # None /\ b # None /\ a # b
Agree(a, b) == a # None /\ a = b

PackConflicts(v, k) == \E f \in PackField : Differ(v.pack[f], k[f])
\* The two measures and the form must be known on both sides, the other fields
\* agree where the evidence knows them.
PackExact(v, k) ==
    /\ \A f \in {"content", "total", "form"} : Agree(v.pack[f], k[f])
    /\ \A f \in {"kind", "count", "components"} : k[f] # None => v.pack[f] = k[f]

UsableFreshness == {"fresh", "stale-compatible"}

Contradicted(v, p, g) == v.product # p.id \/ \E k \in g.pack : PackConflicts(v, k)
\* Weaker support selects nothing: such a candidate is viable all the same.
Exact(v, p, o, g) ==
    /\ ~Contradicted(v, p, g)
    /\ g.freshness \in UsableFreshness
    /\ \E k \in g.pack : PackExact(v, k)
    /\ o.quantity = None \/ g.text = None \/ o.quantity = g.text

\* The blocking outcome of the request's validation, or None.  (A product of
\* ambiguous identity would block too; the catalog takes none.)
Blocked(product, variants, g) ==
    IF product = {} \/ variants = {} THEN "unresolved"
    ELSE IF g.freshness = "stale-conflicting"
            \/ <<"product_context", "contradictory">> \in g.failures
            \/ <<"pack_identity", "contradictory">> \in g.failures
         THEN "conflicting"
         ELSE None

Evaluation(o, p, variants, g) ==
    LET exact == {v \in variants : Exact(v, p, o, g)}
        viable == {v \in variants : ~Contradicted(v, p, g)}
        selected == IF Cardinality(exact) = 1 THEN exact ELSE {}
    IN  [selected |-> selected, viable |-> viable,
         ambiguous |-> IF selected = {} /\ Cardinality(viable) > 1 THEN viable ELSE {}]

MatchVariant(o, product, variants, g) ==
    LET p == CHOOSE p \in product : TRUE
        e == Evaluation(o, p, variants, g)
        covered == g.check = "valid" /\ g.coverage # "invalid" /\ g.freshness \in UsableFreshness
        rejectable == covered /\ g.coverage = "representative" /\ e.viable = {}
    IN  IF Blocked(product, variants, g) # None THEN Match(Blocked(product, variants, g), {})
        ELSE IF covered /\ e.selected # {} THEN Match("mapped", e.selected)
        ELSE IF covered /\ e.ambiguous # {} THEN Match("ambiguous", {})
        ELSE IF rejectable THEN Match("rejected", {})
        ELSE Match("unresolved", {})

=============================================================================
