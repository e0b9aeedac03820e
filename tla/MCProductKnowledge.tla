------------------------- MODULE MCProductKnowledge -------------------------
(* Two products of one brand.  o1, o2 and o4 are of one capture: two packs   *)
(* of the first product, and something with a name of neither and only words *)
(* that both have.  o3 is the listing of o1 under the second product's name. *)
EXTENDS ProductKnowledge

CONSTANTS w1, w2, butter, cheese, other, dairy, small, large, block,
          tAmul, tButter, tCheese, tSalted, tDairy, t100g, tWord

MCToken == {tAmul, tButter, tCheese, tSalted, tDairy, t100g, tWord}

ProductOf(id, name, family) ==
    [id |-> id, folded |-> id, name |-> name, category |-> dairy, brand |-> {tAmul}, family |-> {family},
     categories |-> {tDairy}, attributes |-> {tSalted}, unknownBrand |-> FALSE, fit |-> TRUE]

PackOf(content) ==
    [f \in PackField |-> CASE f \in {"content", "total"} -> content [] f = "components" -> None [] OTHER -> block]

VariantOf(id, product, content) ==
    [id |-> id, product |-> product, productFolded |-> product, attributes |-> {tSalted},
     pack |-> PackOf(content), fit |-> TRUE]

P1 == ProductOf("p1", butter, tButter)
P2 == ProductOf("p2", cheese, tCheese)
V1 == VariantOf("v1", "p1", small)
V2 == VariantOf("v2", "p1", large)
V3 == VariantOf("v3", "p2", small)

ObservationOf(id, listing, artifact, name, quantity, title) ==
    [id |-> id, listing |-> listing, artifact |-> artifact, name |-> name, category |-> dairy,
     quantity |-> quantity, title |-> title, quantityText |-> {t100g}, categoryText |-> {tDairy}]

O1 == ObservationOf("o1", "l1", "a1", butter, small, {tAmul, tButter})
O2 == ObservationOf("o2", "l2", "a1", butter, large, {tAmul, tButter})
O3 == ObservationOf("o3", "l1", "a2", cheese, small, {tAmul, tCheese})
O4 == ObservationOf("o4", "l3", "a1", other, small, {tAmul, tWord})

MCBatch == [w \in {w1, w2} |-> IF w = w1 THEN <<O1, O4, O2>> ELSE <<O3>>]

\* The second manifest repeats a product and decides about a listing; the last
\* contradicts the first.
MCManifest ==
    {[products |-> <<P1, P2>>, variants |-> <<V1, V2, V3>>, associations |-> <<>>],
     [products |-> <<P2>>, variants |-> <<V3>>, associations |-> <<Association(O3, "p2", "v3")>>],
     [products |-> <<[P1 EXCEPT !.attributes = {tSalted, tWord}]>>, variants |-> <<V1>>, associations |-> <<>>]}

MCCurated == [products |-> {P1, P2}, variants |-> {V1, V2, V3}]

Answers(pack) ==
    [DefaultGovernance EXCEPT !.coverage = "representative", !.check = "valid", !.freshness = "fresh", !.pack = pack]
MCHooks ==
    {DefaultGovernance, [DefaultGovernance EXCEPT !.freshness = "stale-conflicting"],
     Answers({}), Answers({PackOf(small)}), Answers({PackOf(large)})}

=============================================================================
