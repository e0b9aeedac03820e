--------------------------- MODULE ListingServices ---------------------------
(* What the association registry refuses and answers, and the three services *)
(* that read it with the catalog and the observation registry: product       *)
(* search, cart resolution and candidate discovery.  list: the stored        *)
(* associations; registered: the ids of the registered observations.  The    *)
(* retailer observation store, where search looks last, is left out: no code *)
(* of the application associates its observations.                           *)
EXTENDS ProductMatching, Sequences

ListingAssociation == [observation : STRING, listing : STRING, product : STRING, variant : STRING]
Association(o, product, variant) ==
    [observation |-> o.id, listing |-> o.listing, product |-> product, variant |-> variant]

Elements(list) == {list[i] : i \in DOMAIN list}
ById(set, id) == {x \in set : x.id = id}

\* Mutant: only the observations are compared.
Consistent_PerObservation(set) ==
    \A a, b \in set : a.observation = b.observation => a = b
\* No listing is reassigned and no observation is associated twice; the
\* registry raises on everything else.
Consistent(set) ==
    \A a, b \in set :
        /\ a.listing = b.listing => a.product = b.product /\ a.variant = b.variant
        /\ a.observation = b.observation => a = b

\* get: the association of the listing that was stored first, one or none.
First(list, listing) ==
    {list[i] : i \in {j \in DOMAIN list : list[j].listing = listing
                                          /\ \A k \in 1..j - 1 : list[k].listing # listing}}

------------------------------------------------------------------------------
(* Search.  query: the ids of the products whose texts contain it.  An item  *)
(* is an association with its price and texts.                               *)

SearchItems(query, catalog, list, registered) ==
    {a \in Elements(list) :
        /\ a.observation \in registered
        /\ \E p \in ById(catalog.products, a.product), v \in ById(catalog.variants, a.variant) :
              p.id \in query /\ v.product = p.id}

------------------------------------------------------------------------------
(* Cart resolution.  An item names a variant, a listing or both.             *)

Unresolved == [status |-> "unresolved", product |-> None, variant |-> None, observation |-> {}]

ResolveItem(variant, listing, catalog, list, registered) ==
    LET found == IF listing = None THEN {} ELSE First(list, listing)
        variants == IF variant = None THEN UNION {ById(catalog.variants, a.variant) : a \in found}
                    ELSE ById(catalog.variants, variant)
        parents == IF variant = None THEN {a.product : a \in found} ELSE {v.product : v \in variants}
        products == UNION {ById(catalog.products, id) : id \in parents}
    IN  IF \/ variants = {} \/ products = {}
           \/ variant # None /\ \E a \in found : a.variant # variant
           \/ \E a \in found : a.observation \notin registered
        THEN Unresolved
        ELSE [status |-> "resolved", product |-> (CHOOSE p \in products : TRUE).id,
              variant |-> (CHOOSE v \in variants : TRUE).id, observation |-> {a.observation : a \in found}]

------------------------------------------------------------------------------
(* Discovery of the listings of a resolved pair.                             *)

Candidate(product, variant, catalog, list, registered) ==
    {a \in Elements(list) :
        /\ a.product = product /\ a.variant = variant
        /\ ById(catalog.products, product) # {} /\ ById(catalog.variants, variant) # {}
        /\ a.observation \in registered}

\* priced: the observations with a typed price in a supported currency.
DiscoverItem(product, variant, catalog, list, registered, priced) ==
    LET candidates == Candidate(product, variant, catalog, list, registered)
    IN  [candidates |-> candidates,
         status |-> IF candidates = {} THEN "no_candidates"
                    ELSE IF \E a \in candidates : a.observation \in priced THEN "candidates_available"
                    ELSE "candidates_not_ready"]

=============================================================================
