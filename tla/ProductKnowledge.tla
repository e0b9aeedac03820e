---------------------------- MODULE ProductKnowledge ----------------------------
(* Product intelligence on its files.  Workers (the API process and worker   *)
(* processes) store what they captured, then take the observations of the    *)
(* batch one after the other: register the observation, resolve its listing, *)
(* store the association, publish the evidence, run the orchestrator.  An    *)
(* operator imports catalog manifests.                                       *)
(* The catalog and the associations are one JSON file each, loaded whole and *)
(* replaced whole with no lock; any process may die between two steps.       *)
(*                                                                           *)
(* The runtime gives every execution an orchestrator of its own.  An         *)
(* embedding program (the demo script, the orchestrator's tests) keeps one   *)
(* and sends it resolutions of reviews: the deployment "embedded".           *)
EXTENDS ProductOrchestrator, ListingServices

CONSTANTS
    Worker,         \* processes that ingest
    Operator,       \* the process that imports manifests
    Batch,          \* [Worker -> Seq(Observation)]: what a worker is to process
    Manifest,       \* what the operator may import: products, variants and
                    \* associations, three sequences in the order of the import
    Curated,        \* the snapshot an embedding program works on
    Hooks,          \* the governance its hooks may answer
    MaxImports,     \* bound: manifests imported
    MaxExecutions   \* bound: executions of an embedded orchestrator

Process == Worker \union {Operator}
ItemsOf(w) == {Batch[w][i] : i \in DOMAIN Batch[w]}
Observations == UNION {ItemsOf(w) : w \in Worker}
ObservationId == {o.id : o \in Observations}
Artifact == {o.artifact : o \in Observations}

\* Ids are digests of the contents; every attempt captures an artifact of its own.
ASSUME KnowledgeAssumption ==
    /\ Operator \notin Worker
    /\ \A w \in Worker : Batch[w] # <<>>
    /\ \A v, w \in Worker : \A o \in ItemsOf(v), p \in ItemsOf(w) :
          /\ o.id = p.id => o = p
          /\ o.artifact = p.artifact <=> v = w
    /\ MaxImports \in Nat /\ MaxExecutions \in Nat

ASSUME InputAssumption ==
    /\ Batch \in [Worker -> Seq(Observation)]
    /\ Manifest \subseteq [products : Seq(Product), variants : Seq(Variant), associations : Seq(ListingAssociation)]
    /\ Curated \in Snapshot

\* A listing's id is not the mark of an absent one, and a snapshot names no
\* variant twice.
ASSUME NamesAssumption ==
    /\ \A o \in Observations : o.listing # None
    /\ \A v, w \in Curated.variants : v.id = w.id => v = w

ASSUME FiniteAssumption ==
    /\ IsFiniteSet(Curated.products)
    /\ \A p \in Curated.products :
          \A texts \in {p.brand, p.family, p.categories, p.attributes} : IsFiniteSet(texts)

VARIABLES
    deployment,     \* "runtime" or "embedded"
    catalog,        \* catalog.json
    associations,   \* listing_associations.json: the list of associations, or torn
    temporary,      \* listing_associations.json.tmp: what it holds, one or none
    artifacts,      \* [Artifact -> the state of its payload.bin and reference.json]
    registered,     \* the files of the observations: the ids registered
    evidence,       \* [Artifact -> the state of its record.json and bundle.json]
    pc,             \* [Process -> the next step]
    index,          \* [Worker -> which of its batch it is at]
    retailerOnly,   \* [Worker -> its job only acquires retailer data]
    target,         \* [Process -> the association being stored, one or none]
    loaded,         \* [Process -> the list about to be written]
    plan,           \* what is left of the import
    result,         \* [ObservationId -> the status reported for it]
    managers,       \* review queue and assertions of an embedded orchestrator
    done            \* bound: imports begun, or executions made

files == <<catalog, associations, temporary, artifacts, registered, evidence>>
worker == <<index, target, loaded, result>>
vars == <<deployment, files, worker, pc, retailerOnly, plan, managers, done>>

------------------------------------------------------------------------------
(* Stored associations.                                                      *)

\* A file: its associations, unless it was left half-written.
Whole(list) == [whole |-> TRUE, holds |-> list]
Torn == [whole |-> FALSE, holds |-> <<>>]
AssociationFile == [whole : BOOLEAN, holds : Seq(ListingAssociation)]
StoredSet == Elements(associations.holds)

------------------------------------------------------------------------------
(* The runtime's observations and manifests.                                 *)

ArtifactState == {"absent", "payload", "stored"}
EvidenceState == {"absent", "record", "torn", "whole"}
Status == {"none", "resolved", "observation_registration_failed", "association_unresolved",
           "association_persistence_failed", "evidence_publication_failed", "catalog_snapshot_failed",
           "orchestrator_failed"}
Step == {"payload", "reference", "register", "resolve", "load", "write", "replace", "check", "record", "bundle", "run",
         "idle", "import", "dead"}

Current(w) == Batch[w][index[w]]
TargetOf(p) == CHOOSE a \in target[p] : TRUE

Goto(p, step) == pc' = [pc EXCEPT ![p] = step]
\* Mutant: the next observation is passed over.
Settle_SkipsOne(w, status) ==
    /\ result' = [result EXCEPT ![Current(w).id] = status]
    /\ index' = [index EXCEPT ![w] = @ + 2]
    /\ target' = [target EXCEPT ![w] = {}]
    /\ loaded' = [loaded EXCEPT ![w] = <<>>]
    /\ Goto(w, "register")
\* The observation is settled; the worker goes on with the next one.
Settle(w, status) ==
    /\ result' = [result EXCEPT ![Current(w).id] = status]
    /\ index' = [index EXCEPT ![w] = @ + 1]
    /\ target' = [target EXCEPT ![w] = {}]
    /\ loaded' = [loaded EXCEPT ![w] = <<>>]
    /\ Goto(w, "register")

\* Both files of an artifact are written under temporary names and moved, the
\* payload first; an attempt is executed once, and so finds neither of them.
StorePayload(w) ==
    /\ pc[w] = "payload"
    /\ artifacts' = [artifacts EXCEPT ![Current(w).artifact] = "payload"]
    /\ Goto(w, "reference")
    /\ UNCHANGED <<deployment, catalog, associations, temporary, registered, evidence, worker, retailerOnly, plan, managers, done>>

StoreReference(w) ==
    /\ pc[w] = "reference"
    /\ artifacts' = [artifacts EXCEPT ![Current(w).artifact] = "stored"]
    /\ Goto(w, "register")
    /\ UNCHANGED <<deployment, catalog, associations, temporary, registered, evidence, worker, retailerOnly, plan, managers, done>>

\* The registry writes one file per id, so that a second registration finds the
\* same contents and writes nothing.
Recorded(o) == registered \union {o.id}

Register(w) ==
    /\ pc[w] = "register" /\ index[w] \in DOMAIN Batch[w]
    /\ registered' = Recorded(Current(w))
    /\ IF retailerOnly[w] THEN Settle(w, "association_unresolved")
       ELSE Goto(w, "resolve") /\ UNCHANGED worker
    /\ UNCHANGED <<deployment, catalog, associations, temporary, artifacts, evidence, retailerOnly, plan, managers, done>>

\* A write of the registry fails; the batch goes on.
RegisterFails(w) ==
    /\ pc[w] = "register" /\ index[w] \in DOMAIN Batch[w]
    /\ Settle(w, "observation_registration_failed")
    /\ UNCHANGED <<deployment, files, retailerOnly, plan, managers, done>>

ResolveListing(w) ==
    /\ pc[w] = "resolve"
    /\ \E r \in {Resolution(Current(w), catalog)} :
          IF r.status = "mapped"
          THEN /\ target' = [target EXCEPT ![w] = {Association(Current(w), r.product, r.variant)}]
               /\ Goto(w, "load")
               /\ UNCHANGED <<index, loaded, result>>
          ELSE Settle(w, "association_unresolved")
    /\ UNCHANGED <<deployment, files, retailerOnly, plan, managers, done>>

------------------------------------------------------------------------------
(* Registering an association, of workers and operator alike: load the file, *)
(* write the temporary one, replace.                                         *)

Refuse(p) ==
    IF p \in Worker THEN Settle(p, "association_persistence_failed") /\ UNCHANGED plan
    ELSE /\ plan' = <<>> /\ Goto(p, "idle")
         /\ target' = [target EXCEPT ![p] = {}] /\ loaded' = [loaded EXCEPT ![p] = <<>>]
         /\ UNCHANGED <<index, result>>

Stored(p) ==
    /\ loaded' = [loaded EXCEPT ![p] = <<>>]
    /\ IF p \in Worker THEN Goto(p, "check") /\ UNCHANGED <<target, plan>>
       ELSE Goto(p, "import") /\ plan' = Tail(plan) /\ target' = [target EXCEPT ![p] = {}]
    /\ UNCHANGED <<index, result>>

Load(p) ==
    /\ pc[p] = "load"
    /\ IF ~associations.whole \/ ~Consistent(StoredSet \union target[p]) THEN Refuse(p)
       ELSE IF target[p] \subseteq StoredSet THEN Stored(p)
       ELSE /\ loaded' = [loaded EXCEPT ![p] = Append(associations.holds, TargetOf(p))]
            /\ Goto(p, "write")
            /\ UNCHANGED <<index, target, result, plan>>
    /\ UNCHANGED <<deployment, files, retailerOnly, managers, done>>

Write(p) ==
    /\ pc[p] = "write"
    /\ temporary' = {Whole(loaded[p])}
    /\ Goto(p, "replace")
    /\ UNCHANGED <<deployment, catalog, associations, artifacts, registered, evidence, worker, retailerOnly, plan, managers, done>>

\* Another process may have moved the temporary file meanwhile, or put its own
\* contents in its place.
Replace(p) ==
    /\ pc[p] = "replace"
    /\ IF temporary = {} THEN Refuse(p) /\ UNCHANGED <<associations, temporary>>
       ELSE /\ associations' = CHOOSE f \in temporary : TRUE
            /\ temporary' = {}
            /\ Stored(p)
    /\ UNCHANGED <<deployment, catalog, artifacts, registered, evidence, retailerOnly, managers, done>>

------------------------------------------------------------------------------
(* The execution of a resolved observation.                                  *)

Check(w) ==
    /\ pc[w] = "check"
    /\ IF associations.whole /\ target[w] \subseteq StoredSet /\ Consistent(StoredSet)
       THEN Goto(w, "record") /\ UNCHANGED worker
       ELSE Settle(w, "association_unresolved")
    /\ UNCHANGED <<deployment, files, retailerOnly, plan, managers, done>>

\* Mutant: a record that exists is taken for a whole one.
Record_Trusting(w) ==
    LET a == Current(w).artifact
    IN  /\ pc[w] = "record"
        /\ evidence' = IF evidence[a] = "absent" THEN [evidence EXCEPT ![a] = "record"] ELSE evidence
        /\ Goto(w, IF evidence[a] \in {"whole", "torn"} THEN "run" ELSE "bundle")
        /\ UNCHANGED <<deployment, catalog, associations, temporary, artifacts, registered, worker, retailerOnly, plan, managers, done>>
\* The record is written once, for all observations of the artifact.
Record(w) ==
    LET a == Current(w).artifact
    IN  /\ pc[w] = "record"
        /\ evidence' = IF evidence[a] = "absent" THEN [evidence EXCEPT ![a] = "record"] ELSE evidence
        /\ IF evidence[a] = "torn" THEN Settle(w, "evidence_publication_failed")
           ELSE Goto(w, IF evidence[a] = "whole" THEN "run" ELSE "bundle") /\ UNCHANGED worker
        /\ UNCHANGED <<deployment, catalog, associations, temporary, artifacts, registered, retailerOnly, plan, managers, done>>

Bundle(w) ==
    /\ pc[w] = "bundle"
    /\ evidence' = [evidence EXCEPT ![Current(w).artifact] = "whole"]
    /\ Goto(w, "run")
    /\ UNCHANGED <<deployment, catalog, associations, temporary, artifacts, registered, worker, retailerOnly, plan, managers, done>>

\* The files of an artifact after a write that was cut short.
CutShort(w) ==
    LET a == Current(w).artifact
    IN  IF pc[w] = "bundle" \/ (pc[w] = "record" /\ evidence[a] = "absent")
        THEN {evidence, [evidence EXCEPT ![a] = "torn"]}
        ELSE {evidence}

\* A write of evidence fails; the batch goes on.
PublishFails(w) ==
    /\ pc[w] \in {"record", "bundle"}
    /\ evidence' \in CutShort(w)
    /\ Settle(w, "evidence_publication_failed")
    /\ UNCHANGED <<deployment, catalog, associations, temporary, artifacts, registered, retailerOnly, plan, managers, done>>

\* The snapshot must have the product and the variant of the association; the
\* orchestrator is a new one with default hooks.
Executed(o, a) ==
    IF ~\E v \in catalog.variants : v.id = a.variant /\ v.product = a.product
          /\ \E p \in catalog.products : p.id = a.product
    THEN "catalog_snapshot_failed"
    ELSE IF Execute(NoManagers, o, catalog, DefaultGovernance, None).outcome = "raised"
    THEN "orchestrator_failed"
    ELSE "resolved"

Run(w) ==
    /\ pc[w] = "run"
    /\ Settle(w, Executed(Current(w), TargetOf(w)))
    /\ UNCHANGED <<deployment, files, retailerOnly, plan, managers, done>>

------------------------------------------------------------------------------
(* The operator's imports.  There is one operator, so loading and replacing  *)
(* the catalog is one step.                                                  *)

\* Every association must be of a registered observation and of a pair that the
\* manifest or the catalog has; every variant must have its product.
Valid(m) ==
    LET overlay(stored, new) == new \union {x \in stored : ById(new, x.id) = {}}
        newProducts == {m.products[i] : i \in DOMAIN m.products}
        newVariants == {m.variants[i] : i \in DOMAIN m.variants}
        products == overlay(catalog.products, newProducts)
        variants == overlay(catalog.variants, newVariants)
    IN  /\ \A x \in newProducts \union newVariants : x.fit
        /\ \A v \in newVariants : ById(products, v.product) # {}
        /\ \A i \in DOMAIN m.associations :
              LET a == m.associations[i]
              IN  /\ \E o \in Observations : o.id = a.observation /\ o.id \in registered /\ o.listing = a.listing
                  /\ ById(products, a.product) # {}
                  /\ ById(variants, a.variant) # {}
                  /\ \A v \in ById(variants, a.variant) : v.product = a.product

\* What is left to import: products, variants and associations.
Entry == [kind : {"product"}, item : Product] \union [kind : {"variant"}, item : Variant]
         \union [kind : {"association"}, item : ListingAssociation]
Item(kind, x) == [kind |-> kind, item |-> x]
Items(kind, s) == [i \in DOMAIN s |-> Item(kind, s[i])]

\* Mutant: associations first.
OrderOfImport_AssociationsFirst(m) ==
    Items("association", m.associations) \o Items("product", m.products) \o Items("variant", m.variants)
OrderOfImport(m) ==
    Items("product", m.products) \o Items("variant", m.variants) \o Items("association", m.associations)

Import ==
    /\ deployment = "runtime" /\ pc[Operator] = "idle" /\ done < MaxImports
    /\ \E m \in Manifest :
          /\ Valid(m)
          /\ plan' = OrderOfImport(m)
    /\ done' = done + 1
    /\ Goto(Operator, "import")
    /\ UNCHANGED <<deployment, files, worker, retailerOnly, managers>>

\* register_product, register_variant: what is there already must be the same.
Added(kind, x) ==
    LET stored == IF kind = "product" THEN catalog.products ELSE catalog.variants
        same == ById(stored, x.id)
        parent == kind = "variant" => ById(catalog.products, x.product) # {}
    IN  IF ~parent \/ ~same \subseteq {x} THEN {}
        ELSE IF kind = "product" THEN {[catalog EXCEPT !.products = @ \union {x}]}
        ELSE {[catalog EXCEPT !.variants = @ \union {x}]}

ImportEntity ==
    /\ pc[Operator] = "import" /\ plan # <<>> /\ Head(plan).kind # "association"
    /\ \E added \in {Added(Head(plan).kind, Head(plan).item)} :
          IF added = {} THEN plan' = <<>> /\ UNCHANGED catalog
          ELSE plan' = Tail(plan) /\ catalog' \in added
    /\ UNCHANGED <<deployment, associations, temporary, artifacts, registered, evidence, worker, pc, retailerOnly, managers, done>>

ImportAssociation ==
    /\ pc[Operator] = "import" /\ plan # <<>> /\ Head(plan).kind = "association"
    /\ target' = [target EXCEPT ![Operator] = {Head(plan).item}]
    /\ Goto(Operator, "load")
    /\ UNCHANGED <<deployment, files, index, loaded, result, retailerOnly, plan, managers, done>>

ImportEnds ==
    /\ pc[Operator] = "import" /\ plan = <<>>
    /\ Goto(Operator, "idle")
    /\ UNCHANGED <<deployment, files, worker, retailerOnly, plan, managers, done>>

------------------------------------------------------------------------------
(* A process dies.  What it was writing may be half there; a worker's batch  *)
(* is lost, and an operator may import again.                                *)

Crash(p) ==
    /\ pc[p] \notin {"idle", "dead"}
    /\ p \in Worker => index[p] \in DOMAIN Batch[p]
    /\ temporary' \in IF pc[p] = "write" THEN {temporary, {Torn}} ELSE {temporary}
    /\ evidence' \in IF p \in Worker THEN CutShort(p) ELSE {evidence}
    /\ Goto(p, IF p \in Worker THEN "dead" ELSE "idle")
    /\ plan' = IF p \in Worker THEN plan ELSE <<>>
    /\ target' = [target EXCEPT ![p] = {}]
    /\ loaded' = [loaded EXCEPT ![p] = <<>>]
    /\ UNCHANGED <<deployment, catalog, associations, artifacts, registered, index, retailerOnly, result, managers, done>>

------------------------------------------------------------------------------
(* An embedded orchestrator, with hooks and resolutions of the program's.    *)

Readable(a) == evidence[a] \in {"record", "whole"}

\* Assembling the evidence comes first; a missing bundle is written again.
Submit(o, g, resolution) ==
    /\ deployment = "embedded" /\ done < MaxExecutions
    /\ Readable(o.artifact)
    /\ evidence' = [evidence EXCEPT ![o.artifact] = "whole"]
    /\ \E x \in {Execute(managers, o, Curated, g, resolution)} : managers' = x.managers
    /\ done' = done + 1
    /\ UNCHANGED <<deployment, catalog, associations, temporary, artifacts, registered, worker, pc, retailerOnly, plan>>

------------------------------------------------------------------------------
Empty == [products |-> {}, variants |-> {}]

\* An embedding program starts on evidence as a runtime may have left it.
Init ==
    /\ \/ /\ deployment = "runtime" /\ catalog = Empty /\ registered = {}
          /\ artifacts = [a \in Artifact |-> "absent"]
          /\ evidence = [a \in Artifact |-> "absent"]
          /\ pc = [p \in Process |-> IF p \in Worker THEN "payload" ELSE "idle"]
          /\ retailerOnly \in [Worker -> BOOLEAN]
       \/ /\ deployment = "embedded" /\ catalog = Curated /\ registered = ObservationId
          /\ artifacts = [a \in Artifact |-> "stored"]
          /\ evidence \in [Artifact -> EvidenceState]
          /\ pc = [p \in Process |-> "dead"]
          /\ retailerOnly = [w \in Worker |-> FALSE]
    /\ associations = Whole(<<>>) /\ temporary = {}
    /\ index = [w \in Worker |-> 1]
    /\ target = [p \in Process |-> {}] /\ loaded = [p \in Process |-> <<>>]
    /\ plan = <<>>
    /\ result = [i \in ObservationId |-> "none"]
    /\ managers = NoManagers
    /\ done = 0

Capture(w) == StorePayload(w) \/ StoreReference(w)
Ingest(w) ==
    \/ Register(w) \/ RegisterFails(w) \/ ResolveListing(w)
    \/ Check(w) \/ Record(w) \/ Bundle(w) \/ PublishFails(w) \/ Run(w)
Store(p) == Load(p) \/ Write(p) \/ Replace(p)
Populate == Import \/ ImportEntity \/ ImportAssociation \/ ImportEnds

Next ==
    \/ \E w \in Worker : Capture(w) \/ Ingest(w)
    \/ \E p \in Process : Store(p) \/ Crash(p)
    \/ Populate
    \/ \E o \in Observations, g \in Hooks, resolution \in ReviewStatus \union {None} : Submit(o, g, resolution)

Spec == Init /\ [][Next]_vars

------------------------------------------------------------------------------
(* Properties.                                                               *)

TypeOK ==
    /\ deployment \in {"runtime", "embedded"}
    /\ catalog \in Snapshot
    /\ associations \in AssociationFile /\ temporary \subseteq AssociationFile
    /\ pc \in [Process -> Step]
    /\ artifacts \in [Artifact -> ArtifactState] /\ evidence \in [Artifact -> EvidenceState]
    /\ result \in [ObservationId -> Status]
    /\ registered \subseteq ObservationId
    /\ index \in [Worker -> Nat \ {0}] /\ \A w \in Worker : index[w] <= Len(Batch[w]) + 1
    /\ target \in [Process -> SUBSET ListingAssociation] /\ \A p \in Process : Cardinality(target[p]) <= 1
    /\ loaded \in [Process -> Seq(ListingAssociation)]
    /\ plan \in Seq(Entry)
    /\ Cardinality(temporary) <= 1

\* The observation of an association is registered and of the same listing, its
\* variant and its product are in the catalog.
Placed(a) ==
    /\ \E o \in Observations : o.id = a.observation /\ o.id \in registered /\ o.listing = a.listing
    /\ \E v \in catalog.variants : v.id = a.variant /\ v.product = a.product
    /\ \E p \in catalog.products : p.id = a.product

\* Whatever crashes and lost updates left in the association file, what can be
\* read of it assigns no listing twice, and every entry is of a registered
\* observation, its listing, and a pair the catalog has: products are stored
\* before variants and both before associations.
AssociationsResolve ==
    associations.whole => Consistent(StoredSet) /\ \A a \in StoredSet : Placed(a)

\* Whatever search shows can be put in the cart, by its variant or by its
\* listing alone, as the pair that was shown, and has a candidate for planning:
\* the three services read the files in their own ways, and only cart
\* resolution stops at the first association of a listing.
FoundCanBeCarted ==
    associations.whole =>
        \A a \in SearchItems({p.id : p \in catalog.products}, catalog, associations.holds, registered) :
            LET item(variant) == ResolveItem(variant, a.listing, catalog, associations.holds, registered)
                found == DiscoverItem(a.product, a.variant, catalog, associations.holds, registered, {})
            IN  \A variant \in {None, a.variant} :
                  /\ item(variant).status = "resolved"
                  /\ item(variant).product = a.product /\ item(variant).variant = a.variant
                  /\ a \in found.candidates
                  /\ \E c \in found.candidates : c.listing = a.listing /\ c.observation \in item(variant).observation

\* What an observation was parsed from can be retrieved, and the evidence of one
\* that was reported as resolved can be read in full, though an artifact is two
\* files, evidence is written in place, and writes are cut short.
ResolvedIsRecorded ==
    \A o \in Observations :
        /\ o.id \in registered => artifacts[o.artifact] = "stored"
        /\ result[o.id] = "resolved" => o.id \in registered /\ evidence[o.artifact] = "whole"

\* Every revision of an assertion, the superseded ones too, rests on evidence
\* that can be read, and either cites a review case that is approved, to this
\* day, and has the product among its candidates, or a variant of the product.
\* A revision of a variant is also one of its product.
Justified(r) ==
    /\ r.evidence # {} /\ \A a \in r.evidence : evidence[a] = "whole"
    /\ \A c \in r.decisions.cases :
          /\ c \in DOMAIN managers.reviews /\ managers.reviews[c] = "approved"
          /\ r.decisions.product \in c.products
    /\ r.decisions.cases = {} =>
          \E v \in catalog.variants : v.id = r.decisions.variant /\ v.product = r.decisions.product

AssertionsAreJustified ==
    /\ \A id \in DOMAIN managers.products : \A i \in DOMAIN managers.products[id] :
          Justified(managers.products[id][i])
    /\ \A v \in catalog.variants : v.id \in DOMAIN managers.variants =>
          /\ v.product \in DOMAIN managers.products
          /\ \A i \in DOMAIN managers.variants[v.id] :
                \E j \in DOMAIN managers.products[v.product] : managers.products[v.product][j] = managers.variants[v.id][i]

=============================================================================
