------------------------ MODULE ProductKnowledgeProofs ------------------------
(***************************************************************************)
(* Proofs about ProductKnowledge, for any workers, batches, manifests and  *)
(* bounds: type correctness; what the association file holds resolves,     *)
(* whoever overwrites and tears it; what is reported as resolved can be    *)
(* read.                                                                   *)
(***************************************************************************)
EXTENDS ProductKnowledge, SequenceTheorems, FiniteSetTheorems, WellFoundedInduction, TLAPS

------------------------------------------------------------------------------
(* Types.                                                                    *)

\* A worker is at an observation of its batch unless it has just settled one.
AtItem == \A w \in Worker : pc[w] \notin {"register", "dead"} => index[w] \in DOMAIN Batch[w]

\* What is about to be stored is an association, an operator's the next of its import.
AtAssociation ==
    /\ \A p \in Process : pc[p] = "load" => target[p] # {}
    /\ pc[Operator] \in {"load", "write", "replace"} => plan # <<>> /\ Head(plan).kind = "association"

Typed == TypeOK /\ AtItem /\ AtAssociation

LEMMA BatchTyped ==
  ASSUME NEW w \in Worker
  PROVE  /\ Batch[w] \in Seq(Observation)
         /\ Len(Batch[w]) \in Nat /\ DOMAIN Batch[w] = 1..Len(Batch[w])
<1>1. Batch[w] \in Seq(Observation)
  BY InputAssumption
<1> QED BY <1>1, LenProperties

LEMMA CurrentTyped ==
  ASSUME NEW w \in Worker, index[w] \in DOMAIN Batch[w]
  PROVE  /\ Current(w) \in Observation
         /\ Current(w).id \in ObservationId
         /\ Current(w).artifact \in Artifact
<1>1. Current(w) \in Observation
  BY BatchTyped, ElementOfSeq DEF Current
<1>2. Current(w) \in Observations
  BY DEF Current, ItemsOf, Observations
<1> QED BY <1>1, <1>2 DEF ObservationId, Artifact

\* A resolution that is mapped is of a pair the catalog has.
LEMMA MappedIsThere ==
  ASSUME NEW o, NEW c \in Snapshot, Resolution(o, c).status = "mapped"
  PROVE  LET r == Resolution(o, c) IN
         /\ r.product \in STRING /\ r.variant \in STRING
         /\ \E v \in c.variants : v.id = r.variant /\ v.product = r.product
         /\ \E p \in c.products : p.id = r.product
<1> DEFINE products == {p \in c.products : p.fit /\ ProductKey(p) = ObservedProductKey(o)}
           p == CHOOSE p \in products : TRUE
           found == {v \in c.variants : v.fit /\ v.pack["content"] # None
                                           /\ VariantKey(v) = ObservedVariantKey(o, p)}
           v == CHOOSE v \in found : TRUE
<1>1. /\ products # {} /\ found # {} /\ \A x \in found : x.product = p.id
      /\ Resolution(o, c) = [status |-> "mapped", product |-> p.id, variant |-> v.id]
  BY Zenon DEF Resolution
<1>2. p \in products /\ v \in found
  BY <1>1
<1>3. p \in Product /\ v \in Variant
  BY <1>2 DEF Snapshot
<1> HIDE DEF p, v, found, products
<1>4. p \in c.products /\ v \in c.variants /\ v.product = p.id
  BY <1>1, <1>2 DEF products, found
<1> QED BY <1>1, <1>3, <1>4 DEF Product, Variant

LEMMA AtMostOne ==
  /\ Cardinality({}) <= 1
  /\ \A x : Cardinality({x}) <= 1
BY FS_EmptySet, FS_Singleton

\* What the steps make of what a worker is at.
WorkersTyped ==
    /\ pc \in [Process -> Step]
    /\ index \in [Worker -> Nat \ {0}] /\ \A w \in Worker : index[w] <= Len(Batch[w]) + 1
    /\ target \in [Process -> SUBSET ListingAssociation] /\ \A p \in Process : Cardinality(target[p]) <= 1
    /\ loaded \in [Process -> Seq(ListingAssociation)]
    /\ result \in [ObservationId -> Status]
    /\ AtItem
    /\ \A p \in Process : pc[p] = "load" => target[p] # {}

FilesTyped ==
    /\ catalog \in Snapshot
    /\ associations \in AssociationFile
    /\ temporary \subseteq AssociationFile /\ Cardinality(temporary) <= 1
    /\ artifacts \in [Artifact -> ArtifactState] /\ evidence \in [Artifact -> EvidenceState]
    /\ registered \subseteq ObservationId

PlanTyped ==
    /\ plan \in Seq(Entry)
    /\ pc[Operator] \in {"load", "write", "replace"} => plan # <<>> /\ Head(plan).kind = "association"

LEMMA TypedParts ==
  /\ Typed <=> deployment \in {"runtime", "embedded"} /\ WorkersTyped /\ FilesTyped /\ PlanTyped
  /\ Typed' <=> deployment' \in {"runtime", "embedded"} /\ WorkersTyped' /\ FilesTyped' /\ PlanTyped'
BY DEF Typed, TypeOK, AtAssociation, WorkersTyped, FilesTyped, PlanTyped

LEMMA GotoTyped ==
  ASSUME WorkersTyped, NEW p \in Process, NEW s \in Step, Goto(p, s),
         UNCHANGED <<index, target, loaded, result>>,
         p \in Worker /\ s \notin {"register", "dead"} => index[p] \in DOMAIN Batch[p],
         s = "load" => target[p] # {}
  PROVE  WorkersTyped' /\ (p \in Worker => pc'[Operator] = pc[Operator])
BY KnowledgeAssumption DEF WorkersTyped, Goto, AtItem, Process

LEMMA SettleTyped ==
  ASSUME WorkersTyped, NEW w \in Worker, index[w] \in DOMAIN Batch[w], NEW s \in Status, Settle(w, s)
  PROVE  WorkersTyped' /\ pc'[Operator] = pc[Operator]
<1>1. pc' = [pc EXCEPT ![w] = "register"] /\ "register" \in Step /\ w \in Process
  BY DEF Settle, Goto, Step, Process
<1>2. index' = [index EXCEPT ![w] = @ + 1] /\ index[w] <= Len(Batch[w]) /\ index[w] + 1 \in Nat \ {0}
      /\ index[w] + 1 <= Len(Batch[w]) + 1
  BY BatchTyped DEF WorkersTyped, Settle
<1>3. /\ index' \in [Worker -> Nat \ {0}]
      /\ \A v \in Worker : index'[v] <= Len(Batch[v]) + 1
  BY <1>2 DEF WorkersTyped
<1>4. /\ target' \in [Process -> SUBSET ListingAssociation]
      /\ \A p \in Process : Cardinality(target'[p]) <= 1
  BY <1>1, AtMostOne DEF WorkersTyped, Settle
<1>5. loaded' \in [Process -> Seq(ListingAssociation)]
  BY <1>1, EmptySeq DEF WorkersTyped, Settle
<1>6. result' \in [ObservationId -> Status]
  BY DEF WorkersTyped, Settle
<1>7. AtItem'
  BY <1>1, <1>2, <1>3 DEF WorkersTyped, AtItem
<1>8. \A p \in Process : pc'[p] = "load" => target'[p] # {}
  BY <1>1 DEF WorkersTyped, Settle
<1>9. pc' \in [Process -> Step] /\ pc'[Operator] = pc[Operator]
  BY <1>1, KnowledgeAssumption DEF WorkersTyped, Process
<1> QED BY <1>3, <1>4, <1>5, <1>6, <1>7, <1>8, <1>9 DEF WorkersTyped

LEMMA RefuseTyped ==
  ASSUME Typed, NEW p \in Process, pc[p] \in {"load", "replace"}, Refuse(p)
  PROVE  WorkersTyped' /\ PlanTyped'
<1>0. WorkersTyped /\ PlanTyped
  BY TypedParts
<1>1. CASE p \in Worker
  <2>1. index[p] \in DOMAIN Batch[p]
    BY <1>1 DEF Typed, AtItem
  <2>2. Settle(p, "association_persistence_failed") /\ plan' = plan /\ "association_persistence_failed" \in Status
    BY <1>1 DEF Refuse, Status
  <2>3. WorkersTyped' /\ pc'[Operator] = pc[Operator]
    BY <1>0, <1>1, <2>1, <2>2, SettleTyped
  <2> QED BY <1>0, <2>2, <2>3 DEF PlanTyped
<1>2. CASE p \notin Worker
  <2>1. p = Operator /\ p \in Process
    BY <1>2 DEF Process
  <2>2. pc' = [pc EXCEPT ![p] = "idle"] /\ plan' = <<>> /\ index' = index /\ result' = result
        /\ target' = [target EXCEPT ![p] = {}] /\ loaded' = [loaded EXCEPT ![p] = <<>>] /\ "idle" \in Step
    BY <1>2 DEF Refuse, Goto, Step
  <2>3. PlanTyped'
    BY <1>0, <2>1, <2>2, EmptySeq DEF PlanTyped, WorkersTyped
  <2>4. AtItem'
    BY <1>0, <2>1, <2>2, KnowledgeAssumption DEF WorkersTyped, AtItem, Process
  <2> QED BY <1>0, <2>2, <2>3, <2>4, AtMostOne, EmptySeq DEF WorkersTyped
<1> QED BY <1>1, <1>2

LEMMA StoredTyped ==
  ASSUME Typed, NEW p \in Process, pc[p] \in {"load", "replace"}, Stored(p)
  PROVE  WorkersTyped' /\ PlanTyped'
<1>0. WorkersTyped /\ PlanTyped
  BY TypedParts
<1>1. loaded' = [loaded EXCEPT ![p] = <<>>] /\ loaded' \in [Process -> Seq(ListingAssociation)]
      /\ index' = index /\ result' = result
  BY <1>0, EmptySeq DEF Stored, WorkersTyped
<1>2. CASE p \in Worker
  <2>1. pc' = [pc EXCEPT ![p] = "check"] /\ "check" \in Step /\ target' = target /\ plan' = plan
    BY <1>2 DEF Stored, Goto, Step
  <2>2. AtItem' /\ pc'[Operator] = pc[Operator]
    BY <1>0, <1>1, <1>2, <2>1, KnowledgeAssumption DEF WorkersTyped, AtItem, Process
  <2> QED BY <1>0, <1>1, <2>1, <2>2 DEF WorkersTyped, PlanTyped
<1>3. CASE p \notin Worker
  <2>1. p = Operator
    BY <1>3 DEF Process
  <2>2. pc' = [pc EXCEPT ![p] = "import"] /\ "import" \in Step /\ target' = [target EXCEPT ![p] = {}] /\ plan' = Tail(plan)
    BY <1>3 DEF Stored, Goto, Step
  <2>3. AtItem'
    BY <1>0, <1>1, <2>1, <2>2, KnowledgeAssumption DEF WorkersTyped, AtItem, Process
  <2>4. plan \in Seq(Entry) /\ plan # <<>>
    BY <1>0, <2>1 DEF PlanTyped
  <2>5. PlanTyped'
    BY <1>0, <2>1, <2>2, <2>4, HeadTailProperties DEF PlanTyped, WorkersTyped
  <2> QED BY <1>0, <1>1, <2>2, <2>3, <2>5, AtMostOne DEF WorkersTyped
<1> QED BY <1>2, <1>3

LEMMA TargetTyped ==
  ASSUME Typed, NEW p \in Process, target[p] # {}
  PROVE  TargetOf(p) \in target[p] /\ TargetOf(p) \in ListingAssociation
BY DEF Typed, TypeOK, TargetOf

LEMMA ThreeParts ==
  ASSUME NEW S, NEW P \in Seq(S), NEW V \in Seq(S), NEW A \in Seq(S)
  PROVE  LET O == (P \o V) \o A IN
         /\ O \in Seq(S)
         /\ Len(P) \in Nat /\ Len(V) \in Nat /\ Len(A) \in Nat
         /\ DOMAIN O = 1..Len(P) + Len(V) + Len(A)
         /\ \A k \in 1..Len(P) : O[k] = P[k]
         /\ \A k \in 1..Len(V) : O[Len(P) + k] = V[k]
         /\ \A k \in 1..Len(A) : O[Len(P) + Len(V) + k] = A[k]
<1> DEFINE p == Len(P)
           v == Len(V)
           a == Len(A)
           Q == P \o V
<1>1. p \in Nat /\ v \in Nat /\ a \in Nat
  BY LenProperties
<1>2. Q \in Seq(S) /\ Len(Q) = p + v /\ \A i \in 1..p + v : Q[i] = IF i <= p THEN P[i] ELSE V[i - p]
  BY ConcatProperties
<1> HIDE DEF Q
<1> DEFINE O == Q \o A
<1>3. O \in Seq(S) /\ Len(O) = Len(Q) + a /\ \A i \in 1..Len(Q) + a : O[i] = IF i <= Len(Q) THEN Q[i] ELSE A[i - Len(Q)]
  <2>1. Q \in Seq(S)
    BY <1>2
  <2> QED BY ONLY <2>1, A \in Seq(S), ConcatProperties
<1>4. DOMAIN O = 1..p + v + a
  BY <1>2, <1>3, LenProperties
<1> HIDE DEF O, p, v, a
<1>5. ASSUME NEW k \in 1..p PROVE O[k] = P[k]
  BY <1>1, <1>2, <1>3
<1>6. ASSUME NEW k \in 1..v PROVE O[p + k] = V[k]
  <2>1. p + k \in 1..p + v + a /\ p + k <= p + v /\ p + k \in 1..p + v /\ ~(p + k <= p) /\ (p + k) - p = k
    BY <1>1
  <2> QED BY <1>2, <1>3, <2>1
<1>7. ASSUME NEW k \in 1..a PROVE O[p + v + k] = A[k]
  <2>1. p + v + k \in 1..p + v + a /\ ~(p + v + k <= p + v) /\ (p + v + k) - (p + v) = k
    BY <1>1
  <2> QED BY <1>2, <1>3, <2>1
<1> QED BY <1>1, <1>3, <1>4, <1>5, <1>6, <1>7 DEF O, Q, p, v, a

LEMMA ItemsTyped ==
  ASSUME NEW kind, NEW S, NEW s \in Seq(S), \A x \in S : Item(kind, x) \in Entry
  PROVE  Items(kind, s) \in Seq(Entry) /\ Len(Items(kind, s)) = Len(s)
         /\ \A i \in 1..Len(s) : Items(kind, s)[i] = Item(kind, s[i])
<1>1. Len(s) \in Nat /\ DOMAIN s = 1..Len(s) /\ \A i \in 1..Len(s) : s[i] \in S
  BY LenProperties, ElementOfSeq
<1>2. Items(kind, s) = [i \in 1..Len(s) |-> Item(kind, s[i])]
  BY <1>1 DEF Items
<1> QED BY <1>1, <1>2

\* What is left to import, once the manifest is valid: before an association
\* come all products and variants of the manifest.
Preceding(m, O, i) ==
    /\ \E k \in DOMAIN m.associations : O[i].item = m.associations[k]
    /\ \A k \in DOMAIN m.products : \E j \in 1..i - 1 : O[j] = Item("product", m.products[k])
    /\ \A k \in DOMAIN m.variants : \E j \in 1..i - 1 : O[j] = Item("variant", m.variants[k])

LEMMA ImportTyped ==
  ASSUME NEW m \in Manifest
  PROVE  /\ OrderOfImport(m) \in Seq(Entry)
         /\ \A i \in DOMAIN OrderOfImport(m) :
               OrderOfImport(m)[i].kind = "association" => Preceding(m, OrderOfImport(m), i)
<1> DEFINE P == Items("product", m.products)
           V == Items("variant", m.variants)
           A == Items("association", m.associations)
           O == (P \o V) \o A
           p == Len(m.products)
           v == Len(m.variants)
           a == Len(m.associations)
<1>1. m.products \in Seq(Product) /\ m.variants \in Seq(Variant) /\ m.associations \in Seq(ListingAssociation)
  BY InputAssumption
<1>2. DOMAIN m.products = 1..p /\ DOMAIN m.variants = 1..v /\ DOMAIN m.associations = 1..a
  BY <1>1, LenProperties
<1>3. P \in Seq(Entry) /\ Len(P) = p /\ \A i \in 1..p : P[i] = Item("product", m.products[i])
  <2>1. \A x \in Product : Item("product", x) \in Entry
    BY DEF Item, Entry
  <2> QED BY <1>1, <2>1, ItemsTyped
<1>4. V \in Seq(Entry) /\ Len(V) = v /\ \A i \in 1..v : V[i] = Item("variant", m.variants[i])
  <2>1. \A x \in Variant : Item("variant", x) \in Entry
    BY DEF Item, Entry
  <2> QED BY <1>1, <2>1, ItemsTyped
<1>5. A \in Seq(Entry) /\ Len(A) = a /\ \A i \in 1..a : A[i] = Item("association", m.associations[i])
  <2>1. \A x \in ListingAssociation : Item("association", x) \in Entry
    BY DEF Item, Entry
  <2> QED BY <1>1, <2>1, ItemsTyped
<1> HIDE DEF P, V, A
<1>6. /\ O \in Seq(Entry)
      /\ p \in Nat /\ v \in Nat /\ a \in Nat
      /\ DOMAIN O = 1..p + v + a
      /\ \A k \in 1..p : O[k] = P[k]
      /\ \A k \in 1..v : O[p + k] = V[k]
      /\ \A k \in 1..a : O[p + v + k] = A[k]
  <2>1. P \in Seq(Entry) /\ V \in Seq(Entry) /\ A \in Seq(Entry)
    BY <1>3, <1>4, <1>5
  <2>2. /\ O \in Seq(Entry)
        /\ Len(P) \in Nat /\ Len(V) \in Nat /\ Len(A) \in Nat
        /\ DOMAIN O = 1..Len(P) + Len(V) + Len(A)
        /\ \A k \in 1..Len(P) : O[k] = P[k]
        /\ \A k \in 1..Len(V) : O[Len(P) + k] = V[k]
        /\ \A k \in 1..Len(A) : O[Len(P) + Len(V) + k] = A[k]
    BY ONLY <2>1, ThreeParts
  <2> QED BY <1>3, <1>4, <1>5, <2>2
<1>7. OrderOfImport(m) = O
  BY DEF OrderOfImport, P, V, A
<1> HIDE DEF O, p, v, a
<1>8. ASSUME NEW i \in DOMAIN O, O[i].kind = "association"
      PROVE  Preceding(m, O, i)
  <2>1. ~(i <= p)
    <3> SUFFICES ASSUME i <= p PROVE FALSE
      OBVIOUS
    <3>1. i \in 1..p
      BY <1>6
    <3>2. O[i] = Item("product", m.products[i])
      BY <1>3, <1>6, <3>1
    <3> QED BY <1>8, <3>2 DEF Item
  <2>2. ~(i <= p + v)
    <3> SUFFICES ASSUME i <= p + v PROVE FALSE
      OBVIOUS
    <3>1. i - p \in 1..v /\ p + (i - p) = i
      BY <1>6, <2>1
    <3>2. O[i] = Item("variant", m.variants[i - p])
      BY <1>4, <1>6, <3>1
    <3> QED BY <1>8, <3>2 DEF Item
  <2>3. \E k \in DOMAIN m.associations : O[i].item = m.associations[k]
    <3>1. i - (p + v) \in 1..a /\ p + v + (i - (p + v)) = i
      BY <1>6, <2>2
    <3>2. O[i] = Item("association", m.associations[i - (p + v)])
      BY <1>5, <1>6, <3>1
    <3> QED BY <1>2, <3>1, <3>2 DEF Item
  <2>4. ASSUME NEW k \in DOMAIN m.products PROVE \E j \in 1..i - 1 : O[j] = Item("product", m.products[k])
    <3>1. k \in 1..p /\ k \in 1..i - 1
      BY <1>2, <1>6, <2>1
    <3> QED BY <1>3, <1>6, <3>1
  <2>5. ASSUME NEW k \in DOMAIN m.variants PROVE \E j \in 1..i - 1 : O[j] = Item("variant", m.variants[k])
    <3>1. k \in 1..v /\ p + k \in 1..i - 1
      BY <1>2, <1>6, <2>2
    <3> QED BY <1>4, <1>6, <3>1
  <2> QED BY <2>3, <2>4, <2>5 DEF Preceding
<1> QED BY <1>6, <1>7, <1>8

LEMMA CutShortTyped ==
  ASSUME Typed, NEW w \in Worker, index[w] \in DOMAIN Batch[w]
  PROVE  CutShort(w) \subseteq [Artifact -> EvidenceState]
BY CurrentTyped DEF Typed, TypeOK, CutShort, EvidenceState

LEMMA ExecutedTyped ==
  ASSUME NEW o, NEW a
  PROVE  Executed(o, a) \in Status
BY DEF Executed, Status

LEMMA AddedTyped ==
  ASSUME catalog \in Snapshot, NEW e \in Entry, e.kind # "association"
  PROVE  Added(e.kind, e.item) \subseteq Snapshot
<1>1. CASE e.kind = "product"
  <2>1. e.item \in Product
    BY <1>1 DEF Entry
  <2> QED BY <1>1, <2>1 DEF Added, Snapshot
<1>2. CASE e.kind # "product"
  <2>1. e.item \in Variant
    BY <1>2 DEF Entry
  <2> QED BY <1>2, <2>1 DEF Added, Snapshot
<1> QED BY <1>1, <1>2

\* A step of a worker, as its next step and its files tell it.
LEMMA WorkerStepTyped ==
  ASSUME Typed, NEW w \in Worker, index[w] \in DOMAIN Batch[w], UNCHANGED <<deployment, plan>>, FilesTyped',
         \/ \E s \in Step \ {"load"} : Goto(w, s) /\ UNCHANGED worker
         \/ \E s \in Status : Settle(w, s)
  PROVE  Typed'
<1>0. WorkersTyped /\ PlanTyped /\ deployment \in {"runtime", "embedded"} /\ w \in Process
  BY TypedParts DEF Process
<1>1. ASSUME NEW s \in Step \ {"load"}, Goto(w, s), UNCHANGED worker
      PROVE  WorkersTyped' /\ pc'[Operator] = pc[Operator]
  BY <1>0, <1>1, GotoTyped DEF worker
<1>2. ASSUME NEW s \in Status, Settle(w, s)
      PROVE  WorkersTyped' /\ pc'[Operator] = pc[Operator]
  BY <1>0, <1>2, SettleTyped
<1>3. WorkersTyped' /\ pc'[Operator] = pc[Operator]
  BY <1>1, <1>2
<1> QED BY <1>0, <1>3, TypedParts DEF PlanTyped

LEMMA CaptureTyped ==
  ASSUME Typed, NEW w \in Worker, Capture(w)
  PROVE  Typed'
<1>1. FilesTyped /\ index[w] \in DOMAIN Batch[w]
  BY TypedParts DEF Typed, AtItem, Capture, StorePayload, StoreReference
<1>2. CASE StorePayload(w)
  <2>1. FilesTyped' /\ Goto(w, "reference") /\ UNCHANGED <<worker, deployment, plan>> /\ "reference" \in Step \ {"load"}
    BY <1>1, <1>2 DEF StorePayload, FilesTyped, ArtifactState, Step
  <2> QED BY <1>1, <2>1, WorkerStepTyped
<1>3. CASE StoreReference(w)
  <2>1. FilesTyped' /\ Goto(w, "register") /\ UNCHANGED <<worker, deployment, plan>> /\ "register" \in Step \ {"load"}
    BY <1>1, <1>3 DEF StoreReference, FilesTyped, ArtifactState, Step
  <2> QED BY <1>1, <2>1, WorkerStepTyped
<1> QED BY <1>2, <1>3 DEF Capture

LEMMA RegisterTyped ==
  ASSUME Typed, NEW w \in Worker, Register(w) \/ RegisterFails(w)
  PROVE  Typed'
<1>1. index[w] \in DOMAIN Batch[w] /\ FilesTyped /\ UNCHANGED <<deployment, plan>>
  BY TypedParts DEF Register, RegisterFails
<1>2. FilesTyped'
  BY <1>1, CurrentTyped DEF Register, RegisterFails, Recorded, FilesTyped, files
<1>3. \/ \E s \in Status : Settle(w, s)
      \/ Goto(w, "resolve") /\ UNCHANGED worker /\ "resolve" \in Step \ {"load"}
  BY DEF Register, RegisterFails, Status, Step
<1> QED BY <1>1, <1>2, <1>3, WorkerStepTyped

\* The association a listing resolves to is of the observation in hand.
LEMMA ResolvedTyped ==
  ASSUME Typed, NEW w \in Worker, index[w] \in DOMAIN Batch[w], NEW r, r = Resolution(Current(w), catalog),
         r.status = "mapped"
  PROVE  Association(Current(w), r.product, r.variant) \in ListingAssociation
<1>1. Current(w).id \in STRING /\ Current(w).listing \in STRING
  BY CurrentTyped DEF Observation
<1>2. r.product \in STRING /\ r.variant \in STRING
  BY MappedIsThere DEF Typed, TypeOK
<1> QED BY <1>1, <1>2 DEF Association, ListingAssociation

LEMMA ResolveListingTyped ==
  ASSUME Typed, NEW w \in Worker, ResolveListing(w)
  PROVE  Typed'
<1>0. FilesTyped /\ WorkersTyped /\ PlanTyped /\ deployment \in {"runtime", "embedded"} /\ w \in Process
  BY TypedParts DEF Process
<1>1. /\ index[w] \in DOMAIN Batch[w] /\ UNCHANGED <<deployment, plan>> /\ FilesTyped'
  BY <1>0 DEF ResolveListing, files, FilesTyped, Typed, AtItem
<1> DEFINE r == Resolution(Current(w), catalog)
<1>2. CASE r.status = "mapped"
  <2>1. /\ target' = [target EXCEPT ![w] = {Association(Current(w), r.product, r.variant)}]
        /\ pc' = [pc EXCEPT ![w] = "load"] /\ UNCHANGED <<index, loaded, result>>
    BY <1>2 DEF ResolveListing, Goto
  <2>2. Association(Current(w), r.product, r.variant) \in ListingAssociation
    BY <1>1, <1>2, ResolvedTyped
  <2> HIDE DEF r
  <2>3. /\ target' \in [Process -> SUBSET ListingAssociation]
        /\ \A p \in Process : Cardinality(target'[p]) <= 1
    BY <1>0, <2>1, <2>2, AtMostOne DEF WorkersTyped
  <2>4. pc' \in [Process -> Step] /\ pc'[Operator] = pc[Operator]
    BY <1>0, <2>1, KnowledgeAssumption DEF WorkersTyped, Process, Step
  <2>5. AtItem'
    BY <1>0, <1>1, <2>1 DEF WorkersTyped, AtItem
  <2>6. \A p \in Process : pc'[p] = "load" => target'[p] # {}
    BY <1>0, <2>1 DEF WorkersTyped
  <2>7. WorkersTyped'
    BY <1>0, <2>1, <2>3, <2>4, <2>5, <2>6 DEF WorkersTyped
  <2> QED BY <1>0, <1>1, <2>4, <2>7, TypedParts DEF PlanTyped
<1>3. CASE r.status # "mapped"
  <2>1. Settle(w, "association_unresolved") /\ "association_unresolved" \in Status
    BY <1>3 DEF ResolveListing, Status
  <2> QED BY <1>1, <2>1, WorkerStepTyped
<1> QED BY <1>2, <1>3

LEMMA ExecutionTyped ==
  ASSUME Typed, NEW w \in Worker, Check(w) \/ Record(w) \/ Bundle(w) \/ PublishFails(w) \/ Run(w)
  PROVE  Typed'
<1>1. FilesTyped /\ index[w] \in DOMAIN Batch[w]
  BY TypedParts DEF Typed, AtItem, Check, Record, Bundle, PublishFails, Run
<1>2. CASE Check(w)
  <2>1. FilesTyped' /\ UNCHANGED <<deployment, plan>>
    BY <1>1, <1>2 DEF Check, FilesTyped, files
  <2>2. \/ Goto(w, "record") /\ UNCHANGED worker /\ "record" \in Step \ {"load"}
        \/ Settle(w, "association_unresolved") /\ "association_unresolved" \in Status
    BY <1>2 DEF Check, Status, Step
  <2> QED BY <1>1, <2>1, <2>2, WorkerStepTyped
<1>3. CASE Record(w)
  <2>1. FilesTyped' /\ UNCHANGED <<deployment, plan>>
    BY <1>1, <1>3, CurrentTyped DEF Record, FilesTyped, EvidenceState
  <2>2. \/ \E s \in Step \ {"load"} : Goto(w, s) /\ UNCHANGED worker
        \/ Settle(w, "evidence_publication_failed") /\ "evidence_publication_failed" \in Status
    BY <1>3 DEF Record, Status, Step
  <2> QED BY <1>1, <2>1, <2>2, WorkerStepTyped
<1>4. CASE Bundle(w)
  <2>1. FilesTyped' /\ Goto(w, "run") /\ UNCHANGED <<worker, deployment, plan>> /\ "run" \in Step \ {"load"}
    BY <1>1, <1>4, CurrentTyped DEF Bundle, FilesTyped, EvidenceState, Step
  <2> QED BY <1>1, <2>1, WorkerStepTyped
<1>5. CASE PublishFails(w)
  <2>1. evidence' \in [Artifact -> EvidenceState]
    BY <1>1, <1>5, CutShortTyped DEF PublishFails
  <2>2. FilesTyped' /\ UNCHANGED <<deployment, plan>>
    BY <1>1, <1>5, <2>1 DEF PublishFails, FilesTyped
  <2>3. Settle(w, "evidence_publication_failed") /\ "evidence_publication_failed" \in Status
    BY <1>5 DEF PublishFails, Status
  <2> QED BY <1>1, <2>2, <2>3, WorkerStepTyped
<1>6. CASE Run(w)
  <2>1. FilesTyped' /\ UNCHANGED <<deployment, plan>>
    BY <1>1, <1>6 DEF Run, FilesTyped, files
  <2>2. \E s \in Status : Settle(w, s)
    BY <1>6, ExecutedTyped DEF Run
  <2> QED BY <1>1, <2>1, <2>2, WorkerStepTyped
<1> QED BY <1>2, <1>3, <1>4, <1>5, <1>6

LEMMA StoreTyped ==
  ASSUME Typed, NEW p \in Process, Store(p)
  PROVE  Typed'
<1>0. FilesTyped /\ WorkersTyped /\ PlanTyped /\ deployment \in {"runtime", "embedded"}
  BY TypedParts
<1>1. CASE Load(p)
  <2>1. FilesTyped' /\ deployment' = deployment
    BY <1>0, <1>1 DEF Load, FilesTyped, files
  <2>2. CASE Refuse(p)
    BY <1>0, <1>1, <2>1, <2>2, RefuseTyped, TypedParts DEF Load
  <2>3. CASE Stored(p)
    BY <1>0, <1>1, <2>1, <2>3, StoredTyped, TypedParts DEF Load
  <2>4. CASE /\ loaded' = [loaded EXCEPT ![p] = Append(associations.holds, TargetOf(p))]
             /\ Goto(p, "write") /\ UNCHANGED <<index, target, result, plan>>
    <3>1. TargetOf(p) \in ListingAssociation
      BY <1>1, TargetTyped DEF Load, Typed, AtAssociation
    <3>2. associations.holds \in Seq(ListingAssociation)
      BY <1>0 DEF FilesTyped, AssociationFile
    <3>3. Append(associations.holds, TargetOf(p)) \in Seq(ListingAssociation)
      BY <3>1, <3>2, AppendProperties
    <3>4. loaded' \in [Process -> Seq(ListingAssociation)]
      BY <1>0, <2>4, <3>3 DEF WorkersTyped
    <3>5. pc' = [pc EXCEPT ![p] = "write"] /\ "write" \in Step /\ pc[p] = "load"
      BY <1>1, <2>4 DEF Goto, Step, Load
    <3>6. AtItem'
      BY <1>0, <2>4, <3>5 DEF WorkersTyped, AtItem
    <3>7. WorkersTyped'
      BY <1>0, <2>4, <3>4, <3>5, <3>6 DEF WorkersTyped
    <3>8. PlanTyped'
      BY <1>0, <2>4, <3>5 DEF PlanTyped, WorkersTyped
    <3> QED BY <1>0, <2>1, <3>7, <3>8, TypedParts
  <2> QED BY <1>1, <2>2, <2>3, <2>4 DEF Load
<1>2. CASE Write(p)
  <2>1. loaded[p] \in Seq(ListingAssociation)
    BY <1>0 DEF WorkersTyped
  <2>2. FilesTyped' /\ deployment' = deployment /\ plan' = plan /\ UNCHANGED worker
    <3>1. temporary' = {Whole(loaded[p])} /\ Whole(loaded[p]) \in AssociationFile
      BY <1>2, <2>1 DEF Write, Whole, AssociationFile
    <3>2. temporary' \subseteq AssociationFile /\ Cardinality(temporary') <= 1
      BY <3>1, AtMostOne
    <3> QED BY <1>0, <1>2, <3>2 DEF Write, FilesTyped
  <2>3. pc' = [pc EXCEPT ![p] = "replace"] /\ "replace" \in Step /\ pc[p] = "write"
    BY <1>2 DEF Write, Goto, Step
  <2>4. AtItem'
    BY <1>0, <2>2, <2>3 DEF WorkersTyped, AtItem, worker
  <2>5. WorkersTyped'
    BY <1>0, <2>2, <2>3, <2>4 DEF WorkersTyped, worker
  <2>6. PlanTyped'
    BY <1>0, <2>2, <2>3 DEF PlanTyped, WorkersTyped
  <2> QED BY <1>0, <2>2, <2>5, <2>6, TypedParts
<1>3. CASE Replace(p)
  <2>1. FilesTyped' /\ deployment' = deployment
    BY <1>0, <1>3, AtMostOne DEF Replace, FilesTyped
  <2>2. CASE Refuse(p)
    BY <1>0, <1>3, <2>1, <2>2, RefuseTyped, TypedParts DEF Replace
  <2>3. CASE Stored(p)
    BY <1>0, <1>3, <2>1, <2>3, StoredTyped, TypedParts DEF Replace
  <2> QED BY <1>3, <2>2, <2>3 DEF Replace
<1> QED BY <1>1, <1>2, <1>3 DEF Store

LEMMA CrashTyped ==
  ASSUME Typed, NEW p \in Process, Crash(p)
  PROVE  Typed'
<1>0. FilesTyped /\ WorkersTyped /\ PlanTyped /\ deployment \in {"runtime", "embedded"}
  BY TypedParts
<1>1. Torn \in AssociationFile
  BY EmptySeq DEF Torn, AssociationFile
<1>2. temporary' \subseteq AssociationFile /\ Cardinality(temporary') <= 1
  BY <1>0, <1>1, AtMostOne DEF Crash, FilesTyped
<1>3. evidence' \in [Artifact -> EvidenceState]
  BY <1>0, CutShortTyped DEF Crash, FilesTyped
<1>4. FilesTyped' /\ deployment' = deployment
  BY <1>0, <1>2, <1>3 DEF Crash, FilesTyped
<1>5. /\ target' \in [Process -> SUBSET ListingAssociation]
      /\ \A q \in Process : Cardinality(target'[q]) <= 1
      /\ loaded' \in [Process -> Seq(ListingAssociation)]
      /\ index' = index /\ result' = result
  BY <1>0, AtMostOne, EmptySeq DEF WorkersTyped, Crash
<1>6. CASE p \in Worker
  <2>1. pc' = [pc EXCEPT ![p] = "dead"] /\ "dead" \in Step /\ plan' = plan /\ target' = [target EXCEPT ![p] = {}]
    BY <1>6 DEF Crash, Goto, Step
  <2>2. AtItem' /\ pc'[Operator] = pc[Operator]
    BY <1>0, <1>5, <1>6, <2>1, KnowledgeAssumption DEF WorkersTyped, AtItem, Process
  <2>3. WorkersTyped'
    BY <1>0, <1>5, <2>1, <2>2 DEF WorkersTyped
  <2> QED BY <1>0, <1>4, <2>1, <2>2, <2>3, TypedParts DEF PlanTyped
<1>7. CASE p \notin Worker
  <2>1. pc' = [pc EXCEPT ![p] = "idle"] /\ "idle" \in Step /\ plan' = <<>> /\ target' = [target EXCEPT ![p] = {}] /\ p = Operator
    BY <1>7 DEF Crash, Goto, Step, Process
  <2>2. AtItem'
    BY <1>0, <1>5, <1>7, <2>1, KnowledgeAssumption DEF WorkersTyped, AtItem, Process
  <2>3. WorkersTyped'
    BY <1>0, <1>5, <2>1, <2>2 DEF WorkersTyped
  <2>4. PlanTyped'
    BY <1>0, <2>1, EmptySeq DEF PlanTyped, WorkersTyped
  <2> QED BY <1>0, <1>4, <2>3, <2>4, TypedParts
<1> QED BY <1>6, <1>7

LEMMA OperatorGoesTyped ==
  ASSUME Typed, NEW s \in Step, Goto(Operator, s), s = "load" => target'[Operator] # {},
         \/ target' = target
         \/ \E a \in ListingAssociation : target' = [target EXCEPT ![Operator] = {a}],
         UNCHANGED <<index, loaded, result>>
  PROVE  WorkersTyped' /\ pc'[Operator] = s
<1>0. WorkersTyped /\ Operator \in Process
  BY TypedParts DEF Process
<1>1. target' \in [Process -> SUBSET ListingAssociation] /\ \A q \in Process : Cardinality(target'[q]) <= 1
  BY <1>0, AtMostOne DEF WorkersTyped
<1>2. pc' = [pc EXCEPT ![Operator] = s]
  BY DEF Goto
<1>3. AtItem'
  BY <1>0, <1>2, KnowledgeAssumption DEF WorkersTyped, AtItem, Process
<1>4. \A q \in Process : pc'[q] = "load" => target'[q] # {}
  BY <1>0, <1>2 DEF WorkersTyped
<1> QED BY <1>0, <1>1, <1>2, <1>3, <1>4 DEF WorkersTyped

LEMMA PopulateTyped ==
  ASSUME Typed, Populate
  PROVE  Typed'
<1>0. FilesTyped /\ WorkersTyped /\ PlanTyped /\ deployment \in {"runtime", "embedded"}
  BY TypedParts
<1>1. CASE Import
  <2>1. FilesTyped' /\ deployment' = deployment /\ UNCHANGED worker /\ Goto(Operator, "import") /\ "import" \in Step
    BY <1>0, <1>1 DEF Import, FilesTyped, files, Step
  <2>2. WorkersTyped' /\ pc'[Operator] = "import"
    BY <2>1, OperatorGoesTyped DEF worker
  <2>3. plan' \in Seq(Entry)
    BY <1>1, ImportTyped DEF Import
  <2> QED BY <1>0, <2>1, <2>2, <2>3, TypedParts DEF PlanTyped
<1>2. CASE ImportEntity
  <2>1. plan \in Seq(Entry) /\ plan # <<>> /\ Head(plan) \in Entry /\ Tail(plan) \in Seq(Entry) /\ Head(plan).kind # "association"
    BY <1>0, <1>2, HeadTailProperties DEF ImportEntity, PlanTyped
  <2>2. catalog' \in Snapshot
    BY <1>0, <1>2, <2>1, AddedTyped DEF ImportEntity, FilesTyped
  <2>3. FilesTyped' /\ deployment' = deployment /\ UNCHANGED worker /\ pc' = pc /\ pc[Operator] = "import"
    BY <1>0, <1>2, <2>2 DEF ImportEntity, FilesTyped
  <2>4. plan' \in Seq(Entry)
    BY <1>2, <2>1, EmptySeq DEF ImportEntity
  <2>5. WorkersTyped'
    BY <1>0, <2>3 DEF WorkersTyped, worker, AtItem
  <2> QED BY <1>0, <2>3, <2>4, <2>5, TypedParts DEF PlanTyped
<1>3. CASE ImportAssociation
  <2>1. plan \in Seq(Entry) /\ plan # <<>> /\ Head(plan) \in Entry /\ Head(plan).kind = "association"
    BY <1>0, <1>3, HeadTailProperties DEF ImportAssociation, PlanTyped
  <2>2. Head(plan).item \in ListingAssociation
    BY <2>1 DEF Entry
  <2>3. /\ FilesTyped' /\ deployment' = deployment /\ plan' = plan /\ UNCHANGED <<index, loaded, result>>
        /\ Goto(Operator, "load") /\ "load" \in Step /\ target' = [target EXCEPT ![Operator] = {Head(plan).item}]
    BY <1>0, <1>3 DEF ImportAssociation, FilesTyped, files, Step
  <2>4. target'[Operator] # {}
    BY <1>0, <2>3 DEF WorkersTyped, Process
  <2>5. WorkersTyped'
    BY <2>2, <2>3, <2>4, OperatorGoesTyped
  <2> QED BY <1>0, <2>1, <2>3, <2>5, TypedParts DEF PlanTyped
<1>4. CASE ImportEnds
  <2>1. /\ FilesTyped' /\ deployment' = deployment /\ UNCHANGED worker /\ plan' = plan
        /\ Goto(Operator, "idle") /\ "idle" \in Step
    BY <1>0, <1>4 DEF ImportEnds, FilesTyped, files, Step
  <2>2. WorkersTyped' /\ pc'[Operator] = "idle"
    BY <2>1, OperatorGoesTyped DEF worker
  <2> QED BY <1>0, <2>1, <2>2, TypedParts DEF PlanTyped
<1> QED BY <1>1, <1>2, <1>3, <1>4 DEF Populate

\* The reads and writes of the files stay within their types, and every process
\* has what its next step needs, under any interleaving, crash and failure.
THEOREM TypedInductive == Typed /\ [Next]_vars => Typed'
<1> SUFFICES ASSUME Typed, [Next]_vars PROVE Typed'
  OBVIOUS
<1>1. ASSUME NEW w \in Worker, Capture(w) PROVE Typed'
  BY <1>1, CaptureTyped
<1>2. ASSUME NEW w \in Worker, Ingest(w) PROVE Typed'
  BY <1>2, RegisterTyped, ResolveListingTyped, ExecutionTyped DEF Ingest
<1>3. ASSUME NEW p \in Process, Store(p) PROVE Typed'
  BY <1>3, StoreTyped
<1>4. ASSUME NEW p \in Process, Crash(p) PROVE Typed'
  BY <1>4, CrashTyped
<1>5. CASE Populate
  BY <1>5, PopulateTyped
<1>6. ASSUME NEW o \in Observations, NEW g \in Hooks, NEW resolution, Submit(o, g, resolution) PROVE Typed'
  <2>1. o.artifact \in Artifact
    BY DEF Artifact
  <2>2. evidence' \in [Artifact -> EvidenceState]
    BY <1>6, <2>1 DEF Submit, Typed, TypeOK, EvidenceState
  <2> QED BY <1>6, <2>2 DEF Submit, Typed, TypeOK, AtItem, AtAssociation, worker
<1>7. CASE UNCHANGED vars
  BY <1>7 DEF vars, files, worker, Typed, TypeOK, AtItem, AtAssociation
<1> QED BY <1>1, <1>2, <1>3, <1>4, <1>5, <1>6, <1>7 DEF Next

LEMMA InitTyped == Init => Typed
<1> SUFFICES ASSUME Init PROVE Typed
  OBVIOUS
<1>1. catalog \in Snapshot
  BY InputAssumption DEF Init, Empty, Snapshot
<1>2. associations \in AssociationFile /\ temporary \subseteq AssociationFile /\ Cardinality(temporary) <= 1
  BY AtMostOne, EmptySeq DEF Init, Whole, AssociationFile
<1>3. artifacts \in [Artifact -> ArtifactState] /\ evidence \in [Artifact -> EvidenceState] /\ registered \subseteq ObservationId
  BY DEF Init, ArtifactState, EvidenceState
<1>4. /\ pc \in [Process -> Step]
      /\ \A p \in Process : pc[p] # "load"
      /\ pc[Operator] \notin {"load", "write", "replace"}
  BY KnowledgeAssumption DEF Init, Step, Process
<1>5. \A w \in Worker : Len(Batch[w]) \in Nat \ {0} /\ DOMAIN Batch[w] = 1..Len(Batch[w])
  BY BatchTyped, KnowledgeAssumption, EmptySeq
<1>6. index = [w \in Worker |-> 1]
  BY DEF Init
<1>7. /\ index \in [Worker -> Nat \ {0}] /\ \A w \in Worker : index[w] <= Len(Batch[w]) + 1
      /\ AtItem
  BY <1>5, <1>6 DEF AtItem
<1>8. /\ target \in [Process -> SUBSET ListingAssociation] /\ \A p \in Process : Cardinality(target[p]) <= 1
      /\ loaded \in [Process -> Seq(ListingAssociation)] /\ plan \in Seq(Entry)
      /\ result \in [ObservationId -> Status]
  BY AtMostOne, EmptySeq DEF Init, Status
<1>9. deployment \in {"runtime", "embedded"}
  BY DEF Init
<1> QED BY <1>1, <1>2, <1>3, <1>4, <1>7, <1>8, <1>9 DEF Typed, TypeOK, AtAssociation

\* Every state of the program is well typed.
THEOREM KnowledgeTypeCorrect == Spec => []TypeOK
<1>1. Typed => TypeOK
  BY DEF Typed
<1> QED BY <1>1, InitTyped, TypedInductive, PTL DEF Spec

------------------------------------------------------------------------------
(* What can be read of the association file resolves.  By itself this is not *)
(* inductive: it must hold of whatever a later step may move into the file.  *)

Good(list) == Consistent(Elements(list)) /\ \A a \in Elements(list) : Placed(a)

FilesGood == \A f \in {associations} \union temporary : f.whole => Good(f.holds)
WritesGood == \A p \in Process : pc[p] = "write" => Good(loaded[p])
TargetsPlaced == \A p \in Process : \A a \in target[p] : Placed(a)
ResolvesRegistered == \A w \in Worker : pc[w] = "resolve" => Current(w).id \in registered

\* An association that is to be imported is of a pair that is in the catalog, or
\* that the entries before it bring there.
Comes(a, i) ==
    /\ \E o \in Observations : o.id = a.observation /\ o.id \in registered /\ o.listing = a.listing
    /\ \E v \in Variant : /\ v.id = a.variant /\ v.product = a.product
                           /\ (v \in catalog.variants \/ \E j \in 1..i - 1 : plan[j] = Item("variant", v))
    /\ \E p \in Product : /\ p.id = a.product
                           /\ (p \in catalog.products \/ \E j \in 1..i - 1 : plan[j] = Item("product", p))
PlanPlaced == \A i \in DOMAIN plan : plan[i].kind = "association" => Comes(plan[i].item, i)

Sound == FilesGood /\ WritesGood /\ TargetsPlaced /\ ResolvesRegistered /\ PlanPlaced

\* Nothing leaves the catalog or the registry.
LEMMA NothingLeaves ==
  ASSUME Typed, [Next]_vars
  PROVE  /\ registered \subseteq registered'
         /\ catalog.products \subseteq catalog'.products
         /\ catalog.variants \subseteq catalog'.variants
<1>1. ASSUME NEW w \in Worker, Register(w) PROVE registered \subseteq registered' /\ catalog' = catalog
  BY <1>1 DEF Register, Recorded
<1>2. ASSUME NEW w \in Worker, Capture(w) \/ Ingest(w), ~Register(w) PROVE registered' = registered /\ catalog' = catalog
  BY <1>2 DEF Capture, StorePayload, StoreReference, Ingest, RegisterFails, ResolveListing, Check, Record, Bundle, PublishFails, Run, files
<1>3. ASSUME NEW p \in Process, Store(p) \/ Crash(p) PROVE registered' = registered /\ catalog' = catalog
  BY <1>3 DEF Store, Load, Write, Replace, Crash, files
<1>4. ASSUME ImportEntity
      PROVE  registered' = registered /\ catalog.products \subseteq catalog'.products /\ catalog.variants \subseteq catalog'.variants
  <2>1. \A c \in Added(Head(plan).kind, Head(plan).item) :
           catalog.products \subseteq c.products /\ catalog.variants \subseteq c.variants
    BY DEF Added, Typed, TypeOK, Snapshot
  <2> QED BY <1>4, <2>1 DEF ImportEntity
<1>5. ASSUME Populate, ~ImportEntity PROVE registered' = registered /\ catalog' = catalog
  BY <1>5 DEF Populate, Import, ImportAssociation, ImportEnds, files
<1>6. ASSUME NEW o, NEW g, NEW resolution, Submit(o, g, resolution) PROVE registered' = registered /\ catalog' = catalog
  BY <1>6 DEF Submit
<1>7. CASE UNCHANGED vars
  BY <1>7 DEF vars, files
<1> QED BY <1>1, <1>2, <1>3, <1>4, <1>5, <1>6, <1>7 DEF Next

LEMMA PlacedStays ==
  ASSUME Typed, [Next]_vars, NEW a, Placed(a)
  PROVE  Placed(a)'
BY NothingLeaves DEF Placed

LEMMA GoodStays ==
  ASSUME Typed, [Next]_vars, NEW list, Good(list)
  PROVE  Good(list)'
BY PlacedStays DEF Good

\* Where the contents of the files come from.
LEMMA FilesFrom ==
  ASSUME Typed, [Next]_vars, NEW f \in {associations'} \union temporary'
  PROVE  \/ f \in {associations} \union temporary
         \/ f = Torn
         \/ \E p \in Process : pc[p] = "write" /\ f = Whole(loaded[p])
<1>1. ASSUME NEW p \in Process, Replace(p) PROVE f \in {associations} \union temporary
  BY <1>1 DEF Replace
<1>2. ASSUME NEW p \in Process, Write(p)
      PROVE  f = associations \/ (pc[p] = "write" /\ f = Whole(loaded[p]))
  BY <1>2 DEF Write
<1>3. ASSUME NEW p \in Process, Load(p) PROVE f \in {associations} \union temporary
  BY <1>3 DEF Load, files
<1>4. ASSUME NEW p \in Process, Crash(p) PROVE f \in {associations} \union temporary \/ f = Torn
  BY <1>4 DEF Crash
<1>5. ASSUME NEW w \in Worker, Capture(w) \/ Ingest(w) PROVE f \in {associations} \union temporary
  BY <1>5 DEF Capture, StorePayload, StoreReference, Ingest, Register, RegisterFails, ResolveListing, Check, Record, Bundle, PublishFails, Run, files
<1>6. ASSUME Populate PROVE f \in {associations} \union temporary
  BY <1>6 DEF Populate, Import, ImportEntity, ImportAssociation, ImportEnds, files
<1>7. ASSUME NEW o, NEW g, NEW resolution, Submit(o, g, resolution) PROVE f \in {associations} \union temporary
  BY <1>7 DEF Submit
<1>8. CASE UNCHANGED vars
  BY <1>8 DEF vars, files
<1> QED BY <1>1, <1>2, <1>3, <1>4, <1>5, <1>6, <1>7, <1>8 DEF Next, Store

LEMMA FilesStayGood ==
  ASSUME Typed, Sound, [Next]_vars
  PROVE  FilesGood'
<1> SUFFICES ASSUME NEW f \in {associations'} \union temporary', f.whole PROVE Good(f.holds)'
  BY DEF FilesGood
<1>1. Good(f.holds)
  BY FilesFrom DEF Sound, FilesGood, WritesGood, Torn, Whole
<1> QED BY <1>1, GoodStays

LEMMA AppendedGood ==
  ASSUME NEW list \in Seq(ListingAssociation), NEW a \in ListingAssociation, Good(list), Placed(a),
         Consistent(Elements(list) \union {a})
  PROVE  Good(Append(list, a))
<1>1. Elements(Append(list, a)) \subseteq Elements(list) \union {a}
  <2> SUFFICES ASSUME NEW i \in DOMAIN Append(list, a) PROVE Append(list, a)[i] \in Elements(list) \union {a}
    BY DEF Elements
  <2>1. /\ Append(list, a) \in Seq(ListingAssociation) /\ Len(Append(list, a)) = Len(list) + 1
        /\ \A k \in 1..Len(list) : Append(list, a)[k] = list[k]
        /\ Append(list, a)[Len(list) + 1] = a
    BY AppendProperties
  <2>2. Len(list) \in Nat /\ DOMAIN list = 1..Len(list) /\ DOMAIN Append(list, a) = 1..Len(list) + 1
    BY <2>1, LenProperties
  <2>3. CASE i = Len(list) + 1
    BY <2>1, <2>3
  <2>4. CASE i \in 1..Len(list)
    BY <2>1, <2>2, <2>4 DEF Elements
  <2> QED BY <2>2, <2>3, <2>4
<1>2. Consistent(Elements(Append(list, a)))
  BY <1>1 DEF Consistent
<1> QED BY <1>1, <1>2 DEF Good

\* Steps that begin no write keep those that are under way.
LEMMA OtherSteps ==
  ASSUME Typed, [Next]_vars, NEW p \in Process, pc'[p] = "write", ~Load(p)
  PROVE  pc[p] = "write" /\ loaded'[p] = loaded[p]
<1>0. pc \in [Process -> Step] /\ loaded \in [Process -> Seq(ListingAssociation)] /\ Worker \subseteq Process /\ Operator \in Process
  BY DEF Typed, TypeOK, Process
<1>1. ASSUME NEW w \in Worker, Capture(w) \/ Ingest(w) PROVE pc[p] = "write" /\ loaded'[p] = loaded[p]
  BY <1>0, <1>1 DEF Capture, StorePayload, StoreReference, Ingest, Register, RegisterFails, ResolveListing, Check, Record, Bundle, PublishFails,
     Run, Settle, Goto, worker
<1>2. ASSUME NEW q \in Process, Store(q) PROVE pc[p] = "write" /\ loaded'[p] = loaded[p]
  BY <1>0, <1>2 DEF Store, Load, Write, Replace, Refuse, Stored, Settle, Goto, worker
<1>3. ASSUME NEW q \in Process, Crash(q) PROVE pc[p] = "write" /\ loaded'[p] = loaded[p]
  BY <1>0, <1>3 DEF Crash, Goto
<1>4. ASSUME Populate PROVE pc[p] = "write" /\ loaded'[p] = loaded[p]
  BY <1>0, <1>4 DEF Populate, Import, ImportEntity, ImportAssociation, ImportEnds, Goto, worker
<1>5. ASSUME NEW o, NEW g, NEW resolution, Submit(o, g, resolution) PROVE pc[p] = "write" /\ loaded'[p] = loaded[p]
  BY <1>5 DEF Submit, worker
<1>6. CASE UNCHANGED vars
  BY <1>6 DEF vars, worker
<1> QED BY <1>1, <1>2, <1>3, <1>4, <1>5, <1>6 DEF Next

LEMMA WritesStayGood ==
  ASSUME Typed, Sound, [Next]_vars
  PROVE  WritesGood'
<1> SUFFICES ASSUME NEW p \in Process, pc'[p] = "write", NEW list, list = loaded'[p] PROVE Good(list)'
  BY DEF WritesGood
<1>1. CASE ~Load(p)
  <2>1. Good(loaded[p]) /\ list = loaded[p]
    BY <1>1, OtherSteps DEF Sound, WritesGood
  <2>2. Good(list)
    BY <2>1
  <2> QED BY <2>2, GoodStays
<1>2. CASE Load(p)
  <2>1. pc[p] = "load" /\ loaded \in [Process -> Seq(ListingAssociation)] /\ pc \in [Process -> Step]
    BY <1>2 DEF Load, Typed, TypeOK
  <2>2. /\ associations.whole /\ Consistent(StoredSet \union target[p])
        /\ loaded' = [loaded EXCEPT ![p] = Append(associations.holds, TargetOf(p))]
    BY <1>2, <2>1 DEF Load, Refuse, Stored, Settle, Goto
  <2>3. target[p] # {} /\ TargetOf(p) \in target[p] /\ TargetOf(p) \in ListingAssociation
    BY <2>1, TargetTyped DEF Typed, AtAssociation
  <2>4. Consistent(Elements(associations.holds) \union {TargetOf(p)})
    BY <2>2, <2>3 DEF Consistent, StoredSet
  <2>5. Good(associations.holds) /\ Placed(TargetOf(p)) /\ associations.holds \in Seq(ListingAssociation)
    BY <2>2, <2>3 DEF Sound, FilesGood, TargetsPlaced, Typed, TypeOK, AssociationFile
  <2>6. Good(Append(associations.holds, TargetOf(p)))
    BY <2>3, <2>4, <2>5, AppendedGood
  <2>7. list = Append(associations.holds, TargetOf(p))
    BY <2>1, <2>2
  <2>8. Good(list)
    BY <2>6, <2>7
  <2> QED BY <2>8, GoodStays
<1> QED BY <1>1, <1>2

LEMMA TargetsStayPlaced ==
  ASSUME Typed, Sound, [Next]_vars
  PROVE  TargetsPlaced'
<1> SUFFICES ASSUME NEW p \in Process, NEW a \in target'[p] PROVE Placed(a)'
  BY DEF TargetsPlaced
<1>0. target \in [Process -> SUBSET ListingAssociation] /\ Worker \subseteq Process /\ Operator \in Process
  BY DEF Typed, TypeOK, Process
<1> SUFFICES Placed(a)
  BY PlacedStays
<1>1. CASE a \in target[p]
  BY <1>1 DEF Sound, TargetsPlaced
<1>2. CASE a \notin target[p]
  <2>1. ASSUME NEW w \in Worker, ResolveListing(w) PROVE Placed(a)
    <3> DEFINE r == Resolution(Current(w), catalog)
    <3>1. r.status = "mapped" /\ p = w /\ a = Association(Current(w), r.product, r.variant)
      BY <1>0, <1>2, <2>1 DEF ResolveListing, Settle
    <3>2. \E o \in Observations : o.id = a.observation /\ o.id \in registered /\ o.listing = a.listing
      <4>1. Current(w).id \in registered
        BY <2>1 DEF Sound, ResolvesRegistered, ResolveListing
      <4>2. Current(w) \in Observations
        BY <2>1 DEF Typed, AtItem, ResolveListing, Current, ItemsOf, Observations
      <4> QED BY <3>1, <4>1, <4>2 DEF Association
    <3>3. catalog \in Snapshot
      BY DEF Typed, TypeOK
    <3>4. /\ \E v \in catalog.variants : v.id = r.variant /\ v.product = r.product
          /\ \E q \in catalog.products : q.id = r.product
      BY <3>1, <3>3, MappedIsThere
    <3>5. a.variant = r.variant /\ a.product = r.product
      BY <3>1 DEF Association
    <3> QED BY <3>2, <3>4, <3>5 DEF Placed
  <2>2. ASSUME NEW w \in Worker, Capture(w) \/ Ingest(w), ~ResolveListing(w) PROVE a \in target[p]
    BY <1>0, <2>2 DEF Capture, StorePayload, StoreReference, Ingest, Register, RegisterFails, Check, Record, Bundle, PublishFails, Run, Settle,
       worker
  <2>3. ASSUME NEW q \in Process, Store(q) \/ Crash(q) PROVE a \in target[p]
    BY <1>0, <2>3 DEF Store, Load, Write, Replace, Crash, Refuse, Stored, Settle, worker
  <2>4. CASE ImportAssociation
    <3>1. p = Operator /\ a = Head(plan).item
      BY <1>0, <1>2, <2>4 DEF ImportAssociation
    <3>2. plan \in Seq(Entry) /\ plan # <<>> /\ Head(plan).kind = "association"
      BY <2>4 DEF ImportAssociation, Typed, TypeOK
    <3>3. 1 \in DOMAIN plan /\ Head(plan) = plan[1]
      BY <3>2
    <3>4. Comes(a, 1)
      BY <3>1, <3>2, <3>3 DEF Sound, PlanPlaced
    <3> QED BY <3>4 DEF Comes, Placed
  <2>5. ASSUME Populate, ~ImportAssociation PROVE a \in target[p]
    BY <2>5 DEF Populate, Import, ImportEntity, ImportEnds, worker
  <2>6. ASSUME NEW o, NEW g, NEW resolution, Submit(o, g, resolution) PROVE a \in target[p]
    BY <2>6 DEF Submit, worker
  <2>7. CASE UNCHANGED vars
    BY <1>2, <2>7 DEF vars, worker
  <2> QED BY <1>2, <2>1, <2>2, <2>3, <2>4, <2>5, <2>6, <2>7 DEF Next
<1> QED BY <1>1, <1>2

LEMMA ResolvesStayRegistered ==
  ASSUME Typed, Sound, [Next]_vars
  PROVE  ResolvesRegistered'
<1> SUFFICES ASSUME NEW w \in Worker, pc'[w] = "resolve" PROVE Batch[w][index'[w]].id \in registered'
  BY DEF ResolvesRegistered, Current
<1>0. /\ pc \in [Process -> Step] /\ index \in [Worker -> Nat \ {0}] /\ Worker \subseteq Process
      /\ Operator \in Process /\ Operator \notin Worker
  BY KnowledgeAssumption DEF Typed, TypeOK, Process
<1>1. CASE Register(w)
  <2>1. index' = index /\ registered' = registered \union {Current(w).id}
    BY <1>0, <1>1 DEF Register, Recorded, Settle, Goto, worker
  <2> QED BY <2>1 DEF Current
<1>2. CASE ~Register(w)
  <2>1. ASSUME NEW v \in Worker, Capture(v) \/ Ingest(v), ~Register(w) PROVE pc[w] = "resolve" /\ index'[w] = index[w]
    BY <1>0, <2>1 DEF Capture, StorePayload, StoreReference, Ingest, Register, RegisterFails, ResolveListing, Check, Record, Bundle,
       PublishFails, Run, Settle, Goto, worker
  <2>2. ASSUME NEW q \in Process, Store(q) \/ Crash(q) PROVE pc[w] = "resolve" /\ index'[w] = index[w]
    BY <1>0, <2>2 DEF Store, Load, Write, Replace, Refuse, Stored, Settle, Crash, Goto, worker
  <2>3. ASSUME Populate PROVE pc[w] = "resolve" /\ index'[w] = index[w]
    BY <1>0, <2>3 DEF Populate, Import, ImportEntity, ImportAssociation, ImportEnds, Goto, worker
  <2>4. ASSUME NEW o, NEW g, NEW resolution, Submit(o, g, resolution) PROVE pc[w] = "resolve" /\ index'[w] = index[w]
    BY <2>4 DEF Submit, worker
  <2>5. ASSUME UNCHANGED vars PROVE pc[w] = "resolve" /\ index'[w] = index[w]
    BY <2>5 DEF vars, worker
  <2>6. pc[w] = "resolve" /\ index'[w] = index[w]
    BY <1>2, <2>1, <2>2, <2>3, <2>4, <2>5 DEF Next
  <2>7. Current(w).id \in registered
    BY <2>6 DEF Sound, ResolvesRegistered
  <2> QED BY <2>6, <2>7, NothingLeaves DEF Current
<1> QED BY <1>1, <1>2

\* What becomes of the plan: nothing, or its first entry is done, or it is given
\* up, or it is a new one.
LEMMA PlanFrom ==
  ASSUME Typed, [Next]_vars
  PROVE  \/ plan' = plan
         \/ plan' = <<>>
         \/ /\ plan # <<>> /\ plan' = Tail(plan)
            /\ \/ Head(plan).kind = "association"
               \/ Head(plan).kind = "product" /\ Head(plan).item \in catalog'.products
               \/ Head(plan).kind = "variant" /\ Head(plan).item \in catalog'.variants
         \/ \E m \in Manifest : Valid(m) /\ plan' = OrderOfImport(m)
<1>1. ASSUME NEW w \in Worker, Capture(w) \/ Ingest(w) PROVE plan' = plan
  BY <1>1 DEF Capture, StorePayload, StoreReference, Ingest, Register, RegisterFails, ResolveListing, Check, Record, Bundle, PublishFails, Run
<1>2. ASSUME NEW p \in Process, Store(p)
      PROVE  \/ plan' = plan \/ plan' = <<>>
             \/ plan # <<>> /\ plan' = Tail(plan) /\ Head(plan).kind = "association"
  <2>1. p \in Worker \/ p = Operator
    BY DEF Process
  <2> QED BY <1>2, <2>1 DEF Store, Load, Write, Replace, Refuse, Stored, Typed, AtAssociation
<1>3. ASSUME NEW p \in Process, Crash(p) PROVE plan' = plan \/ plan' = <<>>
  BY <1>3 DEF Crash
<1>4. CASE Import
  BY <1>4 DEF Import
<1>5. CASE ImportEntity
  <2>1. plan \in Seq(Entry) /\ plan # <<>> /\ Head(plan) \in Entry /\ Head(plan).kind # "association" /\ catalog \in Snapshot
    BY <1>5, HeadTailProperties DEF ImportEntity, Typed, TypeOK
  <2>2. Head(plan).kind \in {"product", "variant"}
    BY <2>1 DEF Entry
  <2>3. \A c \in Added(Head(plan).kind, Head(plan).item) :
           /\ Head(plan).kind = "product" => Head(plan).item \in c.products
           /\ Head(plan).kind = "variant" => Head(plan).item \in c.variants
    BY <2>1, <2>2 DEF Added, Snapshot
  <2> QED BY <1>5, <2>1, <2>2, <2>3 DEF ImportEntity
<1>6. ASSUME ImportAssociation \/ ImportEnds PROVE plan' = plan
  BY <1>6 DEF ImportAssociation, ImportEnds
<1>7. ASSUME NEW o, NEW g, NEW resolution, Submit(o, g, resolution) PROVE plan' = plan
  BY <1>7 DEF Submit
<1>8. CASE UNCHANGED vars
  BY <1>8 DEF vars
<1> QED BY <1>1, <1>2, <1>3, <1>4, <1>5, <1>6, <1>7, <1>8 DEF Next, Populate

\* A manifest that is valid has or finds the pairs of its associations.
LEMMA ValidComes ==
  ASSUME Typed, NEW m \in Manifest, Valid(m), NEW k \in DOMAIN m.associations
  PROVE  LET a == m.associations[k] IN
         /\ \E o \in Observations : o.id = a.observation /\ o.id \in registered /\ o.listing = a.listing
         /\ \E v \in Variant : /\ v.id = a.variant /\ v.product = a.product
                                /\ (v \in catalog.variants \/ \E j \in DOMAIN m.variants : m.variants[j] = v)
         /\ \E p \in Product : /\ p.id = a.product
                                /\ (p \in catalog.products \/ \E j \in DOMAIN m.products : m.products[j] = p)
<1> DEFINE a == m.associations[k]
           newProducts == {m.products[i] : i \in DOMAIN m.products}
           newVariants == {m.variants[i] : i \in DOMAIN m.variants}
           products == newProducts \union {x \in catalog.products : ById(newProducts, x.id) = {}}
           variants == newVariants \union {x \in catalog.variants : ById(newVariants, x.id) = {}}
<1>1. /\ \E o \in Observations : o.id = a.observation /\ o.id \in registered /\ o.listing = a.listing
      /\ ById(products, a.product) # {}
      /\ ById(variants, a.variant) # {}
      /\ \A v \in ById(variants, a.variant) : v.product = a.product
  BY DEF Valid
<1>2. m.products \in Seq(Product) /\ m.variants \in Seq(Variant) /\ catalog \in Snapshot
  BY InputAssumption DEF Typed, TypeOK
<1>3. newProducts \subseteq Product /\ newVariants \subseteq Variant
  BY <1>2, LenProperties, ElementOfSeq
<1>4. products \subseteq Product /\ variants \subseteq Variant
  BY <1>2, <1>3 DEF Snapshot
<1>5. \E v \in variants : v.id = a.variant /\ v.product = a.product
  BY <1>1 DEF ById
<1>6. \E p \in products : p.id = a.product
  BY <1>1 DEF ById
<1> QED BY <1>1, <1>4, <1>5, <1>6

LEMMA PlanStaysPlaced ==
  ASSUME Typed, Sound, [Next]_vars
  PROVE  PlanPlaced'
<1> SUFFICES ASSUME NEW i \in DOMAIN plan', plan'[i].kind = "association", NEW a, a = plan'[i].item PROVE Comes(a, i)'
  BY DEF PlanPlaced
<1>0. plan \in Seq(Entry) /\ registered \subseteq registered'
      /\ catalog.products \subseteq catalog'.products /\ catalog.variants \subseteq catalog'.variants
  BY NothingLeaves DEF Typed, TypeOK
<1>1. CASE plan' = plan
  <2>1. Comes(a, i)
    BY <1>1 DEF Sound, PlanPlaced
  <2> QED BY <1>0, <1>1, <2>1 DEF Comes
<1>2. CASE plan' = <<>>
  BY <1>2
<1>3. CASE /\ plan # <<>> /\ plan' = Tail(plan)
           /\ \/ Head(plan).kind = "association"
              \/ Head(plan).kind = "product" /\ Head(plan).item \in catalog'.products
              \/ Head(plan).kind = "variant" /\ Head(plan).item \in catalog'.variants
  <2>1. /\ Head(plan) = plan[1] /\ Len(plan) \in Nat \ {0} /\ DOMAIN plan = 1..Len(plan)
        /\ Len(plan') = Len(plan) - 1 /\ DOMAIN plan' = 1..Len(plan')
        /\ \A k \in 1..Len(plan') : plan'[k] = plan[k + 1]
    BY <1>0, <1>3, HeadTailProperties, LenProperties, EmptySeq
  <2>2. i + 1 \in DOMAIN plan /\ i \in Nat \ {0} /\ plan'[i] = plan[i + 1]
    BY <2>1
  <2>3. Comes(a, i + 1)
    BY <2>2 DEF Sound, PlanPlaced
  <2>4. ASSUME NEW v \in Variant, NEW j \in 1..(i + 1) - 1, plan[j] = Item("variant", v)
        PROVE  v \in catalog'.variants \/ \E k \in 1..i - 1 : plan'[k] = Item("variant", v)
    <3>1. CASE j = 1
      BY <1>3, <2>1, <2>4, <3>1 DEF Item
    <3>2. CASE j # 1
      <4>1. j - 1 \in 1..i - 1 /\ j - 1 \in 1..Len(plan') /\ (j - 1) + 1 = j
        BY <2>1, <2>2, <3>2
      <4>2. plan'[j - 1] = plan[j]
        BY <2>1, <4>1
      <4> QED BY <2>4, <4>1, <4>2
    <3> QED BY <3>1, <3>2
  <2>5. ASSUME NEW q \in Product, NEW j \in 1..(i + 1) - 1, plan[j] = Item("product", q)
        PROVE  q \in catalog'.products \/ \E k \in 1..i - 1 : plan'[k] = Item("product", q)
    <3>1. CASE j = 1
      BY <1>3, <2>1, <2>5, <3>1 DEF Item
    <3>2. CASE j # 1
      <4>1. j - 1 \in 1..i - 1 /\ j - 1 \in 1..Len(plan') /\ (j - 1) + 1 = j
        BY <2>1, <2>2, <3>2
      <4>2. plan'[j - 1] = plan[j]
        BY <2>1, <4>1
      <4> QED BY <2>5, <4>1, <4>2
    <3> QED BY <3>1, <3>2
  <2> QED BY <1>0, <2>3, <2>4, <2>5 DEF Comes
<1>4. ASSUME NEW m \in Manifest, Valid(m), plan' = OrderOfImport(m) PROVE Comes(a, i)'
  <2>1. Preceding(m, plan', i)
    BY <1>4, ImportTyped
  <2>2. PICK k \in DOMAIN m.associations : a = m.associations[k]
    BY <2>1 DEF Preceding
  <2>3. /\ \E o \in Observations : o.id = a.observation /\ o.id \in registered /\ o.listing = a.listing
        /\ \E v \in Variant : /\ v.id = a.variant /\ v.product = a.product
                               /\ (v \in catalog.variants \/ \E j \in DOMAIN m.variants : m.variants[j] = v)
        /\ \E q \in Product : /\ q.id = a.product
                               /\ (q \in catalog.products \/ \E j \in DOMAIN m.products : m.products[j] = q)
    BY <1>4, <2>2, ValidComes
  <2>4. /\ \A x \in DOMAIN m.products : \E j \in 1..i - 1 : plan'[j] = Item("product", m.products[x])
        /\ \A x \in DOMAIN m.variants : \E j \in 1..i - 1 : plan'[j] = Item("variant", m.variants[x])
    BY <2>1 DEF Preceding
  <2> QED BY <1>0, <2>3, <2>4 DEF Comes
<1> QED BY <1>1, <1>2, <1>3, <1>4, PlanFrom

LEMMA InitSound == Init => Sound
<1> SUFFICES ASSUME Init PROVE Sound
  OBVIOUS
<1>1. FilesGood
  BY DEF Init, FilesGood, Whole, Good, Elements, Consistent
<1>2. \A p \in Process : pc[p] # "write" /\ pc[p] # "resolve" /\ target[p] = {}
  BY DEF Init
<1>3. PlanPlaced
  BY DEF Init, PlanPlaced
<1> QED BY <1>1, <1>2, <1>3 DEF Sound, WritesGood, TargetsPlaced, ResolvesRegistered, Process

LEMMA SoundInductive == Typed /\ Sound /\ [Next]_vars => Sound'
<1> SUFFICES ASSUME Typed, Sound, [Next]_vars PROVE Sound'
  OBVIOUS
<1>1. FilesGood' /\ WritesGood' /\ TargetsPlaced' /\ ResolvesRegistered' /\ PlanPlaced'
  BY FilesStayGood, WritesStayGood, TargetsStayPlaced, ResolvesStayRegistered, PlanStaysPlaced
<1> QED BY <1>1 DEF Sound

\* The association file names no listing twice and only what is there, whoever
\* overwrites it, loses its updates or moves another process's file into it,
\* and wherever processes die.
THEOREM AssociationsAlwaysResolve == Spec => []AssociationsResolve
<1>1. Init => Typed /\ Sound
  BY InitTyped, InitSound
<1>2. Typed /\ Sound /\ [Next]_vars => Typed' /\ Sound'
  BY TypedInductive, SoundInductive
<1>3. Sound => AssociationsResolve
  BY DEF Sound, FilesGood, Good, AssociationsResolve, StoredSet
<1> QED BY <1>1, <1>2, <1>3, PTL DEF Spec

------------------------------------------------------------------------------
(* What search shows can be carted.  Beyond what the association file holds,  *)
(* it rests on the catalog naming no variant twice, though it is written     *)
(* entry by entry and imports end half way.                                  *)

Distinct == \A v, w \in catalog.variants : v.id = w.id => v = w

LEMMA DistinctInductive ==
  /\ Init => Distinct
  /\ Typed /\ Distinct /\ [Next]_vars => Distinct'
<1>1. Init => Distinct
  BY NamesAssumption DEF Init, Empty, Distinct
<1>2. ASSUME Typed, Distinct, [Next]_vars PROVE Distinct'
  <2>1. CASE ImportEntity
    <3>1. PICK e : e = Head(plan)
      OBVIOUS
    <3>2. catalog \in Snapshot /\ (catalog' = catalog \/ catalog' \in Added(e.kind, e.item))
      <4>1. catalog' = catalog \/ catalog' \in Added(Head(plan).kind, Head(plan).item)
        BY <2>1 DEF ImportEntity
      <4>2. catalog \in Snapshot
        BY <1>2 DEF Typed, TypeOK
      <4>3. e.kind = Head(plan).kind /\ e.item = Head(plan).item
        BY <3>1
      <4> QED BY ONLY <4>1, <4>2, <4>3
    <3>3. CASE catalog' = catalog
      BY <1>2, <3>3 DEF Distinct
    <3>4. CASE catalog' \in Added("product", e.item) /\ e.kind = "product"
      <4>1. catalog'.variants = catalog.variants
        BY <3>2, <3>4 DEF Added, Snapshot
      <4> QED BY <1>2, <4>1 DEF Distinct
    <3>5. CASE catalog' \in Added(e.kind, e.item) /\ e.kind # "product"
      <4>1. catalog'.variants = catalog.variants \union {e.item} /\ ById(catalog.variants, e.item.id) \subseteq {e.item}
        BY <3>2, <3>5 DEF Added, Snapshot
      <4> QED BY <1>2, <4>1 DEF Distinct, ById
    <3> QED BY <3>2, <3>3, <3>4, <3>5
  <2>2. CASE ~ImportEntity
    <3>1. ASSUME NEW w \in Worker, Capture(w) \/ Ingest(w) PROVE catalog' = catalog
      BY <3>1 DEF Capture, StorePayload, StoreReference, Ingest, Register, RegisterFails, ResolveListing, Check, Record, Bundle,
         PublishFails, Run, files
    <3>2. ASSUME NEW p \in Process, Store(p) \/ Crash(p) PROVE catalog' = catalog
      BY <3>2 DEF Store, Load, Write, Replace, Crash, files
    <3>3. ASSUME Populate PROVE catalog' = catalog
      BY <2>2, <3>3 DEF Populate, Import, ImportAssociation, ImportEnds, files
    <3>4. ASSUME NEW o, NEW g, NEW resolution, Submit(o, g, resolution) PROVE catalog' = catalog
      BY <3>4 DEF Submit
    <3>5. ASSUME UNCHANGED vars PROVE catalog' = catalog
      BY <3>5 DEF vars, files
    <3>6. catalog' = catalog
      BY <1>2, <3>1, <3>2, <3>3, <3>4, <3>5 DEF Next
    <3> QED BY <1>2, <3>6 DEF Distinct
  <2> QED BY <2>1, <2>2
<1> QED BY <1>1, <1>2

\* A set of naturals that is not empty has a least.
LEMMA Least ==
  ASSUME NEW T, T \subseteq Nat, T # {}
  PROVE  \E m \in T : \A k \in T : m <= k
<1> DEFINE R == OpToRel(<, Nat)
<1>1. IsWellFoundedOn(R, Nat)
  BY NatLessThanWellFounded
<1>2. \E x \in T : \A y \in T : ~(<<y, x>> \in R)
  <2> HIDE DEF R
  <2> QED BY <1>1, WFMin
<1>3. PICK x \in T : \A y \in T : ~(<<y, x>> \in R)
  BY <1>2
<1>4. \A a, b \in Nat : a < b => <<a, b>> \in R
  BY DEF OpToRel
<1> HIDE DEF R
<1>5. ASSUME NEW k \in T PROVE x <= k
  <2>1. k \in Nat /\ x \in Nat
    OBVIOUS
  <2>2. ~(k < x)
    BY <1>3, <1>4, <2>1
  <2> QED BY <2>1, <2>2
<1> QED BY <1>3, <1>5

\* The registry answers with one association of a listing that it has any of.
LEMMA FirstIsOne ==
  ASSUME NEW list \in Seq(ListingAssociation), NEW a \in Elements(list)
  PROVE  \E f \in Elements(list) : f.listing = a.listing /\ First(list, a.listing) = {f}
<1> DEFINE T == {j \in DOMAIN list : list[j].listing = a.listing}
<1>1. DOMAIN list = 1..Len(list) /\ Len(list) \in Nat
  BY LenProperties
<1>2. T \subseteq Nat /\ T # {}
  BY <1>1 DEF Elements
<1>3. PICK m \in T : \A k \in T : m <= k
  <2> HIDE DEF T
  <2> QED BY <1>2, Least
<1>4. \A k \in 1..m - 1 : list[k].listing # a.listing
  BY <1>1, <1>3
<1>5. \A j \in DOMAIN list : list[j].listing = a.listing /\ (\A k \in 1..j - 1 : list[k].listing # a.listing) => j = m
  <2> SUFFICES ASSUME NEW j \in DOMAIN list, list[j].listing = a.listing, \A k \in 1..j - 1 : list[k].listing # a.listing
               PROVE  j = m
    OBVIOUS
  <2>1. j \in T /\ m <= j /\ m \in Nat /\ j \in Nat
    BY <1>1, <1>3
  <2>2. ~(m < j)
    BY <1>1, <1>3, <2>1
  <2> QED BY <2>1, <2>2
<1>6. First(list, a.listing) = {list[m]}
  BY <1>3, <1>4, <1>5 DEF First
<1> QED BY <1>3, <1>6 DEF Elements

\* What search shows can be put in the cart, by variant or by listing, as the
\* pair that was shown, and is among the candidates of planning, whatever the
\* order of the associations and wherever imports ended.
THEOREM FoundIsCarted == Spec => []FoundCanBeCarted
<1>1. Init => Typed /\ Sound /\ Distinct
  BY InitTyped, InitSound, DistinctInductive
<1>2. Typed /\ Sound /\ Distinct /\ [Next]_vars => Typed' /\ Sound' /\ Distinct'
  BY TypedInductive, SoundInductive, DistinctInductive
<1>3. Typed /\ Sound /\ Distinct => FoundCanBeCarted
  <2> SUFFICES ASSUME Typed, Sound, Distinct, associations.whole,
                      NEW a \in SearchItems({p.id : p \in catalog.products}, catalog, associations.holds, registered)
               PROVE  LET item(variant) == ResolveItem(variant, a.listing, catalog, associations.holds, registered)
                          found == DiscoverItem(a.product, a.variant, catalog, associations.holds, registered, {})
                      IN  \A variant \in {None, a.variant} :
                            /\ item(variant).status = "resolved"
                            /\ item(variant).product = a.product /\ item(variant).variant = a.variant
                            /\ a \in found.candidates
                            /\ \E c \in found.candidates : c.listing = a.listing /\ c.observation \in item(variant).observation
    BY DEF FoundCanBeCarted
  <2> DEFINE list == associations.holds
             candidates == Candidate(a.product, a.variant, catalog, list, registered)
  <2>1. list \in Seq(ListingAssociation) /\ catalog \in Snapshot
    BY DEF Typed, TypeOK, AssociationFile
  <2>2. a \in Elements(list) /\ a.observation \in registered
    BY DEF SearchItems
  <2>3. PICK p \in catalog.products, v \in catalog.variants : p.id = a.product /\ v.id = a.variant /\ v.product = p.id
    BY DEF SearchItems, ById
  <2>4. PICK f \in Elements(list) : f.listing = a.listing /\ First(list, a.listing) = {f}
    BY <2>1, <2>2, FirstIsOne
  <2>5. Consistent(Elements(list)) /\ Placed(f) /\ Placed(a)
    BY <2>2 DEF Sound, FilesGood, Good
  <2>6. f.product = a.product /\ f.variant = a.variant
    BY <2>2, <2>4, <2>5 DEF Consistent
  <2>7. a.listing # None /\ f.observation \in registered
    BY <2>5, NamesAssumption DEF Placed
  <2>8. ById(catalog.variants, a.variant) = {v}
    BY <2>3 DEF ById, Distinct
  <2>9. /\ ById(catalog.products, a.product) # {}
        /\ \A q \in ById(catalog.products, a.product) : q.id = a.product
    BY <2>3 DEF ById
  <2>10. a \in candidates /\ f \in candidates
    BY <2>2, <2>6, <2>7, <2>8, <2>9 DEF Candidate
  <2> HIDE DEF list, candidates
  <2>11. ASSUME NEW variant \in {None, a.variant}
         PROVE  ResolveItem(variant, a.listing, catalog, list, registered)
                  = [status |-> "resolved", product |-> a.product, variant |-> a.variant, observation |-> {f.observation}]
    <3> DEFINE found == IF a.listing = None THEN {} ELSE First(list, a.listing)
               variants == IF variant = None THEN UNION {ById(catalog.variants, b.variant) : b \in found}
                           ELSE ById(catalog.variants, variant)
               parents == IF variant = None THEN {b.product : b \in found} ELSE {x.product : x \in variants}
               products == UNION {ById(catalog.products, id) : id \in parents}
    <3>1. found = {f}
      BY <2>4, <2>7
    <3> HIDE DEF found
    <3>2. variants = {v}
      BY <2>6, <2>8, <3>1
    <3> HIDE DEF variants
    <3>3. parents = {a.product}
      BY <2>3, <2>6, <3>1, <3>2
    <3> HIDE DEF parents
    <3>4. products = ById(catalog.products, a.product)
      BY <3>3
    <3> HIDE DEF products
    <3>5. /\ (CHOOSE x \in products : TRUE).id = a.product /\ (CHOOSE x \in variants : TRUE).id = a.variant
          /\ variants # {} /\ products # {}
      BY <2>3, <2>9, <3>2, <3>4
    <3>6. /\ ~(variant # None /\ \E b \in found : b.variant # variant)
          /\ ~\E b \in found : b.observation \notin registered
          /\ {b.observation : b \in found} = {f.observation}
      BY <2>6, <2>7, <3>1
    <3> QED BY <3>5, <3>6 DEF ResolveItem, found, variants, parents, products
  <2>12. DiscoverItem(a.product, a.variant, catalog, list, registered, {}).candidates = candidates
    BY DEF DiscoverItem, candidates
  <2> QED BY <2>4, <2>10, <2>11, <2>12 DEF list
<1> QED BY <1>1, <1>2, <1>3, PTL DEF Spec

------------------------------------------------------------------------------
(* What is reported as resolved can be read.  It rests on what a worker knows *)
(* of its artifact at each of its steps, and on no two sharing one.          *)

ArtifactOf(w) == Batch[w][1].artifact

Kept(w) ==
    /\ pc[w] \in {"payload", "reference"} => \A o \in ItemsOf(w) : o.id \notin registered
    /\ pc[w] \notin {"payload", "reference", "dead"} => artifacts[ArtifactOf(w)] = "stored"
    /\ pc[w] \in {"resolve", "load", "write", "replace", "check", "record", "bundle", "run"} => Current(w).id \in registered
    /\ pc[w] = "bundle" => evidence[ArtifactOf(w)] = "record"
    /\ pc[w] = "run" => evidence[ArtifactOf(w)] = "whole"
    /\ \A o \in ItemsOf(w) :
          /\ o.id \in registered => artifacts[ArtifactOf(w)] = "stored"
          /\ result[o.id] = "resolved" => o.id \in registered /\ evidence[ArtifactOf(w)] = "whole"
    /\ deployment = "embedded" => pc[w] = "dead"

LEMMA Own ==
  ASSUME NEW w \in Worker
  PROVE  /\ ArtifactOf(w) \in Artifact
         /\ \A o \in ItemsOf(w) : o.artifact = ArtifactOf(w) /\ o \in Observations /\ o.id \in ObservationId
         /\ index[w] \in DOMAIN Batch[w] => Current(w) \in ItemsOf(w)
         /\ \A v \in Worker \ {w} :
               ArtifactOf(v) # ArtifactOf(w) /\ \A o \in ItemsOf(v), q \in ItemsOf(w) : o.id # q.id
<1>1. ASSUME NEW v \in Worker PROVE Batch[v][1] \in ItemsOf(v)
  <2>1. 1 \in DOMAIN Batch[v]
    BY BatchTyped, EmptySeq, KnowledgeAssumption
  <2> QED BY <2>1 DEF ItemsOf
<1>2. \A o \in ItemsOf(w) : o \in Observations /\ o.id \in ObservationId /\ o.artifact \in Artifact
  BY DEF Observations, ObservationId, Artifact
<1>3. \A o \in ItemsOf(w) : o.artifact = ArtifactOf(w)
  BY <1>1, KnowledgeAssumption DEF ArtifactOf
<1>4. index[w] \in DOMAIN Batch[w] => Current(w) \in ItemsOf(w)
  BY DEF Current, ItemsOf
<1>5. ASSUME NEW v \in Worker \ {w}
      PROVE  ArtifactOf(v) # ArtifactOf(w) /\ \A o \in ItemsOf(v), q \in ItemsOf(w) : o.id # q.id
  <2>1. \A o \in ItemsOf(v), q \in ItemsOf(w) : o.artifact # q.artifact /\ (o.id = q.id => o = q)
    BY KnowledgeAssumption
  <2> QED BY <1>1, <2>1 DEF ArtifactOf
<1> QED BY <1>1, <1>2, <1>3, <1>4, <1>5

\* A step that leaves alone what a worker has keeps what the worker knows.
LEMMA KeptAside ==
  ASSUME NEW v \in Worker, Kept(v), deployment' = deployment,
         pc'[v] = pc[v], index'[v] = index[v], artifacts'[ArtifactOf(v)] = artifacts[ArtifactOf(v)],
         evidence'[ArtifactOf(v)] = evidence[ArtifactOf(v)],
         \A o \in ItemsOf(v) : (o.id \in registered' <=> o.id \in registered) /\ result'[o.id] = result[o.id],
         pc[v] \notin {"payload", "reference", "register", "dead"} => index[v] \in DOMAIN Batch[v]
  PROVE  Kept(v)'
<1>1. ItemsOf(v)' = ItemsOf(v) /\ ArtifactOf(v)' = ArtifactOf(v)
  BY DEF ItemsOf, ArtifactOf
<1>2. Current(v)' = Current(v)
  BY DEF Current
<1>3. pc[v] \notin {"payload", "reference", "register", "dead"} => Current(v) \in ItemsOf(v)
  BY Own
<1> QED BY <1>1, <1>2, <1>3 DEF Kept

LEMMA SettledKept ==
  ASSUME Typed, NEW w \in Worker, Kept(w), index[w] \in DOMAIN Batch[w], pc[w] \notin {"payload", "reference", "dead"},
         NEW s, Settle(w, s), s = "resolved" => pc[w] = "run",
         deployment' = deployment, artifacts' = artifacts, registered' \in {registered, registered \union {Current(w).id}},
         evidence'[ArtifactOf(w)] = evidence[ArtifactOf(w)] \/ evidence[ArtifactOf(w)] # "whole"
  PROVE  Kept(w)'
<1>1. ItemsOf(w)' = ItemsOf(w) /\ ArtifactOf(w)' = ArtifactOf(w)
  BY DEF ItemsOf, ArtifactOf
<1>2. Current(w) \in ItemsOf(w) /\ Current(w).id \in ObservationId
  BY Own
<1>3. pc'[w] = "register" /\ \A o \in ItemsOf(w) : result'[o.id] = IF o.id = Current(w).id THEN s ELSE result[o.id]
  BY Own DEF Settle, Goto, Typed, TypeOK, Process
<1>4. s = "resolved" => Current(w).id \in registered /\ evidence[ArtifactOf(w)] = "whole" /\ evidence'[ArtifactOf(w)] = "whole"
  BY DEF Kept
<1> QED BY <1>1, <1>2, <1>3, <1>4 DEF Kept

\* The step of a worker leaves alone what the others have.
LEMMA OthersKept ==
  ASSUME Typed, NEW w \in Worker, NEW v \in Worker \ {w}, Kept(v), Capture(w) \/ Ingest(w)
  PROVE  Kept(v)'
<1>1. /\ ArtifactOf(v) # ArtifactOf(w) /\ ArtifactOf(v) \in Artifact /\ ArtifactOf(w) \in Artifact
      /\ \A o \in ItemsOf(v) : o.id \in ObservationId
      /\ w \in Process /\ v \in Process /\ pc \in [Process -> Step] /\ index \in [Worker -> Nat \ {0}]
      /\ artifacts \in [Artifact -> ArtifactState] /\ evidence \in [Artifact -> EvidenceState]
      /\ result \in [ObservationId -> Status]
  BY Own DEF Typed, TypeOK, Process
<1>2. index[w] \in DOMAIN Batch[w]
  BY DEF Typed, AtItem, Capture, StorePayload, StoreReference, Ingest, Register, RegisterFails, ResolveListing, Check, Record, Bundle,
     PublishFails, Run
<1>3. Current(w).artifact = ArtifactOf(w) /\ \A o \in ItemsOf(v) : o.id # Current(w).id
  BY <1>2, Own
<1>4. pc[v] \notin {"payload", "reference", "register", "dead"} => index[v] \in DOMAIN Batch[v]
  BY DEF Typed, AtItem
<1>5. CASE Capture(w)
  BY <1>1, <1>3, <1>4, <1>5, KeptAside DEF Capture, StorePayload, StoreReference, Goto, worker
<1>6. ASSUME NEW s, Settle(w, s)
      PROVE  pc'[v] = pc[v] /\ index'[v] = index[v] /\ \A o \in ItemsOf(v) : result'[o.id] = result[o.id]
  BY <1>1, <1>3, <1>6 DEF Settle, Goto
<1>7. ASSUME NEW s, Goto(w, s), UNCHANGED worker
      PROVE  pc'[v] = pc[v] /\ index'[v] = index[v] /\ \A o \in ItemsOf(v) : result'[o.id] = result[o.id]
  BY <1>1, <1>7 DEF Goto, worker
<1>8. CASE Register(w)
  <2>1. pc'[v] = pc[v] /\ index'[v] = index[v] /\ \A o \in ItemsOf(v) : result'[o.id] = result[o.id]
    BY <1>6, <1>7, <1>8 DEF Register
  <2> QED BY <1>1, <1>3, <1>4, <1>8, <2>1, KeptAside DEF Register, Recorded
<1>12. CASE RegisterFails(w)
  <2>1. pc'[v] = pc[v] /\ index'[v] = index[v] /\ \A o \in ItemsOf(v) : result'[o.id] = result[o.id]
    BY <1>6, <1>12 DEF RegisterFails
  <2> QED BY <1>1, <1>4, <1>12, <2>1, KeptAside DEF RegisterFails, files
<1>9. CASE ResolveListing(w)
  <2>1. pc'[v] = pc[v] /\ index'[v] = index[v] /\ \A o \in ItemsOf(v) : result'[o.id] = result[o.id]
    BY <1>1, <1>6, <1>9 DEF ResolveListing, Goto
  <2> QED BY <1>1, <1>4, <1>9, <2>1, KeptAside DEF ResolveListing, files
<1>10. CASE Check(w) \/ Run(w)
  <2>1. pc'[v] = pc[v] /\ index'[v] = index[v] /\ \A o \in ItemsOf(v) : result'[o.id] = result[o.id]
    BY <1>6, <1>7, <1>10 DEF Check, Run
  <2> QED BY <1>1, <1>4, <1>10, <2>1, KeptAside DEF Check, Run, files
<1>11. CASE Record(w) \/ Bundle(w) \/ PublishFails(w)
  <2>1. pc'[v] = pc[v] /\ index'[v] = index[v] /\ \A o \in ItemsOf(v) : result'[o.id] = result[o.id]
    BY <1>6, <1>7, <1>11 DEF Record, Bundle, PublishFails
  <2>2. evidence'[ArtifactOf(v)] = evidence[ArtifactOf(v)]
    BY <1>1, <1>3, <1>11 DEF Record, Bundle, PublishFails, CutShort
  <2> QED BY <1>1, <1>4, <1>11, <2>1, <2>2, KeptAside DEF Record, Bundle, PublishFails
<1> QED BY <1>5, <1>8, <1>9, <1>10, <1>11, <1>12 DEF Ingest

LEMMA OwnKept ==
  ASSUME Typed, NEW w \in Worker, Kept(w), Capture(w) \/ Ingest(w)
  PROVE  Kept(w)'
<1>1. /\ ArtifactOf(w) \in Artifact /\ w \in Process /\ pc \in [Process -> Step]
      /\ artifacts \in [Artifact -> ArtifactState] /\ evidence \in [Artifact -> EvidenceState]
  BY Own DEF Typed, TypeOK, Process
<1>2. index[w] \in DOMAIN Batch[w]
  BY DEF Typed, AtItem, Capture, StorePayload, StoreReference, Ingest, Register, RegisterFails, ResolveListing, Check, Record, Bundle,
     PublishFails, Run
<1>3. Current(w).artifact = ArtifactOf(w) /\ Current(w) \in ItemsOf(w)
  BY <1>2, Own
<1>4. ItemsOf(w)' = ItemsOf(w) /\ ArtifactOf(w)' = ArtifactOf(w)
  BY DEF ItemsOf, ArtifactOf
<1>5. CASE Capture(w)
  BY <1>1, <1>3, <1>4, <1>5 DEF Capture, StorePayload, StoreReference, Goto, worker, Kept
<1>6. ASSUME NEW s, Settle(w, s), s # "resolved",
             Register(w) \/ RegisterFails(w) \/ ResolveListing(w) \/ Check(w) \/ Record(w) \/ PublishFails(w)
      PROVE  Kept(w)'
  <2>1. /\ pc[w] \notin {"payload", "reference", "dead"} /\ deployment' = deployment /\ artifacts' = artifacts
        /\ registered' \in {registered, registered \union {Current(w).id}}
    BY <1>6 DEF Register, RegisterFails, Recorded, ResolveListing, Check, Record, PublishFails, files
  <2>2. evidence'[ArtifactOf(w)] = evidence[ArtifactOf(w)] \/ evidence[ArtifactOf(w)] # "whole"
    BY <1>1, <1>3, <1>6 DEF Register, RegisterFails, ResolveListing, Check, Record, PublishFails, files, CutShort, Kept
  <2> QED BY <1>2, <1>6, <2>1, <2>2, SettledKept
<1>7. ASSUME NEW s \in {"resolve", "load", "record", "bundle", "run"}, Goto(w, s), UNCHANGED <<index, result>>
      PROVE  Current(w)' = Current(w) /\ pc'[w] = s /\ result' = result
  BY <1>1, <1>7 DEF Goto, Current
<1>8. CASE Register(w)
  <2>1. CASE \E s \in {"association_unresolved"} : Settle(w, s)
    BY <1>6, <1>8, <2>1
  <2>2. CASE Goto(w, "resolve") /\ UNCHANGED worker
    BY <1>3, <1>4, <1>7, <1>8, <2>2 DEF Register, Recorded, worker, Kept
  <2> QED BY <1>8, <2>1, <2>2 DEF Register
<1>15. CASE RegisterFails(w)
  <2>1. CASE \E s \in {"observation_registration_failed"} : Settle(w, s)
    BY <1>6, <1>15, <2>1
  <2> QED BY <1>15, <2>1 DEF RegisterFails
<1>9. CASE ResolveListing(w)
  <2>1. CASE \E s \in {"association_unresolved"} : Settle(w, s)
    BY <1>6, <1>9, <2>1
  <2>2. CASE Goto(w, "load") /\ UNCHANGED <<index, result>>
    BY <1>3, <1>4, <1>7, <1>9, <2>2 DEF ResolveListing, files, Kept
  <2> QED BY <1>9, <2>1, <2>2 DEF ResolveListing
<1>10. CASE Check(w)
  <2>1. CASE \E s \in {"association_unresolved"} : Settle(w, s)
    BY <1>6, <1>10, <2>1
  <2>2. CASE Goto(w, "record") /\ UNCHANGED worker
    BY <1>3, <1>4, <1>7, <1>10, <2>2 DEF Check, files, worker, Kept
  <2> QED BY <1>10, <2>1, <2>2 DEF Check
<1>11. CASE Record(w)
  <2>1. CASE \E s \in {"evidence_publication_failed"} : Settle(w, s)
    BY <1>6, <1>11, <2>1
  <2>2. CASE Goto(w, IF evidence[ArtifactOf(w)] = "whole" THEN "run" ELSE "bundle") /\ UNCHANGED worker
             /\ evidence[ArtifactOf(w)] # "torn"
    <3>1. evidence'[ArtifactOf(w)] = IF evidence[ArtifactOf(w)] = "whole" THEN "whole" ELSE "record"
      BY <1>1, <1>3, <1>11, <2>2 DEF Record, EvidenceState
    <3> QED BY <1>3, <1>4, <1>7, <1>11, <2>2, <3>1 DEF Record, worker, Kept
  <2> QED BY <1>3, <1>11, <2>1, <2>2 DEF Record
<1>12. CASE Bundle(w)
  <2>1. evidence'[ArtifactOf(w)] = "whole" /\ Goto(w, "run") /\ UNCHANGED <<index, result>>
    BY <1>1, <1>3, <1>12 DEF Bundle, worker
  <2> QED BY <1>3, <1>4, <1>7, <1>12, <2>1 DEF Bundle, Kept
<1>13. CASE PublishFails(w)
  <2>1. CASE \E s \in {"evidence_publication_failed"} : Settle(w, s)
    BY <1>6, <1>13, <2>1
  <2> QED BY <1>13, <2>1 DEF PublishFails
<1>14. CASE Run(w)
  <2>1. PICK s \in Status : Settle(w, s)
    BY <1>14, ExecutedTyped DEF Run
  <2>2. pc[w] = "run" /\ deployment' = deployment /\ artifacts' = artifacts /\ registered' = registered /\ evidence' = evidence
    BY <1>14 DEF Run, files
  <2> QED BY <1>2, <2>1, <2>2, SettledKept
<1> QED BY <1>5, <1>8, <1>9, <1>10, <1>11, <1>12, <1>13, <1>14, <1>15 DEF Ingest

LEMMA StoreKept ==
  ASSUME Typed, NEW p \in Process, Store(p), NEW v \in Worker, Kept(v)
  PROVE  Kept(v)'
<1>1. /\ UNCHANGED <<deployment, artifacts, evidence, registered>> /\ pc[p] \in {"load", "write", "replace"}
      /\ \/ Refuse(p) \/ Stored(p)
         \/ /\ Goto(p, "write") \/ Goto(p, "replace")
            /\ UNCHANGED <<index, result>>
  BY DEF Store, Load, Write, Replace, files, worker
<1>2. /\ v \in Process /\ pc \in [Process -> Step] /\ index \in [Worker -> Nat \ {0}]
      /\ result \in [ObservationId -> Status]
      /\ \A o \in ItemsOf(v) : o.id \in ObservationId
  BY Own DEF Typed, TypeOK, Process
<1>3. pc[v] \notin {"payload", "reference", "register", "dead"} => index[v] \in DOMAIN Batch[v]
  BY DEF Typed, AtItem
<1>4. CASE p # v
  <2>1. pc'[v] = pc[v] /\ index'[v] = index[v]
    BY <1>1, <1>2, <1>4 DEF Refuse, Stored, Settle, Goto
  <2>2. \A o \in ItemsOf(v) : result'[o.id] = result[o.id]
    <3>1. CASE p \in Worker /\ Settle(p, "association_persistence_failed")
      <4>1. index[p] \in DOMAIN Batch[p]
        BY <1>1, <3>1 DEF Typed, AtItem
      <4>2. \A o \in ItemsOf(v) : o.id # Current(p).id
        BY <1>4, <3>1, <4>1, Own
      <4> QED BY <1>2, <3>1, <4>2 DEF Settle
    <3>2. CASE result' = result
      BY <3>2
    <3> QED BY <1>1, <3>1, <3>2 DEF Refuse, Stored
  <2> QED BY <1>1, <1>3, <2>1, <2>2, KeptAside
<1>5. CASE p = v
  <2>1. CASE Settle(v, "association_persistence_failed")
    <3>1. /\ pc[v] \notin {"payload", "reference", "dead"} /\ index[v] \in DOMAIN Batch[v]
          /\ registered' \in {registered, registered \union {Current(v).id}}
          /\ evidence'[ArtifactOf(v)] = evidence[ArtifactOf(v)]
      BY <1>1, <1>3, <1>5
    <3>2. "association_persistence_failed" # "resolved"
      OBVIOUS
    <3> QED BY <1>1, <2>1, <3>1, <3>2, SettledKept
  <2>2. ASSUME NEW s \in {"write", "replace", "check"}, Goto(v, s), UNCHANGED <<index, result>> PROVE Kept(v)'
    <3>1. ItemsOf(v)' = ItemsOf(v) /\ ArtifactOf(v)' = ArtifactOf(v) /\ Current(v)' = Current(v) /\ pc'[v] = s
      BY <1>2, <2>2 DEF ItemsOf, ArtifactOf, Current, Goto
    <3> QED BY <1>1, <1>5, <2>2, <3>1 DEF Kept
  <2>3. Settle(v, "association_persistence_failed")
        \/ \E s \in {"write", "replace", "check"} : Goto(v, s) /\ UNCHANGED <<index, result>>
    BY <1>1, <1>5 DEF Refuse, Stored
  <2> QED BY <2>1, <2>2, <2>3
<1> QED BY <1>4, <1>5

LEMMA CrashKept ==
  ASSUME Typed, NEW p \in Process, Crash(p), NEW v \in Worker, Kept(v)
  PROVE  Kept(v)'
<1>1. /\ UNCHANGED <<deployment, artifacts, registered, index, result>> /\ pc[p] # "dead"
      /\ pc' = [pc EXCEPT ![p] = IF p \in Worker THEN "dead" ELSE "idle"]
      /\ p \notin Worker => evidence' = evidence
      /\ p \in Worker => evidence' \in CutShort(p) /\ index[p] \in DOMAIN Batch[p]
  BY DEF Crash, Goto
<1>2. /\ v \in Process /\ pc \in [Process -> Step] /\ evidence \in [Artifact -> EvidenceState]
      /\ ArtifactOf(v) \in Artifact
  BY Own DEF Typed, TypeOK, Process
<1>3. pc[v] \notin {"payload", "reference", "register", "dead"} => index[v] \in DOMAIN Batch[v]
  BY DEF Typed, AtItem
<1>4. CASE p # v
  <2>1. evidence'[ArtifactOf(v)] = evidence[ArtifactOf(v)]
    <3>1. CASE p \in Worker
      <4>1. ArtifactOf(v) # Current(p).artifact /\ Current(p).artifact \in Artifact
        BY <1>1, <1>4, <3>1, Own
      <4> QED BY <1>1, <1>2, <3>1, <4>1 DEF CutShort
    <3> QED BY <1>1, <3>1
  <2> QED BY <1>1, <1>2, <1>3, <1>4, <2>1, KeptAside
<1>5. CASE p = v
  <2>1. ItemsOf(v)' = ItemsOf(v) /\ ArtifactOf(v)' = ArtifactOf(v) /\ pc'[v] = "dead"
    BY <1>1, <1>2, <1>5 DEF ItemsOf, ArtifactOf
  <2>2. Current(v).artifact = ArtifactOf(v)
    BY <1>1, <1>5, Own
  <2>3. evidence'[ArtifactOf(v)] = evidence[ArtifactOf(v)] \/ evidence[ArtifactOf(v)] # "whole"
    BY <1>1, <1>5, <2>2 DEF CutShort, Kept
  <2> QED BY <1>1, <2>1, <2>3 DEF Kept
<1> QED BY <1>4, <1>5

\* An observation that is registered has its artifact stored, and one that was
\* reported as resolved is registered and has evidence that can be read, for
\* any batches, interleavings, failing writes and crashes.
THEOREM ResolvedAlwaysRecorded == Spec => []ResolvedIsRecorded
<1> DEFINE AllKept == \A v \in Worker : Kept(v)
<1>1. Init => Typed /\ AllKept
  <2> SUFFICES ASSUME Init, NEW v \in Worker PROVE Kept(v)
    BY InitTyped
  <2>1. v \in Process /\ ArtifactOf(v) \in Artifact /\ \A o \in ItemsOf(v) : o.id \in ObservationId
    BY Own DEF Process
  <2> QED BY <2>1 DEF Init, Kept
<1>2. Typed /\ AllKept /\ [Next]_vars => Typed' /\ AllKept'
  <2> SUFFICES ASSUME Typed, AllKept, [Next]_vars, NEW v \in Worker PROVE Kept(v)'
    BY TypedInductive
  <2>1. ASSUME NEW w \in Worker, Capture(w) \/ Ingest(w) PROVE Kept(v)'
    BY <2>1, OwnKept, OthersKept
  <2>2. ASSUME NEW p \in Process, Store(p) PROVE Kept(v)'
    BY <2>2, StoreKept
  <2>3. ASSUME NEW p \in Process, Crash(p) PROVE Kept(v)'
    BY <2>3, CrashKept
  <2>4. CASE Populate
    <3>1. /\ UNCHANGED <<deployment, artifacts, evidence, registered, index, result>>
          /\ pc' = pc \/ \E s \in Step : pc' = [pc EXCEPT ![Operator] = s]
      BY <2>4 DEF Populate, Import, ImportEntity, ImportAssociation, ImportEnds, Goto, files, worker, Step
    <3>2. pc'[v] = pc[v]
      BY <3>1, KnowledgeAssumption DEF Typed, TypeOK, Process
    <3> QED BY <3>1, <3>2, KeptAside DEF Typed, AtItem
  <2>5. ASSUME NEW o \in Observations, NEW g, NEW resolution, Submit(o, g, resolution) PROVE Kept(v)'
    <3>1. pc[v] = "dead" /\ pc' = pc /\ UNCHANGED <<deployment, artifacts, registered, index, result>>
      BY <2>5 DEF Submit, Kept, worker
    <3>2. evidence'[ArtifactOf(v)] = evidence[ArtifactOf(v)] \/ evidence'[ArtifactOf(v)] = "whole"
      BY <2>5, Own DEF Submit, Typed, TypeOK, Artifact
    <3>3. ItemsOf(v)' = ItemsOf(v) /\ ArtifactOf(v)' = ArtifactOf(v)
      BY DEF ItemsOf, ArtifactOf
    <3> QED BY <3>1, <3>2, <3>3 DEF Kept
  <2>6. CASE UNCHANGED vars
    BY <2>6, KeptAside DEF vars, files, worker, Typed, AtItem
  <2> QED BY <2>1, <2>2, <2>3, <2>4, <2>5, <2>6 DEF Next
<1>3. AllKept => ResolvedIsRecorded
  <2> SUFFICES ASSUME AllKept, NEW o \in Observations
               PROVE  /\ o.id \in registered => artifacts[o.artifact] = "stored"
                      /\ result[o.id] = "resolved" => o.id \in registered /\ evidence[o.artifact] = "whole"
    BY DEF ResolvedIsRecorded
  <2>1. PICK w \in Worker : o \in ItemsOf(w)
    BY DEF Observations
  <2> QED BY <2>1, Own DEF Kept
<1> QED BY <1>1, <1>2, <1>3, PTL DEF Spec

------------------------------------------------------------------------------
(* What the orchestrator asserts is justified.  First the matchers: the order *)
(* of signals is strict, so that finitely many products have a strongest.    *)

SignalType == [total : Nat, brand : Nat, family : Nat, category : Nat, attribute : Nat]

\* The comparison field by field, written out.
LEMMA Ranking ==
  ASSUME NEW s \in SignalType, NEW t \in SignalType
  PROVE  Outranks(s, t) <=>
            \/ s.total > t.total
            \/ s.total = t.total /\ s.brand > t.brand
            \/ s.total = t.total /\ s.brand = t.brand /\ s.family > t.family
            \/ s.total = t.total /\ s.brand = t.brand /\ s.family = t.family /\ s.category > t.category
            \/ s.total = t.total /\ s.brand = t.brand /\ s.family = t.family /\ s.category = t.category
               /\ s.attribute > t.attribute
<1> DEFINE O == Order
           Beats(i) == s[O[i]] > t[O[i]] /\ \A j \in 1..i - 1 : s[O[j]] = t[O[j]]
<1>1. /\ DOMAIN O = {1, 2, 3, 4, 5}
      /\ O[1] = "total" /\ O[2] = "brand" /\ O[3] = "family" /\ O[4] = "category" /\ O[5] = "attribute"
  BY DEF Order
<1>2. 1..1-1 = {} /\ 1..2-1 = {1} /\ 1..3-1 = {1, 2} /\ 1..4-1 = {1, 2, 3} /\ 1..5-1 = {1, 2, 3, 4}
  OBVIOUS
<1>3. Outranks(s, t) <=> \E i \in DOMAIN O : Beats(i)
  BY DEF Outranks
<1> HIDE DEF O
<1>4. Beats(1) <=> s.total > t.total
  BY <1>1, <1>2
<1>5. Beats(2) <=> s.total = t.total /\ s.brand > t.brand
  BY <1>1, <1>2
<1>6. Beats(3) <=> s.total = t.total /\ s.brand = t.brand /\ s.family > t.family
  BY <1>1, <1>2
<1>7. Beats(4) <=> s.total = t.total /\ s.brand = t.brand /\ s.family = t.family /\ s.category > t.category
  BY <1>1, <1>2
<1>8. Beats(5) <=> s.total = t.total /\ s.brand = t.brand /\ s.family = t.family /\ s.category = t.category
               /\ s.attribute > t.attribute
  BY <1>1, <1>2
<1> HIDE DEF Beats
<1>9. (\E i \in DOMAIN O : Beats(i)) <=> Beats(1) \/ Beats(2) \/ Beats(3) \/ Beats(4) \/ Beats(5)
  BY <1>1
<1> QED BY <1>3, <1>4, <1>5, <1>6, <1>7, <1>8, <1>9

LEMMA RankingIsStrict ==
  ASSUME NEW s \in SignalType, NEW t \in SignalType, NEW u \in SignalType
  PROVE  ~Outranks(s, s) /\ (Outranks(s, t) /\ Outranks(t, u) => Outranks(s, u))
<1> DEFINE Lex(x, y) ==
            \/ x.total > y.total
            \/ x.total = y.total /\ x.brand > y.brand
            \/ x.total = y.total /\ x.brand = y.brand /\ x.family > y.family
            \/ x.total = y.total /\ x.brand = y.brand /\ x.family = y.family /\ x.category > y.category
            \/ x.total = y.total /\ x.brand = y.brand /\ x.family = y.family /\ x.category = y.category
               /\ x.attribute > y.attribute
<1>1. \A x, y \in SignalType : Outranks(x, y) <=> Lex(x, y)
  BY Ranking
<1>2. \A x \in SignalType : x.total \in Nat /\ x.brand \in Nat /\ x.family \in Nat /\ x.category \in Nat /\ x.attribute \in Nat
  BY DEF SignalType
<1>3. ~Lex(s, s)
  BY <1>2
<1>4. Lex(s, t) /\ Lex(t, u) => Lex(s, u)
  BY <1>2
<1> HIDE DEF Lex
<1> QED BY <1>1, <1>3, <1>4

FiniteTexts(p) == \A t \in {p.brand, p.family, p.categories, p.attributes} : IsFiniteSet(t)

LEMMA SignalTyped ==
  ASSUME NEW p, FiniteTexts(p), NEW o
  PROVE  Signal(p, o) \in SignalType
<1>1. \A t : IsFiniteSet(t) => Overlap(t, MatchTokens(o)) \in Nat
  <2> SUFFICES ASSUME NEW t, IsFiniteSet(t) PROVE Overlap(t, MatchTokens(o)) \in Nat
    OBVIOUS
  <2>1. IsFiniteSet(t \intersect MatchTokens(o))
    BY FS_Intersection
  <2> QED BY <2>1, FS_CardinalityType DEF Overlap
<1> DEFINE b == Overlap(p.brand, MatchTokens(o))
           f == Overlap(p.family, MatchTokens(o))
           c == Overlap(p.categories, MatchTokens(o))
           a == Overlap(p.attributes, MatchTokens(o))
<1>2. b \in Nat /\ f \in Nat /\ c \in Nat /\ a \in Nat
  BY <1>1 DEF FiniteTexts
<1>3. Signal(p, o) = [total |-> b + f + c + a, brand |-> b, family |-> f, category |-> c, attribute |-> a]
  BY DEF Signal
<1> HIDE DEF b, f, c, a
<1> QED BY <1>2, <1>3 DEF SignalType

\* Of finitely many products one has a signal that none outranks.
LEMMA StrongestExists ==
  ASSUME NEW products, IsFiniteSet(products), products # {}, \A p \in products : FiniteTexts(p), NEW o
  PROVE  Strongest(products, o) # {}
<1> DEFINE S(p) == Signal(p, o)
           Above(p) == {q \in products : Outranks(S(q), S(p))}
           T == {Cardinality(Above(p)) : p \in products}
<1>1. \A p \in products : S(p) \in SignalType
  BY SignalTyped
<1>2. \A p \in products : IsFiniteSet(Above(p)) /\ Cardinality(Above(p)) \in Nat
  <2> SUFFICES ASSUME NEW p \in products PROVE IsFiniteSet(Above(p)) /\ Cardinality(Above(p)) \in Nat
    OBVIOUS
  <2>1. Above(p) \subseteq products
    OBVIOUS
  <2> HIDE DEF Above
  <2> QED BY <2>1, FS_Subset, FS_CardinalityType
<1>3. PICK m \in T : \A k \in T : m <= k
  <2>1. T \subseteq Nat /\ T # {}
    BY <1>2
  <2> HIDE DEF T
  <2> QED BY <2>1, Least
<1>4. PICK p \in products : m = Cardinality(Above(p))
  BY <1>3
<1>5. \A q \in products : ~Outranks(S(q), S(p))
  <2> SUFFICES ASSUME NEW q \in products, Outranks(S(q), S(p)) PROVE FALSE
    OBVIOUS
  <2>1. \A x \in products : Outranks(S(x), S(q)) => Outranks(S(x), S(p))
    <3> HIDE DEF S
    <3> QED BY <1>1, RankingIsStrict
  <2>2. ~Outranks(S(q), S(q))
    <3> HIDE DEF S
    <3> QED BY <1>1, RankingIsStrict
  <2>3. Above(q) \subseteq Above(p) /\ q \in Above(p) /\ q \notin Above(q)
    BY <2>1, <2>2
  <2> HIDE DEF Above
  <2>4. Above(q) # Above(p)
    BY <2>3
  <2>5. Cardinality(Above(q)) < Cardinality(Above(p))
    BY <1>2, <2>3, <2>4, FS_Subset
  <2>6. Cardinality(Above(p)) <= Cardinality(Above(q))
    BY <1>3, <1>4
  <2> QED BY <1>2, <2>5, <2>6
<1> QED BY <1>5 DEF Strongest

\* What the matchers select is of their candidates, and a variant of the product
\* that was matched before.
LEMMA ProductSelected ==
  ASSUME NEW products, IsFiniteSet(products), \A p \in products : FiniteTexts(p), NEW o,
         NEW m, m = MatchProduct(o, products)
  PROVE  \/ m.outcome # "mapped" /\ m.selected = {}
         \/ m.outcome = "mapped" /\ \E p \in products : m.selected = {p}
<1> DEFINE best == Strongest(products, o)
           p == CHOOSE p \in best : TRUE
<1>1. CASE m.outcome = "mapped"
  <2>1. products # {} /\ m.selected = {p}
    BY <1>1 DEF MatchProduct, Match
  <2>2. p \in best
    BY <2>1, StrongestExists
  <2> QED BY <1>1, <2>1, <2>2 DEF Strongest
<1>2. CASE m.outcome # "mapped"
  BY <1>2 DEF MatchProduct, Match
<1> QED BY <1>1, <1>2

LEMMA VariantSelected ==
  ASSUME NEW o, NEW product, NEW variants, NEW g, NEW m, m = MatchVariant(o, product, variants, g)
  PROVE  \/ m.outcome # "mapped" /\ m.selected = {}
         \/ /\ m.outcome = "mapped" /\ m.selected # {}
            /\ \A v \in m.selected : v \in variants /\ v.product = (CHOOSE p \in product : TRUE).id
<1> DEFINE p == CHOOSE p \in product : TRUE
           e == Evaluation(o, p, variants, g)
<1>1. \A v \in e.selected : v \in variants /\ v.product = p.id
  BY DEF Evaluation, Exact, Contradicted
<1>2. CASE Blocked(product, variants, g) # None
  <2>1. m.outcome = Blocked(product, variants, g) /\ m.selected = {}
    BY <1>2 DEF MatchVariant, Match
  <2> QED BY <1>2, <2>1 DEF Blocked
<1>3. CASE Blocked(product, variants, g) = None
  <2> HIDE DEF e, p
  <2>1. \/ m.outcome = "mapped" /\ m.selected = e.selected /\ e.selected # {}
        \/ m.outcome # "mapped" /\ m.selected = {}
    BY <1>3 DEF MatchVariant, Match, e, p
  <2> QED BY <1>1, <2>1 DEF p
<1> QED BY <1>2, <1>3

------------------------------------------------------------------------------
(* The managers: a revision that is once in is never taken out, an approval   *)
(* never withdrawn.                                                          *)

\* r is a revision of id, in states that are lists of revisions.
Has(states, id, r) == id \in DOMAIN states /\ r \in Elements(states[id])
Lists(states) == \A id \in DOMAIN states : states[id] \in Seq(Elements(states[id]))

\* A revision rests on evidence that is whole and on a decision: an approved
\* case that has the product, or a variant of the product.
Supported(r, reviews, whole, variants) ==
    /\ r.evidence # {} /\ r.evidence \subseteq whole
    /\ \A c \in r.decisions.cases :
          c \in DOMAIN reviews /\ reviews[c] = "approved" /\ r.decisions.product \in c.products
    /\ r.decisions.cases = {} =>
          \E v \in variants : v.id = r.decisions.variant /\ v.product = r.decisions.product

Managed(m, whole, variants) ==
    /\ m = [reviews |-> m.reviews, products |-> m.products, variants |-> m.variants]
    /\ Lists(m.products) /\ Lists(m.variants)
    /\ \A id, r : Has(m.products, id, r) => Supported(r, m.reviews, whole, variants)
    /\ \A v \in variants : v.id \in DOMAIN m.variants => v.product \in DOMAIN m.products
    /\ \A v \in variants : \A r : Has(m.variants, v.id, r) => Has(m.products, v.product, r)

LEMMA Extended ==
  ASSUME NEW s, s \in Seq(Elements(s)), NEW r
  PROVE  /\ Append(s, r) \in Seq(Elements(Append(s, r)))
         /\ Elements(Append(s, r)) = Elements(s) \union {r}
<1> DEFINE S == Elements(s) \union {r}
           t == Append(s, r)
<1>1. Len(s) \in Nat /\ DOMAIN s = 1..Len(s) /\ s \in Seq(S)
  <2>1. Len(s) \in Nat /\ DOMAIN s = 1..Len(s) /\ \A i \in 1..Len(s) : s[i] \in Elements(s)
    BY LenProperties, ElementOfSeq
  <2>2. s = [i \in 1..Len(s) |-> s[i]]
    BY <2>1
  <2> QED BY <2>1, <2>2
<1>2. r \in S
  OBVIOUS
<1> HIDE DEF S
<1>3. /\ t \in Seq(S) /\ Len(t) = Len(s) + 1
      /\ \A i \in 1..Len(s) : t[i] = s[i]
      /\ t[Len(s) + 1] = r
  BY <1>1, <1>2, AppendProperties
<1>4. DOMAIN t = 1..Len(s) + 1 /\ Len(t) \in Nat
  BY <1>1, <1>3, LenProperties
<1> HIDE DEF t
<1>5. Elements(t) = Elements(s) \union {r}
  <2>1. \A x \in Elements(t) : x \in Elements(s) \union {r}
    <3> SUFFICES ASSUME NEW i \in 1..Len(s) + 1 PROVE t[i] \in Elements(s) \union {r}
      BY <1>4 DEF Elements
    <3>1. CASE i = Len(s) + 1
      BY <1>3, <3>1
    <3>2. CASE i # Len(s) + 1
      <4>1. i \in 1..Len(s)
        BY <1>1, <3>2
      <4> QED BY <1>1, <1>3, <4>1 DEF Elements
    <3> QED BY <3>1, <3>2
  <2>2. \A x \in Elements(s) : x \in Elements(t)
    <3> SUFFICES ASSUME NEW i \in 1..Len(s) PROVE s[i] \in Elements(t)
      BY <1>1 DEF Elements
    <3>1. i \in DOMAIN t /\ t[i] = s[i]
      BY <1>1, <1>3, <1>4
    <3> QED BY <3>1 DEF Elements
  <2>3. r \in Elements(t)
    <3>1. Len(s) + 1 \in DOMAIN t
      BY <1>1, <1>4
    <3> QED BY <1>3, <3>1 DEF Elements
  <2> QED BY <2>1, <2>2, <2>3
<1>6. t \in Seq(Elements(t))
  <2>1. t = [i \in 1..Len(t) |-> t[i]] /\ \A i \in 1..Len(t) : t[i] \in Elements(t)
    BY <1>3, <1>4 DEF Elements
  <2> QED BY <1>4, <2>1
<1> QED BY <1>5, <1>6 DEF t

\* n are the states with the revision r of id.
Grown(states, id, r, n) ==
    /\ Lists(n)
    /\ DOMAIN n = DOMAIN states \union {id}
    /\ \A i, x : Has(n, i, x) <=> Has(states, i, x) \/ (i = id /\ x = r)

LEMMA Committed ==
  ASSUME NEW states, Lists(states), NEW id, NEW r
  PROVE  Grown(states, id, r, Commit(states, id, r))
<1> SUFFICES ASSUME NEW n, n = Commit(states, id, r) PROVE Grown(states, id, r, n)
  OBVIOUS
<1> DEFINE s == IF id \in DOMAIN states THEN states[id] ELSE <<>>
           t == IF s # <<>> /\ s[Len(s)] = r THEN s ELSE Append(s, r)
<1>1. n = [i \in DOMAIN states \union {id} |-> IF i = id THEN t ELSE states[i]]
  BY DEF Commit
<1>2. s \in Seq(Elements(s))
  BY EmptySeq DEF Lists
<1>3. \A x : x \in Elements(s) <=> Has(states, id, x)
  <2>1. Elements(<<>>) = {}
    BY DEF Elements
  <2> QED BY <2>1 DEF Has
<1> HIDE DEF s
<1>4. t \in Seq(Elements(t)) /\ Elements(t) = Elements(s) \union {r}
  <2>1. CASE s # <<>> /\ s[Len(s)] = r
    <3>1. Len(s) \in DOMAIN s
      BY <1>2, <2>1, LenProperties, EmptySeq
    <3> QED BY <1>2, <2>1, <3>1 DEF Elements
  <2>2. CASE ~(s # <<>> /\ s[Len(s)] = r)
    BY <1>2, <2>2, Extended
  <2> QED BY <2>1, <2>2
<1> HIDE DEF t
<1>5. /\ DOMAIN n = DOMAIN states \union {id}
      /\ n[id] = t
      /\ \A i \in DOMAIN states \ {id} : n[i] = states[i]
  BY <1>1
<1>6. Lists(n)
  BY <1>4, <1>5 DEF Lists
<1>7. \A i, x : Has(n, i, x) <=> Has(states, i, x) \/ (i = id /\ x = r)
  <2> SUFFICES ASSUME NEW i, NEW x PROVE Has(n, i, x) <=> Has(states, i, x) \/ (i = id /\ x = r)
    OBVIOUS
  <2>1. CASE i = id
    BY <1>3, <1>4, <1>5, <2>1 DEF Has
  <2>2. CASE i # id
    BY <1>5, <2>2 DEF Has
  <2> QED BY <2>1, <2>2
<1> QED BY <1>5, <1>6, <1>7 DEF Grown

\* Cases that were approved stay so.
StillApproved(reviews, later) ==
    \A c \in DOMAIN reviews : reviews[c] = "approved" => c \in DOMAIN later /\ later[c] = "approved"

LEMMA ReviewsKept ==
  ASSUME NEW reviews, NEW c
  PROVE  /\ c \in DOMAIN Enqueue(reviews, c)
         /\ StillApproved(reviews, Enqueue(reviews, c))
         /\ \A s : \A later \in Resolve(Enqueue(reviews, c), c, s) :
               StillApproved(reviews, later) /\ c \in DOMAIN later /\ later[c] = s
<1> DEFINE q == Enqueue(reviews, c)
<1>1. /\ DOMAIN q = DOMAIN reviews \union {c}
      /\ \A d \in DOMAIN reviews : q[d] = reviews[d]
  BY DEF Enqueue
<1> HIDE DEF q
<1>2. ASSUME NEW s, NEW later \in Resolve(q, c, s)
      PROVE  StillApproved(q, later) /\ c \in DOMAIN later /\ later[c] = s
  <2>1. CASE q[c] = s
    BY <1>1, <1>2, <2>1 DEF Resolve, StillApproved
  <2>2. CASE q[c] # s
    <3>1. s \in Transitions[q[c]] /\ later = [q EXCEPT ![c] = s]
      BY <1>2, <2>2 DEF Resolve
    <3>2. q[c] # "approved"
      BY <3>1 DEF Transitions, ReviewStatus
    <3> QED BY <1>1, <3>1, <3>2 DEF StillApproved
  <2> QED BY <2>1, <2>2
<1>3. StillApproved(reviews, q)
  BY <1>1 DEF StillApproved
<1>4. \A s : \A later \in Resolve(q, c, s) : StillApproved(reviews, later) /\ c \in DOMAIN later /\ later[c] = s
  BY <1>1, <1>2, <1>3 DEF StillApproved
<1> QED BY <1>1, <1>3, <1>4 DEF q

LEMMA ReviewedManaged ==
  ASSUME NEW m, NEW whole, NEW variants, Managed(m, whole, variants), NEW later, StillApproved(m.reviews, later)
  PROVE  LET n == [m EXCEPT !.reviews = later] IN
         /\ Managed(n, whole, variants)
         /\ n.reviews = later
<1> DEFINE n == [m EXCEPT !.reviews = later]
<1>1. n = [reviews |-> later, products |-> m.products, variants |-> m.variants]
  BY DEF Managed
<1>2. n.reviews = later /\ n.products = m.products /\ n.variants = m.variants
  BY <1>1
<1> HIDE DEF n
<1>3. \A r : Supported(r, m.reviews, whole, variants) => Supported(r, later, whole, variants)
  BY DEF Supported, StillApproved
<1>4. Managed(n, whole, variants)
  BY <1>1, <1>2, <1>3 DEF Managed
<1> QED BY <1>2, <1>4 DEF n

LEMMA AppliedManaged ==
  ASSUME NEW m, NEW whole, NEW variants, Managed(m, whole, variants),
         \A v, w \in variants : v.id = w.id => v = w,
         NEW p, NEW variant, variant \subseteq variants, NEW cited, NEW decisions,
         Supported(Revision(cited, decisions), m.reviews, whole, variants),
         NEW n \in Apply(m, p, variant, cited, decisions)
  PROVE  Managed(n, whole, variants)
<1> DEFINE r == Revision(cited, decisions)
           x == CHOOSE v \in variant : TRUE
           P == Commit(m.products, p.id, r)
           V == IF variant = {} THEN m.variants ELSE Commit(m.variants, x.id, r)
<1>1. Lists(m.products) /\ Lists(m.variants)
      /\ m = [reviews |-> m.reviews, products |-> m.products, variants |-> m.variants]
  BY DEF Managed
<1>2. \A v \in variant : v.product = p.id
  BY DEF Apply
<1>3. n = [m EXCEPT !.products = P, !.variants = V]
  BY DEF Apply
<1>4. /\ Lists(P) /\ DOMAIN P = DOMAIN m.products \union {p.id}
      /\ \A i, y : Has(P, i, y) <=> Has(m.products, i, y) \/ (i = p.id /\ y = r)
  <2>1. Grown(m.products, p.id, r, P)
    BY <1>1, Committed
  <2> HIDE DEF P, r
  <2> QED BY <2>1 DEF Grown
<1>5. /\ Lists(V)
      /\ \A i \in DOMAIN V : i \in DOMAIN m.variants \/ (variant # {} /\ i = x.id)
      /\ \A i, y : Has(V, i, y) => Has(m.variants, i, y) \/ (variant # {} /\ i = x.id /\ y = r)
  <2>1. CASE variant = {}
    BY <1>1, <2>1
  <2>2. CASE variant # {}
    <3>1. Grown(m.variants, x.id, r, Commit(m.variants, x.id, r))
      BY <1>1, Committed
    <3>2. Grown(m.variants, x.id, r, V)
      BY <2>2, <3>1
    <3> HIDE DEF V, x, r
    <3> QED BY <2>2, <3>2 DEF Grown
  <2> QED BY <2>1, <2>2
<1>6. variant # {} => x \in variant
  OBVIOUS
<1> HIDE DEF P, V, x
<1>7. n.reviews = m.reviews /\ n.products = P /\ n.variants = V
      /\ n = [reviews |-> m.reviews, products |-> P, variants |-> V]
  BY <1>1, <1>3
<1>8. \A id, y : Has(P, id, y) => Supported(y, m.reviews, whole, variants)
  BY <1>4 DEF Managed
<1>9. ASSUME NEW v \in variants
      PROVE  /\ v.id \in DOMAIN V => v.product \in DOMAIN P
             /\ \A y : Has(V, v.id, y) => Has(P, v.product, y)
  <2>1. variant # {} /\ v.id = x.id => v.product = p.id
    BY <1>2, <1>6
  <2> QED BY <1>4, <1>5, <2>1 DEF Managed
<1> QED BY <1>4, <1>5, <1>7, <1>8, <1>9 DEF Managed

\* Whatever an execution decides, the queue and the assertions it leaves are in order.
LEMMA ExecutedManaged ==
  ASSUME NEW s \in Snapshot, IsFiniteSet(s.products), \A p \in s.products : FiniteTexts(p),
         \A v, w \in s.variants : v.id = w.id => v = w,
         NEW m, NEW whole, Managed(m, whole, s.variants),
         NEW o, o.artifact \in whole, NEW g, NEW resolution
  PROVE  Managed(Execute(m, o, s, g, resolution).managers, whole, s.variants)
<1> DEFINE candidates == Candidates(o, s)
           product == MatchProduct(o, candidates.products)
           variant == MatchVariant(o, product.selected, candidates.variants, g)
           outcome == ReviewOutcome(product, variant)
           c == Case(o, candidates, outcome)
           p == CHOOSE p \in product.selected : TRUE
           v == CHOOSE v \in variant.selected : TRUE
<1>1. candidates.products \subseteq s.products /\ candidates.variants \subseteq s.variants
  BY DEF Candidates
<1>2. IsFiniteSet(candidates.products)
  BY <1>1, FS_Subset
<1>3. \/ product.outcome # "mapped" /\ product.selected = {}
      \/ product.outcome = "mapped" /\ \E q \in candidates.products : product.selected = {q}
  <2> HIDE DEF candidates
  <2> QED BY <1>1, <1>2, ProductSelected
<1>4. \/ variant.outcome # "mapped" /\ variant.selected = {}
      \/ /\ variant.outcome = "mapped" /\ variant.selected # {}
         /\ \A x \in variant.selected : x \in candidates.variants /\ x.product = p.id
  <2> HIDE DEF candidates, product
  <2> QED BY VariantSelected DEF p
<1>5. c.products = {q.id : q \in candidates.products}
  BY DEF Case
<1>6. Execute(m, o, s, g, resolution) =
         IF resolution = "queued" THEN Raised(m)
         ELSE IF RequiresReview(outcome) THEN Review(m, o, product, variant, c, resolution)
         ELSE IF resolution # None THEN Raised(m)
         ELSE AssertMatched(m, o, product, variant)
  BY DEF Execute
<1>7. outcome = IF product.outcome # "mapped" THEN product.outcome ELSE variant.outcome
  BY DEF ReviewOutcome, RequiresReview
<1> HIDE DEF candidates, product, variant, outcome, c
<1>8. product.selected # {} => p \in candidates.products
  BY <1>3
<1>9. variant.selected \subseteq s.variants
  BY <1>1, <1>4
<1>10. variant.selected # {} => v \in variant.selected
  OBVIOUS
<1> HIDE DEF p, v
<1>11. ASSUME NEW n, Managed(n, whole, s.variants), NEW decisions, Supported(Revision({o.artifact}, decisions), n.reviews, whole, s.variants),
              NEW after, after = Apply(n, p, variant.selected, {o.artifact}, decisions), after # {}
       PROVE  Managed(CHOOSE x \in after : TRUE, whole, s.variants)
  <2>1. PICK x : x = (CHOOSE y \in after : TRUE) /\ x \in after
    BY <1>11
  <2>2. Managed(x, whole, s.variants)
    BY <1>9, <1>11, <2>1, AppliedManaged
  <2> QED BY <2>1, <2>2
<1>12. CASE resolution = "queued" \/ (~RequiresReview(outcome) /\ resolution # None)
  BY <1>6, <1>12 DEF Raised, RequiresReview
<1>13. CASE resolution # "queued" /\ RequiresReview(outcome)
  <2> DEFINE queued == [m EXCEPT !.reviews = Enqueue(@, c)]
             later == Resolve(queued.reviews, c, resolution)
             r == CHOOSE r \in later : TRUE
             next == [queued EXCEPT !.reviews = r]
  <2>1. Execute(m, o, s, g, resolution) = Review(m, o, product, variant, c, resolution)
    BY <1>6, <1>13
  <2>2. m = [reviews |-> m.reviews, products |-> m.products, variants |-> m.variants]
    BY DEF Managed
  <2>3. queued.reviews = Enqueue(m.reviews, c) /\ Managed(queued, whole, s.variants)
    BY ReviewsKept, ReviewedManaged
  <2>4. CASE resolution = None \/ later = {}
    <3> HIDE DEF r
    <3> QED BY <2>1, <2>3, <2>4 DEF Review, Raised
  <2>5. CASE resolution # None /\ later # {}
    <3>1. r \in Resolve(Enqueue(m.reviews, c), c, resolution)
      BY <2>3, <2>5
    <3> HIDE DEF r
    <3>2. StillApproved(m.reviews, r) /\ c \in DOMAIN r /\ r[c] = resolution
      BY <3>1, ReviewsKept
    <3>3. next = [m EXCEPT !.reviews = r]
      BY <2>2
    <3>4. Managed(next, whole, s.variants) /\ next.reviews = r
      BY <3>2, <3>3, ReviewedManaged
    <3> HIDE DEF next
    <3>5. Review(m, o, product, variant, c, resolution) =
             IF resolution = "approved" THEN AssertReviewed(next, o, product, variant, c)
             ELSE [outcome |-> "completed_without_assertion", managers |-> next]
      BY <2>5 DEF Review, next, r
    <3>6. CASE resolution # "approved"
      BY <2>1, <3>4, <3>5, <3>6
    <3>7. CASE resolution = "approved"
      <4> DEFINE decisions == [cases |-> {c}, product |-> p.id, variant |-> variant.outcome]
                 set == Apply(next, p, variant.selected, {o.artifact}, decisions)
      <4>1. AssertReviewed(next, o, product, variant, c) =
               IF product.selected = {} THEN [outcome |-> "completed_without_assertion", managers |-> next]
               ELSE IF set = {} THEN Raised(next)
               ELSE [outcome |-> "asserted", managers |-> CHOOSE n \in set : TRUE]
        BY DEF AssertReviewed, p
      <4>2. CASE product.selected = {} \/ set = {}
        <5> HIDE DEF set
        <5> QED BY <2>1, <3>4, <3>5, <3>7, <4>1, <4>2 DEF Raised
      <4>3. CASE product.selected # {} /\ set # {}
        <5>1. p.id \in c.products
          BY <1>5, <1>8, <4>3
        <5>2. Supported(Revision({o.artifact}, decisions), next.reviews, whole, s.variants)
          BY <3>2, <3>4, <3>7, <5>1 DEF Supported, Revision
        <5> HIDE DEF decisions
        <5>3. Managed(CHOOSE n \in set : TRUE, whole, s.variants)
          BY <1>11, <3>4, <4>3, <5>2
        <5> HIDE DEF set
        <5> QED BY <2>1, <3>5, <3>7, <4>1, <4>3, <5>3
      <4> QED BY <4>2, <4>3
    <3> QED BY <3>6, <3>7
  <2> QED BY <2>4, <2>5
<1>14. CASE resolution = None /\ ~RequiresReview(outcome)
  <2> DEFINE decisions == [cases |-> {}, product |-> p.id, variant |-> v.id]
             set == Apply(m, p, variant.selected, {o.artifact}, decisions)
  <2>1. Execute(m, o, s, g, resolution) = AssertMatched(m, o, product, variant)
    BY <1>6, <1>14 DEF None
  <2>2. AssertMatched(m, o, product, variant) =
           IF set = {} THEN Raised(m) ELSE [outcome |-> "asserted", managers |-> CHOOSE n \in set : TRUE]
    BY DEF AssertMatched, p, v
  <2>3. CASE set = {}
    <3> HIDE DEF set
    <3> QED BY <2>1, <2>2, <2>3 DEF Raised
  <2>4. CASE set # {}
    <3>1. v \in s.variants /\ v.product = p.id
      BY <1>1, <1>4, <1>7, <1>10, <1>14 DEF RequiresReview
    <3>2. Supported(Revision({o.artifact}, decisions), m.reviews, whole, s.variants)
      BY <3>1 DEF Supported, Revision
    <3> HIDE DEF decisions
    <3>3. Managed(CHOOSE n \in set : TRUE, whole, s.variants)
      BY <1>11, <2>4, <3>2
    <3> HIDE DEF set
    <3> QED BY <2>1, <2>2, <2>4, <3>3
  <2> QED BY <2>3, <2>4
<1> QED BY <1>12, <1>13, <1>14

------------------------------------------------------------------------------
\* An orchestrator that is embedded works alone, on a snapshot that stays.
Embedded ==
    /\ deployment = "runtime" => managers = NoManagers
    /\ deployment = "embedded" =>
          /\ catalog = Curated /\ \A p \in Process : pc[p] = "dead"
          /\ Managed(managers, {a \in Artifact : evidence[a] = "whole"}, Curated.variants)

LEMMA WholeManaged ==
  ASSUME NEW m, NEW whole, NEW variants, Managed(m, whole, variants), NEW more, whole \subseteq more
  PROVE  Managed(m, more, variants)
<1>1. \A r, reviews : Supported(r, reviews, whole, variants) => Supported(r, reviews, more, variants)
  BY DEF Supported
<1> QED BY <1>1 DEF Managed

LEMMA EmbeddedInductive ==
  /\ Init => Embedded
  /\ Typed /\ Embedded /\ [Next]_vars => Embedded'
<1>1. ASSUME Init PROVE Embedded
  <2>1. Managed(NoManagers, {a \in Artifact : evidence[a] = "whole"}, Curated.variants)
    <3>1. DOMAIN <<>> = {}
      OBVIOUS
    <3> QED BY <3>1 DEF NoManagers, Managed, Lists, Has
  <2> QED BY <1>1, <2>1 DEF Init, Embedded
<1>2. ASSUME Typed, Embedded, [Next]_vars PROVE Embedded'
  <2>1. ASSUME NEW o \in Observations, NEW g, NEW resolution, Submit(o, g, resolution) PROVE Embedded'
    <3> DEFINE whole == {a \in Artifact : evidence[a] = "whole"}
               more == whole \union {o.artifact}
    <3>1. /\ deployment = "embedded" /\ deployment' = deployment /\ catalog' = catalog /\ pc' = pc
          /\ managers' = Execute(managers, o, Curated, g, resolution).managers
          /\ evidence' = [evidence EXCEPT ![o.artifact] = "whole"]
      BY <2>1 DEF Submit
    <3>2. o.artifact \in Artifact /\ evidence \in [Artifact -> EvidenceState]
      BY <1>2 DEF Artifact, Typed, TypeOK
    <3>3. {a \in Artifact : evidence[a] = "whole"}' = more
      BY <3>1, <3>2
    <3>4. Managed(managers, whole, Curated.variants) /\ catalog = Curated /\ \A p \in Process : pc[p] = "dead"
      BY <1>2, <3>1 DEF Embedded
    <3> HIDE DEF whole
    <3>5. Managed(managers, more, Curated.variants) /\ o.artifact \in more
      BY <3>4, WholeManaged
    <3> HIDE DEF more
    <3>6. Curated \in Snapshot /\ IsFiniteSet(Curated.products) /\ (\A p \in Curated.products : FiniteTexts(p))
          /\ \A v, w \in Curated.variants : v.id = w.id => v = w
      BY InputAssumption, NamesAssumption, FiniteAssumption DEF FiniteTexts
    <3>7. Managed(Execute(managers, o, Curated, g, resolution).managers, more, Curated.variants)
      BY <3>5, <3>6, ExecutedManaged
    <3> QED BY <3>1, <3>3, <3>4, <3>7 DEF Embedded
  <2>2. ASSUME UNCHANGED vars PROVE Embedded'
    BY <1>2, <2>2 DEF vars, files, worker, Embedded
  <2>3. ASSUME \/ \E w \in Worker : Capture(w) \/ Ingest(w)
               \/ \E p \in Process : Store(p) \/ Crash(p)
               \/ Populate
        PROVE  Embedded'
    <3>1. deployment' = deployment /\ managers' = managers
      <4>1. ASSUME NEW w \in Worker, Capture(w) \/ Ingest(w) PROVE deployment' = deployment /\ managers' = managers
        BY <4>1 DEF Capture, StorePayload, StoreReference, Ingest, Register, RegisterFails, ResolveListing, Check, Record, Bundle,
           PublishFails, Run
      <4>2. ASSUME NEW p \in Process, Store(p) \/ Crash(p) PROVE deployment' = deployment /\ managers' = managers
        BY <4>2 DEF Store, Load, Write, Replace, Crash
      <4>3. ASSUME Populate PROVE deployment' = deployment /\ managers' = managers
        BY <4>3 DEF Populate, Import, ImportEntity, ImportAssociation, ImportEnds
      <4> QED BY <2>3, <4>1, <4>2, <4>3
    <3>2. \E p \in Process : pc[p] # "dead"
      <4>1. ASSUME NEW w \in Worker, Capture(w) \/ Ingest(w) PROVE pc[w] # "dead" /\ w \in Process
        BY <4>1 DEF Capture, StorePayload, StoreReference, Ingest, Register, RegisterFails, ResolveListing, Check, Record, Bundle,
           PublishFails, Run, Process
      <4>2. ASSUME NEW p \in Process, Store(p) \/ Crash(p) PROVE pc[p] # "dead"
        BY <4>2 DEF Store, Load, Write, Replace, Crash
      <4>3. ASSUME Populate PROVE pc[Operator] # "dead" /\ Operator \in Process
        BY <4>3 DEF Populate, Import, ImportEntity, ImportAssociation, ImportEnds, Process
      <4> QED BY <2>3, <4>1, <4>2, <4>3
    <3>3. deployment = "runtime"
      BY <1>2, <3>2 DEF Embedded, Typed, TypeOK
    <3> QED BY <1>2, <3>1, <3>3 DEF Embedded
  <2> QED BY <1>2, <2>1, <2>2, <2>3 DEF Next
<1> QED BY <1>1, <1>2

\* No revision of an assertion is without evidence that can be read and a
\* decision that stands, and none of a variant is missing from its product,
\* whatever is submitted in whatever order.
THEOREM AssertionsStayJustified == Spec => []AssertionsAreJustified
<1>1. Init => Typed /\ Embedded
  BY InitTyped, EmbeddedInductive
<1>2. Typed /\ Embedded /\ [Next]_vars => Typed' /\ Embedded'
  BY TypedInductive, EmbeddedInductive
<1>3. Typed /\ Embedded => AssertionsAreJustified
  <2> SUFFICES ASSUME Typed, Embedded PROVE AssertionsAreJustified
    OBVIOUS
  <2>1. CASE deployment = "runtime"
    <3>1. DOMAIN <<>> = {} /\ managers.products = <<>> /\ managers.variants = <<>>
      BY <2>1 DEF Embedded, NoManagers
    <3> QED BY <3>1 DEF AssertionsAreJustified
  <2>2. CASE deployment = "embedded"
    <3> DEFINE whole == {a \in Artifact : evidence[a] = "whole"}
    <3>1. Managed(managers, whole, Curated.variants) /\ catalog = Curated
      BY <2>2 DEF Embedded
    <3>2. \A r : Supported(r, managers.reviews, whole, Curated.variants) => Justified(r)
      BY <3>1 DEF Supported, Justified
    <3> HIDE DEF whole
    <3>3. ASSUME NEW id \in DOMAIN managers.products, NEW i \in DOMAIN managers.products[id]
          PROVE  Justified(managers.products[id][i])
      <4>1. Has(managers.products, id, managers.products[id][i])
        BY DEF Has, Elements
      <4> QED BY <3>1, <3>2, <4>1 DEF Managed
    <3>4. ASSUME NEW v \in catalog.variants, v.id \in DOMAIN managers.variants
          PROVE  /\ v.product \in DOMAIN managers.products
                 /\ \A i \in DOMAIN managers.variants[v.id] :
                       \E j \in DOMAIN managers.products[v.product] :
                          managers.products[v.product][j] = managers.variants[v.id][i]
      <4>1. v.product \in DOMAIN managers.products
        BY <3>1, <3>4 DEF Managed
      <4>2. ASSUME NEW i \in DOMAIN managers.variants[v.id]
            PROVE  \E j \in DOMAIN managers.products[v.product] :
                      managers.products[v.product][j] = managers.variants[v.id][i]
        <5>1. Has(managers.variants, v.id, managers.variants[v.id][i])
          BY <3>4 DEF Has, Elements
        <5>2. Has(managers.products, v.product, managers.variants[v.id][i])
          BY <3>1, <5>1 DEF Managed
        <5> QED BY <5>2 DEF Has, Elements
      <4> QED BY <4>1, <4>2
    <3> QED BY <3>3, <3>4 DEF AssertionsAreJustified
  <2> QED BY <2>1, <2>2 DEF Typed, TypeOK
<1> QED BY <1>1, <1>2, <1>3, PTL DEF Spec

=============================================================================
