---------------------- MODULE ConsumerMutationsProofs ----------------------
(***************************************************************************)
(* Proofs about ConsumerMutations, for any clients, keys, lists, requests  *)
(* and bounds.                                                             *)
(***************************************************************************)
EXTENDS ConsumerMutations, FiniteSetTheorems, SequenceTheorems, TLAPS

-----------------------------------------------------------------------------
(* Types *)

Busy == {"select", "insert", "lock", "execute"}

\* What a client in each phase has: a request, one that names a list, a row of
\* that list, a list to read the items of.
Engaged ==
    \A c \in Client :
        /\ phase[c] \in Busy => request[c] \in Requests
        /\ phase[c] = "lock" => request[c].op # "create"
        /\ phase[c] = "execute" /\ request[c].op # "create" => copy[c].row \in ListRow
        /\ phase[c] = "reading" => view[c].list \in List /\ lists[view[c].list] # NoRow

Typed == TypeOK /\ Engaged

LEMMA RequestParts ==
  ASSUME NEW r \in Requests
  PROVE  /\ IdOf(r) \in Identity
         /\ r.op # "create" => r.list \in List
         /\ r.op = "add_item" => r.confirmed \in BOOLEAN
         /\ r.op \in {"add_item", "update_item"} => r.quantity \in Quantity
         /\ r.op \in {"update_item", "remove_item"} => r.item \in Item
<1>1. r \in Request
  BY RequestsAssumption
<1> QED BY <1>1 DEF Request, Identity, IdOf

Entry == [quantity : Quantity, confirmed : BOOLEAN]

LEMMA ItemsParts ==
  ASSUME NEW f
  PROVE  f \in Items <=> DOMAIN f \subseteq Item /\ f \in [DOMAIN f -> Entry]
BY DEF Items, Entry

LEMMA NoItems == <<>> \in Items
<1>1. <<>> \in Seq(Entry) /\ Len(<<>>) = 0
  OBVIOUS
<1>2. DOMAIN <<>> = {} /\ <<>> \in [1 .. Len(<<>>) -> Entry]
  BY <1>1, LenProperties
<1>3. <<>> \in [DOMAIN <<>> -> Entry]
  BY <1>2
<1> QED BY <1>2, <1>3, ItemsParts

LEMMA ItemAdded ==
  ASSUME NEW f \in Items, NEW i \in Item, NEW x \in Entry
  PROVE  [j \in DOMAIN f \union {i} |-> IF j = i THEN x ELSE f[j]] \in Items
<1> DEFINE g == [j \in DOMAIN f \union {i} |-> IF j = i THEN x ELSE f[j]]
<1>1. DOMAIN f \subseteq Item /\ f \in [DOMAIN f -> Entry]
  BY ItemsParts
<1>2. DOMAIN g \subseteq Item /\ g \in [DOMAIN g -> Entry]
  BY <1>1
<1> QED BY <1>2, ItemsParts

LEMMA ItemUpdated ==
  ASSUME NEW f \in Items, NEW i \in DOMAIN f, NEW q \in Quantity
  PROVE  [f EXCEPT ![i].quantity = q] \in Items
<1> DEFINE g == [f EXCEPT ![i].quantity = q]
<1>1. DOMAIN f \subseteq Item /\ f \in [DOMAIN f -> Entry]
  BY ItemsParts
<1>2. [f[i] EXCEPT !.quantity = q] \in Entry
  BY <1>1 DEF Entry
<1>3. DOMAIN g \subseteq Item /\ g \in [DOMAIN g -> Entry]
  BY <1>1, <1>2
<1> QED BY <1>3, ItemsParts

LEMMA ItemRemoved ==
  ASSUME NEW f \in Items, NEW i
  PROVE  [j \in DOMAIN f \ {i} |-> f[j]] \in Items
<1> DEFINE g == [j \in DOMAIN f \ {i} |-> f[j]]
<1>1. DOMAIN f \subseteq Item /\ f \in [DOMAIN f -> Entry]
  BY ItemsParts
<1>2. DOMAIN g \subseteq Item /\ g \in [DOMAIN g -> Entry]
  BY <1>1
<1> QED BY <1>2, ItemsParts

LEMMA NewListTyped == NewList \in ListRow /\ NewList.revision = 1 /\ NewList.items = <<>> /\ ~NewList.archived
BY NoItems DEF NewList, ListRow

Past == [archived : BOOLEAN, items : Items]

LEMMA ContentsTyped ==
  ASSUME NEW row \in ListRow
  PROVE  Contents(row) \in Past
BY DEF Past, Contents, ListRow

\* The end of a transaction leaves every variable it sets of its type.
LEMMA LeaveTyped ==
  ASSUME TypeOK, NEW c \in Client, Leave(c)
  PROVE  /\ keyHolder' \in [Identity -> Client \union {Nobody}]
         /\ listHolder' \in [List -> Client \union {Nobody}]
         /\ phase' \in [Client -> Phase]
         /\ request' \in [Client -> Requests \union {NoRow}]
         /\ copy' \in [Client -> [row : ListRow \union {NoRow}, found : SUBSET Snapshot]]
         /\ UNCHANGED <<view, sends, reads, expiries>>
<1>1. NoCopy \in [row : ListRow \union {NoRow}, found : SUBSET Snapshot]
  BY DEF NoCopy
<1>2. keyHolder' \in [Identity -> Client \union {Nobody}] /\ listHolder' \in [List -> Client \union {Nobody}]
  BY DEF TypeOK, Leave, Released
<1> QED BY <1>1, <1>2 DEF TypeOK, Leave, Phase

\* Whoever is busy after somebody has left was busy before, with the same.
LEMMA LeaveEffect ==
  ASSUME TypeOK, NEW c \in Client, Leave(c)
  PROVE  /\ phase'[c] = "idle"
         /\ \A d \in Client \ {c} : /\ phase'[d] = phase[d]
                                    /\ request'[d] = request[d]
                                    /\ copy'[d] = copy[d]
         /\ \A d \in Client : view'[d] = view[d]
         /\ \A id \in Identity : keyHolder'[id] = IF keyHolder[id] = c THEN Nobody ELSE keyHolder[id]
         /\ \A l \in List : listHolder'[l] = IF listHolder[l] = c THEN Nobody ELSE listHolder[l]
BY DEF TypeOK, Leave, Released

LEMMA LeaveEngaged ==
  ASSUME Typed, NEW c \in Client, Leave(c), \A l \in List : lists[l] # NoRow => lists'[l] # NoRow
  PROVE  Engaged'
<1>1. TypeOK
  BY DEF Typed
<1>2. ASSUME NEW d \in Client, d # c
      PROVE  /\ phase'[d] \in Busy => request'[d] \in Requests
             /\ phase'[d] = "lock" => request'[d].op # "create"
             /\ phase'[d] = "execute" /\ request'[d].op # "create" => copy'[d].row \in ListRow
             /\ phase'[d] = "reading" => view'[d].list \in List /\ lists'[view'[d].list] # NoRow
  BY <1>1, <1>2, LeaveEffect DEF Typed, Engaged
<1>3. phase'[c] = "idle"
  BY <1>1, LeaveEffect
<1> QED BY <1>2, <1>3 DEF Engaged, Busy

LEMMA RollbackTyped == ASSUME Typed, NEW c \in Client, Rollback(c) PROVE Typed'
<1>1. TypeOK'
  BY LeaveTyped DEF Typed, TypeOK, Rollback, tables, ghosts
<1>2. Engaged'
  BY LeaveEngaged DEF Rollback, tables
<1> QED BY <1>1, <1>2 DEF Typed

LEMMA CompleteTyped ==
  ASSUME Typed, NEW c \in Client, phase[c] = "execute", NEW answer \in Answer, Complete(c, answer)
  PROVE  /\ records' \in [Identity -> Record \union {NoRow}]
         /\ ran' \in [Identity -> Nat]
         /\ answered' \in [Identity -> SUBSET Answer]
         /\ Leave(c)
<1>1. request[c] \in Requests /\ request[c] \in Request
  BY RequestsAssumption DEF Typed, Engaged, Busy
<1>2. [request |-> request[c], answer |-> answer, live |-> TRUE] \in Record
  BY <1>1 DEF Record
<1>3. ran \in [Identity -> Nat] /\ answered \in [Identity -> SUBSET Answer]
  BY DEF Typed, TypeOK
<1>4. ran' \in [Identity -> Nat] /\ answered' \in [Identity -> SUBSET Answer]
  BY <1>3, RequestParts, <1>1 DEF Complete
<1> QED BY <1>2, <1>4 DEF Complete, Typed, TypeOK

LEMMA HistoriesTyped == ASSUME Typed PROVE history \in [List -> Seq(Past)]
BY DEF Typed, TypeOK, Past

LEMMA HistoryTyped ==
  ASSUME Typed, NEW x \in List
  PROVE  history[x] \in Seq(Past)
BY DEF Past, Typed, TypeOK

\* The row a change writes and the answer it gives.
Changed(c, archived, items) == [revision |-> copy[c].row.revision + 1, archived |-> archived, items |-> items]
AnswerOf(c, code, row) == [code |-> code, list |-> request[c].list, row |-> IF code = 204 THEN NoRow ELSE row]

LEMMA ChangeParts ==
  ASSUME Typed, NEW c \in Client, phase[c] = "execute", request[c].op # "create",
         NEW code \in {200, 201, 204}, NEW archived \in BOOLEAN, NEW items \in Items
  PROVE  /\ request[c].list \in List
         /\ Changed(c, archived, items) \in ListRow
         /\ AnswerOf(c, code, Changed(c, archived, items)) \in Answer
<1>1. request[c].list \in List /\ copy[c].row \in ListRow
  BY RequestParts DEF Typed, Engaged, Busy
<1>2. Changed(c, archived, items) \in ListRow
  BY <1>1 DEF Changed, ListRow
<1>3. AnswerOf(c, code, Changed(c, archived, items)) \in Answer
  BY <1>1, <1>2 DEF AnswerOf, Answer
<1> QED BY <1>1, <1>2, <1>3

LEMMA ChangeTyped ==
  ASSUME Typed, NEW c \in Client, phase[c] = "execute", request[c].op # "create",
         NEW code \in {200, 201, 204}, NEW archived \in BOOLEAN, NEW items \in Items,
         Change(c, code, archived, items)
  PROVE  Typed'
<1> DEFINE l == request[c].list
           row == Changed(c, archived, items)
           answer == AnswerOf(c, code, row)
<1>1. l \in List
  BY ChangeParts
<1>2. row \in ListRow
  BY ChangeParts
<1>3. answer \in Answer
  BY ChangeParts
<1>4. /\ lists' = [lists EXCEPT ![l] = row]
      /\ history' = [history EXCEPT ![l] = Append(@, Contents(row))]
      /\ Complete(c, answer)
      /\ UNCHANGED snapshots
  BY DEF Change, Changed, AnswerOf
<1>5. lists' \in [List -> ListRow \union {NoRow}]
  BY <1>1, <1>2, <1>4 DEF Typed, TypeOK
<1>6. history' \in [List -> Seq(Past)]
  <2>1. Contents(row) \in Past
    BY <1>2, ContentsTyped
  <2>2. history[l] \in Seq(Past)
    BY <1>1, HistoryTyped
  <2> HIDE DEF row
  <2>3. Append(history[l], Contents(row)) \in Seq(Past)
    BY <2>1, <2>2
  <2> QED BY <1>1, <1>4, <2>3, HistoriesTyped
<1>7. /\ records' \in [Identity -> Record \union {NoRow}] /\ ran' \in [Identity -> Nat]
      /\ answered' \in [Identity -> SUBSET Answer] /\ Leave(c)
  BY <1>3, <1>4, CompleteTyped
<1>8. TypeOK'
  <2>1. TypeOK /\ Leave(c) /\ UNCHANGED snapshots
    BY <1>4, <1>7 DEF Typed
  <2>2. /\ keyHolder' \in [Identity -> Client \union {Nobody}]
        /\ listHolder' \in [List -> Client \union {Nobody}]
        /\ phase' \in [Client -> Phase]
        /\ request' \in [Client -> Requests \union {NoRow}]
        /\ copy' \in [Client -> [row : ListRow \union {NoRow}, found : SUBSET Snapshot]]
        /\ UNCHANGED <<view, sends, reads, expiries>>
    BY <2>1, LeaveTyped
  <2> QED BY <1>5, <1>6, <1>7, <2>1, <2>2 DEF TypeOK, Past
<1>9. \A x \in List : lists[x] # NoRow => lists'[x] # NoRow
  BY <1>1, <1>2, <1>4, NoRowAssumption DEF Typed, TypeOK
<1> QED BY <1>7, <1>8, <1>9, LeaveEngaged DEF Typed

\* A busy client has a request of a known key and, unless it creates, of a list.
LEMMA BusyParts ==
  ASSUME Typed, NEW c \in Client, phase[c] \in Busy
  PROVE  /\ request[c] \in Requests /\ IdOf(request[c]) \in Identity
         /\ request[c].op # "create" => request[c].list \in List
         /\ phase[c] = "execute" /\ request[c].op # "create" =>
               /\ copy[c].row \in ListRow /\ copy[c].row.revision \in Nat \ {0}
               /\ copy[c].row.archived \in BOOLEAN /\ copy[c].row.items \in Items
               /\ copy[c].found \in SUBSET Snapshot
BY RequestParts DEF Typed, TypeOK, Engaged, ListRow

LEMMA CreateTyped == ASSUME Typed, NEW c \in Client, phase[c] = "execute", CreateList(c) PROVE Typed'
<1> DEFINE l == CHOOSE x \in FreshLists : TRUE
           answer == [code |-> 201, list |-> l, row |-> NewList]
<1>1. l \in List
  BY DEF CreateList, FreshLists
<1>2. answer \in Answer
  BY <1>1, NewListTyped DEF Answer
<1>3. /\ lists' = [lists EXCEPT ![l] = NewList]
      /\ history' = [history EXCEPT ![l] = <<Contents(NewList)>>]
      /\ Complete(c, answer)
      /\ UNCHANGED snapshots
  BY DEF CreateList
<1>4. lists' \in [List -> ListRow \union {NoRow}]
  BY <1>1, <1>3, NewListTyped DEF Typed, TypeOK
<1>5. history' \in [List -> Seq(Past)]
  <2>1. <<Contents(NewList)>> \in Seq(Past)
    BY NewListTyped, ContentsTyped
  <2> QED BY <1>1, <1>3, <2>1, HistoriesTyped
<1>6. /\ records' \in [Identity -> Record \union {NoRow}] /\ ran' \in [Identity -> Nat]
      /\ answered' \in [Identity -> SUBSET Answer] /\ Leave(c)
  BY <1>2, <1>3, CompleteTyped
<1>7. TypeOK'
  BY <1>3, <1>4, <1>5, <1>6, LeaveTyped DEF Typed, TypeOK, Past
<1>8. \A x \in List : lists[x] # NoRow => lists'[x] # NoRow
  BY <1>1, <1>3, NewListTyped, NoRowAssumption DEF Typed, TypeOK
<1> QED BY <1>6, <1>7, <1>8, LeaveEngaged DEF Typed

\* Executing a mutation of a list either rolls back or changes the list.
LEMMA MutationShape ==
  ASSUME Typed, NEW c \in Client, phase[c] = "execute",
         UpdateList(c) \/ AddItem(c) \/ UpdateItem(c) \/ DeleteItem(c)
  PROVE  /\ request[c].op \notin {"create", "optimize"}
         /\ \/ Rollback(c)
            \/ \E code \in {200, 201, 204}, archived \in BOOLEAN, items \in Items :
                  Change(c, code, archived, items)
<1> DEFINE row == copy[c].row
           r == request[c]
<1>1. r \in Requests /\ r \in Request
  BY BusyParts, RequestsAssumption DEF Busy
<1>2. r.op # "create" => row.archived \in BOOLEAN /\ row.items \in Items
  BY BusyParts DEF Busy
<1>3. CASE UpdateList(c)
  <2>1. r.op = "update" /\ r.archived \in {"yes", "no", "keep"}
    BY <1>1, <1>3 DEF UpdateList, Request
  <2> DEFINE archived == CASE r.archived = "yes" -> TRUE [] r.archived = "no" -> FALSE
                           [] r.archived = "keep" -> row.archived
  <2>2. archived \in BOOLEAN /\ Change(c, 200, archived, row.items)
    BY <1>2, <1>3, <2>1 DEF UpdateList
  <2> HIDE DEF archived
  <2> QED BY <1>2, <2>1, <2>2
<1>4. CASE AddItem(c)
  <2>1. r.op = "add_item" /\ r.quantity \in Quantity /\ r.confirmed \in BOOLEAN
    BY <1>1, <1>4, RequestParts DEF AddItem
  <2>2. CASE Rollback(c)
    BY <2>1, <2>2
  <2>3. CASE ~Rollback(c)
    <3> DEFINE new == CHOOSE i \in FreshItems(r.list) : TRUE
               entry == [quantity |-> r.quantity, confirmed |-> r.confirmed]
               items == [i \in DOMAIN row.items \union {new} |-> IF i = new THEN entry ELSE row.items[i]]
    <3>1. FreshItems(r.list) # {} /\ Change(c, 201, row.archived, items)
      BY <1>4, <2>3 DEF AddItem
    <3>2. new \in Item
      BY <3>1 DEF FreshItems
    <3>3. entry \in Entry
      BY <2>1 DEF Entry
    <3>4. items \in Items
      BY <1>2, <2>1, <3>2, <3>3, ItemAdded
    <3> HIDE DEF items
    <3> QED BY <1>2, <2>1, <3>1, <3>4
  <2> QED BY <2>2, <2>3
<1>5. CASE UpdateItem(c)
  <2>1. r.op = "update_item" /\ r.quantity \in Quantity
    BY <1>1, <1>5, RequestParts DEF UpdateItem
  <2>2. CASE Rollback(c)
    BY <2>1, <2>2
  <2>3. CASE ~Rollback(c)
    <3>1. r.item \in DOMAIN row.items /\ Change(c, 200, row.archived, [row.items EXCEPT ![r.item].quantity = r.quantity])
      BY <1>5, <2>3 DEF UpdateItem
    <3>2. [row.items EXCEPT ![r.item].quantity = r.quantity] \in Items
      BY <1>2, <2>1, <3>1, ItemUpdated
    <3> QED BY <1>2, <2>1, <3>1, <3>2
  <2> QED BY <2>2, <2>3
<1>6. CASE DeleteItem(c)
  <2>1. r.op = "remove_item"
    BY <1>6 DEF DeleteItem
  <2>2. CASE Rollback(c)
    BY <2>1, <2>2
  <2>3. CASE ~Rollback(c)
    <3>1. Change(c, 204, row.archived, [i \in DOMAIN row.items \ {r.item} |-> row.items[i]])
      BY <1>6, <2>3 DEF DeleteItem
    <3>2. [i \in DOMAIN row.items \ {r.item} |-> row.items[i]] \in Items
      BY <1>2, <2>1, ItemRemoved
    <3> QED BY <1>2, <2>1, <3>1, <3>2
  <2> QED BY <2>2, <2>3
<1> QED BY <1>3, <1>4, <1>5, <1>6

\* An optimization rolls back, is answered by the earlier snapshot, or stores a
\* new one of the row it has locked, when there is none alike.
NewSnapshot(c, s) ==
    /\ s \in Snapshot
    /\ ~copy[c].row.archived
    /\ s.list = request[c].list /\ s.revision = copy[c].row.revision /\ s.items = copy[c].row.items
    /\ SnapshotsAlike(s) = {}
    /\ snapshots' = snapshots \union {s}
    /\ Complete(c, [code |-> 201, snapshot |-> s])

LEMMA OptimizationShape ==
  ASSUME Typed, NEW c \in Client, phase[c] = "execute", CreateOptimization(c)
  PROVE  /\ request[c].op = "optimize"
         /\ \/ Rollback(c)
            \/ /\ \E s \in copy[c].found : Complete(c, [code |-> 200, snapshot |-> s])
               /\ UNCHANGED <<lists, snapshots, history>>
            \/ /\ \E s \in Snapshot : NewSnapshot(c, s)
               /\ UNCHANGED <<lists, history>>
<1> DEFINE row == copy[c].row
           snapshot(status) == [list |-> request[c].list, revision |-> row.revision, items |-> row.items, status |-> status]
<1>1. request[c].op = "optimize"
  BY DEF CreateOptimization
<1>2. request[c].list \in List /\ row.revision \in Nat \ {0} /\ row.items \in Items
  BY <1>1, BusyParts DEF Busy
<1>3. ASSUME NEW status \in PlannerStatuses(row.items) PROVE snapshot(status) \in Snapshot
  BY <1>2, <1>3 DEF PlannerStatuses, Snapshot, PlanStatus
<1>4. ASSUME NEW status \in PlannerStatuses(row.items), ~row.archived,
             SnapshotsAlike(snapshot(status)) = {},
             snapshots' = snapshots \union {snapshot(status)},
             Complete(c, [code |-> 201, snapshot |-> snapshot(status)])
      PROVE  NewSnapshot(c, snapshot(status))
  <2>1. snapshot(status) \in Snapshot
    BY <1>3
  <2> QED BY <1>4, <2>1 DEF NewSnapshot
<1> HIDE DEF snapshot
<1>5. \/ Rollback(c)
      \/ \E s \in copy[c].found :
            Complete(c, [code |-> 200, snapshot |-> s]) /\ UNCHANGED <<lists, snapshots, history>>
      \/ \E status \in PlannerStatuses(row.items) :
            /\ ~row.archived /\ SnapshotsAlike(snapshot(status)) = {}
            /\ snapshots' = snapshots \union {snapshot(status)}
            /\ Complete(c, [code |-> 201, snapshot |-> snapshot(status)])
            /\ UNCHANGED <<lists, history>>
  BY DEF CreateOptimization, snapshot
<1> QED BY <1>1, <1>3, <1>4, <1>5

LEMMA OptimizationTyped ==
  ASSUME Typed, NEW c \in Client, phase[c] = "execute", CreateOptimization(c) PROVE Typed'
<1>1. ASSUME NEW answer \in Answer, Complete(c, answer), snapshots' \subseteq Snapshot, UNCHANGED <<lists, history>>
      PROVE  Typed'
  <2>2. /\ records' \in [Identity -> Record \union {NoRow}] /\ ran' \in [Identity -> Nat]
        /\ answered' \in [Identity -> SUBSET Answer] /\ Leave(c)
    BY <1>1, CompleteTyped
  <2>3. TypeOK'
    BY <1>1, <2>2, LeaveTyped DEF Typed, TypeOK
  <2>4. Engaged'
    BY <1>1, <2>2, LeaveEngaged
  <2> QED BY <2>3, <2>4 DEF Typed
<1>2. snapshots \subseteq Snapshot /\ request[c].op = "optimize"
  BY OptimizationShape DEF Typed, TypeOK
<1>3. CASE Rollback(c)
  BY <1>3, RollbackTyped
<1>4. ASSUME NEW s \in copy[c].found, Complete(c, [code |-> 200, snapshot |-> s]),
             UNCHANGED <<lists, snapshots, history>>
      PROVE  Typed'
  <2>1. s \in Snapshot
    BY <1>2, BusyParts DEF Busy
  <2>2. [code |-> 200, snapshot |-> s] \in Answer
    BY <2>1 DEF Answer
  <2> QED BY <1>1, <1>2, <1>4, <2>2
<1>5. ASSUME NEW s \in Snapshot, NewSnapshot(c, s), UNCHANGED <<lists, history>> PROVE Typed'
  <2>1. Complete(c, [code |-> 201, snapshot |-> s]) /\ snapshots' \subseteq Snapshot
    BY <1>2, <1>5 DEF NewSnapshot
  <2>2. [code |-> 201, snapshot |-> s] \in Answer
    BY DEF Answer
  <2> QED BY <1>1, <1>5, <2>1, <2>2
<1> QED BY <1>3, <1>4, <1>5, OptimizationShape

\* A step of one client that moves it to another phase and locks no list.
LEMMA ClaimTyped ==
  ASSUME Typed, NEW c \in Client, phase[c] \in {"select", "insert"}, SelectNothing(c) \/ SelectExpired(c)
         \/ InsertSucceeds(c) \/ (phase' = [phase EXCEPT ![c] = "select"] /\ UNCHANGED <<tables, locks, request, copy, view, sends, reads, expiries, ghosts>>)
  PROVE  Typed'
<1> DEFINE step == phase'[c]
<1>1. IdOf(request[c]) \in Identity /\ request[c] \in Requests
  BY BusyParts DEF Busy
<1>2. /\ keyHolder' \in [Identity -> Client \union {Nobody}]
      /\ phase' \in [Client -> Phase]
      /\ phase'[c] \in {"select", "insert"} \/ phase'[c] = NextPhase(request[c])
      /\ \A d \in Client \ {c} : phase'[d] = phase[d]
      /\ UNCHANGED <<tables, listHolder, request, copy, view, sends, reads, expiries, ghosts>>
  <2>1. phase \in [Client -> Phase] /\ keyHolder \in [Identity -> Client \union {Nobody}]
    BY DEF Typed, TypeOK
  <2>2. {"select", "insert", NextPhase(request[c])} \subseteq Phase
    BY DEF Phase, NextPhase
  <2> QED BY <1>1, <2>1, <2>2 DEF SelectNothing, SelectExpired, InsertSucceeds, locks
<1>3. phase'[c] = "lock" => request[c].op # "create"
  BY <1>2 DEF NextPhase
<1>4. phase'[c] = "execute" => request[c].op = "create"
  BY <1>2 DEF NextPhase
<1>5. TypeOK'
  BY <1>2 DEF Typed, TypeOK, tables, ghosts
<1>6. phase'[c] # "reading"
  BY <1>2 DEF NextPhase
<1>7. Engaged'
  BY <1>1, <1>2, <1>3, <1>4, <1>6 DEF Typed, Engaged, Busy, tables
<1> QED BY <1>5, <1>7 DEF Typed

LEMMA LockTyped == ASSUME Typed, NEW c \in Client, Lock(c) PROVE Typed'
<1> DEFINE l == request[c].list
           read == [row |-> lists[l],
                    found |-> {s \in snapshots : /\ request[c].op = "optimize"
                                                 /\ s.list = l
                                                 /\ s.revision = lists[l].revision
                                                 /\ s.items = lists[l].items}]
<1>1. l \in List /\ request[c] \in Requests
  BY BusyParts DEF Lock, Typed, Engaged, Busy
<1>2. CASE lists[l] = NoRow
  BY <1>2, RollbackTyped DEF Lock
<1>3. CASE lists[l] # NoRow
  <2>1. /\ listHolder' = [listHolder EXCEPT ![l] = c]
        /\ copy' = [copy EXCEPT ![c] = read]
        /\ phase' = [phase EXCEPT ![c] = "execute"]
        /\ UNCHANGED <<tables, keyHolder, request, view, sends, reads, expiries, ghosts>>
    BY <1>3 DEF Lock
  <2>2. lists[l] \in ListRow /\ read.found \in SUBSET Snapshot
    BY <1>1, <1>3 DEF Typed, TypeOK
  <2>3. read \in [row : ListRow \union {NoRow}, found : SUBSET Snapshot] /\ read.row = lists[l]
    BY <2>2
  <2> HIDE DEF read
  <2>4. TypeOK'
    BY <1>1, <2>1, <2>3 DEF Typed, TypeOK, tables, ghosts, Phase
  <2>5. copy'[c].row = lists[l] /\ phase'[c] = "execute"
    BY <2>1, <2>3 DEF Typed, TypeOK
  <2>6. \A d \in Client \ {c} : copy'[d] = copy[d] /\ phase'[d] = phase[d]
    BY <2>1 DEF Typed, TypeOK
  <2>7. UNCHANGED <<lists, request, view>>
    BY <2>1 DEF tables
  <2>8. Engaged'
    BY <1>1, <2>2, <2>5, <2>6, <2>7 DEF Typed, Engaged, Busy
  <2> QED BY <2>4, <2>8 DEF Typed
<1> QED BY <1>2, <1>3

LEMMA ExpireTyped == ASSUME Typed, NEW id \in Identity, Expire(id) PROVE Typed'
<1>1. records[id] \in Record
  BY DEF Typed, TypeOK, Expire
<1>2. [records[id] EXCEPT !.live = FALSE] \in Record
  BY <1>1 DEF Record
<1>3. records' \in [Identity -> Record \union {NoRow}]
  BY <1>2 DEF Typed, TypeOK, Expire
<1>4. expiries' \in 0 .. MaxExpiries
  BY BoundsAssumption DEF Typed, TypeOK, Expire
<1>5. ran' \in [Identity -> Nat] /\ answered' \in [Identity -> SUBSET Answer]
  BY DEF Typed, TypeOK, Expire
<1>6. TypeOK'
  BY <1>3, <1>4, <1>5 DEF Typed, TypeOK, Expire, locks
<1>7. Engaged'
  BY DEF Typed, Engaged, Expire
<1> QED BY <1>6, <1>7 DEF Typed

LEMMA SelectLiveTyped == ASSUME Typed, NEW c \in Client, phase[c] = "select", SelectLive(c) PROVE Typed'
<1>1. IdOf(request[c]) \in Identity
  BY BusyParts DEF Busy
<1>2. records[IdOf(request[c])].answer \in Answer
  BY <1>1 DEF Typed, TypeOK, SelectLive, Record
<1>3. answered' \in [Identity -> SUBSET Answer]
  BY <1>1, <1>2 DEF Typed, TypeOK, SelectLive
<1>4. TypeOK'
  BY <1>3, LeaveTyped DEF Typed, TypeOK, SelectLive, tables
<1>5. Engaged'
  BY LeaveEngaged DEF SelectLive, tables
<1> QED BY <1>4, <1>5 DEF Typed

View == [list : List \union {NoRow}, revision : Nat, items : Items]

LEMMA ReadTyped ==
  ASSUME Typed, NEW c \in Client, ReadItems(c) \/ \E l \in List : ReadRow(c, l) PROVE Typed'
<1>1. ASSUME NEW l \in List, ReadRow(c, l) PROVE Typed'
  <2> DEFINE seen == [list |-> l, revision |-> lists[l].revision, items |-> <<>>]
  <2>1. seen \in View
    BY <1>1, NoItems DEF View, ReadRow, Typed, TypeOK, ListRow
  <2>2. view' = [view EXCEPT ![c] = seen]
    BY <1>1 DEF ReadRow
  <2>3. seen.list = l
    OBVIOUS
  <2> HIDE DEF seen
  <2>4. reads' \in 0 .. MaxReads
    BY <1>1, BoundsAssumption DEF ReadRow, Typed, TypeOK
  <2>5. TypeOK'
    <3>1. view' \in [Client -> View]
      BY <2>1, <2>2 DEF Typed, TypeOK, View
    <3>2. phase' \in [Client -> Phase]
      BY <1>1 DEF ReadRow, Typed, TypeOK, Phase
    <3> QED BY <1>1, <2>4, <3>1, <3>2 DEF ReadRow, Typed, TypeOK, View, tables, locks, ghosts
  <2>6. view'[c].list = l /\ phase'[c] = "reading" /\ lists'[l] # NoRow
    BY <1>1, <2>2, <2>3 DEF ReadRow, Typed, TypeOK, tables
  <2>7. /\ \A d \in Client \ {c} : view'[d] = view[d] /\ phase'[d] = phase[d]
        /\ UNCHANGED <<request, copy, lists>>
    BY <1>1 DEF ReadRow, Typed, TypeOK, tables
  <2>8. Engaged'
    BY <2>6, <2>7 DEF Typed, Engaged, Busy
  <2> QED BY <2>5, <2>8 DEF Typed
<1>2. CASE ReadItems(c)
  <2>1. view[c].list \in List /\ lists[view[c].list] \in ListRow
    BY <1>2 DEF ReadItems, Typed, TypeOK, Engaged
  <2>2. view[c] \in View /\ lists[view[c].list].items \in Items
    BY <2>1 DEF Typed, TypeOK, ListRow, View
  <2>3. TypeOK'
    <3>1. [view[c] EXCEPT !.items = lists[view[c].list].items] \in View
      BY <2>2 DEF View
    <3>2. view' \in [Client -> View]
      BY <1>2, <3>1 DEF ReadItems, Typed, TypeOK, View
    <3>3. phase' \in [Client -> Phase]
      BY <1>2 DEF ReadItems, Typed, TypeOK, Phase
    <3> QED BY <1>2, <3>2, <3>3 DEF ReadItems, Typed, TypeOK, View, tables, locks, ghosts
  <2>4. /\ phase'[c] = "idle"
        /\ \A d \in Client \ {c} : view'[d] = view[d] /\ phase'[d] = phase[d]
        /\ UNCHANGED <<request, copy, lists>>
    BY <1>2 DEF ReadItems, Typed, TypeOK, tables
  <2>5. Engaged'
    BY <2>4 DEF Typed, Engaged, Busy
  <2> QED BY <2>3, <2>5 DEF Typed
<1> QED BY <1>1, <1>2

LEMMA SendTyped == ASSUME Typed, NEW c \in Client, NEW r \in Requests, Send(c, r) PROVE Typed'
<1>1. sends' \in 0 .. MaxSends
  BY BoundsAssumption DEF Send, Typed, TypeOK
<1>2. TypeOK'
  BY <1>1 DEF Send, Typed, TypeOK, tables, locks, ghosts, Phase
<1>3. /\ phase'[c] = "select" /\ request'[c] = r
      /\ \A d \in Client \ {c} : request'[d] = request[d] /\ phase'[d] = phase[d]
      /\ UNCHANGED <<view, copy, lists>>
  BY DEF Send, Typed, TypeOK, tables
<1>4. Engaged'
  BY <1>3 DEF Typed, Engaged, Busy
<1> QED BY <1>2, <1>4 DEF Typed

LEMMA TypedNext == Typed /\ [Next]_vars => Typed'
<1> SUFFICES ASSUME Typed, [Next]_vars PROVE Typed'
  OBVIOUS
<1>1. ASSUME NEW c \in Client, Select(c) PROVE Typed'
  BY <1>1, ClaimTyped, SelectLiveTyped DEF Select
<1>2. ASSUME NEW c \in Client, Insert(c) PROVE Typed'
  BY <1>2, ClaimTyped, RollbackTyped DEF Insert, InsertRefused
<1>3. ASSUME NEW c \in Client, Execute(c) PROVE Typed'
  <2>1. phase[c] = "execute"
    BY <1>3 DEF Execute
  <2>2. CASE UpdateList(c) \/ AddItem(c) \/ UpdateItem(c) \/ DeleteItem(c)
    BY <2>1, <2>2, MutationShape, RollbackTyped, ChangeTyped
  <2> QED BY <1>3, <2>1, <2>2, CreateTyped, OptimizationTyped DEF Execute
<1>4. CASE UNCHANGED vars
  BY <1>4 DEF Typed, TypeOK, Engaged, vars
<1> QED BY <1>1, <1>2, <1>3, <1>4, LockTyped, RollbackTyped, ExpireTyped, ReadTyped, SendTyped
        DEF Next, Handle, Abort

LEMMA TypedInit == Init => Typed
<1> SUFFICES ASSUME Init PROVE Typed
  OBVIOUS
<1>1. lists \in [List -> ListRow \union {NoRow}]
  BY NewListTyped DEF Init
<1>2. history \in [List -> Seq(Past)]
  BY NewListTyped, ContentsTyped DEF Init
<1>3. NoView \in View
  BY NoItems DEF NoView, View
<1>4. NoCopy \in [row : ListRow \union {NoRow}, found : SUBSET Snapshot]
  BY DEF NoCopy
<1>5. TypeOK
  <2>1. sends \in 0 .. MaxSends /\ reads \in 0 .. MaxReads /\ expiries \in 0 .. MaxExpiries
    BY BoundsAssumption DEF Init
  <2>2. view \in [Client -> View] /\ copy \in [Client -> [row : ListRow \union {NoRow}, found : SUBSET Snapshot]]
    BY <1>3, <1>4 DEF Init
  <2>3. /\ snapshots \subseteq Snapshot /\ records \in [Identity -> Record \union {NoRow}]
        /\ keyHolder \in [Identity -> Client \union {Nobody}] /\ listHolder \in [List -> Client \union {Nobody}]
        /\ phase \in [Client -> Phase] /\ request \in [Client -> Requests \union {NoRow}]
        /\ ran \in [Identity -> Nat] /\ answered \in [Identity -> SUBSET Answer]
    BY DEF Init, Phase
  <2> QED BY <1>1, <1>2, <2>1, <2>2, <2>3 DEF TypeOK, Past, View
<1>6. Engaged
  BY DEF Init, Engaged, Busy
<1> QED BY <1>5, <1>6 DEF Typed

LEMMA TypedAlways == Spec => []Typed
BY TypedInit, TypedNext, PTL DEF Spec

(* Every reachable state of the tables, the locks, the transactions and the  *)
(* clients' views has its type: an answer is always the list or the snapshot *)
(* that was stored, and a transaction that executes has read a row.          *)
THEOREM MutationsTypeCorrect == Spec => []TypeOK
<1>1. Typed => TypeOK
  BY DEF Typed
<1> QED BY <1>1, TypedAlways, PTL

-----------------------------------------------------------------------------
(* Keys *)

\* A key is held by whoever has claimed it and has not left.
Claimed ==
    \A id \in Identity, c \in Client :
        keyHolder[id] = c <=> phase[c] \in {"lock", "execute"} /\ IdOf(request[c]) = id

Live(id) == records[id] # NoRow /\ records[id].live

\* Nobody holds a key whose record lives.
HeldIsDead == \A id \in Identity : keyHolder[id] # Nobody => ~Live(id)

\* A live record is of the one run of its key, and all were given its answer.
Counted ==
    \A id \in Identity :
        IF Live(id) THEN ran[id] = 1 /\ answered[id] = {records[id].answer}
                    ELSE ran[id] = 0 /\ answered[id] = {}

KeyInv == Claimed /\ HeldIsDead /\ Counted

LEMMA KeyInit == Init => KeyInv
BY NobodyAssumption DEF Init, KeyInv, Claimed, HeldIsDead, Counted, Live

\* A step that neither claims nor releases, and leaves the records.
LEMMA KeyQuiet ==
  ASSUME KeyInv, UNCHANGED <<keyHolder, records, ran, answered>>,
         \A d \in Client : /\ phase'[d] \in {"lock", "execute"} <=> phase[d] \in {"lock", "execute"}
                           /\ phase[d] \in {"lock", "execute"} => request'[d] = request[d]
  PROVE  KeyInv'
<1>1. Claimed'
  BY DEF KeyInv, Claimed
<1>2. HeldIsDead' /\ Counted'
  BY DEF KeyInv, HeldIsDead, Counted, Live
<1> QED BY <1>1, <1>2 DEF KeyInv

LEMMA LeaveKeepsClaimed ==
  ASSUME TypeOK, Claimed, NEW c \in Client, Leave(c)
  PROVE  Claimed' /\ \A id \in Identity : keyHolder'[id] # Nobody => keyHolder[id] = keyHolder'[id] /\ keyHolder[id] # c
BY LeaveEffect, NobodyAssumption DEF Claimed

LEMMA KeyRollback == ASSUME Typed, KeyInv, NEW c \in Client, Rollback(c) PROVE KeyInv'
<1>1. TypeOK /\ Leave(c) /\ UNCHANGED <<records, ran, answered>>
  BY DEF Typed, Rollback, tables, ghosts
<1> QED BY <1>1, LeaveKeepsClaimed DEF KeyInv, HeldIsDead, Counted, Live

\* The answer is stored when none was: whoever completes holds the key.
LEMMA KeyComplete ==
  ASSUME Typed, KeyInv, NEW c \in Client, phase[c] = "execute", NEW answer \in Answer, Complete(c, answer)
  PROVE  KeyInv'
<1> DEFINE id == IdOf(request[c])
           record == [request |-> request[c], answer |-> answer, live |-> TRUE]
<1>1. id \in Identity /\ keyHolder[id] = c
  BY BusyParts DEF Busy, KeyInv, Claimed
<1>2. ran[id] = 0 /\ answered[id] = {}
  BY <1>1, NobodyAssumption DEF KeyInv, HeldIsDead, Counted
<1>3. /\ records' = [records EXCEPT ![id] = record]
      /\ ran' = [ran EXCEPT ![id] = @ + 1]
      /\ answered' = [answered EXCEPT ![id] = @ \union {answer}]
      /\ Leave(c) /\ TypeOK
  BY DEF Complete, Typed
<1>4. /\ records'[id] = record /\ ran'[id] = 1 /\ answered'[id] = {answer}
      /\ \A i \in Identity \ {id} : records'[i] = records[i] /\ ran'[i] = ran[i] /\ answered'[i] = answered[i]
  BY <1>1, <1>2, <1>3 DEF TypeOK
<1>5. record # NoRow /\ record.live /\ record.answer = answer
  <2>1. record.live /\ record.answer = answer
    OBVIOUS
  <2>2. record \in Record
    BY BusyParts, RequestsAssumption DEF Record, Busy
  <2> QED BY <2>1, <2>2, NoRowAssumption
<1>6. Counted'
  BY <1>4, <1>5 DEF KeyInv, Counted, Live
<1>7. Claimed' /\ HeldIsDead'
  <2>1. Claimed'
    BY <1>3, LeaveKeepsClaimed DEF KeyInv
  <2>2. ASSUME NEW i \in Identity, keyHolder'[i] # Nobody PROVE ~Live(i)'
    <3>1. keyHolder[i] # Nobody /\ i # id
      BY <1>1, <1>3, <2>2, LeaveKeepsClaimed DEF KeyInv
    <3> QED BY <1>4, <3>1 DEF KeyInv, HeldIsDead, Live
  <2> QED BY <2>1, <2>2 DEF HeldIsDead
<1> QED BY <1>6, <1>7 DEF KeyInv

\* A key that is free, with no live record, is claimed.
LEMMA KeyClaim ==
  ASSUME Typed, KeyInv, NEW c \in Client, phase[c] \in {"select", "insert"},
         LET id == IdOf(request[c]) IN
            /\ ~Live(id) /\ keyHolder[id] = Nobody
            /\ keyHolder' = [keyHolder EXCEPT ![id] = c]
            /\ phase' = [phase EXCEPT ![c] = NextPhase(request[c])]
            /\ UNCHANGED <<records, ran, answered, request>>
  PROVE  KeyInv'
<1> DEFINE id == IdOf(request[c])
<1>1. id \in Identity
  BY BusyParts DEF Busy
<1>2. /\ keyHolder'[id] = c /\ phase'[c] \in {"lock", "execute"} /\ request' = request
      /\ \A i \in Identity \ {id} : keyHolder'[i] = keyHolder[i]
      /\ \A d \in Client \ {c} : phase'[d] = phase[d]
  BY <1>1 DEF Typed, TypeOK, NextPhase
<1>3. Claimed'
  <2>1. ASSUME NEW i \in Identity, NEW d \in Client
        PROVE  keyHolder'[i] = d <=> phase'[d] \in {"lock", "execute"} /\ IdOf(request'[d]) = i
    <3>1. keyHolder[i] = d <=> phase[d] \in {"lock", "execute"} /\ IdOf(request[d]) = i
      BY DEF KeyInv, Claimed
    <3>2. phase[c] \notin {"lock", "execute"} /\ keyHolder[id] # d
      BY NobodyAssumption
    <3> QED BY <1>2, <3>1, <3>2
  <2> QED BY <2>1 DEF Claimed
<1>4. HeldIsDead' /\ Counted'
  BY <1>2 DEF KeyInv, HeldIsDead, Counted, Live
<1> QED BY <1>3, <1>4 DEF KeyInv

LEMMA KeyExpire == ASSUME Typed, KeyInv, NEW id \in Identity, Expire(id) PROVE KeyInv'
<1>1. records[id] \in Record /\ records[id].live
  BY DEF Typed, TypeOK, Expire
<1>2. [records[id] EXCEPT !.live = FALSE].live = FALSE
  BY <1>1 DEF Record
<1>3. /\ ~Live(id)' /\ ran'[id] = 0 /\ answered'[id] = {} /\ keyHolder[id] = Nobody
      /\ \A i \in Identity \ {id} : records'[i] = records[i] /\ ran'[i] = ran[i] /\ answered'[i] = answered[i]
      /\ UNCHANGED <<keyHolder, phase, request>>
  BY <1>2 DEF Typed, TypeOK, Expire, Live, locks
<1>4. Claimed'
  BY <1>3 DEF KeyInv, Claimed
<1>5. HeldIsDead' /\ Counted'
  BY <1>3 DEF KeyInv, HeldIsDead, Counted, Live
<1> QED BY <1>4, <1>5 DEF KeyInv

LEMMA KeySelectLive ==
  ASSUME Typed, KeyInv, NEW c \in Client, phase[c] = "select", SelectLive(c) PROVE KeyInv'
<1> DEFINE id == IdOf(request[c])
<1>1. id \in Identity /\ Live(id) /\ answered[id] = {records[id].answer}
  BY BusyParts DEF Busy, SelectLive, Live, KeyInv, Counted
<1>2. answered' = answered \/ answered' = [answered EXCEPT ![id] = @ \union {records[id].answer}]
  BY DEF SelectLive
<1>3. \A i \in Identity : answered'[i] = answered[i]
  BY <1>1, <1>2 DEF Typed, TypeOK
<1>4. TypeOK /\ Leave(c) /\ UNCHANGED <<records, ran>>
  BY DEF Typed, SelectLive, tables
<1>5. Claimed' /\ HeldIsDead'
  BY <1>4, LeaveKeepsClaimed DEF KeyInv, HeldIsDead, Live
<1>6. Counted'
  BY <1>3, <1>4 DEF KeyInv, Counted, Live
<1> QED BY <1>5, <1>6 DEF KeyInv

LEMMA KeyExecute == ASSUME Typed, KeyInv, NEW c \in Client, Execute(c) PROVE KeyInv'
<1>1. phase[c] = "execute"
  BY DEF Execute
<1>2. \/ Rollback(c)
      \/ \E answer \in Answer : Complete(c, answer)
  <2>1. CASE CreateList(c)
    <3> DEFINE answer == [code |-> 201, list |-> CHOOSE x \in FreshLists : TRUE, row |-> NewList]
    <3>1. answer \in Answer
      BY <2>1, NewListTyped DEF CreateList, FreshLists, Answer
    <3>2. Complete(c, answer)
      BY <2>1 DEF CreateList
    <3> QED BY <3>1, <3>2
  <2>2. CASE UpdateList(c) \/ AddItem(c) \/ UpdateItem(c) \/ DeleteItem(c)
    <3>1. ASSUME NEW code \in {200, 201, 204}, NEW archived \in BOOLEAN, NEW items \in Items,
                 Change(c, code, archived, items)
          PROVE  Complete(c, AnswerOf(c, code, Changed(c, archived, items)))
      BY <3>1 DEF Change, Changed, AnswerOf
    <3> QED BY <1>1, <2>2, <3>1, MutationShape, ChangeParts
  <2>3. CASE CreateOptimization(c)
    <3>1. request[c].op = "optimize" => copy[c].found \in SUBSET Snapshot
      BY <1>1, BusyParts DEF Busy
    <3>2. CASE \E s \in copy[c].found : Complete(c, [code |-> 200, snapshot |-> s])
      <4>1. PICK s \in copy[c].found : Complete(c, [code |-> 200, snapshot |-> s])
        BY <3>2
      <4>2. s \in Snapshot
        BY <1>1, <2>3, <3>1, OptimizationShape
      <4> DEFINE answer == [code |-> 200, snapshot |-> s]
      <4>3. answer \in Answer
        BY <4>2 DEF Answer
      <4>4. Complete(c, answer)
        BY <4>1
      <4> HIDE DEF answer
      <4> QED BY <4>3, <4>4
    <3>3. CASE \E s \in Snapshot : NewSnapshot(c, s)
      <4>1. PICK s \in Snapshot : NewSnapshot(c, s)
        BY <3>3
      <4> DEFINE answer == [code |-> 201, snapshot |-> s]
      <4>2. answer \in Answer
        BY <4>1 DEF Answer
      <4>3. Complete(c, answer)
        BY <4>1 DEF NewSnapshot
      <4> HIDE DEF answer
      <4> QED BY <4>2, <4>3
    <3> QED BY <1>1, <2>3, <3>2, <3>3, OptimizationShape
  <2> QED BY <2>1, <2>2, <2>3 DEF Execute
<1> QED BY <1>1, <1>2, KeyRollback, KeyComplete

LEMMA KeyNext == Typed /\ KeyInv /\ [Next]_vars => KeyInv'
<1> SUFFICES ASSUME Typed, KeyInv, [Next]_vars PROVE KeyInv'
  OBVIOUS
<1> USE DEF tables, locks, ghosts
<1>1. ASSUME NEW c \in Client, phase' = [phase EXCEPT ![c] = "select"] \/ phase' = [phase EXCEPT ![c] = "insert"],
             phase[c] \in {"select", "insert"}, UNCHANGED <<keyHolder, records, ran, answered, request>>
      PROVE  KeyInv'
  <2>1. \A d \in Client : phase'[d] \in {"lock", "execute"} <=> phase[d] \in {"lock", "execute"}
    BY <1>1 DEF Typed, TypeOK
  <2> QED BY <1>1, <2>1, KeyQuiet
<1>2. ASSUME NEW c \in Client, Select(c) PROVE KeyInv'
  <2>1. CASE SelectNothing(c)
    BY <1>1, <1>2, <2>1 DEF Select, SelectNothing
  <2>2. CASE SelectLive(c)
    BY <1>2, <2>2, KeySelectLive DEF Select
  <2>3. CASE SelectExpired(c)
    BY <1>2, <2>3, KeyClaim DEF Select, SelectExpired, Live
  <2> QED BY <1>2, <2>1, <2>2, <2>3 DEF Select
<1>3. ASSUME NEW c \in Client, Insert(c) PROVE KeyInv'
  <2>1. CASE InsertSucceeds(c)
    BY <1>3, <2>1, KeyClaim DEF Insert, InsertSucceeds, Live
  <2>2. CASE Rollback(c)
    BY <2>2, KeyRollback
  <2>3. CASE InsertRefused(c)
    BY <1>1, <1>3, <2>2, <2>3 DEF Insert, InsertRefused
  <2> QED BY <1>3, <2>1, <2>3 DEF Insert
<1>4. ASSUME NEW c \in Client, Lock(c) PROVE KeyInv'
  <2>1. CASE Rollback(c)
    BY <2>1, KeyRollback
  <2>2. CASE ~Rollback(c)
    <3>1. /\ phase[c] = "lock" /\ phase' = [phase EXCEPT ![c] = "execute"]
          /\ UNCHANGED <<keyHolder, records, ran, answered, request>>
      BY <1>4, <2>2 DEF Lock
    <3>2. \A d \in Client : phase'[d] \in {"lock", "execute"} <=> phase[d] \in {"lock", "execute"}
      BY <3>1 DEF Typed, TypeOK
    <3> QED BY <3>1, <3>2, KeyQuiet
  <2> QED BY <2>1, <2>2
<1>5. ASSUME NEW c \in Client, Abort(c) PROVE KeyInv'
  BY <1>5, KeyRollback DEF Abort
<1>6. ASSUME NEW c \in Client, NEW r \in Requests, Send(c, r) PROVE KeyInv'
  <2>1. \A d \in Client : /\ phase'[d] \in {"lock", "execute"} <=> phase[d] \in {"lock", "execute"}
                          /\ phase[d] \in {"lock", "execute"} => request'[d] = request[d]
    BY <1>6 DEF Send, Typed, TypeOK
  <2>2. UNCHANGED <<keyHolder, records, ran, answered>>
    BY <1>6 DEF Send
  <2> QED BY <2>1, <2>2, KeyQuiet
<1>7. ASSUME NEW c \in Client, ReadItems(c) \/ \E l \in List : ReadRow(c, l) PROVE KeyInv'
  <2>1. \A d \in Client : phase'[d] \in {"lock", "execute"} <=> phase[d] \in {"lock", "execute"}
    BY <1>7 DEF ReadItems, ReadRow, Typed, TypeOK
  <2>2. UNCHANGED <<keyHolder, records, ran, answered, request>>
    BY <1>7 DEF ReadItems, ReadRow
  <2> QED BY <2>1, <2>2, KeyQuiet
<1>8. CASE UNCHANGED vars
  BY <1>8, KeyQuiet DEF vars
<1> QED BY <1>2, <1>3, <1>4, <1>5, <1>6, <1>7, <1>8, KeyExecute, KeyExpire DEF Next, Handle

LEMMA KeyAlways == Spec => []KeyInv
BY KeyInit, KeyNext, TypedAlways, PTL DEF Spec

(* While its record lives, the mutation of a key runs at most once, with any *)
(* number of requests that send the key at once or again, and refusals,      *)
(* aborts and expiries in between.                                           *)
THEOREM KeysRunOnce == Spec => []KeyRunsOnce
<1>1. KeyInv => KeyRunsOnce
  BY DEF KeyInv, Counted, KeyRunsOnce
<1> QED BY <1>1, KeyAlways, PTL

(* All who repeat a keyed request get the one answer that was stored.        *)
THEOREM AnswersAgree == Spec => []RepeatsAnswerAlike
<1>1. ASSUME KeyInv, NEW id \in Identity PROVE Cardinality(answered[id]) <= 1
  <2>1. answered[id] = {} \/ answered[id] = {records[id].answer}
    BY <1>1 DEF KeyInv, Counted
  <2>2. Cardinality({}) = 0 /\ Cardinality({records[id].answer}) = 1
    BY FS_EmptySet, FS_Singleton
  <2> QED BY <2>1, <2>2
<1>2. KeyInv => RepeatsAnswerAlike
  BY <1>1 DEF RepeatsAnswerAlike
<1> QED BY <1>2, KeyAlways, PTL

-----------------------------------------------------------------------------
(* Lists *)

\* A transaction that has locked its list.
Mutating(c) == phase[c] = "execute" /\ request[c].op # "create"

\* A list is held by the one transaction that executes on it, which has read
\* the row as it is.
Locked == \A l \in List, c \in Client : listHolder[l] = c <=> Mutating(c) /\ request[c].list = l
Copied == \A c \in Client : Mutating(c) => copy[c].row = lists[request[c].list]

LockInv == Locked /\ Copied

LEMMA LockInit == Init => LockInv
BY NobodyAssumption DEF Init, LockInv, Locked, Copied, Mutating

LEMMA LockQuiet ==
  ASSUME LockInv, UNCHANGED <<listHolder, lists>>,
         \A d \in Client : /\ Mutating(d)' <=> Mutating(d)
                           /\ Mutating(d) => request'[d] = request[d] /\ copy'[d] = copy[d]
  PROVE  LockInv'
<1>1. Locked'
  BY DEF LockInv, Locked
<1>2. Copied'
  BY DEF LockInv, Copied
<1> QED BY <1>1, <1>2 DEF LockInv

\* Who leaves gives its list back; the rows of the lists that others hold stay.
LEMMA LockLeave ==
  ASSUME Typed, LockInv, NEW c \in Client, Leave(c),
         \A d \in Client \ {c} : Mutating(d) => lists'[request[d].list] = lists[request[d].list]
  PROVE  LockInv'
<1>1. /\ ~Mutating(c)'
      /\ \A d \in Client \ {c} : /\ Mutating(d)' <=> Mutating(d)
                                 /\ request'[d] = request[d] /\ copy'[d] = copy[d]
  BY LeaveEffect DEF Typed, Mutating
<1>2. Locked'
  <2>1. ASSUME NEW l \in List, NEW d \in Client
        PROVE  listHolder'[l] = d <=> Mutating(d)' /\ request'[d].list = l
    <3>1. listHolder[l] = d <=> Mutating(d) /\ request[d].list = l
      BY DEF LockInv, Locked
    <3>2. listHolder'[l] = IF listHolder[l] = c THEN Nobody ELSE listHolder[l]
      BY LeaveEffect DEF Typed
    <3> QED BY <1>1, <3>1, <3>2, NobodyAssumption
  <2> QED BY <2>1 DEF Locked
<1>3. Copied'
  BY <1>1 DEF LockInv, Copied
<1> QED BY <1>2, <1>3 DEF LockInv

LEMMA LockRollback == ASSUME Typed, LockInv, NEW c \in Client, Rollback(c) PROVE LockInv'
BY LockLeave DEF Rollback, tables

\* What happens to a list in one step: nothing; it is created; it gets its next
\* revision.  The history is told.
NextRevision(l) ==
    \E row \in ListRow :
        /\ lists[l] # NoRow
        /\ row.revision = lists[l].revision + 1
        /\ lists'[l] = row
        /\ history'[l] = Append(history[l], Contents(row))
Created(l) == lists[l] = NoRow /\ lists'[l] = NewList /\ history'[l] = <<Contents(NewList)>>
Kept(l) == lists'[l] = lists[l] /\ history'[l] = history[l]

LEMMA ChangeEffect ==
  ASSUME Typed, LockInv, NEW c \in Client, phase[c] = "execute", request[c].op # "create",
         NEW code \in {200, 201, 204}, NEW archived \in BOOLEAN, NEW items \in Items,
         Change(c, code, archived, items)
  PROVE  /\ NextRevision(request[c].list)
         /\ \A l \in List \ {request[c].list} : Kept(l)
         /\ Leave(c) /\ UNCHANGED snapshots
         /\ LockInv'
<1> DEFINE m == request[c].list
           row == Changed(c, archived, items)
<1>1. m \in List /\ row \in ListRow
  BY ChangeParts
<1>2. /\ lists' = [lists EXCEPT ![m] = row]
      /\ history' = [history EXCEPT ![m] = Append(@, Contents(row))]
      /\ Leave(c) /\ UNCHANGED snapshots
  BY DEF Change, Changed, Complete
<1>3. copy[c].row = lists[m] /\ copy[c].row \in ListRow
  BY BusyParts DEF Busy, LockInv, Copied, Mutating
<1>4. row.revision = lists[m].revision + 1 /\ lists[m] # NoRow
  BY <1>3, NoRowAssumption DEF Changed
<1> HIDE DEF row
<1>5. NextRevision(m)
  <2>1. lists'[m] = row
    BY <1>1, <1>2 DEF Typed, TypeOK
  <2>2. history'[m] = Append(history[m], Contents(row))
    BY <1>1, <1>2, HistoriesTyped
  <2> QED BY <1>1, <1>4, <2>1, <2>2 DEF NextRevision
<1>6. \A l \in List \ {m} : Kept(l)
  BY <1>1, <1>2, HistoriesTyped DEF Kept, Typed, TypeOK
<1>7. ASSUME NEW d \in Client \ {c}, Mutating(d) PROVE lists'[request[d].list] = lists[request[d].list]
  <2>1. request[d].list \in List
    BY <1>7, BusyParts DEF Mutating, Busy
  <2>2. listHolder[request[d].list] = d /\ listHolder[m] = c
    BY <1>1, <1>7, <2>1 DEF LockInv, Locked, Mutating
  <2> QED BY <1>6, <2>1, <2>2 DEF Kept
<1> QED BY <1>2, <1>5, <1>6, <1>7, LockLeave

LEMMA CreateEffect ==
  ASSUME Typed, LockInv, NEW c \in Client, phase[c] = "execute", CreateList(c)
  PROVE  /\ \A l \in List : Created(l) \/ Kept(l)
         /\ Leave(c) /\ UNCHANGED snapshots
         /\ LockInv'
<1> DEFINE m == CHOOSE x \in FreshLists : TRUE
<1>1. m \in List /\ lists[m] = NoRow
  BY DEF CreateList, FreshLists
<1>2. /\ lists' = [lists EXCEPT ![m] = NewList]
      /\ history' = [history EXCEPT ![m] = <<Contents(NewList)>>]
      /\ Leave(c) /\ UNCHANGED snapshots
  BY DEF CreateList, Complete
<1> HIDE DEF m
<1>3. Created(m) /\ \A l \in List \ {m} : Kept(l)
  BY <1>1, <1>2, HistoriesTyped DEF Created, Kept, Typed, TypeOK
<1>4. ASSUME NEW d \in Client \ {c}, Mutating(d) PROVE lists'[request[d].list] = lists[request[d].list]
  <2>1. request[d].list \in List /\ lists[request[d].list] \in ListRow
    BY <1>4, BusyParts DEF Mutating, Busy, LockInv, Copied
  <2> QED BY <1>1, <1>3, <2>1, NoRowAssumption DEF Kept
<1> QED BY <1>2, <1>3, <1>4, LockLeave

LEMMA OptimizationEffect ==
  ASSUME Typed, LockInv, NEW c \in Client, phase[c] = "execute", CreateOptimization(c)
  PROVE  /\ UNCHANGED <<lists, history>> /\ Leave(c)
         /\ request[c].op = "optimize"
         /\ \/ UNCHANGED snapshots
            \/ \E s \in Snapshot : NewSnapshot(c, s)
         /\ LockInv'
<1>1. UNCHANGED <<lists, history>> /\ Leave(c)
  BY OptimizationShape DEF Rollback, tables, ghosts, Complete, NewSnapshot
<1>2. UNCHANGED snapshots \/ \E s \in Snapshot : NewSnapshot(c, s)
  BY OptimizationShape DEF Rollback, tables
<1>3. LockInv'
  BY <1>1, LockLeave
<1> QED BY <1>1, <1>2, <1>3, OptimizationShape

\* Everything that executing a request may do to lists and snapshots.
Effect(c) ==
    /\ \A l \in List : Kept(l) \/ Created(l) \/ (NextRevision(l) /\ listHolder[l] = c)
    /\ UNCHANGED snapshots \/ (Mutating(c) /\ \E s \in Snapshot : NewSnapshot(c, s))

LEMMA ExecuteEffect ==
  ASSUME Typed, LockInv, NEW c \in Client, Execute(c)
  PROVE  LockInv' /\ Leave(c) /\ Effect(c)
<1>1. phase[c] = "execute"
  BY DEF Execute
<1>2. CASE CreateList(c)
  BY <1>1, <1>2, CreateEffect DEF Effect
<1>3. ASSUME Rollback(c) PROVE LockInv' /\ Leave(c) /\ Effect(c)
  BY <1>3, LockRollback DEF Effect, Rollback, tables, ghosts, Kept
<1>4. CASE UpdateList(c) \/ AddItem(c) \/ UpdateItem(c) \/ DeleteItem(c)
  <2>1. request[c].op # "create"
    BY <1>1, <1>4, MutationShape
  <2>2. request[c].list \in List /\ listHolder[request[c].list] = c
    BY <1>1, <2>1, BusyParts DEF Busy, LockInv, Locked, Mutating
  <2>3. ASSUME NEW code \in {200, 201, 204}, NEW archived \in BOOLEAN, NEW items \in Items,
               Change(c, code, archived, items)
        PROVE  LockInv' /\ Leave(c) /\ Effect(c)
    BY <1>1, <2>1, <2>2, <2>3, ChangeEffect DEF Effect
  <2> QED BY <1>1, <1>3, <1>4, <2>3, MutationShape
<1>5. CASE CreateOptimization(c)
  BY <1>1, <1>5, OptimizationEffect DEF Effect, Kept, Mutating
<1> QED BY <1>2, <1>4, <1>5 DEF Execute

\* A transaction that has found its list locks it and reads it.
Acquire(c) ==
    /\ Lock(c)
    /\ lists[request[c].list] # NoRow

\* A step that tells nothing of lists: a claim, a refusal, an end.
Quiet ==
    /\ UNCHANGED <<lists, snapshots, history, view>>
    /\ \A d \in Client : /\ phase'[d] = "reading" <=> phase[d] = "reading"
                         /\ Mutating(d)' => Mutating(d) /\ request'[d] = request[d] /\ copy'[d] = copy[d]

LEMMA AcquireEffect ==
  ASSUME Typed, LockInv, NEW c \in Client, Acquire(c)
  PROVE  /\ Mutating(c)' /\ request[c].list \in List
         /\ copy'[c].row = lists[request[c].list]
         /\ request[c].op = "optimize" =>
               copy'[c].found = {s \in snapshots : /\ s.list = request[c].list
                                                   /\ s.revision = copy'[c].row.revision
                                                   /\ s.items = copy'[c].row.items}
         /\ phase'[c] # "reading" /\ phase[c] # "reading"
         /\ \A d \in Client \ {c} : phase'[d] = phase[d] /\ copy'[d] = copy[d]
         /\ UNCHANGED <<tables, request, view, history>>
         /\ LockInv'
<1> DEFINE l == request[c].list
           read == [row |-> lists[l],
                    found |-> {s \in snapshots : /\ request[c].op = "optimize"
                                                 /\ s.list = l
                                                 /\ s.revision = lists[l].revision
                                                 /\ s.items = lists[l].items}]
<1>1. phase[c] = "lock" /\ request[c].op # "create" /\ l \in List /\ listHolder[l] = Nobody
  <2>1. phase[c] = "lock" /\ listHolder[l] = Nobody
    BY DEF Acquire, Lock
  <2>2. request[c].op # "create"
    BY <2>1 DEF Typed, Engaged
  <2> QED BY <2>1, <2>2, BusyParts DEF Busy
<1>2. /\ listHolder' = [listHolder EXCEPT ![l] = c]
      /\ copy' = [copy EXCEPT ![c] = read]
      /\ phase' = [phase EXCEPT ![c] = "execute"]
      /\ UNCHANGED <<tables, request, view, history>>
  BY DEF Acquire, Lock, ghosts
<1>3. read.row = lists[l] /\ (request[c].op = "optimize" =>
         read.found = {s \in snapshots : s.list = l /\ s.revision = read.row.revision /\ s.items = read.row.items})
  OBVIOUS
<1> HIDE DEF read
<1>4. copy'[c] = read /\ phase'[c] = "execute"
  BY <1>2 DEF Typed, TypeOK
<1>5. \A d \in Client \ {c} : phase'[d] = phase[d] /\ copy'[d] = copy[d]
  BY <1>2 DEF Typed, TypeOK
<1>6. Mutating(c)' /\ ~Mutating(c) /\ \A d \in Client \ {c} : Mutating(d)' <=> Mutating(d)
  BY <1>1, <1>2, <1>4, <1>5 DEF Mutating
<1>7. Locked'
  <2>1. ASSUME NEW x \in List, NEW d \in Client
        PROVE  listHolder'[x] = d <=> Mutating(d)' /\ request'[d].list = x
    <3>1. listHolder[x] = d <=> Mutating(d) /\ request[d].list = x
      BY DEF LockInv, Locked
    <3>2. listHolder'[x] = IF x = l THEN c ELSE listHolder[x]
      BY <1>2 DEF Typed, TypeOK
    <3> QED BY <1>1, <1>2, <1>6, <3>1, <3>2, NobodyAssumption
  <2> QED BY <2>1 DEF Locked
<1>8. Copied'
  BY <1>2, <1>3, <1>4, <1>5, <1>6 DEF LockInv, Copied, tables
<1> QED BY <1>1, <1>2, <1>3, <1>4, <1>5, <1>6, <1>7, <1>8 DEF LockInv

LEMMA QuietRollback ==
  ASSUME Typed, LockInv, NEW c \in Client, phase[c] \in Busy, Rollback(c) PROVE Quiet /\ LockInv'
<1>1. UNCHANGED <<lists, snapshots, history, view>>
  BY DEF Rollback, Leave, tables, ghosts
<1>2. phase'[c] = "idle" /\ \A d \in Client \ {c} : phase'[d] = phase[d] /\ request'[d] = request[d] /\ copy'[d] = copy[d]
  BY LeaveEffect DEF Typed, Rollback
<1> QED BY <1>1, <1>2, LockRollback DEF Quiet, Mutating, Busy

\* A claim of a key, whatever comes of it.
LEMMA QuietPhase ==
  ASSUME Typed, LockInv, NEW c \in Client, phase[c] \notin {"execute", "reading"},
         NEW p \in {"select", "insert", NextPhase(request[c])},
         phase' = [phase EXCEPT ![c] = p],
         UNCHANGED <<lists, snapshots, history, view, listHolder, copy>>,
         \A d \in Client \ {c} : request'[d] = request[d],
         p \notin {"select", "insert"} => request'[c] = request[c]
  PROVE  Quiet /\ LockInv'
<1>1. p # "reading" /\ (p = "execute" => request'[c].op = "create")
  BY DEF NextPhase
<1>2. phase'[c] = p /\ \A d \in Client \ {c} : phase'[d] = phase[d]
  BY DEF Typed, TypeOK
<1>3. ~Mutating(c) /\ ~Mutating(c)' /\ \A d \in Client \ {c} : Mutating(d)' <=> Mutating(d)
  BY <1>1, <1>2 DEF Mutating
<1> QED BY <1>1, <1>2, <1>3, LockQuiet DEF Quiet

LEMMA QuietLeave ==
  ASSUME Typed, LockInv, NEW c \in Client, phase[c] \in Busy, Leave(c), UNCHANGED <<lists, snapshots, history>>
  PROVE  Quiet /\ LockInv'
<1>1. phase'[c] = "idle" /\ \A d \in Client \ {c} : phase'[d] = phase[d] /\ request'[d] = request[d] /\ copy'[d] = copy[d]
  BY LeaveEffect DEF Typed
<1>2. UNCHANGED view
  BY DEF Leave
<1>3. LockInv'
  BY LockLeave
<1> QED BY <1>1, <1>2, <1>3 DEF Quiet, Mutating, Busy

LEMMA ReadsKeepLocks ==
  ASSUME Typed, LockInv, NEW c \in Client, ReadItems(c) \/ \E l \in List : ReadRow(c, l) PROVE LockInv'
<1>1. \A d \in Client : Mutating(d)' <=> Mutating(d)
  BY DEF ReadItems, ReadRow, Mutating, Typed, TypeOK
<1>2. UNCHANGED <<listHolder, lists, request, copy>>
  BY DEF ReadItems, ReadRow, tables, locks
<1> QED BY <1>1, <1>2, LockQuiet

\* Every step is one of these.
StepOnLists(c) ==
    \/ phase[c] = "execute" /\ Leave(c) /\ Effect(c)
    \/ Acquire(c)
    \/ ReadItems(c)
    \/ \E l \in List : ReadRow(c, l)

LEMMA StepShape ==
  ASSUME Typed, LockInv, [Next]_vars
  PROVE  LockInv' /\ (Quiet \/ \E c \in Client : StepOnLists(c))
<1> USE DEF tables, locks, ghosts
<1>1. ASSUME NEW c \in Client, Select(c) PROVE LockInv' /\ Quiet
  <2>1. phase[c] = "select"
    BY <1>1 DEF Select
  <2>2. CASE SelectNothing(c)
    BY <2>1, <2>2, QuietPhase DEF SelectNothing
  <2>3. CASE SelectLive(c)
    BY <2>1, <2>3, QuietLeave DEF SelectLive, Busy
  <2>4. CASE SelectExpired(c)
    BY <2>1, <2>4, QuietPhase DEF SelectExpired
  <2> QED BY <1>1, <2>2, <2>3, <2>4 DEF Select
<1>2. ASSUME NEW c \in Client, Insert(c) PROVE LockInv' /\ Quiet
  <2>1. phase[c] = "insert"
    BY <1>2 DEF Insert
  <2>2. CASE InsertSucceeds(c)
    BY <2>1, <2>2, QuietPhase DEF InsertSucceeds
  <2>3. CASE Rollback(c)
    BY <2>1, <2>3, QuietRollback DEF Busy
  <2>4. CASE InsertRefused(c)
    BY <2>1, <2>3, <2>4, QuietPhase DEF InsertRefused
  <2> QED BY <1>2, <2>2, <2>4 DEF Insert
<1>3. ASSUME NEW c \in Client, Lock(c) PROVE LockInv' /\ (Quiet \/ StepOnLists(c))
  <2>1. CASE lists[request[c].list] = NoRow
    BY <1>3, <2>1, QuietRollback DEF Lock, Busy
  <2>2. CASE lists[request[c].list] # NoRow
    BY <1>3, <2>2, AcquireEffect DEF Acquire, StepOnLists
  <2> QED BY <2>1, <2>2
<1>4. ASSUME NEW c \in Client, Execute(c) PROVE LockInv' /\ StepOnLists(c)
  BY <1>4, ExecuteEffect DEF Execute, StepOnLists
<1>5. ASSUME NEW c \in Client, Abort(c) PROVE LockInv' /\ Quiet
  BY <1>5, QuietRollback DEF Abort, Busy
<1>6. ASSUME NEW c \in Client, NEW r \in Requests, Send(c, r) PROVE LockInv' /\ Quiet
  <2>1. /\ phase[c] = "idle" /\ phase' = [phase EXCEPT ![c] = "select"]
        /\ UNCHANGED <<lists, snapshots, history, view, listHolder, copy>>
        /\ \A d \in Client \ {c} : request'[d] = request[d]
    BY <1>6 DEF Send, Typed, TypeOK
  <2> QED BY <2>1, QuietPhase
<1>7. ASSUME NEW c \in Client, ReadItems(c) \/ \E l \in List : ReadRow(c, l) PROVE LockInv' /\ StepOnLists(c)
  BY <1>7, ReadsKeepLocks DEF StepOnLists
<1>8. ASSUME NEW id \in Identity, Expire(id) PROVE LockInv' /\ Quiet
  BY <1>8, LockQuiet DEF Expire, Quiet, Mutating
<1>9. CASE UNCHANGED vars
  BY <1>9, LockQuiet DEF vars, Quiet, Mutating
<1> QED BY <1>1, <1>2, <1>3, <1>4, <1>5, <1>6, <1>7, <1>8, <1>9 DEF Next, Handle

LEMMA LockNext == Typed /\ LockInv /\ [Next]_vars => LockInv'
BY StepShape

\* What every step does to a list, told alone.
LEMMA ListStep ==
  ASSUME Typed, LockInv, [Next]_vars, NEW l \in List
  PROVE  Kept(l) \/ Created(l) \/ NextRevision(l)
<1>1. ASSUME Quiet PROVE Kept(l)
  BY <1>1 DEF Quiet, Kept
<1>2. ASSUME NEW c \in Client, Acquire(c) PROVE Kept(l)
  BY <1>2, AcquireEffect DEF Kept, tables
<1>3. ASSUME NEW c \in Client, ReadItems(c) \/ \E x \in List : ReadRow(c, x) PROVE Kept(l)
  BY <1>3 DEF ReadItems, ReadRow, Kept, tables, ghosts
<1> QED BY <1>1, <1>2, <1>3, StepShape DEF StepOnLists, Effect

-----------------------------------------------------------------------------
(* Revisions *)

\* A list that is not there has no past: what ids are made for.
NoPast == \A l \in List : lists[l] = NoRow => history[l] = <<>>

NumberInv == RevisionCountsChanges /\ NoPast

LEMMA NumberInit == Init => NumberInv
<1> SUFFICES ASSUME Init, NEW l \in List
             PROVE  /\ lists[l] # NoRow => /\ lists[l].revision = Len(history[l])
                                           /\ Contents(lists[l]) = history[l][lists[l].revision]
                    /\ lists[l] = NoRow => history[l] = <<>>
  BY DEF NumberInv, RevisionCountsChanges, NoPast
<1>1. Len(<<Contents(NewList)>>) = 1 /\ <<Contents(NewList)>>[1] = Contents(NewList)
  OBVIOUS
<1>2. CASE l \in Existing
  BY <1>1, <1>2, NewListTyped, NoRowAssumption DEF Init
<1>3. CASE l \notin Existing
  BY <1>3 DEF Init
<1> QED BY <1>2, <1>3

\* What a list has had, it has had: only the next entry can be new.
LEMMA HistoryGrows ==
  ASSUME Typed, NumberInv, NEW l \in List, Kept(l) \/ Created(l) \/ NextRevision(l)
  PROVE  /\ Len(history[l]) \in Nat
         /\ Len(history'[l]) \in Nat /\ Len(history[l]) <= Len(history'[l])
         /\ \A n \in 1 .. Len(history[l]) : history'[l][n] = history[l][n]
<1>1. history[l] \in Seq(Past) /\ Len(history[l]) \in Nat
  BY HistoryTyped
<1>2. CASE Kept(l)
  BY <1>1, <1>2 DEF Kept
<1>3. CASE Created(l)
  <2>1. history[l] = <<>> /\ Len(history'[l]) = 1
    BY <1>3 DEF Created, NumberInv, NoPast
  <2>2. Len(history[l]) = 0
    BY <2>1
  <2> QED BY <2>1, <2>2
<1>4. CASE NextRevision(l)
  <2>1. PICK row \in ListRow : history'[l] = Append(history[l], Contents(row))
    BY <1>4 DEF NextRevision
  <2>2. Contents(row) \in Past
    BY ContentsTyped
  <2> QED BY <1>1, <2>1, <2>2
<1> QED BY <1>2, <1>3, <1>4

LEMMA NumberNext == Typed /\ LockInv /\ NumberInv /\ [Next]_vars => NumberInv'
<1> SUFFICES ASSUME Typed, LockInv, NumberInv, [Next]_vars, NEW l \in List
             PROVE  /\ lists'[l] # NoRow => /\ lists'[l].revision = Len(history'[l])
                                            /\ Contents(lists'[l]) = history'[l][lists'[l].revision]
                    /\ lists'[l] = NoRow => history'[l] = <<>>
  BY DEF NumberInv, RevisionCountsChanges, NoPast, Contents
<1>1. CASE Kept(l)
  BY <1>1 DEF NumberInv, RevisionCountsChanges, NoPast, Kept
<1>2. CASE Created(l)
  <2>1. Len(<<Contents(NewList)>>) = 1 /\ <<Contents(NewList)>>[1] = Contents(NewList)
    OBVIOUS
  <2> QED BY <1>2, <2>1, NewListTyped, NoRowAssumption DEF Created
<1>3. CASE NextRevision(l)
  <2>1. PICK row \in ListRow : /\ lists[l] # NoRow /\ row.revision = lists[l].revision + 1
                               /\ lists'[l] = row /\ history'[l] = Append(history[l], Contents(row))
    BY <1>3 DEF NextRevision
  <2>2. lists[l].revision = Len(history[l])
    BY <2>1 DEF NumberInv, RevisionCountsChanges
  <2>3. history[l] \in Seq(Past) /\ Contents(row) \in Past
    BY HistoryTyped, ContentsTyped
  <2>4. Len(history'[l]) = Len(history[l]) + 1 /\ history'[l][Len(history[l]) + 1] = Contents(row)
    BY <2>1, <2>3
  <2> QED BY <2>1, <2>2, <2>4, NoRowAssumption
<1> QED BY <1>1, <1>2, <1>3, ListStep

LEMMA NumberAlways == Spec => [](Typed /\ LockInv /\ NumberInv)
<1>1. Spec => []Typed
  BY TypedAlways
<1> QED BY <1>1, LockInit, LockNext, NumberInit, NumberNext, PTL DEF Spec

(* No update of a list is lost: the revision counts the changes that were    *)
(* committed, because no two transactions are between reading the row and    *)
(* committing the next one.                                                  *)
THEOREM UpdatesAreNotLost == Spec => []RevisionCountsChanges
<1>1. NumberInv => RevisionCountsChanges
  BY DEF NumberInv
<1> QED BY <1>1, NumberAlways, PTL

-----------------------------------------------------------------------------
(* Optimizations *)

\* The two halves of SnapshotsAreOfRevisions.
OfRevisions ==
    \A s \in snapshots :
        /\ s.revision <= Len(history[s.list])
        /\ history[s.list][s.revision] = [archived |-> FALSE, items |-> s.items]
        /\ SnapshotsAlike(s) = {s}

InputOf(c) == [list |-> request[c].list, revision |-> copy[c].row.revision, items |-> copy[c].row.items]
Optimizing(c) == phase[c] = "execute" /\ request[c].op = "optimize"
Found == \A c \in Client : Optimizing(c) => copy[c].found = SnapshotsAlike(InputOf(c))

PlanInv == OfRevisions /\ Found

LEMMA PlanInit == Init => PlanInv
BY DEF Init, PlanInv, OfRevisions, Found, Optimizing

LEMMA RevisionsKept ==
  ASSUME Typed, LockInv, NumberInv, [Next]_vars, NEW s \in Snapshot,
         s.revision <= Len(history[s.list]),
         history[s.list][s.revision] = [archived |-> FALSE, items |-> s.items]
  PROVE  /\ s.revision <= Len(history'[s.list])
         /\ history'[s.list][s.revision] = [archived |-> FALSE, items |-> s.items]
<1>1. s.list \in List /\ s.revision \in Nat /\ s.revision # 0
  BY DEF Snapshot
<1>2. /\ Len(history[s.list]) \in Nat /\ Len(history'[s.list]) \in Nat
      /\ Len(history[s.list]) <= Len(history'[s.list])
      /\ \A n \in 1 .. Len(history[s.list]) : history'[s.list][n] = history[s.list][n]
  BY <1>1, ListStep, HistoryGrows
<1>3. s.revision \in 1 .. Len(history[s.list])
  BY <1>1, <1>2
<1> QED BY <1>1, <1>2, <1>3

\* The snapshot that is stored is of the row that its transaction holds.
LEMMA NewSnapshotIsOfRevision ==
  ASSUME Typed, LockInv, NumberInv, NEW c \in Client, Mutating(c), NEW s \in Snapshot, NewSnapshot(c, s)
  PROVE  /\ s.revision <= Len(history[s.list])
         /\ history[s.list][s.revision] = [archived |-> FALSE, items |-> s.items]
<1>1. s.list \in List /\ lists[s.list] = copy[c].row /\ copy[c].row \in ListRow /\ copy[c].row # NoRow
  BY BusyParts, NoRowAssumption DEF Busy, Mutating, NewSnapshot, LockInv, Copied
<1>2. lists[s.list].revision = s.revision /\ lists[s.list].items = s.items /\ lists[s.list].archived = FALSE
  BY <1>1 DEF NewSnapshot, ListRow
<1>3. lists[s.list].revision = Len(history[s.list]) /\ Contents(lists[s.list]) = history[s.list][lists[s.list].revision]
  BY <1>1 DEF NumberInv, RevisionCountsChanges
<1>4. Len(history[s.list]) \in Nat
  BY <1>1, HistoryTyped
<1>5. Contents(lists[s.list]) = [archived |-> FALSE, items |-> s.items]
  BY <1>2, Zenon DEF Contents
<1>6. history[s.list][s.revision] = [archived |-> FALSE, items |-> s.items]
  BY <1>2, <1>3, <1>5, Zenon
<1>7. s.revision = Len(history[s.list])
  BY <1>2, <1>3, Zenon
<1> QED BY <1>4, <1>6, <1>7

\* Whom the lists of two transactions keep apart.
LEMMA ListsApart ==
  ASSUME Typed, LockInv, NEW c \in Client, NEW d \in Client, c # d, Mutating(c), Mutating(d)
  PROVE  request[c].list # request[d].list
<1>1. request[c].list \in List
  BY BusyParts DEF Mutating, Busy
<1>2. listHolder[request[c].list] = c
  BY <1>1 DEF LockInv, Locked
<1> QED BY <1>1, <1>2 DEF LockInv, Locked

\* Somebody else's snapshot is of another list.
LEMMA FoundKept ==
  ASSUME Typed, LockInv, PlanInv, NEW c \in Client, Mutating(c),
         NEW s \in Snapshot, NewSnapshot(c, s), NEW d \in Client, d # c, Optimizing(d)
  PROVE  copy[d].found = {t \in snapshots' : /\ t.list = request[d].list
                                             /\ t.revision = copy[d].row.revision
                                             /\ t.items = copy[d].row.items}
<1>1. s.list = request[c].list /\ s.list # request[d].list
  BY ListsApart DEF NewSnapshot, Optimizing, Mutating
<1>2. snapshots' = snapshots \union {s}
  BY DEF NewSnapshot
<1>3. copy[d].found = {t \in snapshots : /\ t.list = request[d].list
                                         /\ t.revision = copy[d].row.revision
                                         /\ t.items = copy[d].row.items}
  BY DEF PlanInv, Found, SnapshotsAlike, InputOf
<1> QED BY <1>1, <1>2, <1>3

LEMMA AlikeKept ==
  ASSUME OfRevisions, NEW c \in Client, NEW s \in Snapshot, NewSnapshot(c, s), NEW t \in snapshots'
  PROVE  {u \in snapshots' : u.list = t.list /\ u.revision = t.revision /\ u.items = t.items} = {t}
<1>1. /\ snapshots' = snapshots \union {s}
      /\ {u \in snapshots : u.list = s.list /\ u.revision = s.revision /\ u.items = s.items} = {}
  BY DEF NewSnapshot, SnapshotsAlike
<1>2. CASE t \in snapshots
  <2>1. {u \in snapshots : u.list = t.list /\ u.revision = t.revision /\ u.items = t.items} = {t}
    BY <1>2 DEF OfRevisions, SnapshotsAlike
  <2> QED BY <1>1, <1>2, <2>1
<1>3. CASE t = s
  BY <1>1, <1>3
<1> QED BY <1>1, <1>2, <1>3

LEMMA OfRevisionsNext ==
  ASSUME Typed, LockInv, NumberInv, OfRevisions, [Next]_vars PROVE OfRevisions'
<1>1. snapshots \subseteq Snapshot
  BY DEF Typed, TypeOK
<1>2. CASE UNCHANGED snapshots
  <2>1. \A s : SnapshotsAlike(s)' = SnapshotsAlike(s)
    BY <1>2 DEF SnapshotsAlike
  <2> QED BY <1>1, <1>2, <2>1, RevisionsKept DEF OfRevisions, SnapshotsAlike
<1>3. ASSUME NEW c \in Client, Mutating(c), NEW s \in Snapshot, NewSnapshot(c, s) PROVE OfRevisions'
  <2>1. ASSUME NEW t \in snapshots'
        PROVE  /\ t.revision <= Len(history'[t.list])
               /\ history'[t.list][t.revision] = [archived |-> FALSE, items |-> t.items]
    <3>1. t \in Snapshot /\ (t \in snapshots \/ t = s)
      BY <1>1, <1>3 DEF NewSnapshot
    <3>2. /\ t.revision <= Len(history[t.list])
          /\ history[t.list][t.revision] = [archived |-> FALSE, items |-> t.items]
      BY <1>3, <3>1, NewSnapshotIsOfRevision DEF OfRevisions
    <3> QED BY <3>1, <3>2, RevisionsKept
  <2> QED BY <1>3, <2>1, AlikeKept DEF OfRevisions, SnapshotsAlike
<1>4. UNCHANGED snapshots \/ \E c \in Client : Mutating(c) /\ \E s \in Snapshot : NewSnapshot(c, s)
  BY StepShape, AcquireEffect DEF Quiet, StepOnLists, Effect, ReadItems, ReadRow, tables
<1> QED BY <1>2, <1>3, <1>4

LEMMA FoundNext ==
  ASSUME Typed, LockInv, PlanInv, [Next]_vars PROVE Found'
<1> SUFFICES ASSUME NEW d \in Client, Optimizing(d)'
             PROVE  copy'[d].found = {t \in snapshots' : /\ t.list = request'[d].list
                                                         /\ t.revision = copy'[d].row.revision
                                                         /\ t.items = copy'[d].row.items}
  BY DEF Found, SnapshotsAlike, InputOf
<1>1. ASSUME Optimizing(d), request'[d] = request[d], copy'[d] = copy[d], UNCHANGED snapshots
      PROVE  copy'[d].found = {t \in snapshots' : /\ t.list = request'[d].list
                                                  /\ t.revision = copy'[d].row.revision
                                                  /\ t.items = copy'[d].row.items}
  BY <1>1 DEF PlanInv, Found, SnapshotsAlike, InputOf
<1>2. CASE Quiet
  BY <1>1, <1>2 DEF Quiet, Optimizing, Mutating
<1>3. ASSUME NEW c \in Client, phase[c] = "execute", Leave(c), Effect(c)
      PROVE  copy'[d].found = {t \in snapshots' : /\ t.list = request'[d].list
                                                  /\ t.revision = copy'[d].row.revision
                                                  /\ t.items = copy'[d].row.items}
  <2>1. d # c /\ Optimizing(d) /\ request'[d] = request[d] /\ copy'[d] = copy[d]
    BY <1>3, LeaveEffect DEF Typed, Optimizing
  <2> QED BY <1>1, <1>3, <2>1, FoundKept DEF Effect
<1>4. ASSUME NEW c \in Client, Acquire(c)
      PROVE  copy'[d].found = {t \in snapshots' : /\ t.list = request'[d].list
                                                  /\ t.revision = copy'[d].row.revision
                                                  /\ t.items = copy'[d].row.items}
  <2>1. CASE d = c
    BY <1>4, <2>1, AcquireEffect DEF Optimizing, tables
  <2>2. CASE d # c
    BY <1>1, <1>4, <2>2, AcquireEffect DEF Optimizing, tables
  <2> QED BY <2>1, <2>2
<1>5. ASSUME NEW c \in Client, ReadItems(c) \/ \E l \in List : ReadRow(c, l)
      PROVE  copy'[d].found = {t \in snapshots' : /\ t.list = request'[d].list
                                                  /\ t.revision = copy'[d].row.revision
                                                  /\ t.items = copy'[d].row.items}
  <2>1. UNCHANGED <<snapshots, request, copy>> /\ (phase'[d] = "execute" => phase[d] = "execute")
    BY <1>5 DEF ReadItems, ReadRow, tables, Typed, TypeOK
  <2> QED BY <1>1, <2>1 DEF Optimizing
<1> QED BY <1>2, <1>3, <1>4, <1>5, StepShape DEF StepOnLists

LEMMA PlanNext == Typed /\ LockInv /\ NumberInv /\ PlanInv /\ [Next]_vars => PlanInv'
BY OfRevisionsNext, FoundNext DEF PlanInv

(* A stored optimization is of what its list held at its revision, there is  *)
(* one for each revision, and what a transaction has found is still all that *)
(* there is when it decides: nobody else can have stored one since.          *)
THEOREM SnapshotsAreTrue == Spec => []SnapshotsAreOfRevisions
<1>1. PlanInv => SnapshotsAreOfRevisions
  BY DEF PlanInv, OfRevisions, Found, Optimizing, InputOf, SnapshotsAreOfRevisions
<1>2. Spec => []PlanInv
  BY NumberAlways, PlanInit, PlanNext, PTL DEF Spec
<1> QED BY <1>1, <1>2, PTL

-----------------------------------------------------------------------------
(* Views *)

\* A view is never of a later revision than the list, and it has the items of
\* its revision unless the list has a later one.
ViewOf(c) ==
    view[c].list # NoRow =>
        /\ view[c].list \in List /\ lists[view[c].list] # NoRow
        /\ view[c].revision <= lists[view[c].list].revision
        /\ phase[c] # "reading" /\ view[c].revision = lists[view[c].list].revision
              => view[c].items = lists[view[c].list].items
Seen == \A c \in Client : ViewOf(c)

LEMMA SeenInit == Init => Seen
BY DEF Init, Seen, ViewOf, NoView

\* A view that nobody touches stays what it was, whatever happens to lists.
LEMMA SeenKept ==
  ASSUME Typed, LockInv, [Next]_vars, NEW c \in Client, ViewOf(c),
         view'[c] = view[c], phase'[c] = "reading" <=> phase[c] = "reading"
  PROVE  ViewOf(c)'
<1> SUFFICES ASSUME view[c].list # NoRow
             PROVE  /\ lists'[view[c].list] # NoRow
                    /\ view[c].revision <= lists'[view[c].list].revision
                    /\ phase[c] # "reading" /\ view[c].revision = lists'[view[c].list].revision
                          => view[c].items = lists'[view[c].list].items
  BY DEF ViewOf
<1> DEFINE l == view[c].list
<1>1. l \in List /\ lists[l] \in ListRow /\ lists[l].revision \in Nat /\ view[c].revision \in Nat
  BY DEF ViewOf, Typed, TypeOK, ListRow
<1>2. CASE Kept(l)
  BY <1>2 DEF Kept, ViewOf
<1>3. CASE NextRevision(l)
  <2>1. PICK row \in ListRow : row.revision = lists[l].revision + 1 /\ lists'[l] = row
    BY <1>3 DEF NextRevision
  <2>2. view[c].revision <= lists[l].revision
    BY DEF ViewOf
  <2> QED BY <1>1, <2>1, <2>2, NoRowAssumption
<1> QED BY <1>1, <1>2, <1>3, ListStep, NoRowAssumption DEF Created

LEMMA SeenNext == Typed /\ LockInv /\ Seen /\ [Next]_vars => Seen'
<1> SUFFICES ASSUME Typed, LockInv, Seen, [Next]_vars, NEW d \in Client PROVE ViewOf(d)'
  BY DEF Seen
<1>1. ViewOf(d)
  BY DEF Seen
<1>2. CASE Quiet
  BY <1>1, <1>2, SeenKept DEF Quiet
<1>3. ASSUME NEW c \in Client, phase[c] = "execute", Leave(c) PROVE ViewOf(d)'
  <2>1. view'[d] = view[d] /\ (phase'[d] = "reading" <=> phase[d] = "reading")
    BY <1>3, LeaveEffect DEF Typed
  <2> QED BY <1>1, <2>1, SeenKept
<1>4. ASSUME NEW c \in Client, Acquire(c) PROVE ViewOf(d)'
  <2>1. view'[d] = view[d] /\ (phase'[d] = "reading" <=> phase[d] = "reading")
    BY <1>4, AcquireEffect
  <2> QED BY <1>1, <2>1, SeenKept
<1>5. ASSUME NEW c \in Client, NEW l \in List, ReadRow(c, l) PROVE ViewOf(d)'
  <2>1. CASE d = c
    <3> DEFINE seen == [list |-> l, revision |-> lists[l].revision, items |-> <<>>]
    <3>1. view'[c] = seen /\ phase'[c] = "reading" /\ lists[l] # NoRow /\ UNCHANGED lists
      BY <1>5 DEF ReadRow, Typed, TypeOK, tables
    <3>2. lists[l].revision \in Nat
      BY <3>1 DEF Typed, TypeOK, ListRow
    <3>3. seen.list = l /\ seen.revision = lists[l].revision
      OBVIOUS
    <3> QED BY <2>1, <3>1, <3>2, <3>3 DEF ViewOf
  <2>2. CASE d # c
    <3>1. view'[d] = view[d] /\ phase'[d] = phase[d]
      BY <1>5, <2>2 DEF ReadRow, Typed, TypeOK
    <3> QED BY <1>1, <3>1, SeenKept
  <2> QED BY <2>1, <2>2
<1>6. ASSUME NEW c \in Client, ReadItems(c) PROVE ViewOf(d)'
  <2>1. CASE d = c
    <3> DEFINE seen == [view[c] EXCEPT !.items = lists[view[c].list].items]
    <3>1. view'[c] = seen /\ UNCHANGED lists
      BY <1>6 DEF ReadItems, Typed, TypeOK, tables
    <3>2. view[c] \in View
      BY DEF Typed, TypeOK, View
    <3>3. seen.list = view[c].list /\ seen.revision = view[c].revision /\ seen.items = lists[view[c].list].items
      BY <3>2 DEF View
    <3> QED BY <1>1, <2>1, <3>1, <3>3 DEF ViewOf
  <2>2. CASE d # c
    <3>1. view'[d] = view[d] /\ phase'[d] = phase[d]
      BY <1>6, <2>2 DEF ReadItems, Typed, TypeOK
    <3> QED BY <1>1, <3>1, SeenKept
  <2> QED BY <2>1, <2>2
<1> QED BY <1>2, <1>3, <1>4, <1>5, <1>6, StepShape DEF StepOnLists

(* Who optimizes the revision of a view gets a plan for the items of the     *)
(* view, though a view is read in two statements and locks nothing: the row  *)
(* that a transaction has locked is the list as it is, and a view that names *)
(* the revision of that row has its items.                                   *)
THEOREM PlansAreOfViews == Spec => []OptimizesWhatWasSeen
<1>1. ASSUME Typed, LockInv, Seen, NEW c \in Client,
             phase[c] = "execute", request[c].op = "optimize", request[c].list = view[c].list,
             copy[c].row.revision = request[c].revision, view[c].revision = request[c].revision
      PROVE  copy[c].row.items = view[c].items
  <2>1. Mutating(c) /\ view[c].list \in List /\ view[c].list # NoRow
    BY <1>1, BusyParts, NoRowAssumption DEF Mutating, Busy
  <2>2. copy[c].row = lists[view[c].list]
    BY <1>1, <2>1 DEF LockInv, Copied
  <2>3. ViewOf(c)
    BY <1>1 DEF Seen
  <2> QED BY <1>1, <2>1, <2>2, <2>3 DEF ViewOf
<1>2. Typed /\ LockInv /\ Seen => OptimizesWhatWasSeen
  BY <1>1 DEF OptimizesWhatWasSeen
<1>3. Spec => [](Typed /\ LockInv /\ Seen)
  BY NumberAlways, SeenInit, SeenNext, PTL DEF Spec
<1> QED BY <1>2, <1>3, PTL
=============================================================================
