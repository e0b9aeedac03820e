------------------------- MODULE ConsumerMutations -------------------------
(***************************************************************************)
(* The consumer's mutations: services/idempotency.py, and the handlers of  *)
(* api/routes/lists.py and api/routes/optimizations.py that use it.        *)
(*                                                                         *)
(* Each request is one PostgreSQL transaction (READ COMMITTED) of one      *)
(* user: claim the idempotency key, lock the list, change it, store the    *)
(* answer under the key, commit.  What a transaction has written is        *)
(* invisible until it commits, so it is the locks it holds that are state: *)
(* holder of a key (an uncommitted insert, or FOR UPDATE on an expired     *)
(* record) and of a list row.                                              *)
(***************************************************************************)
EXTENDS Naturals, Sequences, FiniteSets

CONSTANTS
    Client,       \* those who send requests, each one at a time
    Key,          \* values of the Idempotency-Key header
    List, Item,   \* ids that rows can get; bound: a row that finds none free is not added
    Existing,     \* the lists that were created before
    Quantity,
    Requests,     \* the requests that are sent, a subset of Request
    Nobody, NoRow,
    MaxSends,     \* bound: requests in a behaviour, repeats included
    MaxReads,     \* bound: lists that clients read
    MaxExpiries   \* bound: records whose time to live ends

ASSUME ExistingAssumption == Existing \subseteq List
ASSUME NobodyAssumption == Nobody \notin Client
ASSUME BoundsAssumption == MaxSends \in Nat /\ MaxReads \in Nat /\ MaxExpiries \in Nat

\* The bodies of schemas/shopping_lists.py.  archived |-> "keep" is an update
\* of the name only; confirmed is an item with a selected product.
Request ==
         [op : {"create"}, key : Key]
  \union [op : {"update"}, key : Key, list : List, archived : {"yes", "no", "keep"}]
  \union [op : {"add_item"}, key : Key, list : List, confirmed : BOOLEAN, quantity : Quantity]
  \union [op : {"update_item"}, key : Key, list : List, item : Item, quantity : Quantity]
  \union [op : {"remove_item"}, key : Key, list : List, item : Item]
  \union [op : {"optimize"}, key : Key, list : List, revision : Nat \ {0}]

ASSUME RequestsAssumption == Requests \subseteq Request

\* The unique key of idempotency_records, for one user.
Identity == {"create", "update", "add_item", "update_item", "remove_item", "optimize"} \X Key
IdOf(r) == <<r.op, r.key>>

\* A list's items: what each id in the list stands for.
Items == UNION {[S -> [quantity : Quantity, confirmed : BOOLEAN]] : S \in SUBSET Item}
ListRow == [revision : Nat \ {0}, archived : BOOLEAN, items : Items]
NewList_Zero == [revision |-> 0, archived |-> FALSE, items |-> <<>>]
NewList == [revision |-> 1, archived |-> FALSE, items |-> <<>>]

\* A row of optimization_requests; its request_id is a digest of the others.
PlanStatus == {"ready", "unresolved", "unavailable", "infeasible", "no_plan"}
Snapshot == [list : List, revision : Nat \ {0}, items : Items, status : PlanStatus]

\* What an accepted request is answered: the list, or the snapshot.
Answer == [code : {200, 201, 204}, list : List, row : ListRow \union {NoRow}]
          \union [code : {200, 201}, snapshot : Snapshot]
Record == [request : Request, answer : Answer, live : BOOLEAN]

ASSUME NoRowAssumption == NoRow \notin List /\ NoRow \notin ListRow /\ NoRow \notin Record

Phase == {"idle", "reading", "select", "insert", "lock", "execute"}

VARIABLES
    lists,      \* shopping_lists with their items, as committed
    snapshots,  \* optimization_requests, as committed
    records,    \* idempotency_records, as committed
    keyHolder, listHolder,
    phase, request,
    copy,       \* the row and the earlier snapshot a transaction has read
    view,       \* what the client's last GET returned
    sends, reads, expiries,
    \* History: the contents a list has had; per key and life of its record,
    \* how often its request ran and what was answered.
    history, ran, answered

vars == <<lists, snapshots, records, keyHolder, listHolder, phase, request, copy, view,
          sends, reads, expiries, history, ran, answered>>
locks == <<keyHolder, listHolder>>
tables == <<lists, snapshots, records>>
ghosts == <<history, ran, answered>>

NoCopy == [row |-> NoRow, found |-> {}]
NoView == [list |-> NoRow, revision |-> 0, items |-> <<>>]

TypeOK ==
    /\ lists \in [List -> ListRow \union {NoRow}]
    /\ snapshots \subseteq Snapshot
    /\ records \in [Identity -> Record \union {NoRow}]
    /\ keyHolder \in [Identity -> Client \union {Nobody}]
    /\ listHolder \in [List -> Client \union {Nobody}]
    /\ phase \in [Client -> Phase]
    /\ request \in [Client -> Requests \union {NoRow}]
    /\ copy \in [Client -> [row : ListRow \union {NoRow}, found : SUBSET Snapshot]]
    /\ view \in [Client -> [list : List \union {NoRow}, revision : Nat, items : Items]]
    /\ sends \in 0 .. MaxSends /\ reads \in 0 .. MaxReads /\ expiries \in 0 .. MaxExpiries
    /\ history \in [List -> Seq([archived : BOOLEAN, items : Items])]
    /\ ran \in [Identity -> Nat]
    /\ answered \in [Identity -> SUBSET Answer]

Contents(row) == [archived |-> row.archived, items |-> row.items]

Init ==
    /\ lists = [l \in List |-> IF l \in Existing THEN NewList ELSE NoRow]
    /\ snapshots = {}
    /\ records = [i \in Identity |-> NoRow]
    /\ keyHolder = [i \in Identity |-> Nobody]
    /\ listHolder = [l \in List |-> Nobody]
    /\ phase = [c \in Client |-> "idle"]
    /\ request = [c \in Client |-> NoRow]
    /\ copy = [c \in Client |-> NoCopy]
    /\ view = [c \in Client |-> NoView]
    /\ sends = 0 /\ reads = 0 /\ expiries = 0
    /\ history = [l \in List |-> IF l \in Existing THEN <<Contents(NewList)>> ELSE <<>>]
    /\ ran = [i \in Identity |-> 0]
    /\ answered = [i \in Identity |-> {}]

------------------------------------------------------------------------------
(* Ends of a transaction.  get_db closes the session when the handler is    *)
(* left, whichever way: whatever was not committed is rolled back.          *)

Released(holder, c) == [x \in DOMAIN holder |-> IF holder[x] = c THEN Nobody ELSE holder[x]]

\* get_db without its finally: a refused request keeps its locks.
Leave_Leaks(c) ==
    /\ keyHolder' = Released(keyHolder, c)
    /\ phase' = [phase EXCEPT ![c] = "idle"]
    /\ request' = [request EXCEPT ![c] = NoRow]
    /\ copy' = [copy EXCEPT ![c] = NoCopy]
    /\ UNCHANGED <<listHolder, view, sends, reads, expiries>>

Leave(c) ==
    /\ keyHolder' = Released(keyHolder, c)
    /\ listHolder' = Released(listHolder, c)
    /\ phase' = [phase EXCEPT ![c] = "idle"]
    /\ request' = [request EXCEPT ![c] = NoRow]
    /\ copy' = [copy EXCEPT ![c] = NoCopy]
    /\ UNCHANGED <<view, sends, reads, expiries>>

\* 404, 409, an exception of the planner, the death of the process.
Rollback(c) == Leave(c) /\ UNCHANGED <<tables, ghosts>>

\* complete: the answer is stored in the transaction of the change.
Complete(c, answer) ==
    LET id == IdOf(request[c]) IN
    /\ records' = [records EXCEPT ![id] = [request |-> request[c], answer |-> answer,
                                           live |-> TRUE]]
    /\ ran' = [ran EXCEPT ![id] = @ + 1]
    /\ answered' = [answered EXCEPT ![id] = @ \union {answer}]
    /\ Leave(c)

------------------------------------------------------------------------------
(* Claiming the key. *)

\* The client sends a request, for the first time or again.
Send(c, r) ==
    /\ phase[c] = "idle" /\ sends < MaxSends
    /\ phase' = [phase EXCEPT ![c] = "select"]
    /\ request' = [request EXCEPT ![c] = r]
    /\ sends' = sends + 1
    /\ UNCHANGED <<tables, locks, copy, view, reads, expiries, ghosts>>

\* The SELECT ... FOR UPDATE sees committed records only, and waits for one
\* that another transaction is replacing.  A live record is replayed or is a
\* conflict; one that has expired is deleted and inserted anew.
SelectNothing(c) ==
    /\ records[IdOf(request[c])] = NoRow
    /\ phase' = [phase EXCEPT ![c] = "insert"]
    /\ UNCHANGED <<tables, locks, request, copy, view, sends, reads, expiries, ghosts>>

SelectLive(c) ==
    LET id == IdOf(request[c]) IN
    /\ records[id] # NoRow /\ keyHolder[id] = Nobody
    /\ records[id].live
    /\ answered' = IF records[id].request = request[c]
                   THEN [answered EXCEPT ![id] = @ \union {records[id].answer}]
                   ELSE answered
    /\ Leave(c)
    /\ UNCHANGED <<tables, history, ran>>

NextPhase(r) == IF r.op = "create" THEN "execute" ELSE "lock"

\* Time compared the wrong way round.
SelectExpired_Early(c) ==
    LET id == IdOf(request[c]) IN
    /\ records[id] # NoRow /\ keyHolder[id] = Nobody
    /\ keyHolder' = [keyHolder EXCEPT ![id] = c]
    /\ phase' = [phase EXCEPT ![c] = NextPhase(request[c])]
    /\ UNCHANGED <<tables, listHolder, request, copy, view, sends, reads, expiries, ghosts>>

SelectExpired(c) ==
    LET id == IdOf(request[c]) IN
    /\ records[id] # NoRow /\ keyHolder[id] = Nobody
    /\ ~records[id].live
    /\ keyHolder' = [keyHolder EXCEPT ![id] = c]
    /\ phase' = [phase EXCEPT ![c] = NextPhase(request[c])]
    /\ UNCHANGED <<tables, listHolder, request, copy, view, sends, reads, expiries, ghosts>>

Select(c) == phase[c] = "select" /\ (SelectNothing(c) \/ SelectLive(c) \/ SelectExpired(c))

\* No unique constraint on the key.
InsertSucceeds_Twice(c) ==
    LET id == IdOf(request[c]) IN
    /\ keyHolder' = [keyHolder EXCEPT ![id] = c]
    /\ phase' = [phase EXCEPT ![c] = NextPhase(request[c])]
    /\ UNCHANGED <<tables, listHolder, request, copy, view, sends, reads, expiries, ghosts>>

\* The insert waits for a competing insert.  If that commits, the unique
\* constraint refuses this one, which rolls back and starts again, or gives
\* up after wait_timeout_seconds (409).
InsertSucceeds(c) ==
    LET id == IdOf(request[c]) IN
    /\ records[id] = NoRow
    /\ keyHolder' = [keyHolder EXCEPT ![id] = c]
    /\ phase' = [phase EXCEPT ![c] = NextPhase(request[c])]
    /\ UNCHANGED <<tables, listHolder, request, copy, view, sends, reads, expiries, ghosts>>

InsertRefused(c) ==
    /\ records[IdOf(request[c])] # NoRow
    /\ \/ /\ phase' = [phase EXCEPT ![c] = "select"]
          /\ UNCHANGED <<tables, locks, request, copy, view, sends, reads, expiries, ghosts>>
       \/ Rollback(c)

Insert(c) ==
    /\ phase[c] = "insert"
    /\ keyHolder[IdOf(request[c])] = Nobody
    /\ InsertSucceeds(c) \/ InsertRefused(c)

------------------------------------------------------------------------------
(* Executing the request. *)

\* _owned_list without lock.
Lock_Shared(c) ==
    LET l == request[c].list IN
    /\ phase[c] = "lock" /\ lists[l] # NoRow
    /\ copy' = [copy EXCEPT ![c] =
           [row |-> lists[l],
            found |-> {s \in snapshots : /\ request[c].op = "optimize"
                                         /\ s.list = l
                                         /\ s.revision = lists[l].revision
                                         /\ s.items = lists[l].items}]]
    /\ phase' = [phase EXCEPT ![c] = "execute"]
    /\ UNCHANGED <<tables, locks, request, view, sends, reads, expiries, ghosts>>

\* _owned_list with lock, and for an optimization the search for an earlier
\* snapshot of the same input.
Lock(c) ==
    LET l == request[c].list IN
    /\ phase[c] = "lock"
    /\ listHolder[l] = Nobody
    /\ IF lists[l] = NoRow
       THEN Rollback(c)
       ELSE /\ listHolder' = [listHolder EXCEPT ![l] = c]
            /\ copy' = [copy EXCEPT ![c] =
                   [row |-> lists[l],
                    found |-> {s \in snapshots : /\ request[c].op = "optimize"
                                                 /\ s.list = l
                                                 /\ s.revision = lists[l].revision
                                                 /\ s.items = lists[l].items}]]
            /\ phase' = [phase EXCEPT ![c] = "execute"]
            /\ UNCHANGED <<tables, keyHolder, request, view, sends, reads, expiries, ghosts>>

\* The list gets its next revision and the answer is the list.
Change(c, code, archived, items) ==
    LET l == request[c].list
        row == [revision |-> copy[c].row.revision + 1, archived |-> archived, items |-> items]
    IN  /\ lists' = [lists EXCEPT ![l] = row]
        /\ history' = [history EXCEPT ![l] = Append(@, Contents(row))]
        /\ Complete(c, [code |-> code, list |-> l,
                        row |-> IF code = 204 THEN NoRow ELSE row])
        /\ UNCHANGED snapshots

\* An id (uuid4) that no list has.
FreshLists == {l \in List : lists[l] = NoRow}

CreateList(c) ==
    /\ request[c].op = "create"
    /\ FreshLists # {}
    /\ LET l == CHOOSE x \in FreshLists : TRUE IN
          /\ lists' = [lists EXCEPT ![l] = NewList]
          /\ history' = [history EXCEPT ![l] = <<Contents(NewList)>>]
          /\ Complete(c, [code |-> 201, list |-> l, row |-> NewList])
          /\ UNCHANGED snapshots

\* The only change that an archived list accepts.
UpdateList(c) ==
    LET row == copy[c].row IN
    /\ request[c].op = "update"
    /\ Change(c, 200,
              CASE request[c].archived = "yes" -> TRUE
                [] request[c].archived = "no" -> FALSE
                [] request[c].archived = "keep" -> row.archived,
              row.items)

\* An id (uuid4) that the list never had.
FreshItems(l) == {i \in Item : \A n \in DOMAIN history[l] : i \notin DOMAIN history[l][n].items}

\* _ensure_active; the evidence of a selected product is current or is not.
AddItem(c) ==
    LET row == copy[c].row IN
    /\ request[c].op = "add_item"
    /\ IF row.archived THEN Rollback(c)
       ELSE \/ request[c].confirmed /\ Rollback(c)
            \/ LET new == CHOOSE i \in FreshItems(request[c].list) : TRUE IN
               /\ FreshItems(request[c].list) # {}
               /\ Change(c, 201, row.archived,
                         [i \in DOMAIN row.items \union {new} |->
                             IF i = new THEN [quantity |-> request[c].quantity,
                                              confirmed |-> request[c].confirmed]
                             ELSE row.items[i]])

\* A change that forgets the list's revision.
UpdateItem_Silent(c) ==
    LET l == request[c].list
        row == copy[c].row
        new == [row EXCEPT !.items[request[c].item].quantity = request[c].quantity]
    IN  /\ request[c].op = "update_item"
        /\ ~row.archived /\ request[c].item \in DOMAIN row.items
        /\ lists' = [lists EXCEPT ![l] = new]
        /\ Complete(c, [code |-> 200, list |-> l, row |-> new])
        /\ UNCHANGED <<snapshots, history>>

UpdateItem(c) ==
    LET row == copy[c].row IN
    /\ request[c].op = "update_item"
    /\ IF row.archived \/ request[c].item \notin DOMAIN row.items
       THEN Rollback(c)
       ELSE Change(c, 200, row.archived,
                   [row.items EXCEPT ![request[c].item].quantity = request[c].quantity])

DeleteItem(c) ==
    LET row == copy[c].row IN
    /\ request[c].op = "remove_item"
    /\ IF row.archived \/ request[c].item \notin DOMAIN row.items
       THEN Rollback(c)
       ELSE Change(c, 204, row.archived,
                   [i \in DOMAIN row.items \ {request[c].item} |-> row.items[i]])

\* _run_planner: the planner is asked only about confirmed items.
PlannerStatuses(items) ==
    IF \E i \in DOMAIN items : ~items[i].confirmed THEN {"unresolved"}
    ELSE IF DOMAIN items = {} THEN {"no_plan"}
    ELSE {"unresolved", "ready", "infeasible", "unavailable"}

\* _persist_plans reads canonical_product_id of an allocation, which has no
\* such field: a result with a chosen plan raises a KeyError and is not stored.
Storable(status) == status # "ready"

SnapshotsAlike(s) ==
    {t \in snapshots : t.list = s.list /\ t.revision = s.revision /\ t.items = s.items}

\* An earlier snapshot of the same input is the answer; otherwise the planner
\* runs and a new one is inserted, which the unique constraints of
\* optimization_requests may refuse (an error that nothing handles).
CreateOptimization(c) ==
    LET row == copy[c].row IN
    /\ request[c].op = "optimize"
    /\ IF row.archived \/ row.revision # request[c].revision
       THEN Rollback(c)
       ELSE \/ \E s \in copy[c].found :
                  Complete(c, [code |-> 200, snapshot |-> s]) /\ UNCHANGED <<lists, snapshots, history>>
            \/ \E status \in PlannerStatuses(row.items) :
                  LET s == [list |-> request[c].list, revision |-> row.revision,
                            items |-> row.items, status |-> status]
                  IN  /\ copy[c].found = {}
                      /\ IF ~Storable(status) \/ SnapshotsAlike(s) # {} THEN Rollback(c)
                         ELSE /\ snapshots' = snapshots \union {s}
                              /\ Complete(c, [code |-> 201, snapshot |-> s])
                              /\ UNCHANGED <<lists, history>>

Execute(c) ==
    /\ phase[c] = "execute"
    /\ \/ CreateList(c) \/ UpdateList(c) \/ AddItem(c) \/ UpdateItem(c) \/ DeleteItem(c)
       \/ CreateOptimization(c)

\* The handler raises, or the server loses its connection or its life.
Abort(c) == phase[c] \in {"select", "insert", "lock", "execute"} /\ Rollback(c)

------------------------------------------------------------------------------
(* Reading: get_list reads the row, then its items, and locks neither. *)

ReadRow(c, l) ==
    /\ phase[c] = "idle" /\ reads < MaxReads /\ lists[l] # NoRow
    /\ reads' = reads + 1
    /\ phase' = [phase EXCEPT ![c] = "reading"]
    /\ view' = [view EXCEPT ![c] = [list |-> l, revision |-> lists[l].revision, items |-> <<>>]]
    /\ UNCHANGED <<tables, locks, request, copy, sends, expiries, ghosts>>

ReadItems(c) ==
    /\ phase[c] = "reading"
    /\ phase' = [phase EXCEPT ![c] = "idle"]
    /\ view' = [view EXCEPT ![c].items = lists[view[c].list].items]
    /\ UNCHANGED <<tables, locks, request, copy, sends, reads, expiries, ghosts>>

\* idempotency_ttl_seconds pass: the key's next claim begins another life.
Expire(id) ==
    /\ expiries < MaxExpiries
    /\ records[id] # NoRow /\ keyHolder[id] = Nobody
    /\ records[id].live
    /\ records' = [records EXCEPT ![id].live = FALSE]
    /\ ran' = [ran EXCEPT ![id] = 0]
    /\ answered' = [answered EXCEPT ![id] = {}]
    /\ expiries' = expiries + 1
    /\ UNCHANGED <<lists, snapshots, locks, phase, request, copy, view, sends, reads, history>>

Handle(c) == Select(c) \/ Insert(c) \/ Lock(c) \/ Execute(c)

Next ==
    \/ \E c \in Client : \/ \E r \in Requests : Send(c, r)
                         \/ Handle(c)
                         \/ Abort(c)
                         \/ \E l \in List : ReadRow(c, l)
                         \/ ReadItems(c)
    \/ \E id \in Identity : Expire(id)

Spec == Init /\ [][Next]_vars

\* A handler that can take its next statement takes it: PostgreSQL grants a
\* lock that is free, and nothing in a handler waits for anything else.
Fairness == \A c \in Client : WF_vars(Handle(c)) /\ WF_vars(ReadItems(c))

FairSpec == Spec /\ Fairness

------------------------------------------------------------------------------
(* Properties. *)

\* While an idempotency record lives, the mutation of its key is performed at
\* most once, however often the request is sent, by whomever, at once or later.
KeyRunsOnce == \A id \in Identity : ran[id] <= 1

\* All repeats of a keyed request that are answered are answered alike: with
\* what was stored when it ran.
RepeatsAnswerAlike == \A id \in Identity : Cardinality(answered[id]) <= 1

\* No update of a list is lost: its revision counts the changes that were
\* committed, and it holds what the last of them left.
RevisionCountsChanges ==
    \A l \in List : lists[l] # NoRow =>
        /\ lists[l].revision = Len(history[l])
        /\ Contents(lists[l]) = history[l][lists[l].revision]

\* A stored optimization is of what the list held at the revision it names,
\* and there is one for each revision: the unique constraints of
\* optimization_requests are never what refuses a transaction.
SnapshotsAreOfRevisions ==
    /\ \A s \in snapshots :
          /\ s.revision <= Len(history[s.list])
          /\ history[s.list][s.revision] = [archived |-> FALSE, items |-> s.items]
          /\ SnapshotsAlike(s) = {s}
    /\ \A c \in Client :
          phase[c] = "execute" /\ request[c].op = "optimize" =>
             copy[c].found = SnapshotsAlike([list |-> request[c].list,
                                             revision |-> copy[c].row.revision,
                                             items |-> copy[c].row.items])

\* GET reads a list and its items in two statements, so a view can pair a
\* revision with later items.  Still, a client that optimizes the revision of
\* its view gets a plan for the items of its view, or is refused.
OptimizesWhatWasSeen ==
    \A c \in Client :
        /\ phase[c] = "execute" /\ request[c].op = "optimize"
        /\ request[c].list = view[c].list
        /\ copy[c].row.revision = request[c].revision
        /\ view[c].revision = request[c].revision
        => copy[c].row.items = view[c].items

\* Every request ends.  Requests wait for keys and for lists, and no wait is a
\* cycle: a key is always claimed before a list is locked.
EveryRequestEnds == \A c \in Client : phase[c] # "idle" ~> phase[c] = "idle"
=============================================================================
