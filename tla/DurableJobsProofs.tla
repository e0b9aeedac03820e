------------------------- MODULE DurableJobsProofs -------------------------
(***************************************************************************)
(* Proofs about DurableJobs, for any calls, workers, keys and bounds.      *)
(***************************************************************************)
EXTENDS DurableJobs, TLAPS

(* What one update makes of a row, of a call and of a worker. *)

LEMMA RowUpdates ==
  ASSUME NEW r \in Row
  PROVE  /\ [r EXCEPT !.status = "queued", !.lease = "none", !.due = TRUE] \in Row
         /\ [r EXCEPT !.lease = "expired"] \in Row
         /\ [r EXCEPT !.due = TRUE] \in Row
         /\ \A s \in {"queued"} \union Terminal, d \in BOOLEAN :
               [r EXCEPT !.status = s, !.lease = "none", !.due = d] \in Row
         /\ Leased(r) \in Row
<1>1. \A n \in Nat : [r EXCEPT !.status = "running", !.lease = "live", !.attempts = n] \in Row
  BY DEF Row
<1>2. r.attempts + 1 \in Nat
  BY DEF Row
<1>3. Leased(r) \in Row
  BY <1>1, <1>2 DEF Leased
<1> QED BY <1>3 DEF Row, Terminal

LEMMA CallUpdates ==
  ASSUME NEW r \in CallState
  PROVE  /\ \A a \in Call \union {"pending", "refused"} : [r EXCEPT !.pc = "done", !.answer = a] \in CallState
         /\ \A n \in Nat : [r EXCEPT !.pc = "insert", !.began = n] \in CallState
BY DEF CallState

LEMMA WorkerUpdates ==
  ASSUME NEW r \in WorkerState
  PROVE  /\ \A o \in Outcome : [r EXCEPT !.pc = "reporting", !.outcome = o] \in WorkerState
         /\ \A n \in Nat : [r EXCEPT !.pc = "writing", !.seen = n] \in WorkerState
         /\ [r EXCEPT !.pc = "reporting", !.outcome = "error", !.seen = 0] \in WorkerState
         /\ [r EXCEPT !.lease = "expired"] \in WorkerState
         /\ Idle \in WorkerState /\ Down \in WorkerState
         /\ \A j \in Call, n \in Nat :
               [Idle EXCEPT !.pc = "handling", !.job = j, !.lease = "live", !.attempt = n] \in WorkerState
BY DEF WorkerState, Outcome, Idle, Down

LEMMA RequeuedTyped ==
  ASSUME jobs \in [Call -> Row]
  PROVE  Requeued \in [Call -> Row]
<1> SUFFICES ASSUME NEW j \in Call PROVE Requeued[j] \in Row
  BY DEF Requeued
<1> QED BY RowUpdates DEF Requeued

LEMMA AnswerTyped ==
  ASSUME calls \in [Call -> CallState], NEW c \in Call,
         NEW a \in Call \union {"pending", "refused"}, Answer(c, a)
  PROVE  calls' \in [Call -> CallState]
BY CallUpdates DEF Answer

(* A worker that is at work has a job: needed to type the rows it reads.  *)
Engaged == \A w \in Worker : workers[w].pc \notin {"down", "idle"} => workers[w].job \in Call

Typed == TypeOK /\ Engaged

LEMMA TypedAlways == Spec => []Typed
<1>1. Init => Typed
  BY BoundsAssumption
  DEF Init, Typed, Engaged, TypeOK, CallState, Row, WorkerState, Idle, NoRow, Terminal, Outcome
<1>2. Typed /\ [Next]_vars => Typed'
  <2> SUFFICES ASSUME Typed, [Next]_vars PROVE Typed'
    OBVIOUS
  <2>1. ASSUME NEW c \in Call, Lookup(c) PROVE Typed'
    <3>1. ASSUME NEW j \in Matching(c), AnswerFrom(c, j) PROVE calls' \in [Call -> CallState]
      BY <3>1, AnswerTyped DEF Typed, TypeOK, AnswerFrom, Matching
    <3>2. ASSUME calls' = [calls EXCEPT ![c] = [@ EXCEPT !.pc = "insert", !.began = clock']], clock' = clock + 1
          PROVE  calls' \in [Call -> CallState]
      <4>1. clock' \in Nat /\ calls[c] \in CallState
        BY <3>2 DEF Typed, TypeOK
      <4>2. [calls[c] EXCEPT !.pc = "insert", !.began = clock'] \in CallState
        BY <4>1, CallUpdates
      <4> QED BY <3>2, <4>2 DEF Typed, TypeOK
    <3> QED BY <2>1, <3>1, <3>2 DEF Typed, TypeOK, Lookup, Engaged
  <2>2. ASSUME NEW c \in Call, Insert(c) PROVE Typed'
    <3>1. calls' \in [Call -> CallState]
      BY <2>2, AnswerTyped DEF Typed, TypeOK, Insert
    <3>2. calls[c].began \in Nat
      BY DEF Typed, TypeOK, CallState
    <3>3. [status |-> "queued", attempts |-> 0, lease |-> "none", due |-> TRUE, created |-> calls[c].began] \in Row
      BY <3>2 DEF Row
    <3>4. jobs' \in [Call -> Row]
      BY <2>2, <3>3 DEF Typed, TypeOK, Insert
    <3> QED BY <2>2, <3>1, <3>4 DEF Typed, TypeOK, Insert, Engaged
  <2>3. ASSUME NEW c \in Call, InsertFails(c) PROVE Typed'
    <3>1. calls' \in [Call -> CallState]
      BY <2>3, AnswerTyped DEF Typed, TypeOK, InsertFails, AnswerFrom, Matching
    <3> QED BY <2>3, <3>1 DEF Typed, TypeOK, InsertFails, Engaged
  <2>4. ASSUME NEW w \in Worker, Claim(w) PROVE Typed'
    <3>1. Requeued \in [Call -> Row]
      BY RequeuedTyped DEF Typed, TypeOK
    <3>2. CASE ClaimsNothing(w)
      BY <3>1, <3>2 DEF Typed, TypeOK, Engaged, ClaimsNothing
    <3>3. ASSUME NEW j \in Call, Claims(w, j) PROVE Typed'
      <4>1. jobs' \in [Call -> Row]
        BY <3>1, <3>3, RowUpdates DEF Claims
      <4>2. jobs'[j].attempts \in Nat
        BY <4>1 DEF Row
      <4>3. workers' \in [Worker -> WorkerState]
        BY <3>3, <4>2, WorkerUpdates DEF Typed, TypeOK, Claims
      <4>4. Engaged'
        BY <3>3, <4>2 DEF Typed, TypeOK, Claims, Engaged, Idle
      <4> QED BY <3>3, <4>1, <4>3, <4>4 DEF Typed, TypeOK, Claims
    <3> QED BY <2>4, <3>2, <3>3 DEF Claim
  <2>5. ASSUME NEW w \in Worker, Handle(w) PROVE Typed'
    <3>1. PICK o \in Outcome : HandlerEnds(w, o)
      BY <2>5 DEF Handle
    <3>2. [workers[w] EXCEPT !.pc = "reporting", !.outcome = o] \in WorkerState
      BY WorkerUpdates DEF Typed, TypeOK
    <3>3. ends' \in [Call -> SUBSET Outcome]
      BY <3>1 DEF Typed, TypeOK, HandlerEnds
    <3>4. workers[w].job \in Call
      BY <3>1 DEF HandlerEnds, Typed, Engaged
    <3>5. Engaged'
      <4>1. [workers[w] EXCEPT !.pc = "reporting", !.outcome = o].job = workers[w].job
        BY DEF Typed, TypeOK, WorkerState
      <4> QED BY <3>1, <3>2, <3>4, <4>1 DEF Typed, TypeOK, Engaged, HandlerEnds
    <3> QED BY <3>1, <3>2, <3>3, <3>5 DEF Typed, TypeOK, HandlerEnds
  <2>6. ASSUME NEW w \in Worker, ReadRow(w) PROVE Typed'
    <3>1. workers[w].job \in Call
      BY <2>6 DEF ReadRow, Typed, Engaged
    <3>2. jobs[workers[w].job].attempts \in Nat
      BY <3>1 DEF Typed, TypeOK, Row
    <3>3. [workers[w] EXCEPT !.pc = "writing", !.seen = jobs[workers[w].job].attempts] \in WorkerState
      BY <3>2, WorkerUpdates DEF Typed, TypeOK
    <3>4. workers' \in [Worker -> WorkerState]
      BY <2>6, <3>3, WorkerUpdates DEF Typed, TypeOK, ReadRow
    <3>5. Engaged'
      <4>1. CASE workers' = [workers EXCEPT ![w] = [@ EXCEPT !.pc = "writing", !.seen = jobs[workers[w].job].attempts]]
        BY <3>1, <3>3, <4>1 DEF Typed, TypeOK, Engaged, WorkerState
      <4>2. CASE workers' = [workers EXCEPT ![w] = Idle]
        BY <4>2 DEF Typed, TypeOK, Engaged, Idle
      <4> QED BY <2>6, <4>1, <4>2 DEF ReadRow
    <3> QED BY <2>6, <3>4, <3>5 DEF Typed, TypeOK, ReadRow
  <2>7. ASSUME NEW w \in Worker, WriteRow(w) PROVE Typed'
    <3>1. Verdict(w) \in {"queued"} \union Terminal
      BY DEF Verdict, Terminal
    <3>2. jobs' \in [Call -> Row]
      BY <2>7, <3>1, RowUpdates DEF Typed, TypeOK, WriteRow
    <3>3. Engaged'
      BY <2>7 DEF Typed, TypeOK, WriteRow, Engaged, Idle
    <3> QED BY <2>7, <3>2, <3>3, WorkerUpdates DEF Typed, TypeOK, WriteRow
  <2>8. ASSUME NEW w \in Worker, SucceedRaises(w) PROVE Typed'
    <3>1. Engaged'
      BY <2>8 DEF Typed, TypeOK, SucceedRaises, Engaged, WorkerState
    <3> QED BY <2>8, <3>1, WorkerUpdates DEF Typed, TypeOK, SucceedRaises
  <2>9. ASSUME NEW w \in Worker, Crash(w) \/ Start(w) PROVE Typed'
    <3>1. Engaged'
      BY <2>9 DEF Typed, TypeOK, Crash, Start, Down, Engaged, Idle
    <3>2. crashes' \in 0..MaxCrashes
      BY <2>9, BoundsAssumption DEF Typed, TypeOK, Crash, Start, Down
    <3> QED BY <2>9, <3>1, <3>2, WorkerUpdates DEF Typed, TypeOK, Crash, Start, Down
  <2>10. ASSUME NEW j \in Call, Expire(j), slow' \in 0..MaxSlow PROVE Typed'
    <3>1. jobs' \in [Call -> Row]
      BY <2>10, RowUpdates DEF Typed, TypeOK, Expire
    <3>2. workers' \in [Worker -> WorkerState]
      BY <2>10, WorkerUpdates DEF Typed, TypeOK, Expire
    <3>3. Engaged'
      BY <2>10 DEF Typed, TypeOK, Expire, Engaged, WorkerState
    <3> QED BY <2>10, <3>1, <3>2, <3>3 DEF Typed, TypeOK, Expire
  <2>11. ASSUME NEW j \in Call, BackoffElapses(j) PROVE Typed'
    BY <2>11, RowUpdates DEF Typed, TypeOK, BackoffElapses, Engaged
  <2>12. ASSUME NEW j \in Call, Time(j) PROVE Typed'
    BY <2>10, <2>11, <2>12, BoundsAssumption DEF Typed, TypeOK, Time, AbandonedLeaseExpires, OutlivedLeaseExpires
  <2>13. CASE UNCHANGED vars
    BY <2>13 DEF Typed, TypeOK, vars, Engaged
  <2> QED BY <2>1, <2>2, <2>3, <2>4, <2>5, <2>6, <2>7, <2>8, <2>9, <2>12, <2>13
             DEF Next, Create, RunOnce
<1> QED BY <1>1, <1>2, PTL DEF Spec

(* The table and the workers are always of their types: no interleaving of *)
(* creation, claims, reports, crashes and time writes a status, lease or   *)
(* attempt count that background_jobs cannot hold.                         *)
THEOREM TypeCorrect == Spec => []TypeOK
<1>1. Typed => TypeOK
  BY DEF Typed
<1> QED BY <1>1, TypedAlways, PTL

-----------------------------------------------------------------------------
(* Creation *)

\* A call that has not returned has inserted nothing and promised nothing.
Waiting == \A c \in Call : calls[c].pc # "done" => calls[c].answer = "pending" /\ ~Exists(c)

\* A worker's job is a row of the table.
Working == \A w \in Worker : workers[w].job # "none" => Exists(workers[w].job)

\* An answer names a row that was created by the same request.
Answered ==
    \A c \in Call :
        calls[c].answer \in Call
        => /\ Exists(calls[c].answer)
           /\ calls[calls[c].answer].key = calls[c].key
           /\ calls[calls[c].answer].payload = calls[c].payload

\* The unique constraint.
OneRowPerKey ==
    \A i, j \in Call :
        Exists(i) /\ Exists(j) /\ calls[i].key = calls[j].key /\ calls[i].key # NoKey => i = j

CreationInv == Waiting /\ Working /\ Answered /\ OneRowPerKey

\* A call keeps its request, and an answer is given once.
LEMMA AnswerGiven ==
  ASSUME Typed, NEW c \in Call, NEW a \in Call \union {"pending", "refused"}, Answer(c, a)
  PROVE  /\ calls'[c].pc = "done" /\ calls'[c].answer = a
         /\ \A d \in Call : calls'[d].key = calls[d].key /\ calls'[d].payload = calls[d].payload
         /\ \A d \in Call : d # c => calls'[d] = calls[d]
BY DEF Answer, Typed, TypeOK, CallState

\* What a keyed look-up finds, and the two replies to it.
LEMMA AnswerFromFound ==
  ASSUME Typed, CreationInv, NEW c \in Call, NEW j \in Matching(c), AnswerFrom(c, j), UNCHANGED <<jobs, workers>>
  PROVE  CreationInv'
<1>1. j \in Call /\ Exists(j) /\ calls[j].key = calls[c].key
  BY DEF Matching
<1>2. PICK a \in {j, "refused"} : Answer(c, a) /\ (a = j => calls[j].payload = calls[c].payload)
  BY NamesAssumption DEF AnswerFrom, Matching
<1>3. a \in Call \union {"pending", "refused"}
  BY <1>1
<1>4. \A i \in Call : Exists(i)' <=> Exists(i)
  BY DEF Exists
<1>5. /\ calls'[c].pc = "done" /\ calls'[c].answer = a
      /\ \A d \in Call : calls'[d].key = calls[d].key /\ calls'[d].payload = calls[d].payload
      /\ \A d \in Call : d # c => calls'[d] = calls[d]
  BY <1>2, <1>3, AnswerGiven
<1>6. Waiting'
  BY <1>4, <1>5 DEF CreationInv, Waiting
<1>7. Working'
  BY DEF CreationInv, Working, Exists
<1>8. Answered'
  BY <1>1, <1>2, <1>4, <1>5, NamesAssumption DEF CreationInv, Answered
<1>9. OneRowPerKey'
  BY <1>4, <1>5 DEF CreationInv, OneRowPerKey
<1> QED BY <1>6, <1>7, <1>8, <1>9 DEF CreationInv

\* What every step but a claim does to worker v: it keeps its claim or drops it.
KeepsClaim(v) ==
    workers'[v].job # "none" => /\ workers'[v].job = workers[v].job
                                /\ workers'[v].attempt = workers[v].attempt

KeepsLease(v) == workers'[v].job # "none" => workers'[v].lease = workers[v].lease

LEMMA WorkKeepsClaims ==
  ASSUME Typed, NEW w \in Worker, Handle(w) \/ ReadRow(w) \/ WriteRow(w) \/ SucceedRaises(w) \/ Crash(w) \/ Start(w)
  PROVE  \A v \in Worker : KeepsClaim(v) /\ KeepsLease(v)
<1> USE DEF KeepsClaim, KeepsLease
<1>1. workers \in [Worker -> WorkerState] /\ Idle.job = "none"
  BY DEF Typed, TypeOK, Idle
<1>2. CASE Handle(w)
  <2>1. PICK o \in Outcome : HandlerEnds(w, o)
    BY <1>2 DEF Handle
  <2> QED BY <1>1, <2>1 DEF HandlerEnds, WorkerState
<1>3. CASE ReadRow(w)
  <2>1. CASE workers' = [workers EXCEPT ![w] = [@ EXCEPT !.pc = "writing", !.seen = jobs[workers[w].job].attempts]]
    BY <1>1, <2>1 DEF WorkerState
  <2>2. CASE workers' = [workers EXCEPT ![w] = Idle]
    BY <1>1, <2>2
  <2> QED BY <1>3, <2>1, <2>2 DEF ReadRow
<1>4. CASE WriteRow(w) \/ Crash(w) \/ Start(w)
  <2>1. Down.job = "none"
    BY DEF Down, Idle
  <2>2. \E s \in {Idle, Down} : workers' = [workers EXCEPT ![w] = s]
    BY <1>4 DEF WriteRow, Crash, Start
  <2> QED BY <1>1, <2>1, <2>2
<1>5. CASE SucceedRaises(w)
  BY <1>1, <1>5 DEF SucceedRaises, WorkerState
<1> QED BY <1>2, <1>3, <1>4, <1>5

LEMMA TimeKeepsClaims ==
  ASSUME Typed, NEW k \in Call, Expire(k) \/ BackoffElapses(k)
  PROVE  \A v \in Worker : KeepsClaim(v)
<1>1. CASE Expire(k)
  <2>1. workers \in [Worker -> WorkerState]
    BY DEF Typed, TypeOK
  <2>2. \A v \in Worker : workers'[v] \in {workers[v], [workers[v] EXCEPT !.lease = "expired"]}
    BY <1>1 DEF Expire
  <2> QED BY <2>1, <2>2 DEF WorkerState, KeepsClaim
<1>2. CASE BackoffElapses(k)
  BY <1>2 DEF BackoffElapses, KeepsClaim
<1> QED BY <1>1, <1>2

\* What a claim does to the table: no row appears or goes, row j is leased.
LEMMA ClaimedRow ==
  ASSUME Typed, NEW w \in Worker, NEW j \in Call, Claims(w, j)
  PROVE  /\ \A i \in Call : Exists(i)' <=> Exists(i)
         /\ Exists(j)
         /\ jobs'[j].status = "running" /\ jobs'[j].lease = "live"
         /\ jobs'[j].attempts = jobs[j].attempts + 1
         /\ \A i \in Call : i # j => jobs'[i] = Requeued[i] /\ jobs'[i].attempts = jobs[i].attempts
         /\ workers'[w].pc = "handling" /\ workers'[w].job = j /\ workers'[w].lease = "live"
         /\ workers'[w].attempt = jobs[j].attempts + 1
         /\ workers'[w].outcome = "none"
         /\ \A v \in Worker : v # w => workers'[v] = workers[v]
<1>1. \A i \in Call : /\ Requeued[i].attempts = jobs[i].attempts
                      /\ Requeued[i].status = "absent" <=> jobs[i].status = "absent"
                      /\ jobs[i].attempts \in Nat
  BY DEF Requeued, Typed, TypeOK, Row
<1>2. Requeued[j].status = "queued" /\ Requeued \in [Call -> Row]
  BY RequeuedTyped DEF Claims, Oldest, Eligible, Typed, TypeOK
<1>3. Leased(Requeued[j]).status = "running" /\ Leased(Requeued[j]).lease = "live"
      /\ Leased(Requeued[j]).attempts = Requeued[j].attempts + 1
  BY <1>2 DEF Leased, Row
<1>4. \A i \in Call : jobs'[i] = IF i = j THEN Leased(Requeued[j]) ELSE Requeued[i]
  BY <1>2 DEF Claims
<1>5. workers' = [workers EXCEPT ![w] = [Idle EXCEPT !.pc = "handling", !.job = j, !.lease = "live",
                                                     !.attempt = jobs'[j].attempts]]
  BY DEF Claims
<1>6. /\ workers'[w] = [Idle EXCEPT !.pc = "handling", !.job = j, !.lease = "live", !.attempt = jobs'[j].attempts]
      /\ \A v \in Worker : v # w => workers'[v] = workers[v]
  BY <1>5 DEF Typed, TypeOK
<1>7. /\ workers'[w].pc = "handling" /\ workers'[w].job = j /\ workers'[w].lease = "live"
      /\ workers'[w].attempt = jobs'[j].attempts /\ workers'[w].outcome = "none"
  BY <1>6 DEF Idle
<1> QED BY <1>1, <1>2, <1>3, <1>4, <1>6, <1>7 DEF Exists

\* Workers and time neither create rows nor remove them, and a row's attempt
\* count never goes down.
RowsStay ==
    /\ UNCHANGED calls
    /\ \A i \in Call : (Exists(i)' <=> Exists(i)) /\ jobs'[i].attempts >= jobs[i].attempts

LEMMA WorkKeepsRows ==
  ASSUME Typed, Working,
         \/ \E w \in Worker : RunOnce(w) \/ SucceedRaises(w) \/ Crash(w) \/ Start(w)
         \/ \E k \in Call : Time(k)
  PROVE  RowsStay /\ Working'
<1> USE DEF RowsStay
<1>0. \A v \in Worker : workers[v].job \in Call \union {"none"}
  BY DEF Typed, TypeOK, WorkerState
<1>1. \A i \in Call : /\ Requeued[i].attempts = jobs[i].attempts
                      /\ Requeued[i].status = "absent" <=> jobs[i].status = "absent"
                      /\ jobs[i].attempts \in Nat
  BY DEF Requeued, Typed, TypeOK, Row
<1>2. ASSUME NEW w \in Worker, ClaimsNothing(w) PROVE RowsStay /\ Working'
  BY <1>0, <1>1, <1>2 DEF ClaimsNothing, Exists, Working
<1>3. ASSUME NEW w \in Worker, NEW j \in Call, Claims(w, j) PROVE RowsStay /\ Working'
  <2>1. RowsStay
    <3>1. \A i \in Call : jobs'[i].attempts = IF i = j THEN jobs[i].attempts + 1 ELSE jobs[i].attempts
      BY <1>3, ClaimedRow
    <3>2. \A i \in Call : Exists(i)' <=> Exists(i)
      BY <1>3, ClaimedRow
    <3> QED BY <1>1, <1>3, <3>1, <3>2 DEF Claims
  <2>2. Working'
    BY <1>0, <1>3, ClaimedRow DEF Working, Exists
  <2> QED BY <2>1, <2>2
<1>4. ASSUME NEW w \in Worker, WriteRow(w) PROVE RowsStay
  <2>1. workers[w].job \in Call /\ jobs[workers[w].job].status # "absent"
    BY <1>4, NamesAssumption DEF WriteRow, Typed, Engaged, Working, Exists
  <2>2. Verdict(w) # "absent"
    BY DEF Verdict
  <2> QED BY <1>4, <2>1, <2>2 DEF WriteRow, Typed, TypeOK, Row, Exists
<1>5. ASSUME NEW w \in Worker, Handle(w) \/ ReadRow(w) \/ SucceedRaises(w) \/ Crash(w) \/ Start(w) PROVE RowsStay
  <2>1. UNCHANGED <<jobs, calls>>
    BY <1>5 DEF Handle, HandlerEnds, ReadRow, SucceedRaises, Crash, Start, Down
  <2> QED BY <1>1, <2>1 DEF Exists
<1>6. ASSUME NEW k \in Call, Expire(k) PROVE RowsStay
  BY <1>6 DEF Expire, Typed, TypeOK, Row, Exists
<1>7. ASSUME NEW k \in Call, BackoffElapses(k) PROVE RowsStay
  BY <1>7 DEF BackoffElapses, Typed, TypeOK, Row, Exists
<1>8. ASSUME RowsStay, \A v \in Worker : KeepsClaim(v) PROVE Working'
  BY <1>0, <1>8 DEF KeepsClaim, Working
<1> QED BY <1>2, <1>3, <1>4, <1>5, <1>6, <1>7, <1>8, WorkKeepsClaims, TimeKeepsClaims
        DEF RunOnce, Claim, Time, AbandonedLeaseExpires, OutlivedLeaseExpires

LEMMA CreationStep == ASSUME Typed, CreationInv, [Next]_vars PROVE CreationInv'
<1>1. ASSUME NEW c \in Call, Lookup(c) PROVE CreationInv'
  <2>1. ASSUME calls' = [calls EXCEPT ![c] = [@ EXCEPT !.pc = "insert", !.began = clock']]
        PROVE  CreationInv'
    <3>1. \A d \in Call : /\ calls'[d].key = calls[d].key /\ calls'[d].payload = calls[d].payload
                          /\ calls'[d].answer = calls[d].answer
                          /\ calls'[d].pc # "done" => calls[d].pc # "done"
      BY <1>1, <2>1 DEF Lookup, Typed, TypeOK, CallState
    <3>2. UNCHANGED <<jobs, workers>>
      BY <1>1 DEF Lookup
    <3> QED BY <3>1, <3>2 DEF CreationInv, Waiting, Working, Answered, OneRowPerKey, Exists
  <2> QED BY <1>1, <2>1, AnswerFromFound DEF Lookup
<1>2. ASSUME NEW c \in Call, InsertFails(c) PROVE CreationInv'
  <2>1. ASSUME Answer(c, "refused") PROVE CreationInv'
    <3>1. /\ calls'[c].pc = "done" /\ calls'[c].answer = "refused"
          /\ \A d \in Call : calls'[d].key = calls[d].key /\ calls'[d].payload = calls[d].payload
          /\ \A d \in Call : d # c => calls'[d] = calls[d]
      BY <2>1, AnswerGiven
    <3>2. UNCHANGED <<jobs, workers>>
      BY <1>2 DEF InsertFails
    <3> QED BY <3>1, <3>2, NamesAssumption DEF CreationInv, Waiting, Working, Answered, OneRowPerKey, Exists
  <2> QED BY <1>2, <2>1, AnswerFromFound DEF InsertFails
<1>3. ASSUME NEW c \in Call, Insert(c) PROVE CreationInv'
  <2>1. /\ calls'[c].pc = "done" /\ calls'[c].answer = c
        /\ \A d \in Call : calls'[d].key = calls[d].key /\ calls'[d].payload = calls[d].payload
        /\ \A d \in Call : d # c => calls'[d] = calls[d]
    BY <1>3, AnswerGiven DEF Insert
  <2>2. \A i \in Call : Exists(i)' <=> Exists(i) \/ i = c
    BY <1>3 DEF Insert, Exists, Typed, TypeOK
  <2>3. \A i \in Call : Exists(i) /\ calls[c].key # NoKey => calls[i].key # calls[c].key
    BY <1>3 DEF Insert, Matching
  <2>4. Waiting'
    BY <2>1, <2>2 DEF CreationInv, Waiting
  <2>5. Working'
    BY <1>3, <2>2 DEF CreationInv, Working, Insert, Typed, Engaged, Exists
  <2>6. Answered'
    BY <2>1, <2>2 DEF CreationInv, Answered
  <2>7. OneRowPerKey'
    BY <2>1, <2>2, <2>3 DEF CreationInv, OneRowPerKey
  <2> QED BY <2>4, <2>5, <2>6, <2>7 DEF CreationInv
<1>4. ASSUME RowsStay, Working' PROVE CreationInv'
  BY <1>4 DEF RowsStay, CreationInv, Waiting, Answered, OneRowPerKey
<1>5. CASE UNCHANGED vars
  BY <1>5 DEF vars, CreationInv, Waiting, Working, Answered, OneRowPerKey, Exists
<1> QED BY <1>1, <1>2, <1>3, <1>4, <1>5, WorkKeepsRows DEF Next, Create, CreationInv

(* Callers that race with one key are answered with one job: create looks   *)
(* up and inserts in two steps, but the unique constraint and the second    *)
(* look-up after a failed commit close the gap.                             *)
THEOREM KeyedCreationIsAtomic == Spec => []KeyNamesOneJob
<1>1. Init => CreationInv
  BY NamesAssumption
  DEF Init, CreationInv, Waiting, Working, Answered, OneRowPerKey, Exists, NoRow, Idle
<1>2. CreationInv => KeyNamesOneJob
  BY DEF CreationInv, Answered, OneRowPerKey, KeyNamesOneJob
<1> QED BY <1>1, <1>2, TypedAlways, CreationStep, PTL DEF Spec

-----------------------------------------------------------------------------
(* Claims *)

\* A row has been claimed at least as often as any claim of it that a worker holds says.
Current == \A w \in Worker : workers[w].job # "none" => workers[w].attempt <= jobs[workers[w].job].attempts

ClaimInv == Current /\ ClaimHeldOnce /\ RunningIsLeased

\* Typed facts that every step below uses.
LEMMA ClaimTypes ==
  ASSUME Typed
  PROVE  /\ \A w \in Worker : workers[w].job \in Call \union {"none"} /\ workers[w].attempt \in Nat
         /\ \A w \in Worker : workers[w].pc \notin {"down", "idle"} => workers[w].job \in Call
         /\ \A j \in Call : jobs[j].attempts \in Nat
         /\ "none" \notin Call
BY NamesAssumption DEF Typed, Engaged, TypeOK, WorkerState, Row

\* A step that keeps claims and counts, and touches a row's status only together
\* with its lease, keeps the invariant.
LEMMA QuietStep ==
  ASSUME Typed, ClaimInv, RowsStay, \A v \in Worker : KeepsClaim(v) /\ KeepsLease(v),
         \A i \in Call : /\ jobs'[i].attempts = jobs[i].attempts
                         /\ \/ jobs'[i].status = jobs[i].status /\ jobs'[i].lease = jobs[i].lease
                            \/ jobs'[i].status # "running" /\ jobs'[i].lease = "none"
  PROVE  ClaimInv'
<1> USE ClaimTypes
<1>1. Current'
  BY DEF ClaimInv, Current, KeepsClaim
<1>2. ClaimHeldOnce'
  BY DEF ClaimInv, ClaimHeldOnce, KeepsClaim
<1>3. RunningIsLeased'
  <2> SUFFICES ASSUME NEW j \in Call
               PROVE  /\ jobs'[j].status = "running" <=> jobs'[j].lease # "none"
                      /\ \A w \in HoldersOf(j)' : jobs'[j].status = "running" => workers'[w].lease = jobs'[j].lease
    BY DEF RunningIsLeased
  <2>1. \A w \in HoldersOf(j)' : w \in HoldersOf(j) /\ workers'[w].lease = workers[w].lease
    BY DEF HoldersOf, KeepsClaim, KeepsLease
  <2> QED BY <2>1 DEF ClaimInv, RunningIsLeased
<1> QED BY <1>1, <1>2, <1>3 DEF ClaimInv

LEMMA ClaimStep == ASSUME Typed, CreationInv, ClaimInv, [Next]_vars PROVE ClaimInv'
<1> USE ClaimTypes
<1>1. ASSUME NEW c \in Call, Insert(c) PROVE ClaimInv'
  <2>1. /\ \A w \in Worker : workers[w].job # c
        /\ UNCHANGED workers
        /\ jobs'[c].status = "queued" /\ jobs'[c].lease = "none"
        /\ \A i \in Call : i # c => jobs'[i] = jobs[i]
    BY <1>1 DEF Insert, CreationInv, Waiting, Working, Typed, TypeOK
  <2> QED BY <2>1 DEF ClaimInv, Current, ClaimHeldOnce, RunningIsLeased, HoldersOf
<1>2. ASSUME UNCHANGED <<jobs, workers>> PROVE ClaimInv'
  BY <1>2 DEF ClaimInv, Current, ClaimHeldOnce, RunningIsLeased, HoldersOf
<1>3. \A i \in Call : /\ Requeued[i].attempts = jobs[i].attempts
                      /\ \/ Requeued[i] = jobs[i]
                         \/ Requeued[i].status = "queued" /\ Requeued[i].lease = "none"
  BY DEF Requeued, Typed, TypeOK, Row
<1>4. ASSUME NEW w \in Worker, NEW j \in Call, Claims(w, j) PROVE ClaimInv'
  <2>1. /\ jobs'[j].status = "running" /\ jobs'[j].lease = "live"
        /\ jobs'[j].attempts = jobs[j].attempts + 1
        /\ \A i \in Call : i # j => jobs'[i] = Requeued[i] /\ jobs'[i].attempts = jobs[i].attempts
        /\ workers'[w].job = j /\ workers'[w].lease = "live"
        /\ workers'[w].attempt = jobs[j].attempts + 1
        /\ \A v \in Worker : v # w => workers'[v] = workers[v]
    BY <1>4, ClaimedRow
  <2>2. \A v \in Worker : v # w /\ workers[v].job = j => workers[v].attempt < jobs[j].attempts + 1
    BY DEF ClaimInv, Current
  <2>3. Current'
    BY <2>1, <2>2 DEF ClaimInv, Current
  <2>4. ClaimHeldOnce'
    BY <2>1, <2>2 DEF ClaimInv, ClaimHeldOnce
  <2>5. HoldersOf(j)' = {w}
    BY <2>1, <2>2 DEF HoldersOf
  <2>6. ASSUME NEW i \in Call, i # j
        PROVE  /\ jobs'[i].status = "running" <=> jobs'[i].lease # "none"
               /\ \A v \in HoldersOf(i)' : jobs'[i].status = "running" => workers'[v].lease = jobs'[i].lease
    <3>1. HoldersOf(i)' \subseteq HoldersOf(i)
      BY <2>1, <2>6 DEF HoldersOf
    <3>2. \A v \in HoldersOf(i)' : workers'[v] = workers[v]
      BY <2>1, <2>6 DEF HoldersOf
    <3> QED BY <1>3, <2>1, <2>6, <3>1, <3>2 DEF ClaimInv, RunningIsLeased
  <2>7. RunningIsLeased'
    BY <2>1, <2>5, <2>6 DEF RunningIsLeased
  <2> QED BY <2>3, <2>4, <2>7 DEF ClaimInv
<1>5. ASSUME NEW w \in Worker, ClaimsNothing(w) PROVE ClaimInv'
  <2>1. RowsStay
    BY <1>5, WorkKeepsRows DEF RunOnce, Claim, CreationInv
  <2> QED BY <1>3, <1>5, <2>1, QuietStep DEF ClaimsNothing, KeepsClaim, KeepsLease
<1>6. ASSUME NEW w \in Worker, WriteRow(w) PROVE ClaimInv'
  <2>1. RowsStay
    BY <1>6, WorkKeepsRows DEF RunOnce, CreationInv
  <2>2. Verdict(w) # "running"
    BY DEF Verdict
  <2>3. \A i \in Call : jobs[i] \in Row
    BY DEF Typed, TypeOK
  <2>4. \A i \in Call : /\ jobs'[i].attempts = jobs[i].attempts
                        /\ \/ jobs'[i].status = jobs[i].status /\ jobs'[i].lease = jobs[i].lease
                           \/ jobs'[i].status # "running" /\ jobs'[i].lease = "none"
    BY <1>6, <2>2, <2>3 DEF WriteRow, Row, Typed, TypeOK
  <2> QED BY <1>6, <2>1, <2>4, QuietStep, WorkKeepsClaims
<1>7. ASSUME NEW w \in Worker, Handle(w) \/ ReadRow(w) \/ SucceedRaises(w) \/ Crash(w) \/ Start(w) PROVE ClaimInv'
  <2>1. UNCHANGED jobs
    BY <1>7 DEF Handle, HandlerEnds, ReadRow, SucceedRaises, Crash, Start, Down
  <2>2. RowsStay
    BY <1>7, WorkKeepsRows DEF RunOnce, CreationInv
  <2> QED BY <1>7, <2>1, <2>2, QuietStep, WorkKeepsClaims
<1>8. ASSUME NEW k \in Call, Expire(k) PROVE ClaimInv'
  <2>1. \A v \in Worker : KeepsClaim(v)
    BY <1>8, TimeKeepsClaims
  <2>2. /\ \A i \in Call : jobs'[i].attempts = jobs[i].attempts /\ jobs'[i].status = jobs[i].status
        /\ jobs'[k].lease = "expired" /\ jobs[k].status = "running"
        /\ \A i \in Call : i # k => jobs'[i] = jobs[i]
    BY <1>8 DEF Expire, Typed, TypeOK, Row
  <2>3. \A v \in Worker : workers'[v] = IF v \in HoldersOf(k) THEN [workers[v] EXCEPT !.lease = "expired"] ELSE workers[v]
    BY <1>8 DEF Expire
  <2>4. Current'
    BY <2>1, <2>2 DEF ClaimInv, Current, KeepsClaim
  <2>5. ClaimHeldOnce'
    BY <2>1 DEF ClaimInv, ClaimHeldOnce, KeepsClaim
  <2>6. \A i \in Call : HoldersOf(i)' \subseteq HoldersOf(i)
    BY <2>1, <2>2 DEF HoldersOf, KeepsClaim
  <2>7. \A v \in HoldersOf(k)' : workers'[v].lease = "expired"
    <3>1. \A v \in Worker : [workers[v] EXCEPT !.lease = "expired"].lease = "expired"
      BY DEF Typed, TypeOK, WorkerState
    <3>2. HoldersOf(k) \subseteq Worker
      BY DEF HoldersOf
    <3> QED BY <2>3, <2>6, <3>1, <3>2
  <2>8. ASSUME NEW i \in Call, i # k PROVE \A v \in HoldersOf(i)' : workers'[v] = workers[v]
    BY <2>3, <2>6, <2>8 DEF HoldersOf
  <2>9. RunningIsLeased'
    BY <2>2, <2>6, <2>7, <2>8 DEF ClaimInv, RunningIsLeased
  <2> QED BY <2>4, <2>5, <2>9 DEF ClaimInv
<1>9. ASSUME NEW k \in Call, BackoffElapses(k) PROVE ClaimInv'
  <2>1. /\ UNCHANGED workers
        /\ \A i \in Call : jobs'[i].attempts = jobs[i].attempts /\ jobs'[i].status = jobs[i].status
                           /\ jobs'[i].lease = jobs[i].lease
    BY <1>9 DEF BackoffElapses, Typed, TypeOK, Row
  <2> QED BY <2>1 DEF ClaimInv, Current, ClaimHeldOnce, RunningIsLeased, HoldersOf
<1>10. CASE UNCHANGED vars
  BY <1>2, <1>10 DEF vars
<1> QED BY <1>1, <1>2, <1>4, <1>5, <1>6, <1>7, <1>8, <1>9, <1>10
        DEF Next, Create, Lookup, InsertFails, RunOnce, Claim, Time, AbandonedLeaseExpires, OutlivedLeaseExpires

(* However claims, expired leases, late reports and crashes interleave, a   *)
(* claim number of a row belongs to one worker, and a row is running        *)
(* exactly while it carries a lease, the lease of its latest claim.         *)
THEOREM ClaimsAreExclusive == Spec => [](ClaimHeldOnce /\ RunningIsLeased)
<1>1. Init => CreationInv /\ ClaimInv
  BY NamesAssumption
  DEF Init, CreationInv, Waiting, Working, Answered, OneRowPerKey, Exists, NoRow, Idle,
      ClaimInv, Current, ClaimHeldOnce, RunningIsLeased, HoldersOf
<1>2. ClaimInv => ClaimHeldOnce /\ RunningIsLeased
  BY DEF ClaimInv
<1> QED BY <1>1, <1>2, TypedAlways, CreationStep, ClaimStep, PTL DEF Spec

-----------------------------------------------------------------------------
(* Outcomes *)

\* What a worker is about to report has happened, and the count that its read
\* of the row saw is not more than the row's.
Honest ==
    \A w \in Worker :
        workers[w].job # "none"
        => /\ workers[w].outcome \in {"ok", "unsupported"} => workers[w].outcome \in ends[workers[w].job]
           /\ workers[w].pc \in {"reporting", "writing"} => workers[w].outcome # "none"
           /\ workers[w].seen <= jobs[workers[w].job].attempts

OutcomeInv == Honest /\ SucceededWasPerformed /\ FailedForReason

LEMMA OutcomeTypes ==
  ASSUME Typed
  PROVE  /\ \A w \in Worker : /\ workers[w].job \in Call \union {"none"}
                              /\ workers[w].outcome \in Outcome \union {"none"}
                              /\ workers[w].seen \in Nat
         /\ \A w \in Worker : workers[w].pc \notin {"down", "idle"} => workers[w].job \in Call
         /\ \A j \in Call : jobs[j].attempts \in Nat
         /\ MaxAttempts \in Nat
         /\ "none" \notin Call
BY NamesAssumption, MaxAttemptsAssumption DEF Typed, Engaged, TypeOK, WorkerState, Row

\* What is known of a settled row stays known: handlers' ends are remembered and
\* attempts are not taken back.
LEMMA SettledStep ==
  ASSUME Typed, OutcomeInv, \A i \in Call : ends[i] \subseteq ends'[i],
         \A i \in Call : jobs'[i].attempts \in Nat /\ jobs'[i].attempts >= jobs[i].attempts,
         \A i \in Call : jobs'[i].status \in Terminal => jobs'[i].status = jobs[i].status
  PROVE  SucceededWasPerformed' /\ FailedForReason'
BY OutcomeTypes DEF OutcomeInv, SucceededWasPerformed, FailedForReason, Terminal

LEMMA OutcomeStep == ASSUME Typed, Typed', CreationInv, OutcomeInv, [Next]_vars PROVE OutcomeInv'
<1> USE OutcomeTypes
<1>1. \A i \in Call : jobs'[i].attempts \in Nat
  BY DEF Typed, TypeOK, Row
<1>2. ASSUME NEW c \in Call, Insert(c) PROVE OutcomeInv'
  <2>1. /\ \A w \in Worker : workers[w].job # c
        /\ UNCHANGED <<workers, ends>>
        /\ jobs'[c].status = "queued"
        /\ \A i \in Call : i # c => jobs'[i] = jobs[i]
    BY <1>2 DEF Insert, CreationInv, Waiting, Working, Typed, TypeOK
  <2> QED BY <2>1 DEF OutcomeInv, Honest, SucceededWasPerformed, FailedForReason
<1>3. ASSUME UNCHANGED <<jobs, workers, ends>> PROVE OutcomeInv'
  BY <1>3 DEF OutcomeInv, Honest, SucceededWasPerformed, FailedForReason
<1>4. ASSUME NEW w \in Worker, RunOnce(w) \/ SucceedRaises(w) \/ Crash(w) \/ Start(w) PROVE RowsStay
  BY <1>4, WorkKeepsRows DEF CreationInv
<1>5. ASSUME RowsStay, UNCHANGED workers, UNCHANGED ends PROVE Honest'
  BY <1>1, <1>5 DEF RowsStay, OutcomeInv, Honest
<1>6. \A i \in Call : Requeued[i].status \in Terminal => Requeued[i].status = jobs[i].status
  BY DEF Requeued, Typed, TypeOK, Row, Terminal
<1>7. ASSUME NEW w \in Worker, ClaimsNothing(w) PROVE OutcomeInv'
  <2>1. RowsStay
    BY <1>4, <1>7 DEF RunOnce, Claim
  <2>2. jobs' = Requeued /\ UNCHANGED <<workers, ends>>
    BY <1>7 DEF ClaimsNothing
  <2>3. SucceededWasPerformed' /\ FailedForReason'
    BY <1>1, <1>6, <2>1, <2>2, SettledStep DEF RowsStay
  <2> QED BY <1>5, <2>1, <2>2, <2>3 DEF OutcomeInv
<1>8. ASSUME NEW w \in Worker, NEW j \in Call, Claims(w, j) PROVE OutcomeInv'
  <2>1. RowsStay
    BY <1>4, <1>8 DEF RunOnce, Claim
  <2>2. /\ jobs'[j].status = "running"
        /\ \A i \in Call : i # j => jobs'[i] = Requeued[i]
        /\ workers'[w].pc = "handling" /\ workers'[w].outcome = "none" /\ workers'[w].job = j
        /\ \A v \in Worker : v # w => workers'[v] = workers[v]
    BY <1>8, ClaimedRow
  <2>3. workers'[w].seen = 0 /\ UNCHANGED ends
    BY <1>8 DEF Claims, Idle, Typed, TypeOK
  <2>4. Honest'
    BY <1>1, <2>1, <2>2, <2>3 DEF OutcomeInv, Honest, RowsStay
  <2>5. SucceededWasPerformed' /\ FailedForReason'
    <3>1. \A i \in Call : jobs'[i].status \in Terminal => jobs'[i].status = jobs[i].status
      BY <1>6, <2>2 DEF Terminal
    <3>2. \A i \in Call : ends[i] \subseteq ends'[i]
      BY <2>3
    <3> QED BY <1>1, <2>1, <3>1, <3>2, SettledStep DEF RowsStay
  <2> QED BY <2>4, <2>5 DEF OutcomeInv
<1>9. ASSUME NEW w \in Worker, Handle(w) PROVE OutcomeInv'
  <2>1. PICK o \in Outcome : HandlerEnds(w, o)
    BY <1>9 DEF Handle
  <2>2. /\ workers'[w].job = workers[w].job /\ workers'[w].outcome = o /\ workers'[w].seen = workers[w].seen
        /\ \A v \in Worker : v # w => workers'[v] = workers[v]
        /\ UNCHANGED jobs
    BY <2>1 DEF HandlerEnds, Typed, TypeOK, WorkerState
  <2>3. workers[w].job \in Call
    BY <2>1 DEF HandlerEnds
  <2>4. /\ \A i \in Call : ends[i] \subseteq ends'[i]
        /\ o \in {"ok", "unsupported"} => o \in ends'[workers[w].job]
    BY <2>1, <2>3 DEF HandlerEnds, Typed, TypeOK
  <2>5. Honest'
    BY <2>2, <2>4 DEF OutcomeInv, Honest, Outcome
  <2> QED BY <1>1, <2>2, <2>4, <2>5, SettledStep DEF OutcomeInv
<1>10. ASSUME NEW w \in Worker, ReadRow(w) PROVE OutcomeInv'
  <2>1. UNCHANGED <<jobs, ends>>
    BY <1>10 DEF ReadRow
  <2>2. workers[w].job \in Call
    BY <1>10 DEF ReadRow
  <2>3. CASE workers' = [workers EXCEPT ![w] = Idle]
    BY <2>1, <2>3, <1>3 DEF OutcomeInv, Honest, Idle, Typed, TypeOK, SucceededWasPerformed, FailedForReason
  <2>4. CASE workers' = [workers EXCEPT ![w] = [@ EXCEPT !.pc = "writing", !.seen = jobs[workers[w].job].attempts]]
    <3>1. /\ workers'[w].job = workers[w].job /\ workers'[w].outcome = workers[w].outcome
          /\ workers'[w].seen = jobs[workers[w].job].attempts
          /\ \A v \in Worker : v # w => workers'[v] = workers[v]
      BY <2>4 DEF Typed, TypeOK, WorkerState
    <3>2. workers[w].pc = "reporting"
      BY <1>10 DEF ReadRow
    <3> QED BY <2>1, <2>2, <3>1, <3>2 DEF OutcomeInv, Honest, SucceededWasPerformed, FailedForReason
  <2> QED BY <1>10, <2>3, <2>4 DEF ReadRow
<1>11. ASSUME NEW w \in Worker, SucceedRaises(w) PROVE OutcomeInv'
  <2>1. /\ workers'[w].job = workers[w].job /\ workers'[w].outcome = "error" /\ workers'[w].seen = 0
        /\ \A v \in Worker : v # w => workers'[v] = workers[v]
        /\ UNCHANGED <<jobs, ends>>
    BY <1>11 DEF SucceedRaises, Typed, TypeOK, WorkerState
  <2> QED BY <2>1 DEF OutcomeInv, Honest, SucceededWasPerformed, FailedForReason
<1>12. ASSUME NEW w \in Worker, Crash(w) \/ Start(w) PROVE OutcomeInv'
  BY <1>12 DEF Crash, Start, Down, OutcomeInv, Honest, SucceededWasPerformed, FailedForReason, Idle, Typed, TypeOK
<1>13. ASSUME NEW w \in Worker, WriteRow(w) PROVE OutcomeInv'
  <2>1. RowsStay
    BY <1>4, <1>13 DEF RunOnce
  <2> DEFINE j == workers[w].job
  <2>2. j \in Call /\ workers[w].pc = "writing"
    BY <1>13 DEF WriteRow
  <2>3. /\ UNCHANGED ends
        /\ workers'[w].job = "none"
        /\ \A v \in Worker : v # w => workers'[v] = workers[v]
    BY <1>13 DEF WriteRow, Idle, Typed, TypeOK
  <2>4. /\ jobs'[j].status = Verdict(w) /\ jobs'[j].attempts = jobs[j].attempts
        /\ \A i \in Call : i # j => jobs'[i] = jobs[i]
    BY <1>13, <2>2 DEF WriteRow, Typed, TypeOK, Row
  <2>5. Honest'
    BY <1>1, <2>1, <2>3 DEF RowsStay, OutcomeInv, Honest
  <2>6. Verdict(w) = "succeeded" => "ok" \in ends[j]
    BY <2>2 DEF Verdict, OutcomeInv, Honest
  <2>7. Verdict(w) = "failed" => "unsupported" \in ends[j] \/ jobs[j].attempts >= MaxAttempts
    <3>1. ASSUME workers[w].outcome = "error", ~(workers[w].seen < MaxAttempts) PROVE jobs[j].attempts >= MaxAttempts
      BY <2>2, <3>1 DEF OutcomeInv, Honest
    <3>2. workers[w].outcome \in {"ok", "unsupported", "error"}
      BY <2>2 DEF OutcomeInv, Honest, Outcome
    <3> QED BY <2>2, <3>1, <3>2 DEF Verdict, Retries, OutcomeInv, Honest
  <2>8. SucceededWasPerformed' /\ FailedForReason'
    BY <2>2, <2>3, <2>4, <2>6, <2>7 DEF OutcomeInv, SucceededWasPerformed, FailedForReason
  <2> QED BY <2>5, <2>8 DEF OutcomeInv
<1>14. ASSUME NEW k \in Call, Expire(k) PROVE OutcomeInv'
  <2>1. /\ UNCHANGED ends
        /\ \A i \in Call : jobs'[i].attempts = jobs[i].attempts /\ jobs'[i].status = jobs[i].status
    BY <1>14 DEF Expire, Typed, TypeOK, Row
  <2>2. \A v \in Worker : workers'[v] \in {workers[v], [workers[v] EXCEPT !.lease = "expired"]}
    BY <1>14 DEF Expire
  <2>3. \A v \in Worker : /\ workers'[v].job = workers[v].job /\ workers'[v].outcome = workers[v].outcome
                          /\ workers'[v].seen = workers[v].seen /\ workers'[v].pc = workers[v].pc
    BY <2>2 DEF Typed, TypeOK, WorkerState
  <2> QED BY <2>1, <2>3 DEF OutcomeInv, Honest, SucceededWasPerformed, FailedForReason
<1>15. ASSUME NEW k \in Call, BackoffElapses(k) PROVE OutcomeInv'
  <2>1. /\ UNCHANGED <<workers, ends>>
        /\ \A i \in Call : jobs'[i].attempts = jobs[i].attempts /\ jobs'[i].status = jobs[i].status
    BY <1>15 DEF BackoffElapses, Typed, TypeOK, Row
  <2> QED BY <2>1 DEF OutcomeInv, Honest, SucceededWasPerformed, FailedForReason
<1>16. CASE UNCHANGED vars
  BY <1>3, <1>16 DEF vars
<1> QED BY <1>2, <1>3, <1>7, <1>8, <1>9, <1>10, <1>11, <1>12, <1>13, <1>14, <1>15, <1>16
        DEF Next, Create, Lookup, InsertFails, RunOnce, Claim, Time, AbandonedLeaseExpires, OutlivedLeaseExpires

LEMMA OutcomeAlways == Spec => []OutcomeInv
<1>1. Init => CreationInv /\ OutcomeInv
  BY NamesAssumption
  DEF Init, CreationInv, Waiting, Working, Answered, OneRowPerKey, Exists, NoRow, Idle,
      OutcomeInv, Honest, SucceededWasPerformed, FailedForReason
<1> QED BY <1>1, TypedAlways, CreationStep, OutcomeStep, PTL DEF Spec

(* A row that says succeeded was run to its end by some handler, also when   *)
(* the report came from a worker whose claim had been taken over.            *)
THEOREM ReportsAreHonest == Spec => []SucceededWasPerformed
<1>1. OutcomeInv => SucceededWasPerformed
  BY DEF OutcomeInv
<1> QED BY <1>1, OutcomeAlways, PTL

(* A row that says failed had an unsupported type or used up its attempts,   *)
(* whoever wrote it and however stale the row was that the writer had read.  *)
THEOREM FailuresHaveReason == Spec => []FailedForReason
<1>1. OutcomeInv => FailedForReason
  BY DEF OutcomeInv
<1> QED BY <1>1, OutcomeAlways, PTL

-----------------------------------------------------------------------------
(* Refinement *)

\* A call that is answered takes a step of the queue that answers it.
LEMMA AnswerMapped ==
  ASSUME Typed, CreationInv, NEW c \in Call, calls[c].pc # "done",
         NEW a \in Call \union {"pending", "refused"}, Answer(c, a)
  PROVE  /\ Answers[c] = "pending"
         /\ Answers' = [Answers EXCEPT ![c] = a]
         /\ Asked' = Asked
<1>1. /\ calls'[c].answer = a
      /\ \A d \in Call : calls'[d].key = calls[d].key /\ calls'[d].payload = calls[d].payload
      /\ \A d \in Call : d # c => calls'[d] = calls[d]
  BY AnswerGiven
<1>2. Answers[c] = "pending"
  BY DEF Answers, CreationInv, Waiting
<1> QED BY <1>1, <1>2 DEF Answers, Asked

LEMMA ReplyMapped ==
  ASSUME Typed, CreationInv, NEW c \in Call, calls[c].pc # "done", NEW j \in Matching(c), AnswerFrom(c, j),
         UNCHANGED <<jobs, ends>>
  PROVE  Queue!Repeat(c, j) \/ Queue!Refuse(c)
<1>1. j \in Call /\ Exists(j) /\ calls[j].key = calls[c].key /\ calls[c].key # NoKey
  BY DEF Matching
<1>2. UNCHANGED <<Performed, Reports>>
  BY DEF Performed, Reports
<1>3. CASE calls[j].payload = calls[c].payload
  <2>1. Answers[c] = "pending" /\ Answers' = [Answers EXCEPT ![c] = j] /\ Asked' = Asked
    BY <1>1, <1>3, AnswerMapped DEF AnswerFrom
  <2>2. Asked[c] = Asked[j] /\ Asked[c].key # NoKey
    BY <1>1, <1>3 DEF Asked
  <2>3. Reports[j] # "absent"
    BY <1>1 DEF Reports, Shown, Exists
  <2> QED BY <1>2, <2>1, <2>2, <2>3 DEF Queue!Repeat, Queue!Exists
<1>4. CASE calls[j].payload # calls[c].payload
  <2>1. Answers[c] = "pending" /\ Answers' = [Answers EXCEPT ![c] = "refused"] /\ Asked' = Asked
    BY <1>4, AnswerMapped DEF AnswerFrom
  <2> QED BY <1>2, <2>1 DEF Queue!Refuse
<1> QED BY <1>3, <1>4

LEMMA StepMapped ==
  ASSUME Typed, Typed', CreationInv, OutcomeInv, OutcomeInv', [Next]_vars
  PROVE  [Queue!Next]_(Queue!vars)
<1>1. ASSUME NEW c \in Call, Lookup(c) PROVE Queue!Next \/ UNCHANGED Queue!vars
  <2>1. UNCHANGED <<jobs, ends>> /\ calls[c].pc # "done"
    BY <1>1 DEF Lookup
  <2>2. ASSUME NEW j \in Matching(c), AnswerFrom(c, j) PROVE Queue!Next
    BY <2>1, <2>2, ReplyMapped DEF Queue!Next, Matching
  <2>3. ASSUME calls' = [calls EXCEPT ![c] = [@ EXCEPT !.pc = "insert", !.began = clock']]
        PROVE  UNCHANGED Queue!vars
    <3>1. \A d \in Call : /\ calls'[d].key = calls[d].key /\ calls'[d].payload = calls[d].payload
                          /\ calls'[d].answer = calls[d].answer
      BY <2>3 DEF Typed, TypeOK, CallState
    <3> QED BY <2>1, <3>1 DEF Queue!vars, Asked, Answers, Performed, Reports
  <2> QED BY <1>1, <2>2, <2>3 DEF Lookup
<1>2. ASSUME NEW c \in Call, InsertFails(c) PROVE Queue!Next
  <2>1. UNCHANGED <<jobs, ends>> /\ calls[c].pc # "done"
    BY <1>2 DEF InsertFails
  <2>2. ASSUME NEW j \in Matching(c), AnswerFrom(c, j) PROVE Queue!Next
    BY <2>1, <2>2, ReplyMapped DEF Queue!Next, Matching
  <2>3. ASSUME Answer(c, "refused") PROVE Queue!Next
    <3>1. Answers[c] = "pending" /\ Answers' = [Answers EXCEPT ![c] = "refused"] /\ Asked' = Asked
      BY <2>1, <2>3, AnswerMapped
    <3>2. UNCHANGED <<Performed, Reports>>
      BY <2>1 DEF Performed, Reports
    <3> QED BY <3>1, <3>2 DEF Queue!Next, Queue!Refuse
  <2> QED BY <1>2, <2>2, <2>3 DEF InsertFails
<1>3. ASSUME NEW c \in Call, Insert(c) PROVE Queue!Next
  <2>1. Answers[c] = "pending" /\ Answers' = [Answers EXCEPT ![c] = c] /\ Asked' = Asked
    BY <1>3, AnswerMapped DEF Insert
  <2>2. Asked[c].key # NoKey => ~ \E j \in Call : Queue!Exists(j) /\ Asked[j].key = Asked[c].key
    BY <1>3 DEF Insert, Matching, Asked, Queue!Exists, Reports, Shown, Exists
  <2>3. /\ jobs'[c].status = "queued"
        /\ \A i \in Call : i # c => jobs'[i] = jobs[i]
        /\ UNCHANGED ends
    BY <1>3 DEF Insert, Typed, TypeOK
  <2>4. Reports' = [Reports EXCEPT ![c] = "open"]
    BY <2>3 DEF Reports, Shown
  <2>5. UNCHANGED Performed
    BY <2>3 DEF Performed
  <2> QED BY <2>1, <2>2, <2>4, <2>5 DEF Queue!Next, Queue!Accept
<1>4. ASSUME UNCHANGED <<calls, ends>>, \A i \in Call : Shown(jobs'[i].status) = Shown(jobs[i].status)
      PROVE  UNCHANGED Queue!vars
  BY <1>4 DEF Queue!vars, Asked, Answers, Performed, Reports
<1>5. \A i \in Call : Shown(Requeued[i].status) = Shown(jobs[i].status)
  BY DEF Requeued, Shown, Typed, TypeOK, Row
<1>6. ASSUME NEW w \in Worker, Claim(w) PROVE UNCHANGED Queue!vars
  <2>1. CASE ClaimsNothing(w)
    BY <1>4, <1>5, <2>1 DEF ClaimsNothing
  <2>2. ASSUME NEW j \in Call, Claims(w, j) PROVE UNCHANGED Queue!vars
    <3>1. jobs'[j].status = "running" /\ \A i \in Call : i # j => jobs'[i] = Requeued[i]
      BY <2>2, ClaimedRow
    <3>2. Requeued[j].status = "queued"
      BY <2>2 DEF Claims, Oldest, Eligible
    <3>3. \A i \in Call : Shown(jobs'[i].status) = Shown(jobs[i].status)
      BY <1>5, <3>1, <3>2 DEF Shown
    <3> QED BY <1>4, <2>2, <3>3 DEF Claims
  <2> QED BY <1>6, <2>1, <2>2 DEF Claim
<1>7. ASSUME NEW w \in Worker, Handle(w) PROVE Queue!Next \/ UNCHANGED Queue!vars
  <2>1. PICK o \in Outcome : HandlerEnds(w, o)
    BY <1>7 DEF Handle
  <2> DEFINE j == workers[w].job
  <2>2. j \in Call /\ Exists(j)
    BY <2>1, NamesAssumption DEF HandlerEnds, Typed, Engaged, CreationInv, Working
  <2>3. UNCHANGED <<Asked, Answers, Reports>>
    BY <2>1 DEF HandlerEnds, Asked, Answers, Reports
  <2>4. CASE o = "ok"
    <3>1. Performed' = Performed \union {j}
      BY <2>1, <2>2, <2>4 DEF HandlerEnds, Performed, Typed, TypeOK
    <3>2. Queue!Exists(j)
      BY <2>2 DEF Queue!Exists, Reports, Shown, Exists
    <3> QED BY <2>2, <2>3, <3>1, <3>2 DEF Queue!Next, Queue!Perform
  <2>5. CASE o # "ok"
    <3>1. Performed' = Performed
      BY <2>1, <2>2, <2>5 DEF HandlerEnds, Performed, Typed, TypeOK
    <3> QED BY <2>3, <3>1 DEF Queue!vars
  <2> QED BY <2>4, <2>5
<1>8. ASSUME NEW w \in Worker, WriteRow(w) PROVE Queue!Next
  <2> DEFINE j == workers[w].job
  <2>1. j \in Call /\ Exists(j)
    BY <1>8, NamesAssumption DEF WriteRow, Typed, Engaged, CreationInv, Working
  <2>2. /\ jobs'[j].status = Verdict(w)
        /\ \A i \in Call : i # j => jobs'[i] = jobs[i]
    BY <1>8, <2>1 DEF WriteRow, Typed, TypeOK, Row
  <2>3. Shown(Verdict(w)) \in {"open", "succeeded", "failed"}
    BY DEF Verdict, Shown
  <2>4. UNCHANGED <<Asked, Answers, Performed>>
    BY <1>8 DEF WriteRow, Asked, Answers, Performed
  <2>5. Reports' = [Reports EXCEPT ![j] = Shown(Verdict(w))]
    BY <2>1, <2>2 DEF Reports
  <2>6. Queue!Exists(j)
    BY <2>1 DEF Queue!Exists, Reports, Shown, Exists
  <2>7. Shown(Verdict(w)) = "succeeded" => j \in Performed
    <3>1. Shown(Verdict(w)) = "succeeded" => jobs'[j].status = "succeeded"
      BY <2>2 DEF Shown, Verdict
    <3>2. UNCHANGED ends
      BY <1>8 DEF WriteRow
    <3> QED BY <2>1, <3>1, <3>2 DEF OutcomeInv, SucceededWasPerformed, Performed
  <2>8. Queue!Report(j, Shown(Verdict(w)))
    BY <2>4, <2>5, <2>6, <2>7 DEF Queue!Report
  <2> QED BY <2>1, <2>3, <2>8 DEF Queue!Next
<1>9. ASSUME NEW w \in Worker, ReadRow(w) \/ SucceedRaises(w) \/ Crash(w) \/ Start(w) PROVE UNCHANGED Queue!vars
  <2>1. UNCHANGED <<jobs, calls, ends>>
    BY <1>9 DEF ReadRow, SucceedRaises, Crash, Start, Down
  <2> QED BY <1>4, <2>1
<1>10. ASSUME NEW k \in Call, Expire(k) PROVE UNCHANGED Queue!vars
  <2>1. UNCHANGED <<calls, ends>> /\ \A i \in Call : jobs'[i].status = jobs[i].status
    BY <1>10 DEF Expire, Typed, TypeOK, Row
  <2> QED BY <1>4, <2>1
<1>11. ASSUME NEW k \in Call, BackoffElapses(k) PROVE UNCHANGED Queue!vars
  <2>1. UNCHANGED <<calls, ends>> /\ \A i \in Call : jobs'[i].status = jobs[i].status
    BY <1>11 DEF BackoffElapses, Typed, TypeOK, Row
  <2> QED BY <1>4, <2>1
<1>12. CASE UNCHANGED vars
  BY <1>4, <1>12 DEF vars
<1> QED BY <1>1, <1>2, <1>3, <1>6, <1>7, <1>8, <1>9, <1>10, <1>11, <1>12
        DEF Next, Create, RunOnce, Time, AbandonedLeaseExpires, OutlivedLeaseExpires

(* The two-step creation, the leases and the late reports of the table are   *)
(* steps of JobQueue, or change nothing that JobQueue speaks of.             *)
THEOREM TableImplementsQueue == Spec => ImplementsJobQueue
<1>1. Init => Queue!Init
  BY DEF Init, Queue!Init, Queue!Request, NoRow, Asked, Answers, Performed, Reports, Shown
<1>2. Init => CreationInv /\ OutcomeInv
  BY NamesAssumption
  DEF Init, CreationInv, Waiting, Working, Answered, OneRowPerKey, Exists, NoRow, Idle,
      OutcomeInv, Honest, SucceededWasPerformed, FailedForReason
<1> QED BY <1>1, <1>2, TypedAlways, CreationStep, OutcomeStep, StepMapped, PTL
        DEF Spec, ImplementsJobQueue, Queue!Spec
=============================================================================
