----------------------- MODULE ScrapeLifecycleProofs -----------------------
(***************************************************************************)
(* Proofs about ScrapeLifecycle, for any executors, any assignment of them *)
(* to processes and any number of crashes.                                 *)
(***************************************************************************)
EXTENDS ScrapeLifecycle, TLAPS

(* What the checks of the store guarantee of the record they let through. *)

\* Its parts are sequences, and writing one of them leaves the others.
LEMMA RecordParts ==
  ASSUME NEW r \in Record
  PROVE  /\ r.transitions \in Seq(Transition) /\ r.attempts \in Seq(Attempt) /\ r.allocated \in Seq(1..MaxAttempts)
         /\ \A s \in Seq(Transition) : /\ [r EXCEPT !.transitions = s] \in Record
                                       /\ [r EXCEPT !.transitions = s].transitions = s
                                       /\ [r EXCEPT !.transitions = s].attempts = r.attempts
                                       /\ [r EXCEPT !.transitions = s].allocated = r.allocated
         /\ \A s \in Seq(Attempt) : /\ [r EXCEPT !.attempts = s] \in Record
                                    /\ [r EXCEPT !.attempts = s].attempts = s
                                    /\ [r EXCEPT !.attempts = s].transitions = r.transitions
                                    /\ [r EXCEPT !.attempts = s].allocated = r.allocated
         /\ \A s \in Seq(1..MaxAttempts) : /\ [r EXCEPT !.allocated = s] \in Record
                                           /\ [r EXCEPT !.allocated = s].allocated = s
                                           /\ [r EXCEPT !.allocated = s].transitions = r.transitions
                                           /\ [r EXCEPT !.allocated = s].attempts = r.attempts
BY DEF Record

LEMMA CurrentTyped ==
  ASSUME NEW r \in Record
  PROVE  /\ CurrentState(r) = None <=> r.transitions = <<>>
         /\ CurrentState(r) \in JobState \union {None}
<1>1. r.transitions \in Seq(Transition)
  BY RecordParts
<1>2. CASE r.transitions = <<>>
  BY <1>2 DEF CurrentState
<1>3. CASE r.transitions # <<>>
  <2>1. r.transitions[Len(r.transitions)] \in Transition
    BY <1>1, <1>3
  <2>2. r.transitions[Len(r.transitions)].current \in JobState
    BY <2>1 DEF Transition
  <2>3. None \notin JobState
    BY DEF None, JobState
  <2> QED BY <1>3, <2>2, <2>3 DEF CurrentState
<1> QED BY <1>2, <1>3

LEMMA NextStatesTyped ==
  ASSUME NEW s \in JobState
  PROVE  ValidNextStates[s] \subseteq JobState
BY DEF ValidNextStates, JobState

LEMMA TransitionKeepsLoadable ==
  ASSUME NEW r \in Record, Loadable(r), NEW t \in Transition, IsValidNew(r, t)
  PROVE  WithTransition(r, t) \in Record /\ Loadable(WithTransition(r, t))
<1> DEFINE q == WithTransition(r, t)
           n == Len(r.transitions)
<1>1. /\ q.transitions = Append(r.transitions, t)
      /\ q.attempts = r.attempts /\ q.allocated = r.allocated
      /\ q \in Record
  <2>1. Append(r.transitions, t) \in Seq(Transition)
    BY RecordParts
  <2> QED BY <2>1, RecordParts DEF WithTransition
<1>2. r.transitions \in Seq(Transition) /\ n \in Nat
  BY RecordParts
<1>3. /\ Len(q.transitions) = n + 1
      /\ \A i \in 1..n : q.transitions[i] = r.transitions[i]
      /\ q.transitions[n + 1] = t
  BY <1>1, <1>2
<1>4. CASE n = 0
  <2>1. t.current = "CREATED" /\ t.previous = None
    BY <1>2, <1>4 DEF IsValidNew, CurrentState
  <2> QED BY <1>1, <1>3, <1>4, <2>1 DEF Loadable
<1>5. CASE n > 0
  <2>1. r.transitions # <<>> /\ CurrentState(r) = r.transitions[n].current
    BY <1>2, <1>5 DEF CurrentState
  <2>2. CurrentState(r) # None
    BY <2>1, CurrentTyped
  <2>3. /\ r.transitions[n].current \notin TerminalStates
        /\ t.previous = r.transitions[n].current
        /\ TransitionAllowed(r.transitions[n].current, t.current)
    BY <2>1, <2>2 DEF IsValidNew, TransitionAllowed
  <2>4. q.transitions[1] = r.transitions[1] /\ q.transitions # <<>>
    BY <1>3, <1>5
  <2>5. ASSUME NEW i \in 1..Len(q.transitions) - 1
        PROVE  /\ q.transitions[i + 1].previous = q.transitions[i].current
               /\ q.transitions[i].current \notin TerminalStates
               /\ TransitionAllowed(q.transitions[i].current, q.transitions[i + 1].current)
    <3>1. CASE i = n
      BY <1>3, <1>5, <2>3, <3>1
    <3>2. CASE i < n
      <4>1. i \in 1..n - 1 /\ i + 1 \in 1..n /\ i \in 1..n
        BY <1>2, <1>3, <3>2
      <4>2. q.transitions[i] = r.transitions[i] /\ q.transitions[i + 1] = r.transitions[i + 1]
        BY <1>3, <4>1
      <4> QED BY <4>1, <4>2 DEF Loadable
    <3> QED BY <1>2, <1>3, <3>1, <3>2
  <2> QED BY <1>1, <2>1, <2>4, <2>5 DEF Loadable
<1> QED BY <1>1, <1>2, <1>4, <1>5

LEMMA ElementsTyped ==
  ASSUME NEW S, NEW s \in Seq(S)
  PROVE  ElementsOf(s) \subseteq S
BY DEF ElementsOf

LEMMA NumbersTyped ==
  ASSUME NEW r \in Record
  PROVE  NumbersUsed(r) \subseteq 1..MaxAttempts
<1>1. r.allocated \in Seq(1..MaxAttempts) /\ r.attempts \in Seq(Attempt)
  BY RecordParts
<1>2. ElementsOf(r.allocated) \subseteq 1..MaxAttempts
  BY <1>1, ElementsTyped
<1>3. ElementsOf(r.attempts) \subseteq Attempt
  BY <1>1, ElementsTyped
<1> QED BY <1>2, <1>3 DEF NumbersUsed, Attempt

\* max(..., default=0) + 1 exceeds every number used.
LEMMA NextNumberIsNew ==
  ASSUME NEW r \in Record
  PROVE  /\ NextAttemptNumber(r) \in 1..MaxAttempts + 1
         /\ \A m \in NumbersUsed(r) : m < NextAttemptNumber(r)
<1> DEFINE U == NumbersUsed(r)
           P(n) == (\A m \in U : m < n) /\ (n = 1 \/ n - 1 \in U)
<1>1. U \subseteq 1..3
  BY NumbersTyped DEF MaxAttempts
<1>2. \E n \in 1..4 : P(n)
  <2>1. CASE 3 \in U
    BY <1>1, <2>1
  <2>2. CASE 3 \notin U /\ 2 \in U
    BY <1>1, <2>2
  <2>3. CASE 3 \notin U /\ 2 \notin U /\ 1 \in U
    BY <1>1, <2>3
  <2>4. CASE 3 \notin U /\ 2 \notin U /\ 1 \notin U
    BY <1>1, <2>4
  <2> QED BY <2>1, <2>2, <2>3, <2>4
<1>3. NextAttemptNumber(r) = CHOOSE n \in 1..4 : P(n)
  BY DEF NextAttemptNumber, MaxAttempts
<1> QED BY <1>2, <1>3 DEF MaxAttempts

LEMMA AllocationKeepsLoadable ==
  ASSUME NEW r \in Record, Loadable(r), CanAllocate(r)
  PROVE  WithAllocation(r) \in Record /\ Loadable(WithAllocation(r))
<1> DEFINE q == WithAllocation(r)
           k == NextAttemptNumber(r)
           n == Len(r.allocated)
<1>1. k \in 1..MaxAttempts /\ \A m \in NumbersUsed(r) : m < k
  BY NextNumberIsNew DEF CanAllocate, MaxAttempts
<1>2. /\ q.allocated = Append(r.allocated, k)
      /\ q.attempts = r.attempts /\ q.transitions = r.transitions
      /\ q \in Record
  <2>1. Append(r.allocated, k) \in Seq(1..MaxAttempts)
    BY <1>1, RecordParts
  <2> QED BY <2>1, RecordParts DEF WithAllocation
<1>3. r.allocated \in Seq(1..MaxAttempts) /\ n \in Nat
  BY RecordParts
<1>4. /\ DOMAIN q.allocated = 1..n + 1
      /\ \A i \in 1..n : q.allocated[i] = r.allocated[i]
      /\ q.allocated[n + 1] = k
      /\ DOMAIN r.allocated = 1..n
  BY <1>2, <1>3
<1>5. \A i \in 1..n : r.allocated[i] < k
  BY <1>1, <1>4 DEF NumbersUsed, ElementsOf
<1>6. \A i, j \in DOMAIN q.allocated : i < j => q.allocated[i] < q.allocated[j]
  BY <1>3, <1>4, <1>5 DEF Loadable
<1> QED BY <1>2, <1>6 DEF Loadable

LEMMA AttemptKeepsLoadable ==
  ASSUME NEW r \in Record, Loadable(r), NEW a \in Attempt, AttemptAccepted(r, a)
  PROVE  WithAttempt(r, a) \in Record /\ Loadable(WithAttempt(r, a))
<1> DEFINE q == WithAttempt(r, a)
           n == Len(r.attempts)
<1>1. /\ q.attempts = Append(r.attempts, a)
      /\ q.allocated = r.allocated /\ q.transitions = r.transitions
      /\ q \in Record
  <2>1. Append(r.attempts, a) \in Seq(Attempt)
    BY RecordParts
  <2> QED BY <2>1, RecordParts DEF WithAttempt
<1>2. r.attempts \in Seq(Attempt) /\ n \in Nat
  BY RecordParts
<1>3. /\ DOMAIN q.attempts = 1..n + 1
      /\ \A i \in 1..n : q.attempts[i] = r.attempts[i]
      /\ q.attempts[n + 1] = a
      /\ DOMAIN r.attempts = 1..n
  BY <1>1, <1>2
<1>4. \A i \in 1..n : r.attempts[i].number # a.number
  BY <1>3 DEF AttemptAccepted, ElementsOf
<1>5. \A i, j \in DOMAIN q.attempts : q.attempts[i].number = q.attempts[j].number => i = j
  <2> SUFFICES ASSUME NEW i \in 1..n + 1, NEW j \in 1..n + 1, q.attempts[i].number = q.attempts[j].number
               PROVE  i = j
    BY <1>3
  <2>1. CASE i \in 1..n /\ j \in 1..n
    BY <1>3, <2>1 DEF Loadable
  <2>2. CASE i = n + 1 \/ j = n + 1
    BY <1>2, <1>3, <1>4, <2>2
  <2> QED BY <1>2, <2>1, <2>2
<1> QED BY <1>1, <1>5 DEF Loadable

-----------------------------------------------------------------------------
(* Types *)

Numbered == {"redequeue", "recover", "eligible", "requeue", "dequeue", "stage", "work", "fail", "failing", "finish"}

\* What an executor's phase says of the rest of its state.
PhaseOK(x) ==
    /\ x.phase \in {"stage", "work"} => x.at \in DOMAIN NextStage
    /\ x.phase \in Numbered => x.n \in 1..MaxAttempts
    /\ x.phase = "finish" => x.at \in {"COMPLETED", "RETRY_SCHEDULED", "DEAD_LETTERED"}
    /\ x.phase \in {"recover", "check"} => x.at \in JobState

Typed == TypeOK /\ \A e \in Executor : PhaseOK(exec[e])

LEMMA RecoveredTyped ==
  ASSUME NEW s \in JobState, NEW n \in Nat
  PROVE  Recovered(s, n) \in JobState
BY DEF Recovered, JobState

LEMMA NextStageTyped ==
  ASSUME NEW s \in DOMAIN NextStage
  PROVE  /\ s \in JobState /\ NextStage[s] \in JobState
         /\ NextStage[s] # "COMPLETED" => NextStage[s] \in DOMAIN NextStage
BY DEF NextStage, JobState

LEMMA ReportTyped ==
  ASSUME Typed, NEW e \in Executor, exec[e].phase \in AppendPhase
  PROVE  Report(e) \in Transition
<1> DEFINE x == exec[e]
<1>1. /\ x.at \in JobState \union {None} /\ x.n \in 0..MaxAttempts /\ x.reason \in Reason
      /\ PhaseOK(x)
  BY DEF Typed, TypeOK, ExecState
<1>2. {"CREATED", "QUEUED", "DEQUEUED", "RETRY_SCHEDULED", "DEAD_LETTERED"} \subseteq JobState
  BY DEF JobState
<1>3. {"job", "lease", "recovered lease", "stage", "interrupted"} \subseteq Reason
  BY DEF Reason
<1>4. Recovered(x.at, x.n) \in JobState /\ Failed(x.n) \in JobState /\ 0 \in 0..MaxAttempts
  BY <1>2 DEF Recovered, Failed, MaxAttempts
<1>5. CASE x.phase = "accept"
  BY <1>1, <1>2, <1>3, <1>4, <1>5 DEF Report, Transition
<1>6. CASE x.phase = "enqueue"
  BY <1>1, <1>2, <1>3, <1>4, <1>6 DEF Report, Transition
<1>7. CASE x.phase = "redequeue"
  BY <1>1, <1>2, <1>3, <1>4, <1>7 DEF Report, Transition
<1>8. CASE x.phase = "recover"
  BY <1>1, <1>2, <1>3, <1>4, <1>8 DEF Report, Transition
<1>9. CASE x.phase = "requeue"
  BY <1>1, <1>2, <1>3, <1>4, <1>9 DEF Report, Transition
<1>10. CASE x.phase = "dequeue"
  BY <1>1, <1>2, <1>3, <1>4, <1>10 DEF Report, Transition
<1>11. CASE x.phase = "stage"
  <2>1. NextStage[x.at] \in JobState
    BY <1>1, <1>11, NextStageTyped DEF PhaseOK
  <2> QED BY <1>1, <1>2, <1>3, <1>4, <1>11, <2>1 DEF Report, Transition
<1>12. CASE x.phase = "failing"
  BY <1>1, <1>2, <1>3, <1>4, <1>12 DEF Report, Transition
<1> QED BY <1>5, <1>6, <1>7, <1>8, <1>9, <1>10, <1>11, <1>12 DEF AppendPhase

\* An executor goes to a phase, with a state, a number or a reason.
ToPhase(x, p)     == [x EXCEPT !.phase = p]
ToState(x, p, s)  == [x EXCEPT !.phase = p, !.at = s]
ToNumber(x, p, k) == [x EXCEPT !.phase = p, !.n = k]
ToReason(x, p, r) == [x EXCEPT !.phase = p, !.reason = r]

LEMMA PhaseUpdate ==
  ASSUME NEW x \in ExecState, NEW p \in Phase
  PROVE  LET y == ToPhase(x, p)
         IN  y \in ExecState /\ y.phase = p /\ y.at = x.at /\ y.n = x.n /\ y.reason = x.reason
BY DEF ExecState, ToPhase

LEMMA StateUpdate ==
  ASSUME NEW x \in ExecState, NEW p \in Phase, NEW s \in JobState \union {None}
  PROVE  LET y == ToState(x, p, s)
         IN  y \in ExecState /\ y.phase = p /\ y.at = s /\ y.n = x.n /\ y.reason = x.reason
BY DEF ExecState, ToState

LEMMA NumberUpdate ==
  ASSUME NEW x \in ExecState, NEW p \in Phase, NEW k \in 0..MaxAttempts
  PROVE  LET y == ToNumber(x, p, k)
         IN  y \in ExecState /\ y.phase = p /\ y.at = x.at /\ y.n = k /\ y.reason = x.reason
BY DEF ExecState, ToNumber

LEMMA ReasonUpdate ==
  ASSUME NEW x \in ExecState, NEW p \in Phase, NEW r \in Reason
  PROVE  LET y == ToReason(x, p, r)
         IN  y \in ExecState /\ y.phase = p /\ y.at = x.at /\ y.n = x.n /\ y.reason = r
BY DEF ExecState, ToReason

LEMMA IdleTyped == Idle \in ExecState /\ PhaseOK(Idle)
BY DEF Idle, ExecState, PhaseOK, Phase, Reason, Numbered, MaxAttempts, None

\* What an append makes of its executor.
LEMMA ReportedTyped ==
  ASSUME Typed, NEW e \in Executor, exec[e].phase \in AppendPhase
  PROVE  Reported(e) \in ExecState /\ PhaseOK(Reported(e))
<1> DEFINE x == exec[e]
<1>1. x \in ExecState /\ PhaseOK(x)
  BY DEF Typed, TypeOK
<1>2. x.n \in 0..MaxAttempts
  BY <1>1 DEF ExecState
<1>3. /\ "enqueue" \in Phase /\ "allocate" \in Phase /\ "recover" \in Phase /\ "dequeue" \in Phase
      /\ "stage" \in Phase /\ "finish" \in Phase /\ "work" \in Phase
  BY DEF Phase, StorePhase, AppendPhase
<1>4. "DEQUEUED" \in JobState /\ "DEQUEUED" \in DOMAIN NextStage
  BY DEF JobState, NextStage
<1>5. Failed(x.n) \in {"RETRY_SCHEDULED", "DEAD_LETTERED"} /\ Failed(x.n) \in JobState
  BY DEF Failed, JobState
<1>6. CASE x.phase = "accept"
  <2>1. Reported(e) = ToPhase(x, "enqueue")
    BY <1>6 DEF Reported, ToPhase
  <2>2. Reported(e) \in ExecState /\ Reported(e).phase = "enqueue" /\ Reported(e).at = x.at /\ Reported(e).n = x.n
    BY <1>1, <1>3, <2>1 DEF ToPhase, ExecState
  <2> QED BY <1>1, <1>6, <2>2 DEF PhaseOK, Numbered
<1>7. CASE x.phase = "enqueue"
  <2>1. Reported(e) = ToPhase(x, "allocate")
    BY <1>7 DEF Reported, ToPhase
  <2>2. Reported(e) \in ExecState /\ Reported(e).phase = "allocate" /\ Reported(e).at = x.at /\ Reported(e).n = x.n
    BY <1>1, <1>3, <2>1 DEF ToPhase, ExecState
  <2> QED BY <1>1, <1>7, <2>2 DEF PhaseOK, Numbered
<1>8. CASE x.phase = "recover"
  <2>1. Reported(e) = ToPhase(x, "allocate")
    BY <1>8 DEF Reported, ToPhase
  <2>2. Reported(e) \in ExecState /\ Reported(e).phase = "allocate" /\ Reported(e).at = x.at /\ Reported(e).n = x.n
    BY <1>1, <1>3, <2>1 DEF ToPhase, ExecState
  <2> QED BY <1>1, <1>8, <2>2 DEF PhaseOK, Numbered
<1>9. CASE x.phase = "requeue"
  <2>1. Reported(e) = ToPhase(x, "dequeue")
    BY <1>9 DEF Reported, ToPhase
  <2>2. Reported(e) \in ExecState /\ Reported(e).phase = "dequeue" /\ Reported(e).at = x.at /\ Reported(e).n = x.n
    BY <1>1, <1>3, <2>1 DEF ToPhase, ExecState
  <2> QED BY <1>1, <1>9, <2>2 DEF PhaseOK, Numbered
<1>10. CASE x.phase = "redequeue"
  <2>1. Reported(e) = ToState(x, "recover", "DEQUEUED")
    BY <1>10 DEF Reported, ToState
  <2>2. Reported(e) \in ExecState /\ Reported(e).phase = "recover" /\ Reported(e).at = "DEQUEUED" /\ Reported(e).n = x.n
    BY <1>1, <1>3, <1>4, <2>1 DEF ToState, ExecState
  <2> QED BY <1>1, <1>4, <1>10, <2>2 DEF PhaseOK, Numbered
<1>11. CASE x.phase = "dequeue"
  <2>1. Reported(e) = ToState(x, "stage", "DEQUEUED")
    BY <1>11 DEF Reported, ToState
  <2>2. Reported(e) \in ExecState /\ Reported(e).phase = "stage" /\ Reported(e).at = "DEQUEUED" /\ Reported(e).n = x.n
    BY <1>1, <1>3, <1>4, <2>1 DEF ToState, ExecState
  <2> QED BY <1>1, <1>4, <1>11, <2>2 DEF PhaseOK, Numbered
<1>12. CASE x.phase = "failing"
  <2>1. Reported(e) = ToState(x, "finish", Failed(x.n))
    BY <1>12 DEF Reported, ToState
  <2>2. Reported(e) \in ExecState /\ Reported(e).phase = "finish" /\ Reported(e).at = Failed(x.n) /\ Reported(e).n = x.n
    BY <1>1, <1>3, <1>5, <2>1 DEF ToState, ExecState
  <2> QED BY <1>1, <1>5, <1>12, <2>2 DEF PhaseOK, Numbered
<1>13. CASE x.phase = "stage"
  <2> DEFINE p == IF NextStage[x.at] = "COMPLETED" THEN "finish" ELSE "work"
  <2>1. Reported(e) = ToState(x, p, NextStage[x.at])
    BY <1>13 DEF Reported, ToState
  <2>2. /\ NextStage[x.at] \in JobState
        /\ NextStage[x.at] # "COMPLETED" => NextStage[x.at] \in DOMAIN NextStage
    BY <1>1, <1>13, NextStageTyped DEF PhaseOK
  <2>3. p \in Phase
    BY <1>3
  <2>4. x.n \in 1..MaxAttempts
    BY <1>1, <1>13 DEF PhaseOK, Numbered
  <2> HIDE DEF p
  <2>5. Reported(e) \in ExecState /\ Reported(e).phase = p /\ Reported(e).at = NextStage[x.at] /\ Reported(e).n = x.n
    BY <1>1, <2>1, <2>2, <2>3, StateUpdate
  <2> QED BY <2>2, <2>4, <2>5 DEF PhaseOK, Numbered, p
<1> QED BY <1>6, <1>7, <1>8, <1>9, <1>10, <1>11, <1>12, <1>13 DEF AppendPhase

LEMMA RefusedTyped ==
  ASSUME Typed, NEW e \in Executor, exec[e].phase \in AppendPhase
  PROVE  Refused(e) \in ExecState /\ PhaseOK(Refused(e))
<1> DEFINE x == exec[e]
<1>1. x \in ExecState /\ PhaseOK(x) /\ "fail" \in Phase
  BY DEF Typed, TypeOK, Phase
<1>2. CASE x.phase = "stage" /\ x.at \in DOMAIN IngestionStage
  <2>1. IngestionStage[x.at] \in Reason
    BY <1>2 DEF IngestionStage, Reason, FailureStage
  <2>2. Refused(e) = ToReason(x, "fail", IngestionStage[x.at])
    BY <1>2 DEF Refused, ToReason
  <2>3. x.n \in 1..MaxAttempts
    BY <1>1, <1>2 DEF PhaseOK, Numbered
  <2> QED BY <1>1, <2>1, <2>2, <2>3, ReasonUpdate DEF PhaseOK, Numbered
<1>3. CASE ~(x.phase = "stage" /\ x.at \in DOMAIN IngestionStage)
  BY <1>3, IdleTyped DEF Refused
<1> QED BY <1>2, <1>3

-----------------------------------------------------------------------------
(* The record on disk, and every copy of it that an operation works on, is *)
(* one that the loader accepts.                                            *)

Safe == Typed /\ Loadable(record) /\ \A e \in Executor : Loadable(loaded[e].copy)

LEMMA EmptyLoadable == EmptyRecord \in Record /\ Loadable(EmptyRecord)
<1>1. /\ EmptyRecord.transitions = <<>> /\ EmptyRecord.attempts = <<>> /\ EmptyRecord.allocated = <<>>
      /\ EmptyRecord \in Record
  BY DEF EmptyRecord, Record
<1> QED BY <1>1 DEF Loadable

\* A step in which executor e becomes x and the record, the copies and the
\* history stay what they may be.
LEMMA SafeStep ==
  ASSUME Safe, NEW e \in Executor, NEW x \in ExecState, PhaseOK(x), Become(e, x),
         record' \in Record, Loadable(record'),
         \/ UNCHANGED loaded
         \/ loaded' = [loaded EXCEPT ![e] = NotLoaded],
         begun' \in [1..MaxAttempts -> Nat], crashes' \in 0..MaxCrashes
  PROVE  Safe'
<1>1. /\ exec' \in [Executor -> ExecState]
      /\ \A f \in Executor : PhaseOK(exec'[f])
  BY DEF Safe, Typed, TypeOK, Become
<1>2. NotLoaded \in [read : BOOLEAN, copy : Record] /\ Loadable(NotLoaded.copy)
  BY EmptyLoadable DEF NotLoaded
<1>3. loaded' \in [Executor -> [read : BOOLEAN, copy : Record]]
  BY <1>2 DEF Safe, Typed, TypeOK
<1>4. \A f \in Executor : Loadable(loaded'[f].copy)
  BY <1>2 DEF Safe, Typed, TypeOK
<1> QED BY <1>1, <1>3, <1>4 DEF Safe, Typed, TypeOK

\* An operation that has its copy, and what it may save.
LEMMA StoreStep ==
  ASSUME Safe, NEW e \in Executor, NEW x \in ExecState, PhaseOK(x), Become(e, x),
         NEW q \in Record, Loadable(q), Store(e, q), begun' \in [1..MaxAttempts -> Nat]
  PROVE  Safe'
BY SafeStep DEF Store, Safe, Typed, TypeOK

LEMMA AppendStep == ASSUME Safe, NEW e \in Executor, AppendTransition(e) PROVE Safe'
<1> DEFINE copy == loaded[e].copy
<1>1. copy \in Record /\ Loadable(copy) /\ record \in Record /\ Loadable(record)
  BY DEF Safe, Typed, TypeOK
<1>2. exec[e].phase \in AppendPhase /\ Typed
  BY DEF AppendTransition, Safe
<1>3. begun' \in [1..MaxAttempts -> Nat]
  <2>1. begun' = begun \/ begun' = [begun EXCEPT ![exec[e].n] = @ + 1]
    BY DEF AppendTransition
  <2>2. begun \in [1..MaxAttempts -> Nat]
    BY DEF Safe, Typed, TypeOK
  <2> QED BY <2>1, <2>2
<1>4. Report(e) \in Transition
  BY <1>2, ReportTyped
<1>5. Reported(e) \in ExecState /\ PhaseOK(Reported(e)) /\ Refused(e) \in ExecState /\ PhaseOK(Refused(e))
  BY <1>2, ReportedTyped, RefusedTyped
<1>6. CASE Store(e, record) /\ Become(e, Reported(e))
  BY <1>1, <1>3, <1>5, <1>6, StoreStep
<1>7. CASE IsValidNew(copy, Report(e)) /\ Store(e, WithTransition(copy, Report(e))) /\ Become(e, Reported(e))
  <2>1. WithTransition(copy, Report(e)) \in Record /\ Loadable(WithTransition(copy, Report(e)))
    BY <1>1, <1>4, <1>7, TransitionKeepsLoadable
  <2> QED BY <1>3, <1>5, <1>7, <2>1, StoreStep
<1>8. CASE Store(e, record) /\ Become(e, Refused(e))
  BY <1>1, <1>3, <1>5, <1>8, StoreStep
<1> QED BY <1>6, <1>7, <1>8 DEF AppendTransition

LEMMA AllocateStep == ASSUME Safe, NEW e \in Executor, AllocateAttempt(e) PROVE Safe'
<1> DEFINE copy == loaded[e].copy
<1>1. copy \in Record /\ Loadable(copy) /\ record \in Record /\ Loadable(record) /\ exec[e] \in ExecState
  BY DEF Safe, Typed, TypeOK
<1>2. begun' \in [1..MaxAttempts -> Nat]
  BY DEF AllocateAttempt, Safe, Typed, TypeOK
<1>3. CASE CanAllocate(copy) /\ Store(e, WithAllocation(copy))
           /\ Become(e, [exec[e] EXCEPT !.phase = "eligible", !.n = NextAttemptNumber(copy)])
  <2> DEFINE k == NextAttemptNumber(copy)
             x == ToNumber(exec[e], "eligible", k)
  <2>1. k \in 1..MaxAttempts
    BY <1>1, <1>3, NextNumberIsNew DEF CanAllocate, MaxAttempts
  <2>2. "eligible" \in Phase /\ k \in 0..MaxAttempts
    BY <2>1 DEF Phase, MaxAttempts
  <2> HIDE DEF k
  <2>3. x \in ExecState /\ x.phase = "eligible" /\ x.n = k
    BY <1>1, <2>2, NumberUpdate
  <2>4. PhaseOK(x)
    BY <2>1, <2>3 DEF PhaseOK, Numbered
  <2>5. Become(e, x)
    BY <1>3 DEF ToNumber, k
  <2>6. WithAllocation(copy) \in Record /\ Loadable(WithAllocation(copy))
    BY <1>1, <1>3, AllocationKeepsLoadable
  <2> HIDE DEF x
  <2> QED BY <1>2, <1>3, <2>3, <2>4, <2>5, <2>6, StoreStep
<1>4. CASE Store(e, record) /\ Become(e, Idle)
  BY <1>1, <1>2, <1>4, IdleTyped, StoreStep
<1> QED BY <1>3, <1>4 DEF AllocateAttempt

LEMMA FinishStep == ASSUME Safe, NEW e \in Executor, RecordAttempt(e) PROVE Safe'
<1> DEFINE copy == loaded[e].copy
           a == OutcomeOf(exec[e])
           q == IF AttemptAccepted(copy, a) THEN WithAttempt(copy, a) ELSE record
<1>1. copy \in Record /\ Loadable(copy) /\ record \in Record /\ Loadable(record)
  BY DEF Safe, Typed, TypeOK
<1>2. /\ exec[e].n \in 1..MaxAttempts
      /\ exec[e].at \in {"COMPLETED", "RETRY_SCHEDULED", "DEAD_LETTERED"}
  BY DEF RecordAttempt, Safe, Typed, PhaseOK, Numbered
<1>3. a \in Attempt
  BY <1>2 DEF OutcomeOf, Attempt, AttemptOutcome
<1>4. q \in Record /\ Loadable(q)
  BY <1>1, <1>3, AttemptKeepsLoadable
<1>5. Store(e, q) /\ Become(e, Idle) /\ begun' \in [1..MaxAttempts -> Nat]
  BY DEF RecordAttempt, Safe, Typed, TypeOK
<1> HIDE DEF q
<1> QED BY <1>4, <1>5, IdleTyped, StoreStep

\* The steps that leave the record, the copies and the history alone.
LEMMA LocalStep ==
  ASSUME Safe, NEW e \in Executor, NEW x \in ExecState, PhaseOK(x), Become(e, x),
         UNCHANGED <<record, loaded, begun, crashes>>
  PROVE  Safe'
<1>1. record' \in Record /\ Loadable(record') /\ begun' \in [1..MaxAttempts -> Nat] /\ crashes' \in 0..MaxCrashes
  BY DEF Safe, Typed, TypeOK
<1> QED BY <1>1, SafeStep

LEMMA DecideStep ==
  ASSUME Safe, NEW e \in Executor, Deliver(e) \/ Decide(e)
  PROVE  Safe'
<1> DEFINE y == exec[e]
<1>1. y \in ExecState /\ PhaseOK(y) /\ Idle \in ExecState /\ record \in Record
  BY IdleTyped DEF Safe, Typed, TypeOK
<1>2. {"peek", "accept", "check", "allocate", "redequeue", "recover", "requeue", "dequeue", "failing"} \subseteq Phase
  BY DEF Phase, StorePhase, AppendPhase
<1>3. CurrentState(record) \in JobState \union {None}
  BY <1>1, CurrentTyped
<1>4. CASE Deliver(e)
  <2>1. Become(e, ToPhase(Idle, "peek")) /\ UNCHANGED <<record, loaded, begun, crashes>>
    BY <1>4 DEF Deliver, ToPhase
  <2>2. ToPhase(Idle, "peek") \in ExecState /\ ToPhase(Idle, "peek").phase = "peek"
    BY <1>1, <1>2, PhaseUpdate
  <2> QED BY <2>1, <2>2, LocalStep DEF PhaseOK, Numbered
<1>5. CASE Peek(e)
  <2>1. UNCHANGED <<record, loaded, begun, crashes>>
    BY <1>5 DEF Peek
  <2>2. CASE Become(e, [Idle EXCEPT !.phase = "accept"])
    <3>1. ToPhase(Idle, "accept") \in ExecState /\ ToPhase(Idle, "accept").phase = "accept"
      BY <1>1, <1>2, PhaseUpdate
    <3>2. Become(e, ToPhase(Idle, "accept"))
      BY <2>2 DEF ToPhase
    <3> QED BY <2>1, <3>1, <3>2, LocalStep DEF PhaseOK, Numbered
  <2>3. CASE Become(e, Idle)
    BY <2>1, <2>3, IdleTyped, LocalStep
  <2>4. CASE CurrentState(record) # None /\ Become(e, [Idle EXCEPT !.phase = "check", !.at = CurrentState(record)])
    <3> DEFINE c == CurrentState(record)
    <3>1. c \in JobState
      BY <1>3, <2>4
    <3>2. Become(e, ToState(Idle, "check", c))
      BY <2>4 DEF ToState
    <3> HIDE DEF c
    <3>3. ToState(Idle, "check", c) \in ExecState /\ ToState(Idle, "check", c).phase = "check"
          /\ ToState(Idle, "check", c).at = c
      BY <1>1, <1>2, <3>1, StateUpdate
    <3> QED BY <2>1, <3>1, <3>2, <3>3, LocalStep DEF PhaseOK, Numbered
  <2> QED BY <1>5, <2>2, <2>3, <2>4 DEF Peek
<1>6. CASE Check(e)
  <2>1. UNCHANGED <<record, loaded, begun, crashes>> /\ y.phase = "check" /\ y.at \in JobState
    BY <1>1, <1>6 DEF Check, PhaseOK
  <2>2. CASE Become(e, [y EXCEPT !.phase = "allocate"])
    <3>1. ToPhase(y, "allocate") \in ExecState /\ ToPhase(y, "allocate").phase = "allocate"
      BY <1>1, <1>2, PhaseUpdate
    <3>2. Become(e, ToPhase(y, "allocate"))
      BY <2>2 DEF ToPhase
    <3> QED BY <2>1, <3>1, <3>2, LocalStep DEF PhaseOK, Numbered
  <2>3. CASE HasUnfinalizedAllocation(record)
             /\ Become(e, [y EXCEPT !.phase = IF y.at = "QUEUED" THEN "redequeue" ELSE "recover",
                                    !.n = LatestAllocated(record)])
    <3> DEFINE p == IF y.at = "QUEUED" THEN "redequeue" ELSE "recover"
               k == LatestAllocated(record)
    <3>1. k \in 1..MaxAttempts /\ k \in 0..MaxAttempts
      <4>1. record.allocated \in Seq(1..MaxAttempts)
        BY <1>1, RecordParts
      <4>2. record.allocated # <<>>
        BY <2>3 DEF HasUnfinalizedAllocation, ElementsOf
      <4>3. Len(record.allocated) \in DOMAIN record.allocated
        BY <4>1, <4>2
      <4>4. record.allocated[Len(record.allocated)] \in ElementsOf(record.allocated)
        BY <4>3 DEF ElementsOf
      <4>5. record.allocated[Len(record.allocated)] \in 1..MaxAttempts
        BY <4>1, <4>4, ElementsTyped
      <4> QED BY <4>5 DEF LatestAllocated, MaxAttempts
    <3>2. p \in {"redequeue", "recover"} /\ p \in Phase
      BY <1>2
    <3>3. Become(e, ToNumber(y, p, k))
      BY <2>3 DEF ToNumber
    <3> HIDE DEF p, k
    <3>4. /\ ToNumber(y, p, k) \in ExecState /\ ToNumber(y, p, k).phase = p
          /\ ToNumber(y, p, k).at = y.at /\ ToNumber(y, p, k).n = k
      BY <1>1, <3>1, <3>2, NumberUpdate
    <3>5. PhaseOK(ToNumber(y, p, k))
      BY <2>1, <3>1, <3>2, <3>4 DEF PhaseOK
    <3> QED BY <2>1, <3>3, <3>4, <3>5, LocalStep
  <2> QED BY <1>6, <2>2, <2>3 DEF Check
<1>7. CASE Eligible(e)
  <2> DEFINE p == IF CurrentState(record) = "RETRY_SCHEDULED" THEN "requeue" ELSE "dequeue"
  <2>1. UNCHANGED <<record, loaded, begun, crashes>> /\ y.n \in 1..MaxAttempts
    BY <1>1, <1>7 DEF Eligible, PhaseOK, Numbered
  <2>2. p \in {"requeue", "dequeue"} /\ p \in Phase
    BY <1>2
  <2>3. Become(e, ToPhase(y, p))
    BY <1>7 DEF Eligible, ToPhase
  <2> HIDE DEF p
  <2>4. ToPhase(y, p) \in ExecState /\ ToPhase(y, p).phase = p /\ ToPhase(y, p).n = y.n
    BY <1>1, <2>2, PhaseUpdate
  <2>5. PhaseOK(ToPhase(y, p))
    BY <2>1, <2>2, <2>4 DEF PhaseOK
  <2> QED BY <2>1, <2>3, <2>4, <2>5, LocalStep
<1>8. CASE Fail(e)
  <2> DEFINE c == CurrentState(record)
  <2>1. UNCHANGED <<record, loaded, begun, crashes>> /\ y.n \in 1..MaxAttempts
    BY <1>1, <1>8 DEF Fail, PhaseOK, Numbered
  <2>2. Become(e, ToState(y, "failing", c))
    BY <1>8 DEF Fail, ToState
  <2>3. c \in JobState \union {None} /\ "failing" \in Phase
    BY <1>2, <1>3
  <2> HIDE DEF c
  <2>4. /\ ToState(y, "failing", c) \in ExecState /\ ToState(y, "failing", c).phase = "failing"
        /\ ToState(y, "failing", c).n = y.n
    BY <1>1, <2>3, StateUpdate
  <2>5. PhaseOK(ToState(y, "failing", c))
    BY <2>1, <2>4 DEF PhaseOK
  <2> QED BY <2>1, <2>2, <2>4, <2>5, LocalStep
<1> QED BY <1>4, <1>5, <1>6, <1>7, <1>8 DEF Decide

LEMMA WorkStep == ASSUME Safe, NEW e \in Executor, Work(e) PROVE Safe'
<1> DEFINE y == exec[e]
<1>1. y \in ExecState /\ PhaseOK(y) /\ "stage" \in Phase /\ "fail" \in Phase
  BY DEF Safe, Typed, TypeOK, Phase, StorePhase, AppendPhase
<1>2. UNCHANGED <<record, loaded, begun, crashes>> /\ y.phase = "work"
  BY DEF Work, StageSucceeds, StageFails, RegistrationRaises
<1>3. y.at \in DOMAIN NextStage /\ y.n \in 1..MaxAttempts
  BY <1>1, <1>2 DEF PhaseOK, Numbered
<1>4. CASE StageSucceeds(e)
  <2>1. Become(e, ToPhase(y, "stage"))
    BY <1>4 DEF StageSucceeds, ToPhase
  <2>2. /\ ToPhase(y, "stage") \in ExecState /\ ToPhase(y, "stage").phase = "stage"
        /\ ToPhase(y, "stage").at = y.at /\ ToPhase(y, "stage").n = y.n
    BY <1>1, PhaseUpdate
  <2>3. PhaseOK(ToPhase(y, "stage"))
    BY <1>3, <2>2 DEF PhaseOK
  <2> QED BY <1>2, <2>1, <2>2, <2>3, LocalStep
<1>5. CASE StageFails(e)
  <2>1. PICK f \in StageFailure : Become(e, ToReason(y, "fail", f[2]))
    BY <1>5 DEF StageFails, ToReason
  <2>2. f[2] \in Reason
    <3>1. f[2] \in {"acquisition", "artifact_storage", "parsing", "publication"}
      BY DEF StageFailure
    <3> QED BY <3>1 DEF Reason, FailureStage
  <2>3. /\ ToReason(y, "fail", f[2]) \in ExecState /\ ToReason(y, "fail", f[2]).phase = "fail"
        /\ ToReason(y, "fail", f[2]).n = y.n
    BY <1>1, <2>2, ReasonUpdate
  <2>4. PhaseOK(ToReason(y, "fail", f[2]))
    BY <1>3, <2>3 DEF PhaseOK
  <2> QED BY <1>2, <2>1, <2>3, <2>4, LocalStep
<1>6. CASE RegistrationRaises(e)
  BY <1>2, <1>6, IdleTyped, LocalStep DEF RegistrationRaises
<1> QED BY <1>4, <1>5, <1>6 DEF Work

LEMMA LoadStep == ASSUME Safe, NEW e \in Executor, Load(e) PROVE Safe'
<1>1. record \in Record /\ Loadable(record)
  BY DEF Safe, Typed, TypeOK
<1>2. loaded' \in [Executor -> [read : BOOLEAN, copy : Record]]
  BY <1>1 DEF Load, Safe, Typed, TypeOK
<1>3. \A f \in Executor : Loadable(loaded'[f].copy)
  BY <1>1 DEF Load, Safe, Typed, TypeOK
<1> QED BY <1>2, <1>3 DEF Load, Safe, Typed, TypeOK

LEMMA CrashStep == ASSUME Safe, NEW e \in Executor, Crash(e) PROVE Safe'
<1>1. record' \in Record /\ Loadable(record') /\ begun' \in [1..MaxAttempts -> Nat]
  BY DEF Crash, Safe, Typed, TypeOK
<1>2. crashes' \in 0..MaxCrashes
  BY BoundAssumption DEF Crash, Safe, Typed, TypeOK
<1>3. Become(e, Idle) /\ loaded' = [loaded EXCEPT ![e] = NotLoaded]
  BY DEF Crash
<1> QED BY <1>1, <1>2, <1>3, IdleTyped, SafeStep

LEMMA SafeInit == Init => Safe
<1> SUFFICES ASSUME Init PROVE Safe
  OBVIOUS
<1>1. record \in Record /\ Loadable(record)
  BY EmptyLoadable DEF Init
<1>2. loaded \in [Executor -> [read : BOOLEAN, copy : Record]] /\ \A e \in Executor : Loadable(loaded[e].copy)
  BY EmptyLoadable DEF Init, NotLoaded
<1>3. exec \in [Executor -> ExecState] /\ \A e \in Executor : PhaseOK(exec[e])
  BY IdleTyped DEF Init
<1>4. begun \in [1..MaxAttempts -> Nat] /\ crashes \in 0..MaxCrashes
  BY BoundAssumption DEF Init
<1> QED BY <1>1, <1>2, <1>3, <1>4 DEF Safe, Typed, TypeOK

LEMMA SafeNext == Safe /\ [Next]_vars => Safe'
<1> SUFFICES ASSUME Safe, [Next]_vars PROVE Safe'
  OBVIOUS
<1>1. CASE UNCHANGED vars
  BY <1>1 DEF vars, Safe, Typed, TypeOK
<1>2. CASE Next
  <2>1. PICK e \in Executor : Deliver(e) \/ Decide(e) \/ Operate(e) \/ Work(e) \/ Crash(e)
    BY <1>2 DEF Next
  <2> QED BY <2>1, DecideStep, WorkStep, CrashStep, LoadStep, AppendStep, AllocateStep, FinishStep DEF Operate
<1> QED BY <1>1, <1>2

LEMMA SafeAlways == Spec => []Safe
BY SafeInit, SafeNext, PTL DEF Spec

\* Every reachable state has its type.
THEOREM TypeCorrect == Spec => []TypeOK
<1>1. Safe => TypeOK
  BY DEF Safe, Typed
<1> QED BY <1>1, SafeAlways, PTL

\* The checks that the store makes before it saves protect the file even from
\* executors of different processes that overwrite each other's changes: what
\* is saved is always one valid record, so the loader never reports corruption.
THEOREM RecordStaysLoadable == Spec => []RecordIsLoadable
<1>1. Safe => RecordIsLoadable
  BY DEF Safe, RecordIsLoadable
<1> QED BY <1>1, SafeAlways, PTL

-----------------------------------------------------------------------------
(* One process.  Its event loop excludes the store operations of its       *)
(* executors from one another, so what an operation has read is still what *)
(* the file holds when the operation saves.                                *)

OneProcess == \A e, f \in Executor : ProcessOf[e] = ProcessOf[f]

Fresh == \A e \in Executor : loaded[e].read => /\ loaded[e].copy = record
                                               /\ \A f \in Executor : loaded[f].read => f = e

Serial == Safe /\ Fresh

\* The operation in progress is over.
LEMMA FreshAfter ==
  ASSUME Serial, NEW e \in Executor, loaded[e].read, loaded' = [loaded EXCEPT ![e] = NotLoaded]
  PROVE  Fresh'
<1>1. loaded \in [Executor -> [read : BOOLEAN, copy : Record]]
  BY DEF Serial, Safe, Typed, TypeOK
<1>2. \A f \in Executor : ~loaded'[f].read
  BY <1>1 DEF Serial, Fresh, NotLoaded
<1> QED BY <1>2 DEF Fresh

LEMMA FreshNext == ASSUME OneProcess, Serial, [Next]_vars PROVE Fresh'
<1>1. CASE UNCHANGED <<record, loaded>>
  BY <1>1 DEF Serial, Fresh
<1>2. CASE Next
  <2>1. PICK e \in Executor : Deliver(e) \/ Decide(e) \/ Operate(e) \/ Work(e) \/ Crash(e)
    BY <1>2 DEF Next
  <2>2. CASE Deliver(e) \/ Decide(e) \/ Work(e)
    BY <1>1, <2>2 DEF Deliver, Decide, Peek, Check, Eligible, Fail, Work, StageSucceeds, StageFails, RegistrationRaises
  <2>3. loaded \in [Executor -> [read : BOOLEAN, copy : Record]]
    BY DEF Serial, Safe, Typed, TypeOK
  <2>4. CASE Load(e)
    <3>1. \A f \in Executor : ~loaded[f].read
      BY <2>4 DEF Load, OneProcess
    <3>2. record' = record /\ loaded' = [loaded EXCEPT ![e] = [read |-> TRUE, copy |-> record]]
      BY <2>4 DEF Load
    <3>3. \A f \in Executor : loaded'[f].read => f = e /\ loaded'[f].copy = record
      BY <2>3, <3>1, <3>2
    <3> QED BY <3>2, <3>3 DEF Fresh
  <2>5. CASE AppendTransition(e) \/ AllocateAttempt(e) \/ RecordAttempt(e)
    BY <2>5, FreshAfter DEF AppendTransition, AllocateAttempt, RecordAttempt, Store
  <2>6. CASE Crash(e)
    <3>1. record' = record /\ loaded' = [loaded EXCEPT ![e] = NotLoaded]
      BY <2>6 DEF Crash
    <3>2. \A f \in Executor : loaded'[f].read => loaded[f].read /\ loaded'[f] = loaded[f]
      BY <2>3, <3>1 DEF NotLoaded
    <3> QED BY <3>1, <3>2 DEF Serial, Fresh
  <2> QED BY <2>1, <2>2, <2>4, <2>5, <2>6 DEF Operate
<1> QED BY <1>1, <1>2 DEF vars

LEMMA SerialInit == Init => Serial
<1>1. Init => Fresh
  BY DEF Init, Fresh, NotLoaded
<1> QED BY <1>1, SafeInit DEF Serial

LEMMA SerialNext == ASSUME OneProcess PROVE Serial /\ [Next]_vars => Serial'
BY SafeNext, FreshNext DEF Serial

\* s is a beginning of t.
Grows(s, t) == Len(s) <= Len(t) /\ SubSeq(t, 1, Len(s)) = s

LEMMA SameGrows ==
  ASSUME NEW S, NEW s \in Seq(S)
  PROVE  Grows(s, s)
<1>1. SubSeq(s, 1, Len(s)) = s
  OBVIOUS
<1> QED BY <1>1 DEF Grows

LEMMA AppendGrows ==
  ASSUME NEW S, NEW s \in Seq(S), NEW x \in S
  PROVE  Grows(s, Append(s, x))
<1> DEFINE t == Append(s, x)
<1>1. t \in Seq(S) /\ Len(t) = Len(s) + 1 /\ Len(s) \in Nat
  OBVIOUS
<1>2. \A i \in 1..Len(s) : t[i] = s[i]
  OBVIOUS
<1>3. SubSeq(t, 1, Len(s)) \in Seq(S) /\ Len(SubSeq(t, 1, Len(s))) = Len(s)
  BY <1>1
<1>4. \A i \in 1..Len(s) : SubSeq(t, 1, Len(s))[i] = s[i]
  BY <1>1, <1>2
<1>5. SubSeq(t, 1, Len(s)) = s
  BY <1>3, <1>4
<1> QED BY <1>1, <1>5 DEF Grows

LEMMA HistoryStep ==
  ASSUME Serial, [Next]_vars
  PROVE  Grows(record.transitions, record'.transitions)
<1>1. record \in Record /\ record.transitions \in Seq(Transition)
  BY RecordParts DEF Serial, Safe, Typed, TypeOK
<1>2. CASE record' = record
  BY <1>1, <1>2, SameGrows
<1>3. CASE Next
  <2>1. PICK e \in Executor : Deliver(e) \/ Decide(e) \/ Operate(e) \/ Work(e) \/ Crash(e)
    BY <1>3 DEF Next
  <2>2. CASE AppendTransition(e)
    <3>1. loaded[e].copy = record
      BY <2>2 DEF AppendTransition, Serial, Fresh
    <3>2. Report(e) \in Transition
      BY <2>2, ReportTyped DEF AppendTransition, Serial, Safe
    <3>3. record' = record \/ record' = WithTransition(record, Report(e))
      BY <2>2, <3>1 DEF AppendTransition, Store
    <3>4. CASE record' = WithTransition(record, Report(e))
      <4>1. Append(record.transitions, Report(e)) \in Seq(Transition)
        BY <1>1, <3>2
      <4>2. record'.transitions = Append(record.transitions, Report(e))
        BY <1>1, <3>4, <4>1, RecordParts DEF WithTransition
      <4> QED BY <1>1, <3>2, <4>2, AppendGrows
    <3> QED BY <1>2, <3>3, <3>4
  <2>3. CASE AllocateAttempt(e)
    <3>1. loaded[e].copy = record
      BY <2>3 DEF AllocateAttempt, Serial, Fresh
    <3>2. record' = record \/ record' = WithAllocation(record)
      BY <2>3, <3>1 DEF AllocateAttempt, Store
    <3>3. record'.transitions = record.transitions
      BY <1>1, <3>2 DEF WithAllocation, Record
    <3> QED BY <1>1, <3>3, SameGrows
  <2>4. CASE RecordAttempt(e)
    <3>1. loaded[e].copy = record
      BY <2>4 DEF RecordAttempt, Serial, Fresh
    <3>2. record' = record \/ record' = WithAttempt(record, OutcomeOf(exec[e]))
      BY <2>4, <3>1 DEF RecordAttempt, Store
    <3>3. record'.transitions = record.transitions
      BY <1>1, <3>2 DEF WithAttempt, Record
    <3> QED BY <1>1, <3>3, SameGrows
  <2>5. CASE Deliver(e) \/ Decide(e) \/ Work(e) \/ Crash(e) \/ Load(e)
    BY <1>2, <2>5 DEF Deliver, Decide, Peek, Check, Eligible, Fail, Work, StageSucceeds, StageFails,
                      RegistrationRaises, Crash, Load
  <2> QED BY <2>1, <2>2, <2>3, <2>4, <2>5 DEF Operate
<1> QED BY <1>2, <1>3 DEF vars

\* When one process is given the job, however many executors it runs and
\* wherever they crash, the persisted history is only ever appended to.  The
\* run with two processes shows that OneProcess cannot be dropped.
THEOREM OneProcessAppends ==
  ASSUME OneProcess
  PROVE  Spec => HistoryOnlyGrows
<1>1. Init => Serial
  BY SerialInit
<1>2. Serial /\ [Next]_vars => Serial'
  BY SerialNext
<1>3. Serial /\ [Next]_vars => [/\ Len(record.transitions) <= Len(record'.transitions)
                               /\ SubSeq(record'.transitions, 1, Len(record.transitions)) = record.transitions]_vars
  BY HistoryStep DEF Grows
<1> QED BY <1>1, <1>2, <1>3, PTL DEF Spec, HistoryOnlyGrows
-----------------------------------------------------------------------------
(* The steps of one process.  What an operation has read is the record, so *)
(* a load is no step at all, and every other step is one of five kinds.    *)

LEMMA ElementsAppend ==
  ASSUME NEW S, NEW s \in Seq(S), NEW x \in S
  PROVE  ElementsOf(Append(s, x)) = ElementsOf(s) \union {x}
<1> DEFINE t == Append(s, x)
<1>1. /\ DOMAIN t = 1..Len(s) + 1 /\ DOMAIN s = 1..Len(s) /\ Len(s) \in Nat
      /\ \A i \in 1..Len(s) : t[i] = s[i]
      /\ t[Len(s) + 1] = x
  OBVIOUS
<1> HIDE DEF t
<1>2. DOMAIN t = DOMAIN s \union {Len(s) + 1}
  BY <1>1
<1>3. ElementsOf(t) = {t[i] : i \in DOMAIN s} \union {t[Len(s) + 1]}
  BY <1>2 DEF ElementsOf
<1> QED BY <1>1, <1>3 DEF ElementsOf, t

\* What each operation of the store makes of the record r.
LEMMA TransitionAdded ==
  ASSUME NEW r \in Record, NEW t \in Transition
  PROVE  LET q == WithTransition(r, t)
         IN  /\ q.transitions = Append(r.transitions, t)
             /\ ElementsOf(q.transitions) = ElementsOf(r.transitions) \union {t}
             /\ q.allocated = r.allocated /\ q.attempts = r.attempts
             /\ CurrentState(q) = t.current
<1> DEFINE q == WithTransition(r, t)
<1>1. r.transitions \in Seq(Transition) /\ Append(r.transitions, t) \in Seq(Transition)
  BY RecordParts
<1>2. q.transitions = Append(r.transitions, t) /\ q.allocated = r.allocated /\ q.attempts = r.attempts
  BY <1>1, RecordParts DEF WithTransition
<1>3. /\ q.transitions # <<>>
      /\ q.transitions[Len(q.transitions)] = t
  BY <1>1, <1>2
<1>4. CurrentState(q) = t.current
  BY <1>3 DEF CurrentState
<1> QED BY <1>1, <1>2, <1>4, ElementsAppend

LEMMA AllocationAdded ==
  ASSUME NEW r \in Record, CanAllocate(r)
  PROVE  LET q == WithAllocation(r)
             k == NextAttemptNumber(r)
         IN  /\ k \in 1..MaxAttempts /\ k \notin ElementsOf(r.allocated)
             /\ ElementsOf(q.allocated) = ElementsOf(r.allocated) \union {k}
             /\ q.allocated # <<>> /\ LatestAllocated(q) = k
             /\ q.transitions = r.transitions /\ q.attempts = r.attempts
<1> DEFINE q == WithAllocation(r)
           k == NextAttemptNumber(r)
<1>1. k \in 1..MaxAttempts /\ \A m \in NumbersUsed(r) : m < k
  BY NextNumberIsNew DEF CanAllocate, MaxAttempts
<1>2. k \notin ElementsOf(r.allocated)
  BY <1>1 DEF NumbersUsed
<1>3. r.allocated \in Seq(1..MaxAttempts) /\ Append(r.allocated, k) \in Seq(1..MaxAttempts)
  BY <1>1, RecordParts
<1>4. q.allocated = Append(r.allocated, k) /\ q.transitions = r.transitions /\ q.attempts = r.attempts
  BY <1>3, RecordParts DEF WithAllocation
<1> HIDE DEF k
<1>5. q.allocated # <<>> /\ LatestAllocated(q) = k
  BY <1>1, <1>3, <1>4 DEF LatestAllocated
<1>6. ElementsOf(Append(r.allocated, k)) = ElementsOf(r.allocated) \union {k}
  <2> DEFINE S == 1..MaxAttempts
  <2>1. r.allocated \in Seq(S) /\ k \in S
    BY <1>1, <1>3
  <2> HIDE DEF S
  <2> QED BY <2>1, ElementsAppend
<1>7. ElementsOf(q.allocated) = ElementsOf(r.allocated) \union {k}
  BY <1>4, <1>6
<1> USE DEF k
<1> QED BY <1>1, <1>2, <1>4, <1>5, <1>7

LEMMA AttemptAdded ==
  ASSUME NEW r \in Record, NEW a \in Attempt
  PROVE  LET q == WithAttempt(r, a)
         IN  /\ ElementsOf(q.attempts) = ElementsOf(r.attempts) \union {a}
             /\ q.allocated = r.allocated /\ q.transitions = r.transitions
<1> DEFINE q == WithAttempt(r, a)
<1>1. r.attempts \in Seq(Attempt) /\ Append(r.attempts, a) \in Seq(Attempt)
  BY RecordParts
<1>2. q.attempts = Append(r.attempts, a) /\ q.transitions = r.transitions /\ q.allocated = r.allocated
  BY <1>1, RecordParts DEF WithAttempt
<1> QED BY <1>1, <1>2, ElementsAppend

\* An executor in state x, once its transition t is recorded, is in state y.
Table(x, t, y) ==
    \/ /\ x.phase \in {"accept", "enqueue"} /\ y.phase \in {"enqueue", "allocate"}
       /\ t.number = 0 /\ t.current \in {"CREATED", "QUEUED"}
    \/ /\ x.phase = "redequeue" /\ y.phase = "recover"
       /\ t.number = x.n /\ t.current = "DEQUEUED"
    \/ /\ x.phase = "recover" /\ y.phase = "allocate"
       /\ t.number = x.n /\ t.current \in {"RETRY_SCHEDULED", "DEAD_LETTERED"}
    \/ /\ x.phase = "requeue" /\ y.phase = "dequeue"
       /\ t.number = x.n /\ t.current = "QUEUED"
    \/ /\ x.phase = "dequeue" /\ y.phase = "stage" /\ y.at = "DEQUEUED"
       /\ t.number = x.n /\ t.current = "DEQUEUED"
    \/ /\ x.phase = "stage" /\ y.phase = (IF NextStage[x.at] = "COMPLETED" THEN "finish" ELSE "work")
       /\ y.at = NextStage[x.at]
       /\ t.number = x.n /\ t.current = y.at /\ t.reason = "stage"
    \/ /\ x.phase = "failing" /\ y.phase = "finish" /\ y.at = Failed(x.n)
       /\ t.number = x.n /\ t.current = y.at /\ t.reason = x.reason

LEMMA ReportTable ==
  ASSUME Typed, NEW e \in Executor, exec[e].phase \in AppendPhase
  PROVE  Reported(e).n = exec[e].n /\ Table(exec[e], Report(e), Reported(e))
<1> DEFINE x == exec[e]
<1>1. x \in ExecState /\ x.phase \in AppendPhase
  BY DEF Typed, TypeOK
<1>2. CASE x.phase = "accept"
  BY <1>1, <1>2 DEF Reported, Report, Table, ExecState
<1>3. CASE x.phase = "enqueue"
  BY <1>1, <1>3 DEF Reported, Report, Table, ExecState
<1>4. CASE x.phase = "redequeue"
  BY <1>1, <1>4 DEF Reported, Report, Table, ExecState
<1>5. CASE x.phase = "recover"
  BY <1>1, <1>5 DEF Reported, Report, Table, ExecState, Recovered
<1>6. CASE x.phase = "requeue"
  BY <1>1, <1>6 DEF Reported, Report, Table, ExecState
<1>7. CASE x.phase = "dequeue"
  BY <1>1, <1>7 DEF Reported, Report, Table, ExecState
<1>8. CASE x.phase = "stage"
  BY <1>1, <1>8 DEF Reported, Report, Table, ExecState
<1>9. CASE x.phase = "failing"
  BY <1>1, <1>9 DEF Reported, Report, Table, ExecState
<1> QED BY <1>1, <1>2, <1>3, <1>4, <1>5, <1>6, <1>7, <1>8, <1>9 DEF AppendPhase

\* An executor goes on with its attempt, from state x to state y.
Forward(x, y) ==
    /\ y.n = x.n
    /\ \/ x.phase = "eligible" /\ y.phase \in {"requeue", "dequeue"}
       \/ x.phase = "work" /\ y.phase = "stage" /\ y.at = x.at
       \/ x.phase \in {"work", "stage"} /\ y.phase = "fail" /\ y.reason \in FailureStage
       \/ x.phase = "fail" /\ y.phase = "failing" /\ y.reason = x.reason

\* It takes up the number of an attempt that was interrupted.
TakesUp(y) ==
    /\ y.phase \in {"redequeue", "recover"}
    /\ record.allocated # <<>> /\ y.n = LatestAllocated(record)
    /\ HasUnfinalizedAllocation(record)

Reports(e, y) ==
    /\ exec[e].phase \in AppendPhase
    /\ y = Reported(e)
    /\ \/ record' = record /\ Report(e) \in ElementsOf(record.transitions)
       \/ record' = WithTransition(record, Report(e)) /\ Report(e) \notin ElementsOf(record.transitions)
    /\ begun' = IF y.phase = "work" /\ y.at = "ACQUIRING" THEN [begun EXCEPT ![exec[e].n] = @ + 1] ELSE begun

Allocates(e, y) ==
    /\ CanAllocate(record) /\ record' = WithAllocation(record)
    /\ y.phase = "eligible" /\ y.n = NextAttemptNumber(record)
    /\ UNCHANGED begun

Finishes(e, y) ==
    /\ exec[e].phase = "finish"
    /\ record' = WithAttempt(record, OutcomeOf(exec[e]))
    /\ y = Idle
    /\ UNCHANGED begun

Moves(e, y) ==
    \/ y.phase \notin Numbered /\ UNCHANGED <<record, begun>>
    \/ TakesUp(y) /\ UNCHANGED <<record, begun>>
    \/ Forward(exec[e], y) /\ UNCHANGED <<record, begun>>
    \/ Reports(e, y) \/ Allocates(e, y) \/ Finishes(e, y)

LEMMA IdleUnnumbered == Idle.phase \notin Numbered /\ Idle.phase = "idle" /\ Idle.n = 0
BY DEF Idle, Numbered

LEMMA DecideMoves ==
  ASSUME Serial, NEW e \in Executor, Deliver(e) \/ Decide(e)
  PROVE  \E y \in ExecState : Become(e, y) /\ Moves(e, y)
<1> DEFINE x == exec[e]
<1>1. x \in ExecState /\ PhaseOK(x) /\ Idle \in ExecState /\ record \in Record
  BY IdleTyped DEF Serial, Safe, Typed, TypeOK
<1>2. {"peek", "accept", "check", "allocate", "redequeue", "recover", "requeue", "dequeue", "failing"} \subseteq Phase
  BY DEF Phase, StorePhase, AppendPhase
<1>3. CurrentState(record) \in JobState \union {None}
  BY <1>1, CurrentTyped
<1>4. UNCHANGED <<record, begun>>
  BY DEF Deliver, Decide, Peek, Check, Eligible, Fail
<1>5. CASE Deliver(e) \/ Become(e, [Idle EXCEPT !.phase = "accept"])
  <2>1. PICK p \in {"peek", "accept"} : Become(e, ToPhase(Idle, p))
    BY <1>5 DEF Deliver, ToPhase
  <2>2. p \in Phase
    BY <1>2
  <2>3. ToPhase(Idle, p) \in ExecState /\ ToPhase(Idle, p).phase = p
    BY <1>1, <2>2, PhaseUpdate
  <2>4. ToPhase(Idle, p).phase \notin Numbered
    BY <2>1, <2>3 DEF Numbered
  <2> QED BY <1>4, <2>1, <2>3, <2>4 DEF Moves
<1>6. CASE Peek(e)
  <2>1. CASE Become(e, Idle)
    BY <1>1, <1>4, <2>1, IdleUnnumbered DEF Moves
  <2>2. CASE Become(e, [Idle EXCEPT !.phase = "check", !.at = CurrentState(record)])
    <3> DEFINE c == CurrentState(record)
    <3>1. Become(e, ToState(Idle, "check", c)) /\ c \in JobState \union {None}
      BY <1>3, <2>2 DEF ToState
    <3> HIDE DEF c
    <3>2. ToState(Idle, "check", c) \in ExecState /\ ToState(Idle, "check", c).phase = "check"
      BY <1>1, <1>2, <3>1, StateUpdate
    <3>3. ToState(Idle, "check", c).phase \notin Numbered
      BY <3>2 DEF Numbered
    <3> QED BY <1>4, <3>1, <3>2, <3>3 DEF Moves
  <2> QED BY <1>5, <1>6, <2>1, <2>2 DEF Peek
<1>7. CASE Check(e)
  <2>1. CASE Become(e, [x EXCEPT !.phase = "allocate"])
    <3>1. Become(e, ToPhase(x, "allocate"))
      BY <2>1 DEF ToPhase
    <3>2. ToPhase(x, "allocate") \in ExecState /\ ToPhase(x, "allocate").phase = "allocate"
      BY <1>1, <1>2, PhaseUpdate
    <3>3. ToPhase(x, "allocate").phase \notin Numbered
      BY <3>2 DEF Numbered
    <3> QED BY <1>4, <3>1, <3>2, <3>3 DEF Moves
  <2>2. CASE /\ HasUnfinalizedAllocation(record)
             /\ Become(e, [x EXCEPT !.phase = IF x.at = "QUEUED" THEN "redequeue" ELSE "recover",
                                    !.n = LatestAllocated(record)])
    <3> DEFINE p == IF x.at = "QUEUED" THEN "redequeue" ELSE "recover"
               k == LatestAllocated(record)
    <3>1. record.allocated # <<>> /\ record.allocated \in Seq(1..MaxAttempts)
      BY <1>1, <2>2, RecordParts DEF HasUnfinalizedAllocation, ElementsOf
    <3>2. k \in 0..MaxAttempts
      BY <3>1 DEF LatestAllocated, MaxAttempts
    <3>3. p \in {"redequeue", "recover"} /\ p \in Phase /\ Become(e, ToNumber(x, p, k))
      BY <1>2, <2>2 DEF ToNumber
    <3> HIDE DEF p, k
    <3>4. ToNumber(x, p, k) \in ExecState /\ ToNumber(x, p, k).phase = p /\ ToNumber(x, p, k).n = k
      BY <1>1, <3>2, <3>3, NumberUpdate
    <3>5. TakesUp(ToNumber(x, p, k))
      BY <2>2, <3>1, <3>3, <3>4 DEF TakesUp, k
    <3> QED BY <1>4, <3>3, <3>4, <3>5 DEF Moves
  <2> QED BY <1>7, <2>1, <2>2 DEF Check
<1>8. CASE Eligible(e)
  <2> DEFINE p == IF CurrentState(record) = "RETRY_SCHEDULED" THEN "requeue" ELSE "dequeue"
  <2>1. p \in {"requeue", "dequeue"} /\ p \in Phase /\ Become(e, ToPhase(x, p)) /\ x.phase = "eligible"
    BY <1>2, <1>8 DEF Eligible, ToPhase
  <2> HIDE DEF p
  <2>2. ToPhase(x, p) \in ExecState /\ ToPhase(x, p).phase = p /\ ToPhase(x, p).n = x.n
    BY <1>1, <2>1, PhaseUpdate
  <2>3. Forward(x, ToPhase(x, p))
    BY <2>1, <2>2 DEF Forward
  <2> QED BY <1>4, <2>1, <2>2, <2>3 DEF Moves
<1>9. CASE Fail(e)
  <2> DEFINE c == CurrentState(record)
  <2>1. Become(e, ToState(x, "failing", c)) /\ x.phase = "fail" /\ c \in JobState \union {None} /\ "failing" \in Phase
    BY <1>2, <1>3, <1>9 DEF Fail, ToState
  <2> HIDE DEF c
  <2>2. /\ ToState(x, "failing", c) \in ExecState /\ ToState(x, "failing", c).phase = "failing"
        /\ ToState(x, "failing", c).n = x.n /\ ToState(x, "failing", c).reason = x.reason
    BY <1>1, <2>1, StateUpdate
  <2>3. Forward(x, ToState(x, "failing", c))
    BY <2>1, <2>2 DEF Forward
  <2> QED BY <1>4, <2>1, <2>2, <2>3 DEF Moves
<1> QED BY <1>5, <1>6, <1>7, <1>8, <1>9 DEF Decide

LEMMA WorkMoves ==
  ASSUME Serial, NEW e \in Executor, Work(e)
  PROVE  \E y \in ExecState : Become(e, y) /\ Moves(e, y)
<1> DEFINE x == exec[e]
<1>1. x \in ExecState /\ Idle \in ExecState /\ "stage" \in Phase /\ "fail" \in Phase
  BY IdleTyped DEF Serial, Safe, Typed, TypeOK, Phase, StorePhase, AppendPhase
<1>2. UNCHANGED <<record, begun>> /\ x.phase = "work"
  BY DEF Work, StageSucceeds, StageFails, RegistrationRaises
<1>3. CASE StageSucceeds(e)
  <2>1. Become(e, ToPhase(x, "stage"))
    BY <1>3 DEF StageSucceeds, ToPhase
  <2>2. /\ ToPhase(x, "stage") \in ExecState /\ ToPhase(x, "stage").phase = "stage"
        /\ ToPhase(x, "stage").at = x.at /\ ToPhase(x, "stage").n = x.n
    BY <1>1, PhaseUpdate
  <2>3. Forward(x, ToPhase(x, "stage"))
    BY <1>2, <2>2 DEF Forward
  <2> QED BY <1>2, <2>1, <2>2, <2>3 DEF Moves
<1>4. CASE StageFails(e)
  <2>1. PICK f \in StageFailure : Become(e, ToReason(x, "fail", f[2]))
    BY <1>4 DEF StageFails, ToReason
  <2>2. f[2] \in FailureStage /\ f[2] \in Reason
    <3>1. f[2] \in {"acquisition", "artifact_storage", "parsing", "publication"}
      BY DEF StageFailure
    <3> QED BY <3>1 DEF Reason, FailureStage
  <2> DEFINE r == f[2]
  <2> HIDE DEF r
  <2>3. /\ ToReason(x, "fail", r) \in ExecState /\ ToReason(x, "fail", r).phase = "fail"
        /\ ToReason(x, "fail", r).n = x.n /\ ToReason(x, "fail", r).reason = r
    BY <1>1, <2>2, ReasonUpdate DEF r
  <2>4. Forward(x, ToReason(x, "fail", r))
    BY <1>2, <2>2, <2>3 DEF Forward, r
  <2>5. Become(e, ToReason(x, "fail", r))
    BY <2>1 DEF r
  <2> QED BY <1>2, <2>3, <2>4, <2>5 DEF Moves
<1>5. CASE RegistrationRaises(e)
  BY <1>1, <1>2, <1>5, IdleUnnumbered DEF RegistrationRaises, Moves
<1> QED BY <1>3, <1>4, <1>5 DEF Work

LEMMA AppendMoves ==
  ASSUME Serial, NEW e \in Executor, AppendTransition(e)
  PROVE  \E y \in ExecState : Become(e, y) /\ Moves(e, y)
<1> DEFINE x == exec[e]
<1>1. /\ exec \in [Executor -> ExecState] /\ x \in ExecState /\ x.phase \in AppendPhase
      /\ Typed /\ loaded[e].copy = record
  BY DEF AppendTransition, Serial, Fresh, Safe, Typed, TypeOK
<1>2. begun' = IF exec'[e].phase = "work" /\ exec'[e].at = "ACQUIRING"
               THEN [begun EXCEPT ![exec[e].n] = @ + 1] ELSE begun
  BY DEF AppendTransition
<1>3. CASE Become(e, Refused(e)) /\ record' = record
  <2>1. Refused(e) \in ExecState
    BY <1>1, RefusedTyped
  <2>2. exec'[e] = Refused(e)
    BY <1>1, <1>3 DEF Become
  <2>3. CASE x.phase = "stage" /\ x.at \in DOMAIN IngestionStage
    <3>1. Refused(e) = ToReason(x, "fail", IngestionStage[x.at])
      BY <2>3 DEF Refused, ToReason
    <3> DEFINE r == IngestionStage[x.at]
    <3>2. r \in FailureStage /\ r \in Reason /\ "fail" \in Phase
      BY <2>3 DEF IngestionStage, FailureStage, Reason, Phase
    <3> HIDE DEF r
    <3>3. Refused(e).phase = "fail" /\ Refused(e).n = x.n /\ Refused(e).reason = r
      BY <1>1, <3>1, <3>2, ReasonUpdate DEF r
    <3>4. Forward(x, Refused(e))
      BY <2>3, <3>2, <3>3 DEF Forward
    <3>5. begun' = begun
      BY <1>2, <2>2, <3>3
    <3> QED BY <1>3, <2>1, <3>4, <3>5 DEF Moves
  <2>4. CASE ~(x.phase = "stage" /\ x.at \in DOMAIN IngestionStage)
    <3>1. Refused(e) = Idle
      BY <2>4 DEF Refused
    <3>2. begun' = begun
      BY <1>2, <2>2, <3>1, IdleUnnumbered
    <3> QED BY <1>3, <2>1, <3>1, <3>2, IdleUnnumbered DEF Moves
  <2> QED BY <2>3, <2>4
<1>4. CASE /\ Become(e, Reported(e))
           /\ \/ record' = record /\ IsDuplicate(record, Report(e))
              \/ record' = WithTransition(record, Report(e)) /\ ~IsDuplicate(record, Report(e))
  <2>1. Reported(e) \in ExecState
    BY <1>1, ReportedTyped
  <2>2. exec'[e] = Reported(e)
    BY <1>1, <1>4 DEF Become
  <2>3. Reports(e, Reported(e))
    BY <1>1, <1>2, <1>4, <2>2 DEF Reports, IsDuplicate
  <2> QED BY <1>4, <2>1, <2>3 DEF Moves
<1> QED BY <1>1, <1>3, <1>4 DEF AppendTransition, Store

LEMMA AllocateMoves ==
  ASSUME Serial, NEW e \in Executor, AllocateAttempt(e)
  PROVE  \E y \in ExecState : Become(e, y) /\ Moves(e, y)
<1> DEFINE x == exec[e]
<1>1. x \in ExecState /\ loaded[e].copy = record /\ record \in Record /\ Idle \in ExecState
  BY IdleTyped DEF AllocateAttempt, Serial, Fresh, Safe, Typed, TypeOK
<1>2. CASE /\ CanAllocate(record) /\ Store(e, WithAllocation(record))
           /\ Become(e, [x EXCEPT !.phase = "eligible", !.n = NextAttemptNumber(record)])
  <2> DEFINE k == NextAttemptNumber(record)
  <2>1. k \in 0..MaxAttempts /\ "eligible" \in Phase /\ Become(e, ToNumber(x, "eligible", k))
    BY <1>1, <1>2, NextNumberIsNew DEF CanAllocate, MaxAttempts, Phase, ToNumber
  <2> HIDE DEF k
  <2>2. ToNumber(x, "eligible", k) \in ExecState /\ ToNumber(x, "eligible", k).phase = "eligible" /\ ToNumber(x, "eligible", k).n = k
    BY <1>1, <2>1, NumberUpdate
  <2>3. Allocates(e, ToNumber(x, "eligible", k))
    BY <1>2, <2>2 DEF Allocates, AllocateAttempt, Store, k
  <2> QED BY <2>1, <2>2, <2>3 DEF Moves
<1>3. CASE Store(e, record) /\ Become(e, Idle)
  BY <1>1, <1>3, IdleUnnumbered DEF Moves, AllocateAttempt, Store
<1> QED BY <1>1, <1>2, <1>3 DEF AllocateAttempt

LEMMA FinishMoves ==
  ASSUME Serial, NEW e \in Executor, RecordAttempt(e)
  PROVE  \E y \in ExecState : Become(e, y) /\ Moves(e, y)
<1>1. loaded[e].copy = record /\ Idle \in ExecState /\ Become(e, Idle) /\ exec[e].phase = "finish"
  BY IdleTyped DEF RecordAttempt, Serial, Fresh
<1>2. UNCHANGED begun /\ (record' = record \/ record' = WithAttempt(record, OutcomeOf(exec[e])))
  BY <1>1 DEF RecordAttempt, Store
<1> QED BY <1>1, <1>2, IdleUnnumbered DEF Moves, Finishes

\* Every step of one process is a step of one executor, or a load.
LEMMA Shape ==
  ASSUME Serial, [Next]_vars
  PROVE  \/ UNCHANGED <<record, exec, begun>>
         \/ \E e \in Executor : \E y \in ExecState : Become(e, y) /\ Moves(e, y)
<1>1. CASE UNCHANGED vars
  BY <1>1 DEF vars
<1>2. CASE Next
  <2>1. PICK e \in Executor : Deliver(e) \/ Decide(e) \/ Operate(e) \/ Work(e) \/ Crash(e)
    BY <1>2 DEF Next
  <2>2. CASE Load(e)
    BY <2>2 DEF Load
  <2>3. CASE Crash(e)
    BY <2>3, IdleTyped, IdleUnnumbered DEF Crash, Moves
  <2> QED BY <2>1, <2>2, <2>3, DecideMoves, WorkMoves, AppendMoves, AllocateMoves, FinishMoves DEF Operate
<1> QED BY <1>1, <1>2

-----------------------------------------------------------------------------
(* Attempt numbers.  An executor has a number of its own from when it      *)
(* allocates one to when it records the attempt, fails to or dies; in      *)
(* redequeue and recover it has the number of another that died.           *)

Owning == {"eligible", "requeue", "dequeue", "stage", "work", "fail", "failing", "finish"}

\* Acquisition has not begun.
Early(x) == x.phase \in {"eligible", "requeue", "dequeue"} \/ (x.phase = "stage" /\ x.at = "DEQUEUED")

Owned ==
    /\ \A e \in Executor : exec[e].phase \in Owning => exec[e].n \in ElementsOf(record.allocated)
    /\ \A e, f \in Executor : exec[e].phase \in Owning /\ exec[f].phase \in Owning /\ exec[e].n = exec[f].n => e = f

Begun ==
    /\ \A n \in 1..MaxAttempts : begun[n] <= 1 /\ (begun[n] > 0 => n \in ElementsOf(record.allocated))
    /\ \A e \in Executor : Early(exec[e]) => begun[exec[e].n] = 0
    /\ \A e \in Executor : exec[e].phase = "work" => exec[e].at # "DEQUEUED"

\* Nothing recorded is lost, and a number that an executor has as its own it
\* either had before or has just allocated.
LEMMA MoveParts ==
  ASSUME Serial, NEW e \in Executor, NEW y \in ExecState, Become(e, y), Moves(e, y)
  PROVE  /\ exec'[e] = y /\ \A f \in Executor : f # e => exec'[f] = exec[f]
         /\ ElementsOf(record.allocated) \subseteq ElementsOf(record'.allocated)
         /\ ElementsOf(record.transitions) \subseteq ElementsOf(record'.transitions)
         /\ y.phase \in Owning => \/ exec[e].phase \in Owning /\ y.n = exec[e].n
                                  \/ Allocates(e, y)
<1> DEFINE x == exec[e]
<1>1. /\ exec \in [Executor -> ExecState] /\ x \in ExecState /\ PhaseOK(x) /\ record \in Record /\ Typed
  BY DEF Serial, Safe, Typed, TypeOK
<1>2. exec'[e] = y /\ \A f \in Executor : f # e => exec'[f] = exec[f]
  BY <1>1 DEF Become
<1>3. CASE y.phase \notin Numbered /\ UNCHANGED <<record, begun>>
  BY <1>2, <1>3 DEF Owning, Numbered
<1>4. CASE TakesUp(y) /\ UNCHANGED <<record, begun>>
  BY <1>2, <1>4 DEF TakesUp, Owning
<1>5. CASE Forward(x, y) /\ UNCHANGED <<record, begun>>
  BY <1>2, <1>5 DEF Forward, Owning
<1>6. CASE Reports(e, y)
  <2>1. Report(e) \in Transition
    BY <1>1, <1>6, ReportTyped DEF Reports
  <2>2. /\ ElementsOf(record.allocated) \subseteq ElementsOf(record'.allocated)
        /\ ElementsOf(record.transitions) \subseteq ElementsOf(record'.transitions)
    BY <1>1, <1>6, <2>1, TransitionAdded DEF Reports
  <2>3. y.n = x.n /\ Table(x, Report(e), y)
    BY <1>1, <1>6, ReportTable DEF Reports
  <2>4. y.phase \in Owning => x.phase \in Owning
    BY <2>3 DEF Table, Owning
  <2> QED BY <1>2, <2>2, <2>3, <2>4
<1>7. CASE Allocates(e, y)
  BY <1>1, <1>2, <1>7, AllocationAdded DEF Allocates
<1>8. CASE Finishes(e, y)
  <2>1. OutcomeOf(x) \in Attempt
    BY <1>1, <1>8 DEF Finishes, OutcomeOf, Attempt, AttemptOutcome, PhaseOK, Numbered
  <2>2. record'.allocated = record.allocated /\ record'.transitions = record.transitions
    BY <1>1, <1>8, <2>1, AttemptAdded DEF Finishes
  <2>3. y.phase \notin Owning
    BY <1>8, IdleUnnumbered DEF Finishes, Owning
  <2> QED BY <1>2, <2>2, <2>3
<1> QED BY <1>3, <1>4, <1>5, <1>6, <1>7, <1>8 DEF Moves

LEMMA OwnedNext == ASSUME Serial, Owned, [Next]_vars PROVE Owned'
<1>1. CASE UNCHANGED <<record, exec, begun>>
  BY <1>1 DEF Owned
<1>2. CASE \E e \in Executor : \E y \in ExecState : Become(e, y) /\ Moves(e, y)
  <2>1. PICK e \in Executor, y \in ExecState : Become(e, y) /\ Moves(e, y)
    BY <1>2
  <2>2. /\ exec'[e] = y /\ \A f \in Executor : f # e => exec'[f] = exec[f]
        /\ ElementsOf(record.allocated) \subseteq ElementsOf(record'.allocated)
        /\ y.phase \in Owning => \/ exec[e].phase \in Owning /\ y.n = exec[e].n
                                 \/ Allocates(e, y)
    BY <2>1, MoveParts
  <2>3. CASE y.phase \in Owning => exec[e].phase \in Owning /\ y.n = exec[e].n
    BY <2>2, <2>3 DEF Owned
  <2>4. CASE Allocates(e, y)
    <3>1. /\ y.n \notin ElementsOf(record.allocated)
          /\ y.n \in ElementsOf(record'.allocated)
      BY <2>4, AllocationAdded DEF Allocates, Serial, Safe, Typed, TypeOK
    <3> QED BY <2>2, <3>1 DEF Owned
  <2> QED BY <2>2, <2>3, <2>4
<1> QED BY <1>1, <1>2, Shape

LEMMA NextStageFacts ==
  ASSUME NEW s \in DOMAIN NextStage
  PROVE  /\ NextStage[s] = "ACQUIRING" <=> s = "DEQUEUED"
         /\ NextStage[s] # "DEQUEUED" /\ NextStage[s] # "DEAD_LETTERED"
         /\ NextStage[s] # "COMPLETED" => NextStage[s] \notin TerminalStates
BY DEF NextStage, TerminalStates

\* Acquisition begins once under a number: who begins it is the only executor
\* that ever has the number, and leaves for good the states before it.
LEMMA BegunNext == ASSUME Serial, Owned, Begun, [Next]_vars PROVE Begun'
<1>1. CASE UNCHANGED <<record, exec, begun>>
  BY <1>1 DEF Begun, Early
<1>2. CASE \E e \in Executor : \E y \in ExecState : Become(e, y) /\ Moves(e, y)
  <2>1. PICK e \in Executor, y \in ExecState : Become(e, y) /\ Moves(e, y)
    BY <1>2
  <2> DEFINE x == exec[e]
  <2>2. /\ exec'[e] = y /\ \A f \in Executor : f # e => exec'[f] = exec[f]
        /\ ElementsOf(record.allocated) \subseteq ElementsOf(record'.allocated)
    BY <2>1, MoveParts
  <2>3. /\ begun \in [1..MaxAttempts -> Nat] /\ x \in ExecState /\ PhaseOK(x) /\ Typed /\ record \in Record
        /\ \A f \in Executor : exec[f].phase \in Numbered => exec[f].n \in 1..MaxAttempts
    BY DEF Serial, Safe, Typed, TypeOK, PhaseOK
  <2>4. \A f \in Executor : Early(exec[f]) => exec[f].phase \in Owning /\ exec[f].phase \in Numbered
    BY DEF Early, Owning, Numbered
  <2>5. CASE begun' = begun /\ (Early(y) => begun[y.n] = 0) /\ (y.phase = "work" => y.at # "DEQUEUED")
    BY <2>2, <2>5 DEF Begun
  <2>6. CASE y.phase \notin Numbered /\ UNCHANGED <<record, begun>>
    BY <2>5, <2>6 DEF Early, Numbered
  <2>7. CASE TakesUp(y) /\ UNCHANGED <<record, begun>>
    BY <2>5, <2>7 DEF TakesUp, Early
  <2>8. CASE Forward(x, y) /\ UNCHANGED <<record, begun>>
    BY <2>5, <2>8 DEF Forward, Early, Begun
  <2>9. CASE Finishes(e, y)
    BY <2>5, <2>9, IdleUnnumbered DEF Finishes, Early
  <2>10. CASE Allocates(e, y)
    <3>1. y.n \in 1..MaxAttempts /\ y.n \notin ElementsOf(record.allocated)
      BY <2>3, <2>10, AllocationAdded DEF Allocates
    <3>2. begun[y.n] = 0
      BY <2>3, <3>1 DEF Begun
    <3> QED BY <2>5, <2>10, <3>2 DEF Allocates
  <2>11. CASE Reports(e, y)
    <3>1. y.n = x.n /\ Table(x, Report(e), y) /\ x.phase \in AppendPhase
      BY <2>3, <2>11, ReportTable DEF Reports
    <3>2. CASE y.phase = "work" /\ y.at = "ACQUIRING"
      <4>1. x.phase = "stage" /\ NextStage[x.at] = "ACQUIRING"
        BY <3>1, <3>2 DEF Table
      <4>2. x.at = "DEQUEUED" /\ x.n \in 1..MaxAttempts
        BY <2>3, <4>1, NextStageFacts DEF PhaseOK, Numbered
      <4>3. begun[x.n] = 0 /\ x.n \in ElementsOf(record.allocated)
        BY <4>1, <4>2 DEF Begun, Early, Owned, Owning
      <4>4. begun' = [begun EXCEPT ![x.n] = @ + 1]
        BY <2>11, <3>2 DEF Reports
      <4>5. begun'[x.n] = 1 /\ \A n \in 1..MaxAttempts : n # x.n => begun'[n] = begun[n]
        BY <2>3, <4>2, <4>3, <4>4
      <4>6. \A n \in 1..MaxAttempts : begun'[n] <= 1 /\ (begun'[n] > 0 => n \in ElementsOf(record'.allocated))
        BY <2>2, <4>3, <4>5 DEF Begun
      <4>7. ASSUME NEW f \in Executor, Early(exec'[f]) PROVE begun'[exec'[f].n] = 0
        <5>1. f # e
          BY <2>2, <3>2, <4>7 DEF Early
        <5>2. exec'[f] = exec[f] /\ exec[f].n \in 1..MaxAttempts
          BY <2>2, <2>3, <2>4, <4>7, <5>1
        <5>3. exec[f].n # x.n
          BY <2>4, <4>1, <4>7, <5>1, <5>2 DEF Owned, Owning
        <5> QED BY <4>5, <4>7, <5>2, <5>3 DEF Begun
      <4>8. \A f \in Executor : exec'[f].phase = "work" => exec'[f].at # "DEQUEUED"
        BY <2>2, <3>2 DEF Begun
      <4> QED BY <4>6, <4>7, <4>8 DEF Begun
    <3>3. CASE ~(y.phase = "work" /\ y.at = "ACQUIRING")
      <4>1. begun' = begun
        BY <2>11, <3>3 DEF Reports
      <4>2. Early(y) => Early(x)
        BY <3>1 DEF Table, Early
      <4>3. y.phase = "work" => y.at # "DEQUEUED"
        BY <2>3, <3>1, NextStageFacts DEF Table, PhaseOK
      <4> QED BY <2>5, <3>1, <4>1, <4>2, <4>3 DEF Begun
    <3> QED BY <3>2, <3>3
  <2> QED BY <2>1, <2>6, <2>7, <2>8, <2>9, <2>10, <2>11 DEF Moves
<1> QED BY <1>1, <1>2, Shape

\* With one process at work, and any number of deliveries of the job at once,
\* no attempt number is executed twice, also not by the recovery of an
\* attempt whose executor died.
THEOREM AttemptsRunOnce ==
  ASSUME OneProcess
  PROVE  Spec => []AttemptRunsOnce
<1>1. Init => Serial /\ Owned /\ Begun
  BY SerialInit DEF Init, Owned, Begun, Idle, Owning, Early
<1>2. Serial /\ Owned /\ Begun /\ [Next]_vars => (Serial /\ Owned /\ Begun)'
  BY SerialNext, OwnedNext, BegunNext
<1>3. Begun => AttemptRunsOnce
  BY DEF Begun, AttemptRunsOnce
<1> QED BY <1>1, <1>2, <1>3, PTL DEF Spec

\* What the history says of the attempt that executor x has finished.
Vouched(r, x) ==
    \E t \in ElementsOf(r.transitions) :
        t.number = x.n /\ t.reason \in FailureStage \union {"stage"} /\ t.current = x.at

Matched ==
    /\ AttemptMatchesHistory
    /\ \A e \in Executor : /\ exec[e].phase \in {"fail", "failing"} => exec[e].reason \in FailureStage
                           /\ exec[e].phase = "finish" => Vouched(record, exec[e])

LEMMA VouchedGrows ==
  ASSUME NEW r, NEW q, ElementsOf(r.transitions) \subseteq ElementsOf(q.transitions), NEW x, Vouched(r, x)
  PROVE  Vouched(q, x)
BY DEF Vouched

LEMMA MatchedNext == ASSUME Serial, Matched, [Next]_vars PROVE Matched'
<1>1. CASE UNCHANGED <<record, exec, begun>>
  BY <1>1 DEF Matched, AttemptMatchesHistory
<1>2. CASE \E e \in Executor : \E y \in ExecState : Become(e, y) /\ Moves(e, y)
  <2>1. PICK e \in Executor, y \in ExecState : Become(e, y) /\ Moves(e, y)
    BY <1>2
  <2> DEFINE x == exec[e]
  <2>2. /\ exec'[e] = y /\ \A f \in Executor : f # e => exec'[f] = exec[f]
        /\ ElementsOf(record.transitions) \subseteq ElementsOf(record'.transitions)
    BY <2>1, MoveParts
  <2>3. x \in ExecState /\ PhaseOK(x) /\ Typed /\ record \in Record
    BY DEF Serial, Safe, Typed, TypeOK
  <2>4. ASSUME NEW f \in Executor, f # e
        PROVE  /\ exec'[f].phase \in {"fail", "failing"} => exec'[f].reason \in FailureStage
               /\ exec'[f].phase = "finish" => Vouched(record', exec'[f])
    <3>1. exec'[f] = exec[f]
      BY <2>2, <2>4
    <3> QED BY <2>2, <3>1, VouchedGrows DEF Matched
  <2>5. /\ y.phase \in {"fail", "failing"} => y.reason \in FailureStage
        /\ y.phase = "finish" => Vouched(record', y)
    <3>1. CASE y.phase \notin Numbered \/ TakesUp(y) \/ Allocates(e, y) \/ Finishes(e, y)
      BY <3>1, IdleUnnumbered DEF Numbered, TakesUp, Allocates, Finishes
    <3>2. CASE Forward(x, y)
      BY <3>2 DEF Forward, Matched
    <3>3. CASE Reports(e, y)
      <4>1. y.n = x.n /\ Table(x, Report(e), y) /\ Report(e) \in Transition
        BY <2>3, <3>3, ReportTable, ReportTyped DEF Reports
      <4>2. Report(e) \in ElementsOf(record'.transitions)
        BY <2>3, <3>3, <4>1, TransitionAdded DEF Reports
      <4>3. y.phase \notin {"fail", "failing"}
        BY <4>1 DEF Table
      <4>4. CASE y.phase = "finish"
        <5>1. /\ Report(e).number = y.n /\ Report(e).current = y.at
              /\ Report(e).reason \in FailureStage \union {"stage"}
          BY <4>1, <4>4 DEF Table, Matched
        <5> QED BY <4>2, <4>3, <5>1 DEF Vouched
      <4> QED BY <4>3, <4>4
    <3> QED BY <2>1, <3>1, <3>2, <3>3 DEF Moves
  <2>6. ASSUME NEW a \in ElementsOf(record'.attempts)
        PROVE  \E t \in ElementsOf(record'.transitions) :
                  /\ t.number = a.number
                  /\ t.reason \in FailureStage \union {"stage"}
                  /\ t.current = IF a.outcome = "SUCCEEDED" THEN "COMPLETED" ELSE a.outcome
    <3>1. CASE a \in ElementsOf(record.attempts)
      BY <2>2, <3>1 DEF Matched, AttemptMatchesHistory
    <3>2. CASE a \notin ElementsOf(record.attempts)
      <4>1. Finishes(e, y)
        <5>1. CASE UNCHANGED record
          BY <3>2, <5>1
        <5>2. CASE Reports(e, y)
          <6>1. Report(e) \in Transition
            BY <2>3, <5>2, ReportTyped DEF Reports
          <6>2. record'.attempts = record.attempts
            BY <2>3, <5>2, <6>1, TransitionAdded DEF Reports
          <6> QED BY <3>2, <6>2
        <5>3. CASE Allocates(e, y)
          BY <2>3, <3>2, <5>3, AllocationAdded DEF Allocates
        <5> QED BY <2>1, <5>1, <5>2, <5>3 DEF Moves
      <4>2. OutcomeOf(x) \in Attempt
        BY <2>3, <4>1 DEF Finishes, OutcomeOf, Attempt, AttemptOutcome, PhaseOK, Numbered
      <4>3. a = OutcomeOf(x)
        BY <2>3, <3>2, <4>1, <4>2, AttemptAdded DEF Finishes
      <4>4. PICK t \in ElementsOf(record.transitions) :
                t.number = x.n /\ t.reason \in FailureStage \union {"stage"} /\ t.current = x.at
        BY <4>1 DEF Finishes, Matched, Vouched
      <4>5. a.number = x.n /\ x.at = IF a.outcome = "SUCCEEDED" THEN "COMPLETED" ELSE a.outcome
        BY <2>3, <4>1, <4>3 DEF OutcomeOf, PhaseOK, Finishes
      <4> QED BY <2>2, <4>4, <4>5
    <3> QED BY <3>1, <3>2
  <2> QED BY <2>2, <2>4, <2>5, <2>6 DEF Matched, AttemptMatchesHistory
<1> QED BY <1>1, <1>2, Shape

\* What is recorded of an attempt is what the history says of it, also where
\* another delivery of the job has meanwhile gone on.
THEOREM AttemptsMatchHistory ==
  ASSUME OneProcess
  PROVE  Spec => []AttemptMatchesHistory
<1>1. Init => Serial /\ Matched
  <2>1. EmptyRecord.attempts = <<>>
    BY DEF EmptyRecord
  <2> QED BY <2>1, SerialInit DEF Init, Matched, AttemptMatchesHistory, ElementsOf, Idle
<1>2. Serial /\ Matched /\ [Next]_vars => (Serial /\ Matched)'
  BY SerialNext, MatchedNext
<1>3. Matched => AttemptMatchesHistory
  BY DEF Matched
<1> QED BY <1>1, <1>2, <1>3, PTL DEF Spec

-----------------------------------------------------------------------------
(* One executor: the deliveries of the job do not overlap, though each may *)
(* die and the next find what it left.                                     *)

OneExecutor == \A e, f \in Executor : e = f

Latest ==
    /\ \A e \in Executor : exec[e].phase \in Numbered =>
          record.allocated # <<>> /\ exec[e].n = LatestAllocated(record)
    /\ \A t \in ElementsOf(record.transitions) : t.number # 0 => t.number \in ElementsOf(record.allocated)
    /\ AttemptsInOrder

LEMMA OneExecutorOneProcess == OneExecutor => OneProcess
BY DEF OneExecutor, OneProcess

LEMMA LatestIsLargest ==
  ASSUME NEW r \in Record, Loadable(r), r.allocated # <<>>
  PROVE  /\ LatestAllocated(r) \in ElementsOf(r.allocated)
         /\ \A m \in ElementsOf(r.allocated) : m <= LatestAllocated(r)
<1> DEFINE s == r.allocated
<1>1. s \in Seq(1..MaxAttempts)
  BY RecordParts
<1>2. Len(s) \in Nat \ {0} /\ DOMAIN s = 1..Len(s) /\ Len(s) \in DOMAIN s
  BY <1>1
<1>3. LatestAllocated(r) = s[Len(s)] /\ s[Len(s)] \in Nat
  BY <1>1, <1>2 DEF LatestAllocated, MaxAttempts
<1>4. \A i \in DOMAIN s : i = Len(s) \/ s[i] < s[Len(s)]
  BY <1>2 DEF Loadable
<1>5. ASSUME NEW m \in ElementsOf(s) PROVE m <= s[Len(s)]
  <2>1. PICK i \in DOMAIN s : m = s[i]
    BY DEF ElementsOf
  <2>2. m \in Nat
    BY <1>1, <2>1 DEF MaxAttempts
  <2> QED BY <1>3, <1>4, <2>1, <2>2
<1> QED BY <1>2, <1>3, <1>5 DEF ElementsOf

\* Whoever reports has the latest number, so numbers do not go down.
LEMMA LatestNext == ASSUME OneExecutor, Serial, Latest, [Next]_vars PROVE Latest'
<1>1. CASE UNCHANGED <<record, exec, begun>>
  BY <1>1 DEF Latest, AttemptsInOrder
<1>2. CASE \E e \in Executor : \E y \in ExecState : Become(e, y) /\ Moves(e, y)
  <2>1. PICK e \in Executor, y \in ExecState : Become(e, y) /\ Moves(e, y)
    BY <1>2
  <2> DEFINE x == exec[e]
  <2>2. exec'[e] = y /\ \A f \in Executor : f = e
    BY <2>1, MoveParts DEF OneExecutor
  <2>3. x \in ExecState /\ PhaseOK(x) /\ Typed /\ record \in Record /\ Loadable(record)
    BY DEF Serial, Safe, Typed, TypeOK
  <2>4. CASE /\ record' = record
             /\ y.phase \in Numbered => record.allocated # <<>> /\ y.n = LatestAllocated(record)
    BY <2>2, <2>4 DEF Latest, AttemptsInOrder
  <2>5. CASE y.phase \notin Numbered /\ UNCHANGED <<record, begun>>
    BY <2>4, <2>5
  <2>6. CASE TakesUp(y) /\ UNCHANGED <<record, begun>>
    BY <2>4, <2>6 DEF TakesUp
  <2>7. CASE Forward(x, y) /\ UNCHANGED <<record, begun>>
    BY <2>4, <2>7 DEF Forward, Latest, Numbered
  <2>8. CASE Allocates(e, y)
    <3>1. /\ ElementsOf(record.allocated) \subseteq ElementsOf(record'.allocated)
          /\ record'.transitions = record.transitions
          /\ record'.allocated # <<>> /\ y.n = LatestAllocated(record')
      BY <2>3, <2>8, AllocationAdded DEF Allocates
    <3> QED BY <2>2, <3>1 DEF Latest, AttemptsInOrder
  <2>9. CASE Finishes(e, y)
    <3>1. OutcomeOf(x) \in Attempt
      BY <2>3, <2>9 DEF Finishes, OutcomeOf, Attempt, AttemptOutcome, PhaseOK, Numbered
    <3>2. record'.allocated = record.allocated /\ record'.transitions = record.transitions
      BY <2>3, <2>9, <3>1, AttemptAdded DEF Finishes
    <3>3. y.phase \notin Numbered
      BY <2>9, IdleUnnumbered DEF Finishes
    <3> QED BY <2>2, <3>2, <3>3 DEF Latest, AttemptsInOrder
  <2>10. CASE Reports(e, y)
    <3> DEFINE t == Report(e)
               s == record.transitions
    <3>1. y.n = x.n /\ Table(x, t, y) /\ t \in Transition /\ s \in Seq(Transition)
      BY <2>3, <2>10, ReportTable, ReportTyped, RecordParts DEF Reports
    <3>2. y.phase \in Numbered => x.phase \in Numbered /\ y.n = x.n
      BY <3>1 DEF Table, Numbered
    <3>3. t.number = 0 \/ (x.phase \in Numbered /\ t.number = x.n)
      BY <3>1 DEF Table, Numbered
    <3>4. CASE record' = record
      BY <2>4, <3>2, <3>4 DEF Latest
    <3>5. CASE record' = WithTransition(record, t)
      <4>1. /\ record'.transitions = Append(s, t) /\ record'.allocated = record.allocated
            /\ ElementsOf(record'.transitions) = ElementsOf(s) \union {t}
        BY <2>3, <3>1, <3>5, TransitionAdded
      <4>2. LatestAllocated(record') = LatestAllocated(record)
        BY <4>1 DEF LatestAllocated
      <4>3. t.number # 0 => /\ t.number \in ElementsOf(record.allocated)
                            /\ \A m \in ElementsOf(record.allocated) : m <= t.number
        BY <2>3, <3>3, LatestIsLargest DEF Latest
      <4> HIDE DEF t
      <4>4. \A i \in 1..Len(s) : Append(s, t)[i] = s[i] /\ s[i] \in ElementsOf(s) /\ s[i] \in Transition
        BY <3>1 DEF ElementsOf
      <4>5. Len(Append(s, t)) = Len(s) + 1 /\ Append(s, t)[Len(s) + 1] = t /\ DOMAIN Append(s, t) = 1..Len(s) + 1
            /\ DOMAIN s = 1..Len(s) /\ Len(s) \in Nat
        BY <3>1
      <4>6. \A i \in 1..Len(s) : t.number # 0 => s[i].number <= t.number
        <5> SUFFICES ASSUME NEW i \in 1..Len(s), t.number # 0 PROVE s[i].number <= t.number
          OBVIOUS
        <5>1. s[i].number = 0 \/ s[i].number \in ElementsOf(record.allocated)
          BY <4>4 DEF Latest
        <5>2. t.number \in Nat
          BY <3>1 DEF Transition
        <5> QED BY <4>3, <5>1, <5>2
      <4> DEFINE q == Append(s, t)
      <4>7. \A i, j \in DOMAIN q : i < j /\ q[j].number # 0 => q[i].number <= q[j].number
        <5> SUFFICES ASSUME NEW i \in 1..Len(s) + 1, NEW j \in 1..Len(s) + 1, i < j, q[j].number # 0
                     PROVE  q[i].number <= q[j].number
          BY <4>5
        <5>1. CASE j = Len(s) + 1
          <6>1. i \in 1..Len(s) /\ q[j] = t
            BY <4>5, <5>1
          <6> QED BY <4>4, <4>6, <6>1
        <5>2. CASE j # Len(s) + 1
          <6>1. i \in 1..Len(s) /\ j \in 1..Len(s)
            BY <4>5, <5>2
          <6> QED BY <4>4, <4>5, <6>1 DEF Latest, AttemptsInOrder
        <5> QED BY <5>1, <5>2
      <4>8. AttemptsInOrder'
        BY <4>1, <4>7 DEF AttemptsInOrder
      <4>9. \A z \in ElementsOf(record'.transitions) : z.number # 0 => z.number \in ElementsOf(record'.allocated)
        BY <4>1, <4>3 DEF Latest
      <4>10. \A f \in Executor : exec'[f].phase \in Numbered =>
                record'.allocated # <<>> /\ exec'[f].n = LatestAllocated(record')
        BY <2>2, <3>2, <4>1, <4>2 DEF Latest
      <4> QED BY <4>8, <4>9, <4>10 DEF Latest
    <3> QED BY <2>10, <3>4, <3>5 DEF Reports
  <2> QED BY <2>1, <2>5, <2>6, <2>7, <2>8, <2>9, <2>10 DEF Moves
<1> QED BY <1>1, <1>2, Shape, OneExecutorOneProcess

\* Where deliveries of the job do not overlap, an attempt that has been given
\* up never reports again once a later one has, however often executors die.
\* Two executors, even of one process, break this: one that the other took for
\* interrupted goes on with the job from where the other has brought it.
THEOREM OneExecutorInOrder ==
  ASSUME OneExecutor
  PROVE  Spec => []AttemptsInOrder
<1>1. Init => Serial /\ Latest
  <2>1. EmptyRecord.transitions = <<>> /\ EmptyRecord.allocated = <<>>
    BY DEF EmptyRecord
  <2>2. Init => Latest
    BY <2>1, IdleUnnumbered DEF Init, Latest, AttemptsInOrder, ElementsOf
  <2> QED BY <2>2, SerialInit
<1>2. Serial /\ Latest /\ [Next]_vars => (Serial /\ Latest)'
  BY SerialNext, LatestNext, OneExecutorOneProcess
<1>3. Latest => AttemptsInOrder
  BY DEF Latest
<1> QED BY <1>1, <1>2, <1>3, PTL DEF Spec

=============================================================================
