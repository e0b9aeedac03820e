--------------------------- MODULE ScrapeLifecycle ---------------------------
(***************************************************************************)
(* One scrape job carried through its stages by JobExecutionCoordinator,   *)
(* LocalIngestionWorker and ProductIntelligenceRuntime, all of which leave *)
(* their progress in the job's lifecycle record and nowhere else: after a  *)
(* crash the next delivery works out from the record what to do.           *)
(*                                                                         *)
(* An executor is an activation of JobExecutionCoordinator.execute.  A     *)
(* store operation reads the file (before it takes the lock, and the lock  *)
(* is the process's own) and replaces it afterwards: two steps.  Executors *)
(* of one process share its event loop, which no store operation yields.   *)
(***************************************************************************)
EXTENDS LifecycleStore, FiniteSets

(* Operators named X_Y are mutations of X; see LifecycleStore.                 *)

CONSTANTS Executor,   \* activations of execute that may be given the job
          ProcessOf,  \* ProcessOf[e]: the process that runs executor e
          MaxCrashes  \* bound: executors that die at work

ASSUME BoundAssumption == MaxCrashes \in Nat

VARIABLES record,     \* the persisted lifecycle; EmptyRecord when there is no file
          exec,       \* the executors
          loaded,     \* what the store operation in progress has read
          begun,      \* history: how often acquisition was begun under each attempt number
          crashes     \* crashes so far

vars == <<record, exec, loaded, begun, crashes>>

\* copy is what was read; without an operation in progress there is none.
NotLoaded == [read |-> FALSE, copy |-> EmptyRecord]

AppendPhase == {"accept", "enqueue", "redequeue", "recover", "requeue", "dequeue", "stage", "failing"}
StorePhase  == AppendPhase \union {"allocate", "finish"}
Phase       == StorePhase \union {"idle", "peek", "check", "eligible", "work", "fail"}

ExecState == [phase  : Phase,
              at     : JobState \union {None},  \* the state it takes the job to be in
              n      : 0..MaxAttempts,          \* attempt_number, or the interrupted number
              reason : Reason]                  \* the failed stage, once there is one

Idle == [phase |-> "idle", at |-> None, n |-> 0, reason |-> "job"]

Init ==
    /\ record = EmptyRecord
    /\ exec = [e \in Executor |-> Idle]
    /\ loaded = [e \in Executor |-> NotLoaded]
    /\ begun = [n \in 1..MaxAttempts |-> 0]
    /\ crashes = 0

\* The stages of an attempt, in the order in which their transitions are reported.
NextStage ==
    [s \in {"DEQUEUED", "ACQUIRING", "ARTIFACT_CAPTURED", "PARSING", "PARSED", "NORMALIZING",
            "NORMALIZED", "REGISTERING_OBSERVATION", "REGISTERED", "PUBLISHING_PIPELINE_EVENT"} |->
        CASE s = "DEQUEUED"                  -> "ACQUIRING"
          [] s = "ACQUIRING"                 -> "ARTIFACT_CAPTURED"
          [] s = "ARTIFACT_CAPTURED"         -> "PARSING"
          [] s = "PARSING"                   -> "PARSED"
          [] s = "PARSED"                    -> "NORMALIZING"
          [] s = "NORMALIZING"               -> "NORMALIZED"
          [] s = "NORMALIZED"                -> "REGISTERING_OBSERVATION"
          [] s = "REGISTERING_OBSERVATION"   -> "REGISTERED"
          [] s = "REGISTERED"                -> "PUBLISHING_PIPELINE_EVENT"
          [] s = "PUBLISHING_PIPELINE_EVENT" -> "COMPLETED"]

\* LocalIngestionWorker.execute catches what happens up to PARSED, also a
\* transition that the store refuses, and names the stage it was in.
IngestionStage ==
    [s \in {"DEQUEUED", "ACQUIRING", "ARTIFACT_CAPTURED", "PARSING"} |->
        CASE s = "DEQUEUED" -> "acquisition" [] s = "ACQUIRING" -> "artifact_storage" [] OTHER -> "parsing"]

Become(e, s) == exec' = [exec EXCEPT ![e] = s]

-----------------------------------------------------------------------------
(* Reads that decide *)

\* execute is called: by the scrape worker, or by POST /scrape.
Deliver(e) ==
    /\ exec[e].phase = "idle"
    /\ Become(e, [Idle EXCEPT !.phase = "peek"])
    /\ UNCHANGED <<record, loaded, begun, crashes>>

\* _prepare_attempt looks at the current state; a terminal job makes it raise.
Peek(e) ==
    /\ exec[e].phase = "peek"
    /\ LET current == CurrentState(record)
       IN  \/ current = None              /\ Become(e, [Idle EXCEPT !.phase = "accept"])
           \/ current \in TerminalStates  /\ Become(e, Idle)
           \/ current \notin TerminalStates \union {None}
                                          /\ Become(e, [Idle EXCEPT !.phase = "check", !.at = current])
    /\ UNCHANGED <<record, loaded, begun, crashes>>

\* An allocated number without a recorded attempt means: interrupted.
Check(e) ==
    /\ exec[e].phase = "check"
    /\ \/ ~HasUnfinalizedAllocation(record) /\ Become(e, [exec[e] EXCEPT !.phase = "allocate"])
       \/ /\ HasUnfinalizedAllocation(record)
          /\ Become(e, [exec[e] EXCEPT !.phase = IF exec[e].at = "QUEUED" THEN "redequeue" ELSE "recover",
                                       !.n = LatestAllocated(record)])
    /\ UNCHANGED <<record, loaded, begun, crashes>>

\* After the allocation: a job that waits for its retry is queued again first.
Eligible(e) ==
    /\ exec[e].phase = "eligible"
    /\ Become(e, [exec[e] EXCEPT !.phase = IF CurrentState(record) = "RETRY_SCHEDULED"
                                           THEN "requeue" ELSE "dequeue"])
    /\ UNCHANGED <<record, loaded, begun, crashes>>

\* _handle_failure reads the state in which the attempt has failed.
Fail(e) ==
    /\ exec[e].phase = "fail"
    /\ Become(e, [exec[e] EXCEPT !.phase = "failing", !.at = CurrentState(record)])
    /\ UNCHANGED <<record, loaded, begun, crashes>>

-----------------------------------------------------------------------------
(* Store operations *)

\* Where an interrupted attempt goes.
Recovered(at, n) ==
    IF n < MaxAttempts /\ TransitionAllowed(at, "RETRY_SCHEDULED") THEN "RETRY_SCHEDULED" ELSE "DEAD_LETTERED"

\* Where a failed attempt goes: every failure category that can occur is retryable.
Failed(n) == IF n < MaxAttempts THEN "RETRY_SCHEDULED" ELSE "DEAD_LETTERED"

\* The transition an executor is about to append.
Report(e) ==
    LET x == exec[e]
        Edge(from, to, why, n) == [previous |-> from, current |-> to, reason |-> why, number |-> n]
    IN  CASE x.phase = "accept"    -> Edge(None, "CREATED", "job", 0)
          [] x.phase = "enqueue"   -> Edge("CREATED", "QUEUED", "job", 0)
          [] x.phase = "redequeue" -> Edge("QUEUED", "DEQUEUED", "recovered lease", x.n)
          [] x.phase = "recover"   -> Edge(x.at, Recovered(x.at, x.n), "interrupted", x.n)
          [] x.phase = "requeue"   -> Edge("RETRY_SCHEDULED", "QUEUED", "lease", x.n)
          [] x.phase = "dequeue"   -> Edge("QUEUED", "DEQUEUED", "lease", x.n)
          [] x.phase = "stage"     -> Edge(x.at, NextStage[x.at], "stage", x.n)
          [] x.phase = "failing"   -> Edge(x.at, Failed(x.n), x.reason, x.n)

\* What an executor does once its transition is in the record.
Reported(e) ==
    LET x == exec[e]
    IN  CASE x.phase = "accept"    -> [x EXCEPT !.phase = "enqueue"]
          [] x.phase = "enqueue"   -> [x EXCEPT !.phase = "allocate"]
          [] x.phase = "redequeue" -> [x EXCEPT !.phase = "recover", !.at = "DEQUEUED"]
          [] x.phase = "recover"   -> [x EXCEPT !.phase = "allocate"]
          [] x.phase = "requeue"   -> [x EXCEPT !.phase = "dequeue"]
          [] x.phase = "dequeue"   -> [x EXCEPT !.phase = "stage", !.at = "DEQUEUED"]
          [] x.phase = "stage"     -> [x EXCEPT !.phase = IF NextStage[x.at] = "COMPLETED" THEN "finish" ELSE "work",
                                                !.at = NextStage[x.at]]
          [] x.phase = "failing"   -> [x EXCEPT !.phase = "finish", !.at = Failed(x.n)]

Refused_FailsAgain(e) ==
    IF exec[e].phase \in {"stage", "failing"} THEN [exec[e] EXCEPT !.phase = "fail"] ELSE Idle

\* What a refused transition does: an attempt in ingestion fails, anything else
\* raises out of execute.
Refused(e) ==
    IF exec[e].phase = "stage" /\ exec[e].at \in DOMAIN IngestionStage
    THEN [exec[e] EXCEPT !.phase = "fail", !.reason = IngestionStage[exec[e].at]]
    ELSE Idle

Load_Unlocked(e) ==
    /\ exec[e].phase \in StorePhase
    /\ ~loaded[e].read
    /\ loaded' = [loaded EXCEPT ![e] = [read |-> TRUE, copy |-> record]]
    /\ UNCHANGED <<record, exec, begun, crashes>>

Load(e) ==
    /\ exec[e].phase \in StorePhase
    /\ \A f \in Executor : ProcessOf[f] = ProcessOf[e] => ~loaded[f].read
    /\ loaded' = [loaded EXCEPT ![e] = [read |-> TRUE, copy |-> record]]
    /\ UNCHANGED <<record, exec, begun, crashes>>

\* An operation that has its copy saves r and is over.
Store(e, r) ==
    /\ record' = r
    /\ loaded' = [loaded EXCEPT ![e] = NotLoaded]
    /\ UNCHANGED crashes

AppendTransition(e) ==
    /\ exec[e].phase \in AppendPhase
    /\ loaded[e].read
    /\ \/ /\ IsDuplicate(loaded[e].copy, Report(e))
          /\ Store(e, record)
          /\ Become(e, Reported(e))
       \/ /\ ~IsDuplicate(loaded[e].copy, Report(e))
          /\ IsValidNew(loaded[e].copy, Report(e))
          /\ Store(e, WithTransition(loaded[e].copy, Report(e)))
          /\ Become(e, Reported(e))
       \/ /\ ~AppendAccepted(loaded[e].copy, Report(e))
          /\ Store(e, record)
          /\ Become(e, Refused(e))
    /\ begun' = IF exec'[e].phase = "work" /\ exec'[e].at = "ACQUIRING"
                THEN [begun EXCEPT ![exec[e].n] = @ + 1] ELSE begun

AllocateAttempt(e) ==
    /\ exec[e].phase = "allocate"
    /\ loaded[e].read
    /\ \/ /\ CanAllocate(loaded[e].copy)
          /\ Store(e, WithAllocation(loaded[e].copy))
          /\ Become(e, [exec[e] EXCEPT !.phase = "eligible", !.n = NextAttemptNumber(loaded[e].copy)])
       \/ /\ ~CanAllocate(loaded[e].copy)
          /\ Store(e, record)
          /\ Become(e, Idle)
    /\ UNCHANGED begun

OutcomeOf_Worker(x) == [number |-> x.n, outcome |-> "SUCCEEDED"]

OutcomeOf(x) == [number |-> x.n, outcome |-> IF x.at = "COMPLETED" THEN "SUCCEEDED" ELSE x.at]

\* The last step of execute: the finished attempt goes into the record.
RecordAttempt(e) ==
    /\ exec[e].phase = "finish"
    /\ loaded[e].read
    /\ Store(e, IF AttemptAccepted(loaded[e].copy, OutcomeOf(exec[e]))
                THEN WithAttempt(loaded[e].copy, OutcomeOf(exec[e])) ELSE record)
    /\ Become(e, Idle)
    /\ UNCHANGED begun

-----------------------------------------------------------------------------
(* The work between the transitions *)

StageSucceeds(e) ==
    /\ exec[e].phase = "work"
    /\ Become(e, [exec[e] EXCEPT !.phase = "stage"])
    /\ UNCHANGED <<record, loaded, begun, crashes>>

\* The failures that become a failed attempt: acquiring and storing the artifact,
\* parsing, registering retailer observations (after PARSED is reported, still
\* "parsing"), normalizing, and observations that were not all resolved.
StageFailure ==
    {<<"ACQUIRING", "acquisition">>, <<"ACQUIRING", "artifact_storage">>, <<"PARSING", "parsing">>,
     <<"PARSED", "parsing">>, <<"NORMALIZING", "publication">>, <<"PUBLISHING_PIPELINE_EVENT", "publication">>}

StageFails(e) ==
    /\ exec[e].phase = "work"
    /\ \E f \in StageFailure :
          /\ f[1] = exec[e].at
          /\ Become(e, [exec[e] EXCEPT !.phase = "fail", !.reason = f[2]])
    /\ UNCHANGED <<record, loaded, begun, crashes>>

\* Registering observations raises past the runtime and out of execute.
RegistrationRaises(e) ==
    /\ exec[e].phase = "work"
    /\ exec[e].at = "REGISTERING_OBSERVATION"
    /\ Become(e, Idle)
    /\ UNCHANGED <<record, loaded, begun, crashes>>

Crash(e) ==
    /\ exec[e].phase # "idle"
    /\ crashes < MaxCrashes
    /\ crashes' = crashes + 1
    /\ Become(e, Idle)
    /\ loaded' = [loaded EXCEPT ![e] = NotLoaded]
    /\ UNCHANGED <<record, begun>>

-----------------------------------------------------------------------------
Decide(e)  == Peek(e) \/ Check(e) \/ Eligible(e) \/ Fail(e)
Operate(e) == Load(e) \/ AppendTransition(e) \/ AllocateAttempt(e) \/ RecordAttempt(e)
Work(e)    == StageSucceeds(e) \/ StageFails(e) \/ RegistrationRaises(e)

Next == \E e \in Executor : Deliver(e) \/ Decide(e) \/ Operate(e) \/ Work(e) \/ Crash(e)

Spec == Init /\ [][Next]_vars

\* An executor that runs goes on, and a stage ends one way or the other.  Nothing
\* makes an executor crash, and nothing delivers the job again: a job that waits
\* for its retry has been answered, and its background job has succeeded.
Fairness ==
    \A e \in Executor : WF_vars(Decide(e)) /\ WF_vars(Operate(e)) /\ WF_vars(Work(e))

FairSpec == Spec /\ Fairness

-----------------------------------------------------------------------------
(* Properties                                                              *)

State == CurrentState(record)

TypeOK ==
    /\ record \in Record
    /\ exec \in [Executor -> ExecState]
    /\ loaded \in [Executor -> [read : BOOLEAN, copy : Record]]
    /\ begun \in [1..MaxAttempts -> Nat]
    /\ crashes \in 0..MaxCrashes

\* Whatever executors race and crash, the file holds a record that the loader
\* accepts: the job is never lost to LifecycleStoreCorruption.
RecordIsLoadable == Loadable(record)

\* With one process at work, history is only ever added to: nothing recorded is
\* lost, and since the record stays loadable a terminal state is final.
HistoryOnlyGrows ==
    [][/\ Len(record.transitions) <= Len(record'.transitions)
       /\ SubSeq(record'.transitions, 1, Len(record.transitions)) = record.transitions]_vars

\* With one process at work, no attempt number is executed twice, also not by
\* the recovery of an interrupted attempt.
AttemptRunsOnce == \A n \in 1..MaxAttempts : begun[n] <= 1

\* A recorded attempt says what the history says of it.
AttemptMatchesHistory ==
    \A a \in ElementsOf(record.attempts) :
        \E t \in ElementsOf(record.transitions) :
            /\ t.number = a.number
            /\ t.reason \in FailureStage \union {"stage"}
            /\ t.current = IF a.outcome = "SUCCEEDED" THEN "COMPLETED" ELSE a.outcome

\* Where deliveries of the job do not overlap, neither do attempts: once a later
\* one has reported, an earlier one never reports again, whoever has died.
AttemptsInOrder ==
    \A i, j \in DOMAIN record.transitions :
        i < j /\ record.transitions[j].number # 0
        => record.transitions[i].number <= record.transitions[j].number

\* A delivery does not hang: whatever the record holds and the stages do, execute
\* returns or raises.
DeliveryEnds == \A e \in Executor : exec[e].phase # "idle" ~> exec[e].phase = "idle"

\* A caller who delivers the job often enough brings it to a terminal state,
\* whatever its stages do, unless some executor dies at work.  Nothing in the
\* code is such a caller: this is what a caller may rely on.
KeepsBeingDelivered == []<><<\E e \in Executor : Deliver(e)>>_vars
EndsIfDelivered == KeepsBeingDelivered => <>(State \in TerminalStates) \/ <>(crashes > 0)

(* What the repository's documents say and the code does not do.           *)

\* "Persisted lifecycle history ... ends only in a terminal state or
\* RETRY_SCHEDULED": no crash leaves the job where no delivery can move it.
EndsSettled == KeepsBeingDelivered => []<>(State \in TerminalStates \union {"RETRY_SCHEDULED"})

\* A retryable failure is retried "until max attempts": a job that waits for its
\* retry and has attempts left is not given up.
RetriesAreGiven ==
    [][State = "RETRY_SCHEDULED" /\ Len(record.allocated) < MaxAttempts => State' # "DEAD_LETTERED"]_vars

\* "Transition ordering is deterministic and append-only", checked where two
\* processes are given the job: HistoryOnlyGrows.
=============================================================================
