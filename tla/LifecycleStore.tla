--------------------------- MODULE LifecycleStore ---------------------------
(***************************************************************************)
(* The persisted lifecycle of one scrape job and the checks that           *)
(* FilesystemScrapeJobLifecycleStore makes before it saves a change.  The  *)
(* record is one JSON file that is read whole and replaced whole, so each  *)
(* operation is a function from the record read to the record to save.     *)
(***************************************************************************)
EXTENDS Naturals, Sequences

(* Operators named X_Y are mutations of X, kept to show which bug the          *)
(* properties of the modules above would catch; nothing uses them.            *)

MaxAttempts == 3

JobState == {"CREATED", "QUEUED", "DEQUEUED", "ACQUIRING", "ARTIFACT_CAPTURED", "PARSING",
             "PARSED", "NORMALIZING", "NORMALIZED", "REGISTERING_OBSERVATION", "REGISTERED",
             "PUBLISHING_PIPELINE_EVENT", "RETRY_SCHEDULED", "CANCEL_REQUESTED", "COMPLETED",
             "CANCELLED", "EXPIRED", "DEAD_LETTERED", "FAILED", "BLOCKED", "INVALID"}

TerminalStates == {"COMPLETED", "CANCELLED", "EXPIRED", "DEAD_LETTERED", "FAILED", "BLOCKED",
                   "INVALID"}

\* The state of a job that has no record yet.
None == "NONE"

\* The frozen graph.
ValidNextStates ==
    [s \in JobState |->
        CASE s = "CREATED"            -> {"QUEUED", "INVALID", "CANCEL_REQUESTED", "EXPIRED"}
          [] s = "QUEUED"             -> {"DEQUEUED", "CANCEL_REQUESTED", "EXPIRED"}
          [] s = "DEQUEUED"           -> {"ACQUIRING", "RETRY_SCHEDULED", "CANCEL_REQUESTED",
                                          "FAILED", "INVALID", "EXPIRED"}
          [] s = "ACQUIRING"          -> {"ARTIFACT_CAPTURED", "RETRY_SCHEDULED", "BLOCKED",
                                          "FAILED", "CANCEL_REQUESTED", "DEAD_LETTERED"}
          [] s = "ARTIFACT_CAPTURED"  -> {"PARSING", "CANCEL_REQUESTED", "FAILED", "DEAD_LETTERED"}
          [] s = "PARSING"            -> {"PARSED", "RETRY_SCHEDULED", "FAILED", "DEAD_LETTERED",
                                          "CANCEL_REQUESTED"}
          [] s = "PARSED"             -> {"NORMALIZING", "CANCEL_REQUESTED", "FAILED", "DEAD_LETTERED"}
          [] s = "NORMALIZING"        -> {"NORMALIZED", "RETRY_SCHEDULED", "FAILED", "DEAD_LETTERED",
                                          "CANCEL_REQUESTED"}
          [] s = "NORMALIZED"         -> {"REGISTERING_OBSERVATION", "CANCEL_REQUESTED", "FAILED",
                                          "DEAD_LETTERED"}
          [] s = "REGISTERING_OBSERVATION"
                                      -> {"REGISTERED", "RETRY_SCHEDULED", "FAILED", "DEAD_LETTERED",
                                          "CANCEL_REQUESTED"}
          [] s = "REGISTERED"         -> {"PUBLISHING_PIPELINE_EVENT", "COMPLETED", "CANCEL_REQUESTED"}
          [] s = "PUBLISHING_PIPELINE_EVENT"
                                      -> {"COMPLETED", "RETRY_SCHEDULED", "FAILED", "DEAD_LETTERED"}
          [] s = "RETRY_SCHEDULED"    -> {"QUEUED", "DEAD_LETTERED", "CANCEL_REQUESTED", "EXPIRED"}
          [] s = "CANCEL_REQUESTED"   -> {"CANCELLED"}
          [] OTHER                    -> {}]

TransitionAllowed(previous, current) == current \in ValidNextStates[previous]

FailureStage == {"acquisition", "artifact_storage", "parsing", "publication"}

\* Reason text and failure of a transition as one value: which report it is.
Reason == {"job", "lease", "recovered lease", "stage", "interrupted"} \union FailureStage

\* A transition's identity is its payload without the timestamp.
Transition == [previous : JobState \union {None}, current : JobState, reason : Reason,
               number : 0..MaxAttempts]                  \* 0: no attempt number

AttemptOutcome == {"SUCCEEDED", "RETRY_SCHEDULED", "DEAD_LETTERED"}

Attempt == [number : 1..MaxAttempts, outcome : AttemptOutcome]

Record == [transitions : Seq(Transition),
           attempts    : Seq(Attempt),
           allocated   : Seq(1..MaxAttempts)]

EmptyRecord == [transitions |-> <<>>, attempts |-> <<>>, allocated |-> <<>>]

ElementsOf(s) == {s[i] : i \in DOMAIN s}

CurrentState(record) ==
    IF record.transitions = <<>> THEN None
    ELSE record.transitions[Len(record.transitions)].current

\* What the loader and _validate_record demand of a persisted record; a record
\* without it raises LifecycleStoreCorruption at every later use of the job.
Loadable(record) ==
    /\ record.transitions # <<>> => record.transitions[1].previous = None /\ record.transitions[1].current = "CREATED"
    /\ \A i \in 1..Len(record.transitions) - 1 :
          /\ record.transitions[i + 1].previous = record.transitions[i].current
          /\ record.transitions[i].current \notin TerminalStates
          /\ TransitionAllowed(record.transitions[i].current, record.transitions[i + 1].current)
    /\ \A i, j \in DOMAIN record.allocated : i < j => record.allocated[i] < record.allocated[j]
    /\ \A i, j \in DOMAIN record.attempts : record.attempts[i].number = record.attempts[j].number => i = j

-----------------------------------------------------------------------------
(* append_transition *)

\* The same payload was recorded before, at whatever place: nothing is written.
IsDuplicate(record, t) == t \in ElementsOf(record.transitions)

IsValidNew_AnyEdge(record, t) ==
    LET current == CurrentState(record)
    IN  IF current = None THEN t.current = "CREATED" /\ t.previous = None
        ELSE current \notin TerminalStates /\ t.previous = current

\* The first transition creates the job; a later one follows an edge of the
\* graph out of the state the record ends in.
IsValidNew(record, t) ==
    LET current == CurrentState(record)
    IN  IF current = None
        THEN t.current = "CREATED" /\ t.previous = None
        ELSE /\ current \notin TerminalStates
             /\ t.previous = current
             /\ t.current \in ValidNextStates[current]

AppendAccepted(record, t) == IsDuplicate(record, t) \/ IsValidNew(record, t)

WithTransition_LatestOnly(record, t) == [record EXCEPT !.transitions = <<t>>]

WithTransition(record, t) == [record EXCEPT !.transitions = Append(@, t)]

-----------------------------------------------------------------------------
(* Attempt numbers and finished attempts *)

NumbersUsed_OnlyRecorded(record) == {a.number : a \in ElementsOf(record.attempts)}

NumbersUsed(record) ==
    ElementsOf(record.allocated) \union {a.number : a \in ElementsOf(record.attempts)}

\* max(..., default=0) + 1
NextAttemptNumber(record) ==
    CHOOSE n \in 1..MaxAttempts + 1 :
        /\ \A m \in NumbersUsed(record) : m < n
        /\ n = 1 \/ n - 1 \in NumbersUsed(record)

CanAllocate(record) == NextAttemptNumber(record) <= MaxAttempts

WithAllocation_FromZero(record) == [record EXCEPT !.allocated = Append(@, NextAttemptNumber(record) - 1)]

WithAllocation(record) == [record EXCEPT !.allocated = Append(@, NextAttemptNumber(record))]

HasUnfinalizedAllocation_Never(record) == FALSE

HasUnfinalizedAllocation(record) ==
    \E n \in ElementsOf(record.allocated) : \A a \in ElementsOf(record.attempts) : a.number # n

LatestAllocated_First(record) == record.allocated[1]

LatestAllocated(record) == record.allocated[Len(record.allocated)]

\* record_attempt: an attempt recorded before carries other timestamps, so a
\* second record under its number conflicts; numbers never go down.
AttemptAccepted(record, a) ==
    /\ \A b \in ElementsOf(record.attempts) : b.number # a.number
    /\ record.attempts # <<>> => a.number >= record.attempts[Len(record.attempts)].number

WithAttempt(record, a) == [record EXCEPT !.attempts = Append(@, a)]
=============================================================================
