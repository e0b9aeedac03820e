---------------------------- MODULE DurableJobs ----------------------------
(***************************************************************************)
(* The background_jobs table and the processes that use it: HTTP handlers  *)
(* that create jobs under an idempotency key (DurableJobStore.create) and  *)
(* workers that claim, run and settle them (claim, succeed, fail and       *)
(* BackgroundWorker.run_once).                                             *)
(*                                                                         *)
(* One database transaction whose reads are locking is one action.  A      *)
(* transaction that reads a row without a lock and writes it later is two: *)
(* create's look-up and insert, and the read and the write of succeed and  *)
(* fail.  Clocks are two flags: a lease is "live" until it expires, and a  *)
(* queued row is due once its available_at has passed.                     *)
(***************************************************************************)
EXTENDS Naturals, FiniteSets

CONSTANTS Call,        \* calls of create; a row is named after the call that inserts it
          Worker,      \* worker processes, each running one job at a time
          Key,         \* (owner_reference, job_type, idempotency_key) triples
          NoKey,       \* a call without an Idempotency-Key
          Payload,     \* request payloads, up to equality of payload_hash
          MaxAttempts, \* settings.job_max_attempts
          MaxCrashes,  \* bound: worker crashes
          MaxSlow      \* bound: leases that run out while the worker still runs

ASSUME NoKeyAssumption == NoKey \notin Key
ASSUME MaxAttemptsAssumption == MaxAttempts \in Nat \ {0}
ASSUME NamesAssumption == {"pending", "refused", "none"} \cap Call = {}
ASSUME BoundsAssumption == MaxCrashes \in Nat /\ MaxSlow \in Nat

(* Operators named X_Y are mutations of X, kept to show which bug the      *)
(* properties at the end would catch; nothing in the module uses them.     *)

VARIABLES jobs,      \* the table: jobs[j] is the row that call j inserted
          calls,     \* the creating calls
          workers,   \* the workers
          clock,     \* start order of the creating transactions (created_at)
          ends,      \* history: how handlers of each job have ended, errors aside
          crashes,   \* crashes so far
          slow       \* leases outlived so far

vars == <<jobs, calls, workers, clock, ends, crashes, slow>>

Terminal == {"succeeded", "failed"}
Outcome  == {"ok", "unsupported", "error"}

Row == [status   : {"absent", "queued", "running"} \union Terminal,
        attempts : Nat,                        \* attempt_count
        lease    : {"none", "live", "expired"},\* lease_expires_at
        due      : BOOLEAN,                    \* available_at <= now
        created  : Nat]                        \* created_at

NoRow == [status |-> "absent", attempts |-> 0, lease |-> "none", due |-> FALSE, created |-> 0]

CallState == [pc      : {"lookup", "insert", "done"},
              key     : Key \union {NoKey},
              payload : Payload,
              began   : Nat,
              answer  : Call \union {"pending", "refused"}]

WorkerState == [pc      : {"down", "idle", "handling", "reporting", "writing"},
                job     : Call \union {"none"},            \* the claimed row
                attempt : Nat,                             \* its attempt_count when claimed
                lease   : {"none", "live", "expired"},     \* the lease that claim was given
                outcome : Outcome \union {"none"},         \* how the handler ended
                seen    : Nat]                             \* attempt_count as read by fail

Idle == [pc |-> "idle", job |-> "none", attempt |-> 0, lease |-> "none", outcome |-> "none",
         seen |-> 0]

Down == [Idle EXCEPT !.pc = "down"]

-----------------------------------------------------------------------------
Init ==
    /\ jobs = [j \in Call |-> NoRow]
    /\ \E request \in [Call -> [key : Key \union {NoKey}, payload : Payload]] :
          calls = [c \in Call |-> [pc |-> "lookup", key |-> request[c].key, payload |-> request[c].payload,
                                  began |-> 0, answer |-> "pending"]]
    /\ workers = [w \in Worker |-> Idle]
    /\ clock = 0
    /\ ends = [j \in Call |-> {}]
    /\ crashes = 0
    /\ slow = 0

Exists(j) == jobs[j].status # "absent"

\* The rows a keyed SELECT finds: the unique constraint leaves at most one.
Matching(c) == {j \in Call : Exists(j) /\ calls[c].key # NoKey /\ calls[j].key = calls[c].key}

Answer(c, a) == calls' = [calls EXCEPT ![c] = [@ EXCEPT !.pc = "done", !.answer = a]]

AnswerFrom_AnyPayload(c, j) == Answer(c, j)

\* The reply to a call whose key is already in the table.
AnswerFrom(c, j) == Answer(c, IF calls[j].payload = calls[c].payload THEN j ELSE "refused")

\* create, up to the insert: SELECT ... FOR UPDATE by key.
Lookup(c) ==
    /\ calls[c].pc = "lookup"
    /\ clock' = clock + 1
    /\ \/ \E j \in Matching(c) : AnswerFrom(c, j)
       \/ /\ Matching(c) = {}
          /\ calls' = [calls EXCEPT ![c] = [@ EXCEPT !.pc = "insert", !.began = clock']]
    /\ UNCHANGED <<jobs, workers, ends, crashes, slow>>

Insert_NoConstraint(c) ==
    /\ calls[c].pc = "insert"
    /\ jobs' = [jobs EXCEPT ![c] = [status |-> "queued", attempts |-> 0, lease |-> "none",
                                    due |-> TRUE, created |-> calls[c].began]]
    /\ Answer(c, c)
    /\ UNCHANGED <<workers, clock, ends, crashes, slow>>

\* create, the commit of the new row; the constraint lets it pass.
Insert(c) ==
    /\ calls[c].pc = "insert"
    /\ Matching(c) = {}
    /\ jobs' = [jobs EXCEPT ![c] = [status |-> "queued", attempts |-> 0, lease |-> "none",
                                    due |-> TRUE, created |-> calls[c].began]]
    /\ Answer(c, c)
    /\ UNCHANGED <<workers, clock, ends, crashes, slow>>

\* create, the except branch: the commit failed, on the constraint or on the
\* database; roll back and look the key up again.
InsertFails(c) ==
    /\ calls[c].pc = "insert"
    /\ \/ \E j \in Matching(c) : AnswerFrom(c, j)
       \/ Matching(c) = {} /\ Answer(c, "refused")
    /\ UNCHANGED <<jobs, workers, clock, ends, crashes, slow>>

-----------------------------------------------------------------------------
Requeued_ResetsAttempts ==
    [j \in Call |->
        IF jobs[j].status = "running" /\ jobs[j].lease = "expired"
        THEN [jobs[j] EXCEPT !.status = "queued", !.lease = "none", !.due = TRUE, !.attempts = 0]
        ELSE jobs[j]]

Requeued_Never == jobs

\* claim's first statement: every expired running row goes back to the queue.
Requeued ==
    [j \in Call |->
        IF jobs[j].status = "running" /\ jobs[j].lease = "expired"
        THEN [jobs[j] EXCEPT !.status = "queued", !.lease = "none", !.due = TRUE]
        ELSE jobs[j]]

Eligible(table) == {j \in Call : table[j].status = "queued" /\ table[j].due}

Oldest(table, j) ==
    /\ j \in Eligible(table)
    /\ \A i \in Eligible(table) : table[j].created <= table[i].created

Leased(row) == [row EXCEPT !.status = "running", !.lease = "live", !.attempts = row.attempts + 1]

ClaimsNothing(w) ==
    /\ workers[w] = Idle
    /\ Eligible(Requeued) = {}
    /\ jobs' = Requeued
    /\ UNCHANGED <<calls, workers, clock, ends, crashes, slow>>

Claims(w, j) ==
    /\ workers[w] = Idle
    /\ Oldest(Requeued, j)
    /\ jobs' = [Requeued EXCEPT ![j] = Leased(@)]
    /\ workers' = [workers EXCEPT ![w] = [Idle EXCEPT !.pc = "handling", !.job = j, !.lease = "live",
                                                      !.attempt = jobs'[j].attempts]]
    /\ UNCHANGED <<calls, clock, ends, crashes, slow>>

\* claim, one transaction: requeue, then lease the oldest row that is due.
Claim(w) == ClaimsNothing(w) \/ \E j \in Call : Claims(w, j)

HandlerEnds(w, o) ==
    /\ workers[w].pc = "handling"
    /\ workers' = [workers EXCEPT ![w] = [@ EXCEPT !.pc = "reporting", !.outcome = o]]
    /\ ends' = IF o = "error" THEN ends ELSE [ends EXCEPT ![workers[w].job] = @ \union {o}]
    /\ UNCHANGED <<jobs, calls, clock, crashes, slow>>

\* run_once awaits the handler: it returns, raises KeyError (read as an
\* unsupported job type) or raises anything else.
Handle(w) == \E o \in Outcome : HandlerEnds(w, o)

\* succeed and fail begin with a plain read; a row that is not running ends them.
ReadRow(w) ==
    /\ workers[w].pc = "reporting"
    /\ \/ /\ jobs[workers[w].job].status = "running"
          /\ workers' = [workers EXCEPT ![w] = [@ EXCEPT !.pc = "writing", !.seen = jobs[workers[w].job].attempts]]
       \/ /\ jobs[workers[w].job].status # "running"
          /\ workers' = [workers EXCEPT ![w] = Idle]
    /\ UNCHANGED <<jobs, calls, clock, ends, crashes, slow>>

Retries_OneShort(w) == workers[w].outcome = "error" /\ workers[w].seen + 1 < MaxAttempts

\* fail keeps the job when it may be tried again.
Retries(w) == workers[w].outcome = "error" /\ workers[w].seen < MaxAttempts

Verdict_ErrorSucceeds(w) == IF workers[w].outcome # "unsupported" THEN "succeeded" ELSE "failed"

Verdict_UnknownStatus(w) == IF workers[w].outcome = "ok" THEN "succeeded" ELSE "retry"

Verdict(w) == IF workers[w].outcome = "ok" THEN "succeeded"
              ELSE IF Retries(w) THEN "queued" ELSE "failed"

\* ... and end with an UPDATE by primary key that sets what the read decided.
WriteRow(w) ==
    /\ workers[w].pc = "writing"
    /\ jobs' = [jobs EXCEPT ![workers[w].job] = [@ EXCEPT !.status = Verdict(w), !.lease = "none",
                                                          !.due = @ /\ ~Retries(w)]]
    /\ workers' = [workers EXCEPT ![w] = Idle]
    /\ UNCHANGED <<calls, clock, ends, crashes, slow>>

\* succeed itself raises (the database is away): run_once reports a failure.
SucceedRaises(w) ==
    /\ workers[w].pc \in {"reporting", "writing"}
    /\ workers[w].outcome = "ok"
    /\ workers' = [workers EXCEPT ![w] = [@ EXCEPT !.pc = "reporting", !.outcome = "error", !.seen = 0]]
    /\ UNCHANGED <<jobs, calls, clock, ends, crashes, slow>>

\* The process dies, is told to stop, or fail raises out of run_forever, hence
\* out of gather and of the process.
Crash(w) ==
    /\ workers[w].pc # "down"
    /\ crashes < MaxCrashes
    /\ crashes' = crashes + 1
    /\ workers' = [workers EXCEPT ![w] = Down]
    /\ UNCHANGED <<jobs, calls, clock, ends, slow>>

\* Somebody starts it again; the deployment has no restart policy that would.
Start(w) ==
    /\ workers[w] = Down
    /\ workers' = [workers EXCEPT ![w] = Idle]
    /\ UNCHANGED <<jobs, calls, clock, ends, crashes, slow>>

-----------------------------------------------------------------------------
\* The workers whose current claim is the one that row j records.
HoldersOf(j) == {w \in Worker : workers[w].job = j /\ workers[w].attempt = jobs[j].attempts}

Expire(j) ==
    /\ jobs[j].status = "running"
    /\ jobs[j].lease = "live"
    /\ jobs' = [jobs EXCEPT ![j].lease = "expired"]
    /\ workers' = [w \in Worker |-> IF w \in HoldersOf(j)
                                    THEN [workers[w] EXCEPT !.lease = "expired"] ELSE workers[w]]
    /\ UNCHANGED <<calls, clock, ends, crashes>>

\* The lease of a worker that is gone runs out.
AbandonedLeaseExpires(j) == HoldersOf(j) = {} /\ Expire(j) /\ UNCHANGED slow

\* The lease runs out under a worker that is still at work: nothing renews it.
OutlivedLeaseExpires(j) == HoldersOf(j) # {} /\ slow < MaxSlow /\ slow' = slow + 1 /\ Expire(j)

\* available_at of a row that waits for its retry is reached.
BackoffElapses(j) ==
    /\ jobs[j].status = "queued"
    /\ ~jobs[j].due
    /\ jobs' = [jobs EXCEPT ![j].due = TRUE]
    /\ UNCHANGED <<calls, workers, clock, ends, crashes, slow>>

-----------------------------------------------------------------------------
Create(c)  == Lookup(c) \/ Insert(c) \/ InsertFails(c)
RunOnce(w) == Claim(w) \/ Handle(w) \/ ReadRow(w) \/ WriteRow(w)
Time(j)    == AbandonedLeaseExpires(j) \/ OutlivedLeaseExpires(j) \/ BackoffElapses(j)

Next ==
    \/ \E c \in Call : Create(c)
    \/ \E w \in Worker : RunOnce(w) \/ SucceedRaises(w) \/ Crash(w) \/ Start(w)
    \/ \E j \in Call : Time(j)

Spec == Init /\ [][Next]_vars

\* While its process lives, run_forever polls, a handler returns (its I/O has
\* timeouts) and a started report is carried through; and time passes.  Nothing
\* makes a client call, a database error, a crash or an outlived lease happen,
\* and nothing makes a process that is down start again.
Fairness ==
    /\ \A w \in Worker : WF_vars(Claim(w)) /\ WF_vars(Handle(w)) /\ WF_vars(ReadRow(w)) /\ WF_vars(WriteRow(w))
    /\ \A j \in Call : WF_vars(AbandonedLeaseExpires(j)) /\ WF_vars(BackoffElapses(j))

FairSpec == Spec /\ Fairness

-----------------------------------------------------------------------------
(* Properties                                                              *)

TypeOK ==
    /\ jobs \in [Call -> Row]
    /\ calls \in [Call -> CallState]
    /\ workers \in [Worker -> WorkerState]
    /\ clock \in Nat
    /\ ends \in [Call -> SUBSET Outcome]
    /\ crashes \in 0..MaxCrashes
    /\ slow \in 0..MaxSlow

\* Callers racing with one key share one job: two calls that were both given
\* a job and sent the same key were given the same job, for the same payload.
KeyNamesOneJob ==
    \A c, d \in Call :
        /\ calls[c].answer \in Call /\ calls[d].answer \in Call
        /\ calls[c].key # NoKey /\ calls[c].key = calls[d].key
        => calls[c].answer = calls[d].answer /\ calls[c].payload = calls[d].payload

\* attempt_count works as a claim number: however claims, expiries, late
\* reports and crashes interleave, no two workers hold the same claim of a row.
ClaimHeldOnce ==
    \A v, w \in Worker :
        v # w /\ workers[v].job # "none" /\ workers[v].job = workers[w].job
        => workers[v].attempt # workers[w].attempt

\* A running row can always be recovered: it carries a lease, and if that lease
\* has not run out while a worker holds the row's claim, the worker's has not.
\* A running row with a NULL lease_expires_at would never match claim's UPDATE.
RunningIsLeased ==
    \A j \in Call :
        /\ jobs[j].status = "running" <=> jobs[j].lease # "none"
        /\ \A w \in HoldersOf(j) : jobs[j].status = "running" => workers[w].lease = jobs[j].lease

\* A row says "succeeded" only if a handler ran the job to its end, also when
\* the report comes from a worker whose claim has been taken over.
SucceededWasPerformed ==
    \A j \in Call : jobs[j].status = "succeeded" => "ok" \in ends[j]

\* A job is given up only for a reason that fail knows: its type was not
\* supported, or its attempts are used up; a late report that counted attempts
\* before others were made does not give it up early.
FailedForReason ==
    \A j \in Call : jobs[j].status = "failed" => "unsupported" \in ends[j] \/ jobs[j].attempts >= MaxAttempts

\* Every open job is settled in the end, although workers crash, leases are
\* outlived and late reports overwrite earlier ones, unless a time comes when no
\* worker is up: those that remain recover what the others have left behind,
\* and a worker that is started after all of them had died does too.
EveryJobSettles ==
    \A j \in Call : jobs[j].status \in {"queued", "running"}
                     ~> jobs[j].status \in Terminal \/ \A w \in Worker : workers[w].pc = "down"

\* The table keeps the promise of JobQueue: keyed creation is atomic although
\* it looks up and inserts in two steps, and reports are never ahead of the work.
Asked     == [c \in Call |-> [key |-> calls[c].key, payload |-> calls[c].payload]]
Answers   == [c \in Call |-> calls[c].answer]
Performed == {j \in Call : "ok" \in ends[j]}
Shown(s)  == IF s \in {"queued", "running"} THEN "open" ELSE s
Reports   == [c \in Call |-> Shown(jobs[c].status)]

Queue == INSTANCE JobQueue WITH asked <- Asked, answer <- Answers, performed <- Performed, report <- Reports

ImplementsJobQueue == Queue!Spec

(* What the repository's documents say and the code does not do.           *)

\* "Queue lease expiry: retryable, until max attempts": no row is claimed more
\* than job_max_attempts times.
AttemptsBounded == \A j \in Call : jobs[j].attempts <= MaxAttempts
=============================================================================
