------------------------------ MODULE JobQueue ------------------------------
(***************************************************************************)
(* What the durable job table promises its two kinds of user, without      *)
(* saying how.  A caller hands in a request and is given a job or a        *)
(* refusal, in one step; repeats of a keyed request share one job; an      *)
(* accepted job is never forgotten, and it is reported "succeeded" only    *)
(* when a handler really finished it.  A report may be revised: nothing    *)
(* here says that a settled job stays settled.                             *)
(***************************************************************************)
CONSTANTS Call,      \* one element per call of the creation operation
          Key,       \* idempotency keys
          NoKey,     \* the key of a call that carries none
          Payload    \* request payloads, up to equality of their hashes

VARIABLES asked,     \* asked[c]: the request of call c
          answer,    \* answer[c]: what call c has been told
          performed, \* the jobs whose handler has finished at least once
          report     \* report[c]: the state of the job call c created, if any

vars == <<asked, answer, performed, report>>

Request == [key : Key \union {NoKey}, payload : Payload]

Init ==
    /\ asked \in [Call -> Request]
    /\ answer = [c \in Call |-> "pending"]
    /\ performed = {}
    /\ report = [c \in Call |-> "absent"]

Exists(j) == report[j] # "absent"

\* A request becomes a job of its own when no job holds its key.
Accept(c) ==
    /\ answer[c] = "pending"
    /\ asked[c].key # NoKey => ~ \E j \in Call : Exists(j) /\ asked[j].key = asked[c].key
    /\ answer' = [answer EXCEPT ![c] = c]
    /\ report' = [report EXCEPT ![c] = "open"]
    /\ UNCHANGED <<asked, performed>>

\* A repeat is answered with the job that the same request created.
Repeat(c, j) ==
    /\ answer[c] = "pending"
    /\ Exists(j)
    /\ asked[c].key # NoKey
    /\ asked[c] = asked[j]
    /\ answer' = [answer EXCEPT ![c] = j]
    /\ UNCHANGED <<asked, performed, report>>

Refuse(c) ==
    /\ answer[c] = "pending"
    /\ answer' = [answer EXCEPT ![c] = "refused"]
    /\ UNCHANGED <<asked, performed, report>>

Perform(j) ==
    /\ Exists(j)
    /\ performed' = performed \union {j}
    /\ UNCHANGED <<asked, answer, report>>

Report(j, s) ==
    /\ Exists(j)
    /\ s = "succeeded" => j \in performed
    /\ report' = [report EXCEPT ![j] = s]
    /\ UNCHANGED <<asked, answer, performed>>

Next ==
    \/ \E c \in Call : Accept(c) \/ Refuse(c)
    \/ \E c, j \in Call : Repeat(c, j)
    \/ \E j \in Call : Perform(j)
    \/ \E j \in Call, s \in {"open", "succeeded", "failed"} : Report(j, s)

Spec == Init /\ [][Next]_vars
=============================================================================
