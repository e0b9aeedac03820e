--------------------------- MODULE MCDurableJobs ---------------------------
(* DurableJobs on instances small enough for TLC. *)
EXTENDS DurableJobs

CONSTANTS c1, c2, k1, p, q

\* What two calls may ask, up to renaming: two jobs, or one key with the same
\* payload or with another one.  A payload is looked at only under a key, and
\* calls with different keys meet no more than calls without one.
Requests ==
    {[c \in Call |-> [key |-> NoKey, payload |-> p]],
     [c \in Call |-> [key |-> k1, payload |-> p]],
     [c \in Call |-> [key |-> k1, payload |-> IF c = c1 THEN p ELSE q]]}

MCInit == Init /\ Asked \in Requests

\* Crashes and outlived leases together: two while there is one call, one where
\* both have begun.
MCNext == Next /\ crashes' + slow' <= IF \E c \in Call : calls'[c].pc = "lookup" THEN 2 ELSE 1

MCSpec == MCInit /\ [][MCNext]_vars /\ Fairness
=============================================================================
