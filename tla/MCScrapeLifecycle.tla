-------------------------- MODULE MCScrapeLifecycle --------------------------
(* ScrapeLifecycle on instances small enough for TLC. *)
EXTENDS ScrapeLifecycle, TLC

\* All executors in one process; every executor in a process of its own.
OneProcess == [e \in Executor |-> "api"]
OwnProcess == [e \in Executor |-> e]

\* Executors are interchangeable; used where no liveness is checked.
Symmetry == Permutations(Executor)
=============================================================================
