----------------------------- MODULE MCWatchdogd -----------------------------
(* Watchdogd on small instances.                                             *)
EXTENDS Watchdogd, TLC

\* The clients and the threads are interchangeable; used without liveness only.
Symmetry == Permutations(Clients) \cup Permutations(Threads)

=============================================================================
