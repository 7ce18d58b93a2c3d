------------------------------ MODULE GuardedRun ------------------------------
(****************************************************************************)
(* What WatchdogGuardedExecutor.run promises its caller, whatever it does   *)
(* with queues, signals and timeouts: a verdict about work that runs by     *)
(* itself and under an alarm that may go off.                               *)
(****************************************************************************)

VARIABLES
  work,         \* running, returned, raised, or lost: it ended without an answer
  alarm,        \* telemetry has been bad enough to end the run
  verdict       \* none until the run is decided

abstractVars == <<work, alarm, verdict>>

Init ==
  /\ work = "running"
  /\ alarm \in BOOLEAN
  /\ verdict = "none"

\* The work ends by itself, or because the run ends it.
End ==
  /\ work = "running"
  /\ work' \in {"returned", "raised", "lost"}
  /\ UNCHANGED <<alarm, verdict>>

Raise ==
  /\ ~alarm
  /\ alarm' = TRUE
  /\ UNCHANGED <<work, verdict>>

\* A value is the work's own, an error is the work's own, a fallback has had an
\* alarm, and "no result" is said of work that did not give one.  An exception
\* in the caller's own process may come at any time.
Decide ==
  /\ verdict = "none"
  /\ \/ work = "returned" /\ verdict' = "value"
     \/ work = "raised"   /\ verdict' = "error"
     \/ work = "lost"     /\ verdict' = "noResult"
     \/ alarm             /\ verdict' = "fallback"
     \/ verdict' = "raised"
  /\ UNCHANGED <<work, alarm>>

Next == End \/ Raise \/ Decide

Spec == Init /\ [][Next]_abstractVars

=============================================================================
