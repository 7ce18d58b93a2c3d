--------------------------- MODULE SandboxWatchdog ---------------------------
(****************************************************************************)
(* sandbox_watchdog.c/.h: the watchdog threads, the SIGUSR1 they send to    *)
(* the monitored thread, and the arming of the fallback point.              *)
(*                                                                          *)
(* Every thread was given a pointer to the same stack slots of main(): the  *)
(* *keep_running of all of them is the one variable wdKeep.                 *)
(****************************************************************************)
EXTENDS Telemetry

CONSTANT Threads    \* the watchdog threads the process may have at a time

VARIABLES
  wd,               \* what each thread does next, "none": the thread is not there
  wdKeep,           \* watchdog_keep_running
  pending,          \* MSP_FALLBACK_SIGNAL is pending for the monitored thread
  armed,            \* msp_fallback_armed of the monitored thread
  saved,            \* sigsetjmp has filled in msp_fallback_env
  lostLocks         \* libc locks a siglongjmp left locked for ever

watchdogVars == <<wd, wdKeep, pending, armed, saved, lostLocks>>

ThreadStates == {"none", "check", "poll", "report", "signal"}

\* heap: the malloc arena of the main thread.  stdio: the lock of stderr or of
\* the list of open streams; its owner, the main thread, may take it again.
LibcLockNames == {"heap", "stdio"}

WatchdogTypeOK ==
  /\ wd \in [Threads -> ThreadStates]
  /\ wdKeep \in BOOLEAN
  /\ pending \in BOOLEAN
  /\ armed \in BOOLEAN
  /\ saved \in BOOLEAN
  /\ lostLocks \subseteq LibcLockNames

WatchdogInit ==
  /\ wd = [t \in Threads |-> "none"]
  /\ wdKeep = FALSE
  /\ pending = FALSE
  /\ armed = FALSE
  /\ saved = FALSE
  /\ lostLocks = {}

Alive(t) == wd[t] # "none"

----------------------------------------------------------------------------
(* msp_telemetry_watchdog_daemon                                            *)

WdGoto(t, from, to) ==
  /\ wd[t] = from
  /\ wd' = [wd EXCEPT ![t] = to]

\* while (*cfg->keep_running)
WdCheck(t) ==
  /\ WdGoto(t, "check", IF wdKeep THEN "poll" ELSE "none")
  /\ UNCHANGED <<wdKeep, pending, armed, saved, lostLocks>>

\* Mutant: the thread ends its loop when the sample is fine.
WdPollOnce(t) ==
  /\ "stdio" \notin lostLocks
  /\ WdGoto(t, "poll", IF Reading = "hot" THEN "report" ELSE "none")
  /\ UNCHANGED <<wdKeep, pending, armed, saved, lostLocks>>

\* usleep, read_telemetry and the comparison with the limits.
WdPoll(t) ==
  /\ "stdio" \notin lostLocks
  /\ WdGoto(t, "poll", IF Reading = "hot" THEN "report" ELSE "check")
  /\ UNCHANGED <<wdKeep, pending, armed, saved, lostLocks>>

\* fprintf(stderr, ...) and the violation flag, which the daemon never reads.
WdReport(t) ==
  /\ "stdio" \notin lostLocks
  /\ WdGoto(t, "report", "signal")
  /\ UNCHANGED <<wdKeep, pending, armed, saved, lostLocks>>

\* Mutant: keeps polling after the signal.
WdSignalAgain(t) ==
  /\ WdGoto(t, "signal", "check")
  /\ pending' = TRUE
  /\ UNCHANGED <<wdKeep, armed, saved, lostLocks>>

\* pthread_kill, then break and return.  A signal already pending stays one.
WdSignal(t) ==
  /\ WdGoto(t, "signal", "none")
  /\ pending' = TRUE
  /\ UNCHANGED <<wdKeep, armed, saved, lostLocks>>

WatchdogThread(t) == WdCheck(t) \/ WdPoll(t) \/ WdReport(t) \/ WdSignal(t)

=============================================================================
