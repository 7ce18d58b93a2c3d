--------------------------- MODULE GuardedExecutor ---------------------------
(****************************************************************************)
(* WatchdogGuardedExecutor.run (watchdog_control.py): the parent, the child *)
(* process that runs the target, the queue between them and the telemetry   *)
(* the parent samples.                                                      *)
(*                                                                          *)
(* The queue is a pipe.  A small answer is written at once; a large one is  *)
(* in the pipe partially first, and one that exceeds the pipe is finished   *)
(* only while the parent reads.  get() waits with a timeout for the first   *)
(* byte and without one for the rest.                                       *)
(****************************************************************************)
EXTENDS Naturals, FiniteSets

CONSTANTS
  Enabled,          \* causes the policy checks besides the temperature
  FailSafe,         \* policy.fail_safe_on_telemetry_error
  CrashInWrite      \* may the child die, by no doing of the parent, while a part
                    \* of its answer is in the pipe?

Causes == {"security", "temperature", "sram"}
Failed == {"error"}                         \* the probe raises
Samples == (SUBSET Causes) \cup {Failed}    \* a sample: the limits it exceeds

ASSUME PolicyAssumption ==
  /\ Enabled \subseteq {"security", "sram"}
  /\ FailSafe \in BOOLEAN
  /\ CrashInWrite \in BOOLEAN

VARIABLES
  pc,               \* the parent, in run()
  machine,          \* what a probe returns now
  reading,          \* the sample of the last probe
  reason,           \* fallback_reason
  result,           \* child_result
  outcome,          \* what run() returns, or "raised"
  child,            \* starting, running, writing, published, dead
  stubborn,         \* the target ignores SIGTERM
  termSent,         \* SIGTERM has been sent to the child
  killSent,         \* SIGKILL has been sent to the child
  answer,           \* what the child has to report: ok or error
  size,             \* of the pickled answer
  pipe,             \* empty, partial, full, taken
  alarm             \* history: a violation or an error has been there to sample

parentVars == <<reading, reason, result, outcome>>
childVars == <<child, answer, size>>
vars == <<pc, machine, parentVars, childVars, stubborn, termSent, killSent, pipe, alarm>>

Outcomes == {"value", "error", "fallback", "telemetryError", "noResult", "raised"}
Pcs == {"poll", "recv", "alive", "drain", "probe", "evaluate", "last", "terminate",
        "joinTerm", "kill", "joinKill", "return", "finally", "joinFinally", "done"}

TypeOK ==
  /\ pc \in Pcs
  /\ machine \in Samples
  /\ reading \in Samples
  /\ reason \in Causes \cup {"none", "telemetryError"}
  /\ result \in {"none", "ok", "error"}
  /\ outcome \in Outcomes \cup {"none"}
  /\ child \in {"starting", "running", "writing", "published", "dead"}
  /\ stubborn \in BOOLEAN
  /\ termSent \in BOOLEAN
  /\ killSent \in BOOLEAN
  /\ answer \in {"none", "ok", "error"}
  /\ size \in {"small", "large", "huge"}
  /\ pipe \in {"empty", "partial", "full", "taken"}
  /\ alarm \in BOOLEAN

\* ViolationPolicy.evaluate: in order of severity.
Evaluate(sample) ==
  IF "security" \in sample \cap Enabled THEN "security"
  ELSE IF "temperature" \in sample THEN "temperature"
  ELSE IF "sram" \in sample \cap Enabled THEN "sram"
  ELSE "none"

Alarming(sample) == IF sample = Failed THEN FailSafe ELSE Evaluate(sample) # "none"

\* child.start() has returned; the child imports its modules.
Init ==
  /\ pc = "poll"
  /\ machine \in Samples
  /\ reading = {}
  /\ reason = "none"
  /\ result = "none"
  /\ outcome = "none"
  /\ child = "starting"
  /\ stubborn \in BOOLEAN
  /\ termSent = FALSE
  /\ killSent = FALSE
  /\ answer = "none"
  /\ size \in {"small", "large", "huge"}
  /\ pipe = "empty"
  /\ alarm = Alarming(machine)

Move(from, to) == pc = from /\ pc' = to
Dead == child = "dead"
Readable == pipe \in {"partial", "full"}

----------------------------------------------------------------------------
(* The polling loop                                                         *)

NothingElse ==
  UNCHANGED <<machine, parentVars, childVars, stubborn, termSent, killSent, pipe, alarm>>

GetReady == Move("poll", "recv") /\ Readable /\ NothingElse

GetTimesOut == Move("poll", "alive") /\ ~Readable /\ NothingElse

\* Mutant: takes the answer before it is complete.
RecvPart ==
  /\ Move("recv", "terminate")
  /\ pipe' = "taken"
  /\ result' = answer
  /\ UNCHANGED <<machine, reading, reason, outcome, childVars, stubborn, termSent,
                 killSent, alarm>>

\* Mutant: takes what the pipe holds for the status in it.
RecvChunk ==
  /\ Move("recv", "terminate")
  /\ pipe = "full"
  /\ pipe' = "taken"
  /\ result' = pipe
  /\ UNCHANGED <<machine, reading, reason, outcome, childVars, stubborn, termSent,
                 killSent, alarm>>

\* recv_bytes: without a timeout, until the whole answer is there.
Recv ==
  /\ Move("recv", "terminate")
  /\ pipe = "full"
  /\ pipe' = "taken"
  /\ result' = answer
  /\ UNCHANGED <<machine, reading, reason, outcome, childVars, stubborn, termSent,
                 killSent, alarm>>

\* Mutant: a child that is not alive any more has no result.
IsAliveDecides == pc = "alive" /\ pc' = (IF Dead THEN "terminate" ELSE "probe") /\ NothingElse

IsAlive == pc = "alive" /\ pc' = (IF Dead THEN "drain" ELSE "probe") /\ NothingElse

\* get_nowait after the child is seen dead.
Drain == pc = "drain" /\ pc' = (IF Readable THEN "recv" ELSE "last") /\ NothingElse

\* Calls telemetry_source; a failure is a violation, or is skipped.
Probe ==
  /\ pc = "probe"
  /\ reading' = machine
  /\ IF machine = Failed
       THEN IF FailSafe
              THEN pc' = "terminate" /\ reason' = "telemetryError"
              ELSE pc' = "poll" /\ reason' = reason
       ELSE pc' = "evaluate" /\ reason' = reason
  /\ UNCHANGED <<machine, result, outcome, childVars, stubborn, termSent, killSent,
                 pipe, alarm>>

\* Mutant: evaluates a new sample, not the one it reports.
EvaluateAgain ==
  /\ pc = "evaluate"
  /\ machine # Failed
  /\ reason' = Evaluate(machine)
  /\ pc' = IF reason' = "none" THEN "poll" ELSE "terminate"
  /\ UNCHANGED <<machine, reading, result, outcome, childVars, stubborn, termSent,
                 killSent, pipe, alarm>>

EvaluateReading ==
  /\ pc = "evaluate"
  /\ reason' = Evaluate(reading)
  /\ pc' = IF reason' = "none" THEN "poll" ELSE "terminate"
  /\ UNCHANGED <<machine, reading, result, outcome, childVars, stubborn, termSent,
                 killSent, pipe, alarm>>

\* The last get(), with grace_period_s.
LastGet == pc = "last" /\ pc' = (IF Readable THEN "recv" ELSE "terminate") /\ NothingElse

----------------------------------------------------------------------------
(* _terminate, the result and the finally block                             *)

\* Mutant: SIGKILL at once.
TerminateKills ==
  /\ pc = "terminate"
  /\ pc' = IF Dead THEN "return" ELSE "joinTerm"
  /\ killSent' = (killSent \/ ~Dead)
  /\ UNCHANGED <<machine, parentVars, childVars, stubborn, termSent, pipe, alarm>>

Terminate ==
  /\ pc = "terminate"
  /\ pc' = IF Dead THEN "return" ELSE "joinTerm"
  /\ termSent' = (termSent \/ ~Dead)
  /\ UNCHANGED <<machine, parentVars, childVars, stubborn, killSent, pipe, alarm>>

\* Mutant: join() without a timeout.
JoinForever == Move("joinTerm", "kill") /\ Dead /\ NothingElse

\* join(timeout): the child is dead, or the grace period is over.
JoinTerm == Move("joinTerm", "kill") /\ NothingElse

Kill ==
  /\ pc = "kill"
  /\ pc' = IF Dead THEN "return" ELSE "joinKill"
  /\ killSent' = (killSent \/ ~Dead)
  /\ UNCHANGED <<machine, parentVars, childVars, stubborn, termSent, pipe, alarm>>

JoinKill == Move("joinKill", "return") /\ NothingElse

\* pickle.loads may raise in the parent.
ReturnedFor(why, what) ==
  IF why # "none"
    THEN {IF why = "telemetryError" THEN "telemetryError" ELSE "fallback"}
    ELSE CASE what = "ok"    -> {"value", "raised"}
           [] what = "error" -> {"error"}
           [] what = "none"  -> {"noResult"}

Return ==
  /\ Move("return", "finally")
  /\ outcome' \in ReturnedFor(reason, result)
  /\ UNCHANGED <<machine, reading, reason, result, childVars, stubborn, termSent,
                 killSent, pipe, alarm>>

\* Mutant: no belt and suspenders.
FinallyCloses == Move("finally", "done") /\ NothingElse

Finally ==
  /\ pc = "finally"
  /\ pc' = IF Dead THEN "done" ELSE "joinFinally"
  /\ killSent' = (killSent \/ ~Dead)
  /\ UNCHANGED <<machine, parentVars, childVars, stubborn, termSent, pipe, alarm>>

JoinFinally == Move("joinFinally", "done") /\ NothingElse

\* Anything else that raises inside the try: KeyboardInterrupt, a sample without
\* the attributes evaluate() looks at, ...
TryPcs == Pcs \ {"return", "finally", "joinFinally", "done"}

Unexpected ==
  /\ pc \in TryPcs
  /\ pc' = "finally"
  /\ outcome' = "raised"
  /\ UNCHANGED <<machine, reading, reason, result, childVars, stubborn, termSent,
                 killSent, pipe, alarm>>

Parent ==
  \/ GetReady \/ GetTimesOut \/ Recv \/ IsAlive \/ Drain \/ Probe \/ EvaluateReading
  \/ LastGet \/ Terminate \/ JoinTerm \/ Kill \/ JoinKill \/ Return \/ Finally
  \/ JoinFinally

----------------------------------------------------------------------------
(* The child: _child_entrypoint                                             *)

ParentSame == UNCHANGED <<pc, machine, parentVars, stubborn, termSent, killSent, alarm>>

Import ==
  /\ child = "starting"
  /\ child' = "running"
  /\ UNCHANGED <<answer, size, pipe>>
  /\ ParentSame

\* The target returns (ok), or raises or returns what cannot be pickled (error).
Finish ==
  /\ child = "running"
  /\ child' = "writing"
  /\ answer' \in {"ok", "error"}
  /\ UNCHANGED <<size, pipe>>
  /\ ParentSame

\* The queue's feeder thread writes the answer.
WritePart ==
  /\ child = "writing"
  /\ pipe = "empty"
  /\ size # "small"
  /\ pipe' = "partial"
  /\ UNCHANGED childVars
  /\ ParentSame

WriteRest ==
  /\ child = "writing"
  /\ \/ size = "small" /\ pipe = "empty"
     \/ size = "large" /\ pipe = "partial"
     \/ size = "huge"  /\ pipe = "partial" /\ pc = "recv"
  /\ pipe' = "full"
  /\ child' = "published"
  /\ UNCHANGED <<answer, size>>
  /\ ParentSame

\* The process ends after its answer, or of SystemExit without one.
Exit ==
  /\ child \in {"running", "published"}
  /\ child' = "dead"
  /\ UNCHANGED <<answer, size, pipe>>
  /\ ParentSame

\* A crash, or a kill from elsewhere.
Crash ==
  /\ child \in {"starting", "running", "writing"}
  /\ pipe = "partial" => CrashInWrite
  /\ child' = "dead"
  /\ UNCHANGED <<answer, size, pipe>>
  /\ ParentSame

\* The signals the parent sent.
DieOfSignal ==
  /\ ~Dead
  /\ killSent \/ (termSent /\ (~stubborn \/ child = "starting"))
  /\ child' = "dead"
  /\ UNCHANGED <<answer, size, pipe>>
  /\ ParentSame

Child == Import \/ Finish \/ WritePart \/ WriteRest \/ Exit \/ Crash \/ DieOfSignal

\* The machine changes.
Change ==
  /\ machine' \in Samples \ {machine}
  /\ alarm' = (alarm \/ Alarming(machine'))
  /\ UNCHANGED <<pc, parentVars, childVars, stubborn, termSent, killSent, pipe>>

Next == Parent \/ Unexpected \/ Child \/ Change

Spec == Init /\ [][Next]_vars

\* The parent is scheduled; a write in progress goes on; signals are delivered.
\* The target need not end.
Fairness == WF_vars(Parent) /\ WF_vars(WritePart \/ WriteRest) /\ WF_vars(DieOfSignal)

FairSpec == Spec /\ Fairness

----------------------------------------------------------------------------

\* When run() is over, the child is dead or has been sent the signal it cannot
\* ignore: no orphan (watchdog_control.py:457-465).
NoOrphan == pc = "done" => Dead \/ killSent

\* run() does not report "no result" of a child whose answer is in the queue: the
\* race between is_alive() and the queue (watchdog_control.py:371-380, 418-426).
ResultNotLost == outcome = "noResult" => ~Readable

\* The reported cause is one that the reported sample shows and the policy
\* checks, and security wins (watchdog_control.py:197-211, 397-401).
ReasonIsInReading ==
  outcome = "fallback" =>
    /\ reading # Failed
    /\ reason \in reading \cap (Enabled \cup {"temperature"})
    /\ "security" \in reading \cap Enabled => reason = "security"

\* Outside the finally block SIGKILL only follows SIGTERM
\* (watchdog_control.py:345-347, 478-484).
KillsAfterTerm == [][killSent' /\ ~killSent => termSent \/ pc = "finally"]_vars

\* run() decides as GuardedRun promises.  The work is what the parent can still
\* learn: an answer counts from when it is complete in the pipe, and the verdict
\* from when run() has it.
Run == INSTANCE GuardedRun WITH
  work <- CASE pipe \in {"full", "taken"} -> IF answer = "ok" THEN "returned" ELSE "raised"
            [] Dead /\ pipe \in {"empty", "partial"} -> "lost"
            [] OTHER -> "running",
  alarm <- alarm,
  verdict <- CASE outcome \in {"fallback", "telemetryError"} -> "fallback"
               [] OTHER -> outcome

DecidesAsPromised == Run!Spec

HalfAnswered == Dead /\ pipe = "partial"

\* The run ends: when the child has answered or is dead, and when the machine stays
\* in violation; but for a child that died in the middle of its answer
\* (watchdog_control.py:364-402, 478-484).
RunReturns ==
  /\ (pipe = "full" \/ (Dead /\ ~HalfAnswered)) ~> pc = "done"
  /\ <>[](Alarming(machine)) => <>(pc = "done" \/ HalfAnswered)

\* "Always returns a ProtectedRunResult" (watchdog_control.py:345-347), of a child
\* that is dead.
AlwaysReturns == Dead ~> pc = "done"

=============================================================================
