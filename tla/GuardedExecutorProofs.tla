------------------------ MODULE GuardedExecutorProofs ------------------------
(****************************************************************************)
(* The safety properties of GuardedExecutor for every policy, and that run()*)
(* implements GuardedRun.                                                   *)
(****************************************************************************)
EXTENDS GuardedExecutor, TLAPS

\* Where run() has left its polling loop, and has not returned.
Leaving == {"terminate", "joinTerm", "kill", "joinKill", "return"}

\* What the parent has read is what the child wrote, completely.
PipeInv ==
  /\ child \in {"starting", "running"} => pipe = "empty" /\ answer = "none"
  /\ child \in {"writing", "published"} => answer # "none"
  /\ pipe # "empty" => answer # "none"
  /\ child = "published" => pipe \in {"full", "taken"}
  /\ child = "writing" => pipe \in {"empty", "partial"}
  /\ result # "none" => result = answer /\ pipe = "taken"
  /\ pipe = "taken" => result # "none"

\* A run without a reason leaves the loop with a result, or after it has seen the
\* child dead and the pipe without an answer.
LossInv ==
  /\ pc \in {"drain", "last"} => Dead
  /\ pc = "last" => ~Readable
  /\ pc \in {"poll", "recv", "alive", "drain", "probe", "evaluate", "last"}
       => reason = "none" /\ result = "none"
  /\ pc \in Leaving /\ reason = "none" /\ result = "none" => Dead /\ ~Readable
  /\ outcome = "noResult" => Dead /\ ~Readable

\* The reason comes from the last sample, and that sample from a machine in alarm.
ReasonInv ==
  /\ Alarming(machine) => alarm
  /\ pc = "evaluate" => reading # Failed /\ (Evaluate(reading) # "none" => alarm)
  /\ pc \in Leaving /\ reason \in Causes => reading # Failed /\ reason = Evaluate(reading)
  /\ reason # "none" => alarm
  /\ outcome = "fallback" => reading # Failed /\ reason = Evaluate(reading)
  /\ outcome = "fallback" => reason \in Causes

\* A verdict is given when run() is through, and each has its ground.
VerdictInv ==
  /\ outcome # "none" <=> pc \in {"finally", "joinFinally", "done"}
  /\ outcome = "value" => result = "ok"
  /\ outcome = "error" => result = "error"
  /\ outcome = "telemetryError" => reason # "none"

\* A child that is not seen dead on the way out has been signalled.
SignalInv ==
  /\ pc \in {"joinTerm", "kill"} => termSent \/ Dead
  /\ pc \in {"joinFinally", "done"} => killSent \/ Dead

ExecInv == TypeOK /\ PipeInv /\ LossInv /\ ReasonInv /\ VerdictInv /\ SignalInv

\* What evaluate() returns: nothing, or a checked limit that the sample exceeds;
\* and security before the others.
LEMMA EvaluateSound ==
  ASSUME NEW sample
  PROVE  /\ Evaluate(sample) \in Causes \cup {"none"}
         /\ Evaluate(sample) # "none" => Evaluate(sample) \in sample \cap (Enabled \cup {"temperature"})
         /\ "security" \in sample \cap Enabled => Evaluate(sample) = "security"
<1>1. CASE "security" \in sample \cap Enabled
  BY <1>1 DEF Evaluate, Causes
<1>2. CASE "security" \notin sample \cap Enabled /\ "temperature" \in sample
  BY <1>2 DEF Evaluate, Causes
<1>3. CASE "security" \notin sample \cap Enabled /\ "temperature" \notin sample
  BY <1>3 DEF Evaluate, Causes
<1> QED
  BY <1>1, <1>2, <1>3

USE DEF Move, Dead, NothingElse, ParentSame, parentVars, childVars, Readable

\* Every step keeps the types.
LEMMA TypeStep == TypeOK /\ [Next]_vars => TypeOK'
<1> SUFFICES ASSUME TypeOK, [Next]_vars PROVE TypeOK'
  OBVIOUS
<1> USE DEF TypeOK
<1>1. CASE Parent
  <2> USE DEF Pcs, Outcomes
  <2>1. CASE GetReady \/ GetTimesOut \/ IsAlive \/ Drain \/ LastGet
    BY <2>1 DEF GetReady, GetTimesOut, IsAlive, Drain, LastGet
  <2>2. CASE Recv
    BY <2>2 DEF Recv
  <2>3. CASE Probe
    BY <2>3 DEF Probe
  <2>4. CASE EvaluateReading
    BY <2>4, EvaluateSound DEF EvaluateReading
  <2>5. CASE Terminate \/ JoinTerm \/ Kill \/ JoinKill
    BY <2>5 DEF Terminate, JoinTerm, Kill, JoinKill
  <2>6. CASE Return
    BY <2>6 DEF Return, ReturnedFor
  <2>7. CASE Finally \/ JoinFinally
    BY <2>7 DEF Finally, JoinFinally
  <2> QED
    BY <1>1, <2>1, <2>2, <2>3, <2>4, <2>5, <2>6, <2>7 DEF Parent
<1>2. CASE Unexpected
  BY <1>2 DEF Unexpected, Pcs, Outcomes
<1>3. CASE Child
  BY <1>3 DEF Child, Import, Finish, WritePart, WriteRest, Exit, Crash, DieOfSignal
<1>4. CASE Change
  BY <1>4 DEF Change, Alarming
<1>5. CASE UNCHANGED vars
  BY <1>5 DEF vars
<1> QED
  BY <1>1, <1>2, <1>3, <1>4, <1>5 DEF Next

\* The child writes forward, and the parent takes a complete answer once.
LEMMA PipeStep == ExecInv /\ [Next]_vars => PipeInv'
<1> SUFFICES ASSUME ExecInv, [Next]_vars PROVE PipeInv'
  OBVIOUS
<1> USE DEF ExecInv, PipeInv
<1>1. CASE Parent
  BY <1>1 DEF Parent, GetReady, GetTimesOut, Recv, IsAlive, Drain, Probe, EvaluateReading,
              LastGet, Terminate, JoinTerm, Kill, JoinKill, Return, Finally, JoinFinally,
              TypeOK
<1>2. CASE Unexpected \/ Change
  BY <1>2 DEF Unexpected, Change
<1>3. CASE Child
  BY <1>3 DEF Child, Import, Finish, WritePart, WriteRest, Exit, Crash, DieOfSignal, LossInv,
              VerdictInv, TypeOK
<1>4. CASE UNCHANGED vars
  BY <1>4 DEF vars
<1> QED
  BY <1>1, <1>2, <1>3, <1>4 DEF Next

\* A dead child writes no more, so that what the last look saw is final.
LEMMA LossStep == ExecInv /\ [Next]_vars => LossInv'
<1> SUFFICES ASSUME ExecInv, [Next]_vars PROVE LossInv'
  OBVIOUS
<1> USE DEF ExecInv, LossInv, Leaving
<1>1. CASE Parent
  <2>1. CASE GetReady \/ GetTimesOut \/ IsAlive \/ Drain \/ LastGet
    BY <2>1 DEF GetReady, GetTimesOut, IsAlive, Drain, LastGet, VerdictInv
  <2>2. CASE Recv
    BY <2>2 DEF Recv, PipeInv, VerdictInv
  <2>3. CASE Probe \/ EvaluateReading
    BY <2>3, EvaluateSound DEF Probe, EvaluateReading, VerdictInv
  <2>4. CASE Terminate \/ JoinTerm \/ Kill \/ JoinKill
    BY <2>4 DEF Terminate, JoinTerm, Kill, JoinKill, VerdictInv
  <2>5. CASE Return
    BY <2>5 DEF Return, ReturnedFor, TypeOK
  <2>6. CASE Finally \/ JoinFinally
    BY <2>6 DEF Finally, JoinFinally
  <2> QED
    BY <1>1, <2>1, <2>2, <2>3, <2>4, <2>5, <2>6 DEF Parent
<1>2. CASE Unexpected \/ Change
  BY <1>2 DEF Unexpected, Change
<1>3. CASE Child
  BY <1>3 DEF Child, Import, Finish, WritePart, WriteRest, Exit, Crash, DieOfSignal
<1>4. CASE UNCHANGED vars
  BY <1>4 DEF vars
<1> QED
  BY <1>1, <1>2, <1>3, <1>4 DEF Next

\* The sample is evaluated and reported as it was read.
LEMMA ReasonStep == ExecInv /\ [Next]_vars => ReasonInv'
<1> SUFFICES ASSUME ExecInv, [Next]_vars PROVE ReasonInv'
  OBVIOUS
<1> USE DEF ExecInv, ReasonInv, Leaving
<1>1. CASE Parent
  <2>1. CASE GetReady \/ GetTimesOut \/ IsAlive \/ Drain \/ LastGet
    BY <2>1 DEF GetReady, GetTimesOut, IsAlive, Drain, LastGet, LossInv, Causes
  <2>2. CASE Recv
    BY <2>2 DEF Recv, LossInv, Causes
  <2>3. CASE Probe
    BY <2>3 DEF Probe, Alarming, LossInv, VerdictInv, Causes
  <2>4. CASE EvaluateReading
    BY <2>4, EvaluateSound DEF EvaluateReading, VerdictInv
  <2>5. CASE Terminate \/ JoinTerm \/ Kill \/ JoinKill
    BY <2>5 DEF Terminate, JoinTerm, Kill, JoinKill, VerdictInv
  <2>6. CASE Return
    BY <2>6 DEF Return, ReturnedFor, TypeOK
  <2>7. CASE Finally \/ JoinFinally
    BY <2>7 DEF Finally, JoinFinally
  <2> QED
    BY <1>1, <2>1, <2>2, <2>3, <2>4, <2>5, <2>6, <2>7 DEF Parent
<1>2. CASE Unexpected
  BY <1>2 DEF Unexpected
<1>3. CASE Change
  BY <1>3 DEF Change
<1>4. CASE Child
  BY <1>4 DEF Child, Import, Finish, WritePart, WriteRest, Exit, Crash, DieOfSignal
<1>5. CASE UNCHANGED vars
  BY <1>5 DEF vars
<1> QED
  BY <1>1, <1>2, <1>3, <1>4, <1>5 DEF Next

\* Verdicts come from the return statements, and signals precede the ends of run().
LEMMA VerdictStep == ExecInv /\ [Next]_vars => VerdictInv' /\ SignalInv'
<1> SUFFICES ASSUME ExecInv, [Next]_vars PROVE VerdictInv' /\ SignalInv'
  OBVIOUS
<1> USE DEF ExecInv, VerdictInv, SignalInv
<1>1. CASE Parent
  <2>1. CASE GetReady \/ GetTimesOut \/ IsAlive \/ Drain \/ LastGet
    BY <2>1 DEF GetReady, GetTimesOut, IsAlive, Drain, LastGet
  <2>2. CASE Recv \/ Probe \/ EvaluateReading
    BY <2>2 DEF Recv, Probe, EvaluateReading
  <2>3. CASE Terminate \/ JoinTerm \/ Kill \/ JoinKill
    BY <2>3 DEF Terminate, JoinTerm, Kill, JoinKill
  <2>4. CASE Return
    BY <2>4 DEF Return, ReturnedFor, TypeOK
  <2>5. CASE Finally \/ JoinFinally
    BY <2>5 DEF Finally, JoinFinally
  <2> QED
    BY <1>1, <2>1, <2>2, <2>3, <2>4, <2>5 DEF Parent
<1>2. CASE Unexpected
  BY <1>2 DEF Unexpected, TryPcs, Pcs
<1>3. CASE Change
  BY <1>3 DEF Change
<1>4. CASE Child
  BY <1>4 DEF Child, Import, Finish, WritePart, WriteRest, Exit, Crash, DieOfSignal
<1>5. CASE UNCHANGED vars
  BY <1>5 DEF vars
<1> QED
  BY <1>1, <1>2, <1>3, <1>4, <1>5 DEF Next

----------------------------------------------------------------------------
(* The theorems                                                             *)

\* The invariant that all properties of this module follow from.
THEOREM ExecutorInvariant == Spec => []ExecInv
<1>1. Init => ExecInv
  <2> SUFFICES ASSUME Init PROVE ExecInv
    OBVIOUS
  <2>1. TypeOK
    <3>1. {} \in Samples
      BY DEF Samples
    <3>2. Alarming(machine) \in BOOLEAN
      BY PolicyAssumption DEF Alarming
    <3> QED
      BY <3>1, <3>2 DEF Init, TypeOK, Pcs
  <2>2. PipeInv /\ LossInv
    BY DEF Init, PipeInv, LossInv, Leaving
  <2>3. ReasonInv
    BY DEF Init, ReasonInv, Leaving, Causes
  <2>4. VerdictInv /\ SignalInv
    BY DEF Init, VerdictInv, SignalInv
  <2> QED
    BY <2>1, <2>2, <2>3, <2>4 DEF ExecInv
<1>2. ExecInv /\ [Next]_vars => ExecInv'
  BY TypeStep, PipeStep, LossStep, ReasonStep, VerdictStep DEF ExecInv
<1> QED
  BY <1>1, <1>2, PTL DEF Spec

\* run() and its child keep every variable in its type: the program counters, the
\* readings, the pipe, the decision.
THEOREM TypeCorrect == Spec => []TypeOK
<1>1. ExecInv => TypeOK
  BY DEF ExecInv
<1> QED
  BY <1>1, ExecutorInvariant, PTL

\* run() leaves no orphan: at its end the child is dead or has been sent SIGKILL.
THEOREM LeavesNoOrphan == Spec => []NoOrphan
<1>1. ExecInv => NoOrphan
  BY DEF ExecInv, SignalInv, NoOrphan
<1> QED
  BY <1>1, ExecutorInvariant, PTL

\* run() loses no answer to the race of is_alive() with the queue.
THEOREM LosesNoAnswer == Spec => []ResultNotLost
<1>1. ExecInv => ResultNotLost
  BY DEF ExecInv, LossInv, ResultNotLost
<1> QED
  BY <1>1, ExecutorInvariant, PTL

\* run() blames a limit that the reported sample exceeds, and security first.
THEOREM BlamesTheReading == Spec => []ReasonIsInReading
<1>1. ExecInv => ReasonIsInReading
  <2> SUFFICES ASSUME ExecInv, outcome = "fallback"
               PROVE  /\ reading # Failed
                      /\ reason \in reading \cap (Enabled \cup {"temperature"})
                      /\ "security" \in reading \cap Enabled => reason = "security"
    BY DEF ReasonIsInReading
  <2>1. reading # Failed /\ reason = Evaluate(reading) /\ reason # "none"
    BY DEF ExecInv, ReasonInv, Causes
  <2> QED
    BY <2>1, EvaluateSound
<1> QED
  BY <1>1, ExecutorInvariant, PTL

\* SIGKILL is the second signal, except in the finally block.
THEOREM EscalatesInOrder == Spec => KillsAfterTerm
<1>1. ExecInv /\ [Next]_vars => [killSent' /\ ~killSent => termSent \/ pc = "finally"]_vars
  <2> SUFFICES ASSUME ExecInv, Next, killSent', ~killSent PROVE termSent \/ pc = "finally"
    BY DEF vars
  <2>1. CASE Parent
    BY <2>1 DEF Parent, GetReady, GetTimesOut, Recv, IsAlive, Drain, Probe, EvaluateReading,
                LastGet, Terminate, JoinTerm, Kill, JoinKill, Return, Finally, JoinFinally,
                ExecInv, SignalInv
  <2>2. CASE Unexpected \/ Change
    BY <2>2 DEF Unexpected, Change
  <2>3. CASE Child
    BY <2>3 DEF Child, Import, Finish, WritePart, WriteRest, Exit, Crash, DieOfSignal
  <2> QED
    BY <2>1, <2>2, <2>3 DEF Next
<1> QED
  BY <1>1, ExecutorInvariant, PTL DEF Spec, KillsAfterTerm

\* Every step of run(), of its child or of the machine is a step of GuardedRun or
\* changes nothing there.
LEMMA StepsRefine == ExecInv /\ ExecInv' /\ [Next]_vars => [Run!Next]_(Run!abstractVars)
<1> SUFFICES ASSUME ExecInv, ExecInv', [Next]_vars PROVE [Run!Next]_(Run!abstractVars)
  OBVIOUS
<1> USE DEF Run!abstractVars
<1>1. CASE Parent
  <2>1. CASE GetReady \/ GetTimesOut \/ IsAlive \/ Drain \/ LastGet \/ Probe \/ EvaluateReading
    BY <2>1 DEF GetReady, GetTimesOut, IsAlive, Drain, LastGet, Probe, EvaluateReading
  <2>2. CASE Recv
    BY <2>2 DEF Recv
  <2>3. CASE Terminate \/ JoinTerm \/ Kill \/ JoinKill \/ Finally \/ JoinFinally
    BY <2>3 DEF Terminate, JoinTerm, Kill, JoinKill, Finally, JoinFinally
  <2>4. CASE Return
    <3>1. outcome = "none" /\ UNCHANGED <<pipe, child, answer, alarm, result, reason>>
      BY <2>4 DEF Return, ExecInv, VerdictInv
    <3>2. CASE outcome' \in {"fallback", "telemetryError"}
      BY <3>1, <3>2 DEF ExecInv, ReasonInv, VerdictInv, Run!Next, Run!Decide, Causes
    <3>3. CASE outcome' = "value"
      BY <3>1, <3>3 DEF ExecInv, PipeInv, VerdictInv, Run!Next, Run!Decide
    <3>4. CASE outcome' = "error"
      BY <3>1, <3>4 DEF ExecInv, PipeInv, VerdictInv, Run!Next, Run!Decide
    <3>5. CASE outcome' = "noResult"
      <4>1. Dead /\ ~Readable /\ pipe # "taken"
        BY <2>4, <3>1, <3>5 DEF Return, ReturnedFor, ExecInv, LossInv, PipeInv, TypeOK, Leaving
      <4> QED
        BY <3>1, <3>5, <4>1 DEF ExecInv, TypeOK, Run!Next, Run!Decide
    <3>6. CASE outcome' = "raised"
      BY <3>1, <3>6 DEF Run!Next, Run!Decide
    <3> QED
      BY <2>4, <3>2, <3>3, <3>4, <3>5, <3>6 DEF Return, ReturnedFor, ExecInv, TypeOK
  <2> QED
    BY <1>1, <2>1, <2>2, <2>3, <2>4 DEF Parent
<1>2. CASE Unexpected
  BY <1>2 DEF Unexpected, TryPcs, ExecInv, VerdictInv, Run!Next, Run!Decide
<1>3. CASE Child
  <2>1. CASE Import \/ Finish \/ WritePart
    BY <2>1 DEF Import, Finish, WritePart, ExecInv, PipeInv
  <2>2. CASE WriteRest
    BY <2>2 DEF WriteRest, ExecInv, PipeInv, TypeOK, Run!Next, Run!End
  <2>3. CASE Exit \/ Crash \/ DieOfSignal
    BY <2>3 DEF Exit, Crash, DieOfSignal, ExecInv, PipeInv, TypeOK, Run!Next, Run!End
  <2> QED
    BY <1>3, <2>1, <2>2, <2>3 DEF Child
<1>4. CASE Change
  BY <1>4 DEF Change, ExecInv, TypeOK, Run!Next, Run!Raise
<1>5. CASE UNCHANGED vars
  BY <1>5 DEF vars
<1> QED
  BY <1>1, <1>2, <1>3, <1>4, <1>5 DEF Next

\* run() implements GuardedRun: a value or an error is the target's own, a fallback
\* has had a violation, and "no result" is only said of a child that gave none.
THEOREM RunDecidesAsPromised == Spec => DecidesAsPromised
<1>1. Init => Run!Init
  <2>1. Alarming(machine) \in BOOLEAN
    BY PolicyAssumption DEF Alarming
  <2> QED
    BY <2>1 DEF Init, Run!Init
<1> QED
  BY <1>1, StepsRefine, ExecutorInvariant, PTL DEF Spec, DecidesAsPromised, Run!Spec

=============================================================================
