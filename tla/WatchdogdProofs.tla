--------------------------- MODULE WatchdogdProofs ---------------------------
(****************************************************************************)
(* The safety properties of Watchdogd for any clients, any number of        *)
(* watchdog threads and any limit on descriptors.                           *)
(*                                                                          *)
(* Each property is strengthened to an inductive invariant of its own.      *)
(****************************************************************************)
EXTENDS Watchdogd, TLAPS

----------------------------------------------------------------------------
(* Types and descriptors                                                    *)

\* accept() is only called with a connection in the backlog, so that its result
\* is a client.  Every close() closes a descriptor that FdsAccounted counts.
TypeInv ==
  /\ TypeOK
  /\ FdsAccounted
  /\ pc = "accept" => backlog # <<>>

USE DEF At, Goto

\* The state the program starts in has the right types and no open descriptor.
LEMMA TypeInvInit == Init => TypeInv
<1> SUFFICES ASSUME Init PROVE TypeInv
  OBVIOUS
<1>1. ServerTypeOK
  BY DEF Init, ServerInit, ServerTypeOK, PathStates, ClientStates
<1>2. WatchdogTypeOK
  BY DEF Init, WatchdogInit, WatchdogTypeOK, ThreadStates
<1>3. pc = "loop" /\ Held("loop") = 0
  BY DEF Init, Held, SetupPcs
<1>4. TypeOK
  BY <1>1, <1>2 DEF Init, TypeOK, Pcs, MainPcs
<1>5. FdsAccounted
  BY <1>3 DEF Init, ServerInit, FdsAccounted
<1> QED
  BY <1>3, <1>4, <1>5 DEF TypeInv

\* The server keeps the types and the count of descriptors.
LEMMA TypeInvServer == TypeInv /\ Server => TypeInv'
<1> SUFFICES ASSUME TypeInv, Server PROVE TypeInv'
  OBVIOUS
<1> USE DEF TypeInv, TypeOK, ServerTypeOK, WatchdogTypeOK, FdsAccounted, Held, Pcs, MainPcs, ServerPcs, SetupPcs, ServePcs, FinishPcs, telemetryVars, serverVars, watchdogVars, historyVars, Server, PathStates, ClientStates
<1>1. CASE Socket
  BY <1>1 DEF Socket, Reset, Reading, ReadingFds
<1>2. CASE UnlinkStale
  BY <1>2 DEF UnlinkStale, Reset, Reading, ReadingFds
<1>3. CASE Bind
  BY <1>3 DEF Bind, Reset, Reading, ReadingFds
<1>4. CASE BindFails
  BY <1>4 DEF BindFails, Reset, Reading, ReadingFds
<1>5. CASE Listen
  BY <1>5 DEF Listen, Reset, Reading, ReadingFds
<1>6. CASE ListenFails
  BY <1>6 DEF ListenFails, Reset, Reading, ReadingFds
<1>7. CASE Serve
  BY <1>7 DEF Serve, Reset, Reading, ReadingFds
<1>8. CASE SelectReady
  BY <1>8 DEF SelectReady, Reset, Reading, ReadingFds
<1>9. CASE SelectTimesOut
  BY <1>9 DEF SelectTimesOut, Reset, Reading, ReadingFds
<1>10. CASE Accept
  BY <1>10 DEF Accept, Reset, Reading, ReadingFds
<1>11. CASE AcceptFails
  BY <1>11 DEF AcceptFails, Reset, Reading, ReadingFds
<1>12. CASE Read
  BY <1>12 DEF Read, Reset, Reading, ReadingFds
<1>13. CASE EndRead
  BY <1>13 DEF EndRead, Reset, Reading, ReadingFds
<1>14. CASE Write
  <2>1. client' \in [Clients -> ClientStates]
    BY <1>14 DEF Write
  <2> QED
    BY <1>14, <2>1 DEF Write
<1>15. CASE Close
  <2>1. client' \in [Clients -> ClientStates]
    BY <1>15 DEF Close
  <2> QED
    BY <1>15, <2>1 DEF Close
<1>16. CASE CloseListen
  BY <1>16 DEF CloseListen, Reset, Reading, ReadingFds
<1>17. CASE Unlink
  BY <1>17 DEF Unlink, Reset, Reading, ReadingFds
<1> QED
  BY <1>1, <1>2, <1>3, <1>4, <1>5, <1>6, <1>7, <1>8, <1>9, <1>10, <1>11, <1>12, <1>13, <1>14, <1>15, <1>16, <1>17 DEF ServerStep

\* The end of the process leaves everything closed.
LEMMA TypeInvProcessDies ==
  ASSUME TypeInv, ProcessDies, status' \in {"none", "ok", "failed", "crashed"}
  PROVE  TypeInv'
<1>1. ServerTypeOK'
  BY DEF TypeInv, TypeOK, ServerTypeOK, ProcessDies, Reset, PathStates, ClientStates
<1>2. WatchdogTypeOK'
  BY DEF TypeInv, TypeOK, WatchdogTypeOK, ProcessDies, ThreadStates
<1>3. FdsAccounted'
  BY DEF FdsAccounted, ProcessDies, Held, SetupPcs, ServePcs
<1>4. TypeOK'
  BY <1>1, <1>2 DEF TypeInv, TypeOK, ProcessDies, Pcs, MainPcs
<1> QED
  BY <1>3, <1>4 DEF TypeInv, ProcessDies

\* A fallback abandons what the server held and keeps the types.
LEMMA TypeInvRollback == TypeInv /\ Fallback => TypeInv'
<1> SUFFICES ASSUME TypeInv, Fallback PROVE TypeInv'
  OBVIOUS
<1>1. CASE ~armed
  BY <1>1 DEF Fallback, TypeInv, TypeOK, ServerTypeOK, WatchdogTypeOK, FdsAccounted,
              telemetryVars
<1>2. CASE armed
  <2>1. Rollback
    BY <1>2 DEF Fallback
  <2>2. Held(pc) \in Nat /\ Held("cooldown") = 0
    BY DEF Held, SetupPcs, ServePcs, ReadingFds
  <2>3. lost' \in Nat /\ FdsAccounted'
    BY <2>1, <2>2 DEF TypeInv, TypeOK, ServerTypeOK, FdsAccounted, Fallback, Rollback,
                      telemetryVars
  <2>4. client' \in [Clients -> ClientStates] /\ path' \in PathStates
    BY <2>1 DEF TypeInv, TypeOK, ServerTypeOK, Rollback, ClientStates, PathStates
  <2>5. ServerTypeOK'
    BY <2>1, <2>4 DEF TypeInv, TypeOK, ServerTypeOK, Fallback, Rollback, telemetryVars
  <2>6. lostLocks' \subseteq LibcLockNames
    BY <2>1 DEF TypeInv, TypeOK, WatchdogTypeOK, Rollback, LocksAt, LibcLockNames
  <2>7. WatchdogTypeOK'
    BY <2>6 DEF TypeInv, TypeOK, WatchdogTypeOK, Fallback
  <2>8. TypeOK'
    BY <2>1, <2>3, <2>5, <2>7 DEF TypeInv, TypeOK, Fallback, Rollback, Pcs, MainPcs
  <2> QED
    BY <2>1, <2>3, <2>8 DEF TypeInv, Rollback
<1> QED
  BY <1>1, <1>2

\* No step of any actor breaks the types or loses count of a descriptor.
LEMMA TypeInvStep == TypeInv /\ [Next]_vars => TypeInv'
<1> SUFFICES ASSUME TypeInv, [Next]_vars PROVE TypeInv'
  OBVIOUS
<1> USE DEF TypeInv, TypeOK, ServerTypeOK, WatchdogTypeOK, FdsAccounted,
            telemetryVars, serverVars, watchdogVars, historyVars
<1>1. CASE MainStep
  <2> USE DEF Held, SetupPcs, ServePcs, FinishPcs, ServerPcs, Pcs, MainPcs
  <2>1. CASE Loop
    BY <2>1 DEF Loop
  <2>2. CASE Install
    BY <2>2 DEF Install
  <2>3. CASE SetJmp
    BY <2>3 DEF SetJmp
  <2>4. CASE Cooldown
    BY <2>4 DEF Cooldown
  <2>5. CASE Keep
    BY <2>5 DEF Keep
  <2>6. CASE Spawn
    BY <2>6 DEF Spawn, FreeThreads, ThreadStates
  <2>7. CASE SpawnWaits \/ SpawnFails
    BY <2>7 DEF SpawnWaits, SpawnFails
  <2>8. CASE Announce
    BY <2>8 DEF Announce
  <2>9. CASE Server
    BY <2>9, TypeInvServer
  <2>10. CASE Post
    BY <2>10 DEF Post
  <2>11. CASE Return
    BY <2>11, TypeInvProcessDies DEF Return
  <2> QED
    BY <1>1, <2>1, <2>2, <2>3, <2>4, <2>5, <2>6, <2>7, <2>8, <2>9, <2>10, <2>11
    DEF MainStep
<1>2. ASSUME NEW t \in Threads, Thread(t) PROVE TypeInv'
  <2>1. wd' \in [Threads -> ThreadStates] /\ pending' \in BOOLEAN
    BY <1>2 DEF Thread, WatchdogThread, WdCheck, WdPoll, WdReport, WdSignal, WdGoto,
                ThreadStates
  <2>2. UNCHANGED <<wdKeep, armed, saved, lostLocks>>
    BY <1>2 DEF Thread, WatchdogThread, WdCheck, WdPoll, WdReport, WdSignal
  <2> QED
    BY <1>2, <2>1, <2>2 DEF Thread
<1>3. CASE Shutdown
  BY <1>3 DEF Shutdown
<1>4. CASE Fallback
  BY <1>4, TypeInvRollback
<1>5. CASE FallbackIntoDeadFrame
  BY <1>5, TypeInvProcessDies DEF FallbackIntoDeadFrame
<1>6. CASE Environment
  <2>1. CASE Heat \/ Cool
    <3>1. hot' \in BOOLEAN /\ cooled' \subseteq Clients
      BY <2>1 DEF Heat, Cool
    <3>2. UNCHANGED <<open, pc, gKeep, path, backlog, conn, line, client>>
      BY <2>1 DEF Heat, Cool
    <3> QED
      BY <1>6, <3>1, <3>2 DEF Environment
  <2>2. ASSUME NEW c \in Clients, Connect(c) PROVE TypeInv'
    <3>1. client' \in [Clients -> ClientStates] /\ backlog' \in Seq(Clients)
      BY <2>2 DEF Connect, ClientStates
    <3>2. pc = "accept" => backlog' # <<>>
      BY <2>2 DEF Connect
    <3> QED
      BY <1>6, <2>2, <3>1, <3>2 DEF Environment, Connect
  <2>3. ASSUME NEW c \in Clients, GiveUp(c) PROVE TypeInv'
    BY <1>6, <2>3 DEF Environment, GiveUp, ClientStates
  <2> QED
    BY <1>6, <2>1, <2>2, <2>3 DEF Environment, EnvironmentStep
<1>7. CASE UNCHANGED vars
  BY <1>7 DEF vars
<1> QED
  BY <1>1, <1>2, <1>3, <1>4, <1>5, <1>6, <1>7 DEF Next

\* The variables always hold values of their types, whatever is jumped out of.
THEOREM TypeCorrect == Spec => []TypeOK
<1>1. TypeInv => TypeOK
  BY DEF TypeInv
<1> QED
  BY <1>1, TypeInvInit, TypeInvStep, PTL DEF Spec

\* The descriptors of the process are those of the server's locals and those the
\* fallbacks abandoned.
THEOREM DescriptorsAreAccounted == Spec => []FdsAccounted
<1>1. TypeInv => FdsAccounted
  BY DEF TypeInv
<1> QED
  BY <1>1, TypeInvInit, TypeInvStep, PTL DEF Spec

----------------------------------------------------------------------------
(* The watchdog threads                                                     *)

\* What a step of the server does to the rest of the daemon: nothing.
LEMMA ServerMoves ==
  ASSUME Server
  PROVE  /\ pc \in ServerPcs
         /\ pc' \in ServerPcs \cup {"post"}
         /\ UNCHANGED <<gKeep, watchdogVars, status, historyVars>>
BY DEF Server, ServerStep, Socket, UnlinkStale, Bind, BindFails, Listen, ListenFails,
       Serve, SelectReady, SelectTimesOut, Accept, AcceptFails, Read, EndRead, Write,
       Close, CloseListen, Unlink, ServerPcs, SetupPcs, ServePcs, FinishPcs

\* What a step of a watchdog thread does: it moves that thread, and it ends
\* the thread only after a signal or when the flag asks for it.
LEMMA ThreadMoves ==
  ASSUME TypeOK, NEW t \in Threads, Thread(t)
  PROVE  /\ Alive(t)
         /\ \A u \in Threads : u # t => wd'[u] = wd[u]
         /\ wd'[t] # "none" \/ ~wdKeep \/ pending'
         /\ pending' # pending => wd'[t] = "none"
         /\ pending => pending'
         /\ UNCHANGED <<telemetryVars, pc, gKeep, serverVars, status, historyVars,
                        wdKeep, armed, saved>>
<1> USE DEF TypeOK, WatchdogTypeOK, Alive, WdGoto, Thread, watchdogVars
<1>1. CASE WdCheck(t)
  BY <1>1 DEF WdCheck
<1>2. CASE WdPoll(t)
  BY <1>2 DEF WdPoll
<1>3. CASE WdReport(t)
  BY <1>3 DEF WdReport
<1>4. CASE WdSignal(t)
  BY <1>4 DEF WdSignal
<1> QED
  BY <1>1, <1>2, <1>3, <1>4 DEF WatchdogThread

\* The environment leaves the daemon's own variables alone.
LEMMA EnvironmentMoves ==
  ASSUME Environment
  PROVE  UNCHANGED <<open, pc, gKeep, path, conn, line, watchdogVars, status, historyVars>>
BY DEF Environment, EnvironmentStep, Heat, Cool, Connect, GiveUp, telemetryVars, serverVars

\* The handler and the buffer are there from the statement that sets them up on.
\* A watchdog is only started after both, and nothing takes them away.
ArmInv ==
  /\ ArmedBeforeSignalled
  /\ pc \in {"setjmp", "keep", "spawn"} \cup Guarded => armed
  /\ pc \in {"keep", "spawn"} \cup Guarded => saved

\* Setting up, starting, serving and ending keep the order of arming and starting.
LEMMA ArmInvStep == TypeOK /\ ArmInv /\ [Next]_vars => ArmInv'
<1> SUFFICES ASSUME TypeOK, ArmInv, [Next]_vars PROVE ArmInv'
  OBVIOUS
<1> USE DEF ArmInv, ArmedBeforeSignalled, Alive, watchdogVars, Guarded
<1>1. CASE MainStep
  <2> USE DEF ServerPcs, SetupPcs, ServePcs, FinishPcs
  <2>1. CASE Loop \/ Install \/ SetJmp \/ Cooldown \/ Keep
    BY <2>1 DEF Loop, Install, SetJmp, Cooldown, Keep
  <2>2. CASE Spawn \/ SpawnWaits \/ SpawnFails \/ Announce \/ Post
    BY <2>2 DEF Spawn, SpawnWaits, SpawnFails, Announce, Post
  <2>3. CASE Server
    BY <2>3, ServerMoves DEF Server
  <2>4. CASE Return
    BY <2>4 DEF Return, ProcessDies
  <2> QED
    BY <1>1, <2>1, <2>2, <2>3, <2>4 DEF MainStep
<1>2. ASSUME NEW t \in Threads, Thread(t) PROVE ArmInv'
  BY <1>2, ThreadMoves
<1>3. CASE Shutdown
  BY <1>3 DEF Shutdown
<1>4. CASE Fallback
  BY <1>4 DEF Fallback, Rollback, ServerPcs, SetupPcs, ServePcs, FinishPcs
<1>5. CASE FallbackIntoDeadFrame
  BY <1>5 DEF FallbackIntoDeadFrame, ProcessDies, ServerPcs, SetupPcs, ServePcs, FinishPcs
<1>6. CASE Environment
  BY <1>6, EnvironmentMoves
<1>7. CASE UNCHANGED vars
  BY <1>7 DEF vars
<1> QED
  BY <1>1, <1>2, <1>3, <1>4, <1>5, <1>6, <1>7 DEF Next

\* A fallback signal finds the handler installed and the jump buffer filled,
\* however many watchdogs of earlier passes are still running.
THEOREM SignalsFindTheFallbackPoint == Spec => []ArmedBeforeSignalled
<1>1. Init => ArmInv
  BY DEF Init, WatchdogInit, ArmInv, ArmedBeforeSignalled, Alive, Guarded, ServerPcs,
         SetupPcs, ServePcs, FinishPcs
<1>2. ArmInv => ArmedBeforeSignalled
  BY DEF ArmInv
<1> QED
  BY <1>1, <1>2, ArmInvStep, TypeCorrect, PTL DEF Spec

\* The watchdog started in this pass watches with the flag up.
GuardInv ==
  /\ NeverUnguarded
  /\ pc = "spawn" => wdKeep

\* Only the return of the server lowers the flag, and only a signal or a lowered
\* flag ends a watchdog.
LEMMA GuardInvStep ==
  TypeOK /\ ArmedBeforeSignalled /\ GuardInv /\ [Next]_vars => GuardInv'
<1> SUFFICES ASSUME TypeOK, ArmedBeforeSignalled, GuardInv, [Next]_vars PROVE GuardInv'
  OBVIOUS
<1> USE DEF GuardInv, NeverUnguarded, Alive, watchdogVars, Guarded
<1>1. CASE MainStep
  <2> USE DEF ServerPcs, SetupPcs, ServePcs, FinishPcs
  <2>1. CASE Loop \/ Install \/ SetJmp \/ Cooldown \/ Keep
    BY <2>1 DEF Loop, Install, SetJmp, Cooldown, Keep
  <2>2. CASE Spawn
    BY <2>2 DEF Spawn, FreeThreads, TypeOK, WatchdogTypeOK
  <2>3. CASE SpawnWaits \/ SpawnFails \/ Announce \/ Post
    BY <2>3 DEF SpawnWaits, SpawnFails, Announce, Post
  <2>4. CASE Server
    BY <2>4, ServerMoves
  <2>5. CASE Return
    BY <2>5 DEF Return, ProcessDies
  <2> QED
    BY <1>1, <2>1, <2>2, <2>3, <2>4, <2>5 DEF MainStep
<1>2. ASSUME NEW t \in Threads, Thread(t) PROVE GuardInv'
  BY <1>2, ThreadMoves
<1>3. CASE Shutdown
  BY <1>3 DEF Shutdown
<1>4. CASE Fallback
  <2>1. armed
    BY <1>4 DEF Fallback, ArmedBeforeSignalled
  <2> QED
    BY <1>4, <2>1 DEF Fallback, Rollback, ServerPcs, SetupPcs, ServePcs, FinishPcs
<1>5. CASE FallbackIntoDeadFrame
  BY <1>5 DEF FallbackIntoDeadFrame, ProcessDies, ServerPcs, SetupPcs, ServePcs, FinishPcs
<1>6. CASE Environment
  BY <1>6, EnvironmentMoves
<1>7. CASE UNCHANGED vars
  BY <1>7 DEF vars
<1> QED
  BY <1>1, <1>2, <1>3, <1>4, <1>5, <1>6, <1>7 DEF Next

\* Telemetry is never served without a watchdog that will look at the next
\* sample, or whose signal is already on the way.
THEOREM ServiceIsGuarded == Spec => []NeverUnguarded
<1>1. Init => GuardInv
  BY DEF Init, GuardInv, NeverUnguarded, Guarded, ServerPcs, SetupPcs, ServePcs, FinishPcs
<1>2. GuardInv => NeverUnguarded
  BY DEF GuardInv
<1> QED
  BY <1>1, <1>2, GuardInvStep, TypeCorrect, SignalsFindTheFallbackPoint, PTL DEF Spec

\* Where the main thread is about to start a watchdog.
Unwatched == {"install", "setjmp", "keep", "spawn", "cooldown"}

\* Unless the server has returned by itself, no watchdog is alive when the next
\* one is about to be started, nor is its signal pending; and none is alive once
\* it has signalled.
SoleInv ==
  /\ SoleWatchdog
  /\ ~early /\ pending => \A t \in Threads : ~Alive(t)
  /\ ~early /\ (pc \in Unwatched \/ (pc = "loop" /\ gKeep))
       => ~pending /\ \A t \in Threads : ~Alive(t)

\* A watchdog that signals is gone, and a pass that ends without a fallback is
\* the last one, or the server has returned by itself.
LEMMA SoleInvStep ==
  TypeOK /\ ArmedBeforeSignalled /\ SoleInv /\ [Next]_vars => SoleInv'
<1> SUFFICES ASSUME TypeOK, ArmedBeforeSignalled, SoleInv, [Next]_vars PROVE SoleInv'
  OBVIOUS
<1> USE DEF SoleInv, SoleWatchdog, Alive, watchdogVars, historyVars, Unwatched
<1>1. CASE MainStep
  <2>1. CASE Loop \/ Install \/ SetJmp \/ Cooldown \/ Keep
    BY <2>1 DEF Loop, Install, SetJmp, Cooldown, Keep
  <2>2. CASE Spawn
    <3>1. PICK t \in Threads : wd' = [wd EXCEPT ![t] = "check"]
      BY <2>2 DEF Spawn, FreeThreads
    <3>2. pc = "spawn" /\ pc' = "announce" /\ UNCHANGED <<pending, early>>
      BY <2>2 DEF Spawn
    <3>3. \A u \in Threads : u # t => wd'[u] = wd[u]
      BY <3>1 DEF TypeOK, WatchdogTypeOK
    <3> QED
      BY <3>2, <3>3
  <2>3. CASE SpawnWaits \/ SpawnFails \/ Announce
    BY <2>3 DEF SpawnWaits, SpawnFails, Announce
  <2>4. CASE Server
    BY <2>4, ServerMoves DEF ServerPcs, SetupPcs, ServePcs, FinishPcs
  <2>5. CASE Return
    BY <2>5 DEF Return, ProcessDies
  <2>6. CASE Post
    <3>1. pc' = "loop" /\ UNCHANGED <<gKeep, wd, pending>>
      BY <2>6 DEF Post
    <3>2. ~early' => ~early /\ ~gKeep
      BY <2>6 DEF Post
    <3> QED
      BY <3>1, <3>2
  <2> QED
    BY <1>1, <2>1, <2>2, <2>3, <2>4, <2>5, <2>6 DEF MainStep
<1>2. ASSUME NEW t \in Threads, Thread(t) PROVE SoleInv'
  BY <1>2, ThreadMoves
<1>3. CASE Shutdown
  BY <1>3 DEF Shutdown
<1>4. CASE Fallback
  <2>1. armed
    BY <1>4 DEF Fallback, ArmedBeforeSignalled
  <2> QED
    BY <1>4, <2>1 DEF Fallback, Rollback
<1>5. CASE FallbackIntoDeadFrame
  BY <1>5 DEF FallbackIntoDeadFrame, ProcessDies
<1>6. CASE Environment
  BY <1>6, EnvironmentMoves
<1>7. CASE UNCHANGED vars
  BY <1>7 DEF vars
<1> QED
  BY <1>1, <1>2, <1>3, <1>4, <1>5, <1>6, <1>7 DEF Next

\* Fallbacks alone never accumulate watchdogs.
THEOREM FallbacksLeaveNoWatchdog == Spec => []SoleWatchdog
<1>1. Init => SoleInv
  BY DEF Init, WatchdogInit, SoleInv, SoleWatchdog, Alive
<1>2. SoleInv => SoleWatchdog
  BY DEF SoleInv
<1> QED
  BY <1>1, <1>2, SoleInvStep, TypeCorrect, SignalsFindTheFallbackPoint, PTL DEF Spec

----------------------------------------------------------------------------
(* The socket file                                                          *)

\* Before the first fallback the daemon has no file of its own outside the
\* server; bind() follows unlink(); only the end of main() sets the status.
PathInv ==
  /\ ServingIsReachable
  /\ CleanExitRemovesSocket
  /\ status # "none" => pc \in {"return", "exited"}
  /\ pc = "bind" => path = "none"
  /\ ~jumped /\ pc \in MainPcs \cup {"socket", "unlinkStale"} => path \in {"none", "old"}
  /\ pc = "cooldown" => jumped

\* The steps of the server bind, listen and unlink in this order.
LEMMA PathInvServer == PathInv /\ Server => PathInv'
<1> SUFFICES ASSUME PathInv, Server PROVE PathInv'
  OBVIOUS
<1> USE DEF PathInv, ServingIsReachable, CleanExitRemovesSocket, historyVars, serverVars,
            MainPcs, ServePcs
<1>1. UNCHANGED <<status, jumped>>
  BY DEF Server
<1>2. CASE Socket \/ UnlinkStale \/ Bind \/ BindFails \/ Listen \/ ListenFails
  BY <1>1, <1>2 DEF Socket, UnlinkStale, Bind, BindFails, Listen, ListenFails
<1>3. CASE Serve \/ SelectReady \/ SelectTimesOut \/ Accept \/ AcceptFails
  BY <1>1, <1>3 DEF Serve, SelectReady, SelectTimesOut, Accept, AcceptFails
<1>4. CASE Read \/ EndRead \/ Write \/ Close \/ CloseListen \/ Unlink
  BY <1>1, <1>4 DEF Read, EndRead, Write, Close, CloseListen, Unlink
<1> QED
  BY <1>2, <1>3, <1>4 DEF Server, ServerStep

\* Outside the server only a fallback and the end of the process touch the file.
LEMMA PathInvStep ==
  TypeOK /\ ArmedBeforeSignalled /\ PathInv /\ [Next]_vars => PathInv'
<1> SUFFICES ASSUME TypeOK, ArmedBeforeSignalled, PathInv, [Next]_vars PROVE PathInv'
  OBVIOUS
<1> USE DEF PathInv, ServingIsReachable, CleanExitRemovesSocket, historyVars, serverVars,
            MainPcs, ServePcs
<1>1. CASE MainStep
  <2>1. CASE Loop \/ Install \/ SetJmp \/ Cooldown \/ Keep
    BY <2>1 DEF Loop, Install, SetJmp, Cooldown, Keep
  <2>2. CASE Spawn \/ SpawnWaits \/ SpawnFails \/ Announce \/ Post
    BY <2>2 DEF Spawn, SpawnWaits, SpawnFails, Announce, Post
  <2>3. CASE Server
    BY <2>3, PathInvServer
  <2>4. CASE Return
    BY <2>4 DEF Return, ProcessDies
  <2> QED
    BY <1>1, <2>1, <2>2, <2>3, <2>4 DEF MainStep
<1>2. ASSUME NEW t \in Threads, Thread(t) PROVE PathInv'
  BY <1>2 DEF Thread
<1>3. CASE Shutdown
  BY <1>3 DEF Shutdown
<1>4. CASE Fallback
  <2>1. armed
    BY <1>4 DEF Fallback, ArmedBeforeSignalled
  <2> QED
    BY <1>4, <2>1 DEF Fallback, Rollback
<1>5. CASE FallbackIntoDeadFrame
  BY <1>5 DEF FallbackIntoDeadFrame, ProcessDies
<1>6. CASE Environment
  BY <1>6, EnvironmentMoves
<1>7. CASE UNCHANGED vars
  BY <1>7 DEF vars
<1> QED
  BY <1>1, <1>2, <1>3, <1>4, <1>5, <1>6, <1>7 DEF Next

\* PathInv holds in every state: the path as the main thread has left it.
THEOREM PathInvariant == Spec => []PathInv
<1>1. Init => PathInv
  BY DEF Init, ServerInit, PathInv, ServingIsReachable, CleanExitRemovesSocket, ServePcs
<1> QED
  BY <1>1, PathInvStep, TypeCorrect, SignalsFindTheFallbackPoint, PTL DEF Spec

\* The file leads to the socket that is served.
THEOREM ServedSocketIsReachable == Spec => []ServingIsReachable
<1>1. PathInv => ServingIsReachable
  BY DEF PathInv
<1> QED
  BY <1>1, PathInvariant, PTL

\* A shutdown that no fallback preceded leaves no file of the daemon behind.
THEOREM CleanExitLeavesNoFile == Spec => []CleanExitRemovesSocket
<1>1. PathInv => CleanExitRemovesSocket
  BY DEF PathInv
<1> QED
  BY <1>1, PathInvariant, PTL

----------------------------------------------------------------------------
(* The clients                                                              *)

\* Every connection of the current socket is in one place: in the backlog, once,
\* or behind conn_fd.  A client that can still be answered is counted as having
\* seen every cool moment since it connected, and so has the one about to be.
ClientInv ==
  /\ AnswersAreFresh
  /\ conn # NoClient <=> pc \in {"read", "reading", "write", "close"}
  /\ conn # NoClient => client[conn] \in {"waiting", "toldCool", "toldHot", "gone"}
  /\ \A i \in 1 .. Len(backlog) : /\ backlog[i] # conn
                                  /\ client[backlog[i]] \in {"waiting", "gone"}
  /\ \A i, j \in 1 .. Len(backlog) : backlog[i] = backlog[j] => i = j
  /\ \A c \in Clients : ~hot /\ Connected(c) => c \in cooled
  /\ pc = "write" /\ line = "cool" /\ client[conn] = "waiting" => conn \in cooled

\* Steps that leave the clients, their connections and the last line alone, and
\* do not move the main thread into, out of or within the service of a client.
LEMMA ClientInvUnchanged ==
  ASSUME ClientInv, UNCHANGED <<hot, backlog, conn, line, client, cooled>>,
         pc' = pc \/ {pc, pc'} \cap {"read", "reading", "write", "close"} = {}
  PROVE  ClientInv'
BY DEF ClientInv, AnswersAreFresh, Connected

\* Accepting, sampling, answering and closing keep a connection in one place and
\* an answer younger than it.
LEMMA ClientInvServer == TypeInv /\ ClientInv /\ Server => ClientInv'
<1> SUFFICES ASSUME TypeInv, ClientInv, Server PROVE ClientInv'
  OBVIOUS
<1> USE DEF serverVars, telemetryVars
<1>1. CASE Socket \/ UnlinkStale \/ Bind \/ BindFails \/ Listen \/ ListenFails
  BY <1>1, ClientInvUnchanged
  DEF Socket, UnlinkStale, Bind, BindFails, Listen, ListenFails
<1>2. CASE Serve \/ SelectReady \/ SelectTimesOut \/ AcceptFails \/ Unlink
  BY <1>2, ClientInvUnchanged
  DEF Serve, SelectReady, SelectTimesOut, AcceptFails, Unlink
<1>3. CASE Accept
  <2>1. backlog \in Seq(Clients) /\ backlog # <<>>
    BY <1>3 DEF Accept, TypeInv, TypeOK, ServerTypeOK
  <2>2. /\ conn' = backlog[1] /\ conn' \in Clients /\ Len(backlog) \in Nat \ {0}
        /\ Len(backlog') = Len(backlog) - 1
        /\ \A i \in 1 .. Len(backlog') : backlog'[i] = backlog[i + 1]
    BY <1>3, <2>1 DEF Accept
  <2>3. conn' # NoClient /\ client'[conn'] \in {"waiting", "toldCool", "toldHot", "gone"}
    BY <1>3, <2>2, ClientsAssumption DEF Accept, ClientInv
  <2>4. \A i \in 1 .. Len(backlog') : /\ backlog'[i] # conn'
                                     /\ client'[backlog'[i]] \in {"waiting", "gone"}
    BY <1>3, <2>2 DEF Accept, ClientInv
  <2>5. \A i, j \in 1 .. Len(backlog') : backlog'[i] = backlog'[j] => i = j
    BY <2>2 DEF ClientInv
  <2> QED
    BY <1>3, <2>3, <2>4, <2>5 DEF Accept, ClientInv, AnswersAreFresh, Connected
<1>4. CASE Read
  <2>1. pc' = "write" => line' = "hot"
    BY <1>4, FdLimitAssumption DEF Read, Reading, ReadingFds, TypeInv, TypeOK, ServerTypeOK
  <2> QED
    BY <1>4, <2>1 DEF Read, ClientInv, AnswersAreFresh, Connected
<1>5. CASE EndRead
  <2>1. conn \in Clients
    BY <1>5 DEF EndRead, ClientInv, TypeInv, TypeOK, ServerTypeOK
  <2> QED
    BY <1>5, <2>1 DEF EndRead, ClientInv, AnswersAreFresh, Connected
<1>6. CASE Write
  <2>1. conn \in Clients
    BY <1>6 DEF Write, ClientInv, TypeInv, TypeOK, ServerTypeOK
  <2>2. \A c \in Clients : c # conn => client'[c] = client[c]
    BY <1>6, <2>1 DEF Write, TypeInv, TypeOK, ServerTypeOK
  <2>3. client[conn] = "waiting" => client'[conn] = IF line = "cool" THEN "toldCool" ELSE "toldHot"
    BY <1>6, <2>1 DEF Write, TypeInv, TypeOK, ServerTypeOK
  <2>4. client[conn] # "waiting" => client'[conn] = client[conn]
    BY <1>6, <2>1 DEF Write
  <2>5. \A i \in 1 .. Len(backlog) : backlog[i] \in Clients
    BY DEF TypeInv, TypeOK, ServerTypeOK
  <2> QED
    BY <1>6, <2>1, <2>2, <2>3, <2>4, <2>5 DEF Write, ClientInv, AnswersAreFresh, Connected
<1>7. CASE Close
  <2>1. conn \in Clients
    BY <1>7 DEF Close, ClientInv, TypeInv, TypeOK, ServerTypeOK
  <2>2. client'[conn] = "idle" /\ \A c \in Clients : c # conn => client'[c] = client[c]
    BY <1>7, <2>1 DEF Close, TypeInv, TypeOK, ServerTypeOK
  <2>3. \A i \in 1 .. Len(backlog) : backlog[i] \in Clients
    BY DEF TypeInv, TypeOK, ServerTypeOK
  <2> QED
    BY <1>7, <2>2, <2>3, ClientsAssumption DEF Close, ClientInv, AnswersAreFresh, Connected
<1>8. CASE CloseListen
  BY <1>8 DEF CloseListen, Reset, ClientInv, AnswersAreFresh, Connected
<1> QED
  BY <1>1, <1>2, <1>3, <1>4, <1>5, <1>6, <1>7, <1>8 DEF Server, ServerStep

\* A client that connects is new to the socket; one that gives up stays where it
\* is.  When the machine cools down, everybody connected has seen it.
LEMMA ClientInvEnvironment == TypeInv /\ ClientInv /\ Environment => ClientInv'
<1> SUFFICES ASSUME TypeInv, ClientInv, Environment PROVE ClientInv'
  OBVIOUS
<1> USE DEF telemetryVars
<1>0. /\ client \in [Clients -> ClientStates]
      /\ Len(backlog) \in Nat
      /\ \A i \in 1 .. Len(backlog) : backlog[i] \in Clients
      /\ conn # NoClient => conn \in Clients
  BY DEF TypeInv, TypeOK, ServerTypeOK
<1>1. CASE Heat
  BY <1>1 DEF Heat, serverVars, ClientInv, AnswersAreFresh, Connected
<1>2. CASE Cool
  BY <1>2 DEF Cool, ClientInv, AnswersAreFresh, Connected
<1>3. ASSUME NEW c \in Clients, Connect(c) PROVE ClientInv'
  <2>1. client[c] = "idle" /\ \A d \in Clients : d # c => client'[d] = client[d]
    BY <1>0, <1>3 DEF Connect
  <2>2. c # conn /\ \A i \in 1 .. Len(backlog) : backlog[i] # c
    BY <1>0, <2>1, ClientsAssumption DEF ClientInv
  <2>3. \A d \in Clients : d # c => (d \in cooled' <=> d \in cooled)
    BY <1>3 DEF Connect
  <2>4. /\ AnswersAreFresh'
        /\ (\A d \in Clients : ~hot /\ Connected(d) => d \in cooled)'
    BY <1>0, <1>3, <2>1, <2>3 DEF Connect, ClientInv, AnswersAreFresh, Connected
  <2>5. /\ (conn # NoClient => client[conn] \in {"waiting", "toldCool", "toldHot", "gone"})'
        /\ (pc = "write" /\ line = "cool" /\ client[conn] = "waiting" => conn \in cooled)'
    BY <1>0, <1>3, <2>1, <2>2, <2>3 DEF Connect, ClientInv
  <2>6. CASE backlog' = backlog
    BY <1>0, <1>3, <2>1, <2>2, <2>4, <2>5, <2>6 DEF Connect, ClientInv
  <2>7. CASE backlog' = Append(backlog, c) /\ client'[c] = "waiting"
    <3>1. /\ Len(backlog') = Len(backlog) + 1
          /\ backlog'[Len(backlog')] = c
          /\ \A i \in 1 .. Len(backlog) : backlog'[i] = backlog[i]
      BY <2>7 DEF TypeInv, TypeOK, ServerTypeOK
    <3>2. \A i \in 1 .. Len(backlog') : i \in 1 .. Len(backlog) \/ i = Len(backlog')
      BY <1>0, <3>1
    <3> QED
      BY <1>0, <1>3, <2>1, <2>2, <2>4, <2>5, <2>7, <3>1, <3>2 DEF Connect, ClientInv
  <2> QED
    BY <1>0, <1>3, <2>6, <2>7 DEF Connect
<1>4. ASSUME NEW c \in Clients, GiveUp(c) PROVE ClientInv'
  <2>1. \A d \in Clients : d # c => client'[d] = client[d]
    BY <1>0, <1>4 DEF GiveUp
  <2>2. \/ client[c] = "waiting" /\ client'[c] = "gone"
        \/ client[c] = "orphan" /\ client'[c] = "idle"
    BY <1>0, <1>4 DEF GiveUp
  <2> QED
    BY <1>0, <1>4, <2>1, <2>2 DEF GiveUp, ClientInv, AnswersAreFresh, Connected
<1> QED
  BY <1>1, <1>2, <1>3, <1>4 DEF Environment, EnvironmentStep

\* The other steps leave the clients alone or disconnect all of them.
LEMMA ClientInvStep ==
  TypeInv /\ ArmedBeforeSignalled /\ ClientInv /\ [Next]_vars => ClientInv'
<1> SUFFICES ASSUME TypeInv, ArmedBeforeSignalled, ClientInv, [Next]_vars PROVE ClientInv'
  OBVIOUS
<1>1. ASSUME ProcessDies PROVE ClientInv'
  BY <1>1 DEF ProcessDies, Reset, TypeInv, TypeOK, ServerTypeOK, ClientInv,
              AnswersAreFresh, Connected
<1>2. CASE MainStep
  <2>1. CASE Loop \/ Install \/ SetJmp \/ Cooldown \/ Keep
    BY <2>1, ClientInvUnchanged
    DEF Loop, Install, SetJmp, Cooldown, Keep, serverVars, telemetryVars
  <2>2. CASE Spawn \/ SpawnWaits \/ SpawnFails \/ Announce \/ Post
    BY <2>2, ClientInvUnchanged
    DEF Spawn, SpawnWaits, SpawnFails, Announce, Post, serverVars, telemetryVars
  <2>3. CASE Server
    BY <2>3, ClientInvServer
  <2>4. CASE Return
    BY <1>1, <2>4 DEF Return
  <2> QED
    BY <1>2, <2>1, <2>2, <2>3, <2>4 DEF MainStep
<1>3. ASSUME NEW t \in Threads, Thread(t) PROVE ClientInv'
  BY <1>3, ClientInvUnchanged DEF Thread, serverVars, telemetryVars
<1>4. CASE Shutdown
  BY <1>4, ClientInvUnchanged DEF Shutdown, serverVars, telemetryVars
<1>5. CASE Fallback
  <2>1. armed
    BY <1>5 DEF Fallback, ArmedBeforeSignalled
  <2> QED
    BY <1>5, <2>1 DEF Fallback, Rollback, telemetryVars, ClientInv, AnswersAreFresh, Connected,
                      TypeInv, TypeOK, ServerTypeOK
<1>6. CASE FallbackIntoDeadFrame
  BY <1>1, <1>6 DEF FallbackIntoDeadFrame
<1>7. CASE Environment
  BY <1>7, ClientInvEnvironment
<1>8. CASE UNCHANGED vars
  BY <1>8, ClientInvUnchanged DEF vars, serverVars, telemetryVars
<1> QED
  BY <1>2, <1>3, <1>4, <1>5, <1>6, <1>7, <1>8 DEF Next

\* No client is ever told a temperature that is older than its connection.
THEOREM NoStaleAnswer == Spec => []AnswersAreFresh
<1>1. Init => ClientInv
  BY DEF Init, ServerInit, ClientInv, AnswersAreFresh, Connected
<1>2. Spec => []TypeInv
  BY TypeInvInit, TypeInvStep, PTL DEF Spec
<1>3. ClientInv => AnswersAreFresh
  BY DEF ClientInv
<1> QED
  BY <1>1, <1>2, <1>3, ClientInvStep, SignalsFindTheFallbackPoint, PTL DEF Spec

=============================================================================
