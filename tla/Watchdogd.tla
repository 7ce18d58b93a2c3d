------------------------------ MODULE Watchdogd ------------------------------
(****************************************************************************)
(* watchdogd_main.c: the daemon.  Its main thread arms the fallback point,  *)
(* starts a watchdog thread, and serves telemetry until a shutdown signal,  *)
(* or until the watchdog's signal makes it jump out of the server, cool     *)
(* down and start over.                                                     *)
(*                                                                          *)
(* The jump may happen between any two steps of the main thread, and leaves *)
(* behind whatever the thread held there.                                   *)
(****************************************************************************)
EXTENDS TelemetryServer, SandboxWatchdog

CONSTANT LibcLocks  \* may a jump out of malloc, fopen or fprintf leave a lock of
                    \* the C library locked?  (POSIX: undefined; glibc: yes)

VARIABLES
  status,           \* how the process ends: ok (0), failed (1), crashed
  lost,             \* history: descriptors that no variable refers to any more
  jumped,           \* history: a fallback has happened
  early             \* history: the server has returned while asked to run

historyVars == <<lost, jumped, early>>
vars == <<telemetryVars, pc, gKeep, serverVars, watchdogVars, status, historyVars>>

ASSUME LocksAssumption == LibcLocks \in BOOLEAN

MainPcs == {"loop", "install", "setjmp", "cooldown", "keep", "spawn", "spawnWaits",
            "announce", "post", "return", "exited"}
Pcs == MainPcs \cup ServerPcs

\* The statements between pthread_create and the return of the server.
Guarded == {"announce"} \cup ServerPcs

TypeOK ==
  /\ ServerTypeOK
  /\ WatchdogTypeOK
  /\ pc \in Pcs
  /\ status \in {"none", "ok", "failed", "crashed"}
  /\ lost \in Nat
  /\ jumped \in BOOLEAN
  /\ early \in BOOLEAN

\* After the signal handlers are installed, before the first pass of the loop.
Init ==
  /\ ServerInit
  /\ WatchdogInit
  /\ pc = "loop"
  /\ status = "none"
  /\ lost = 0
  /\ jumped = FALSE
  /\ early = FALSE

----------------------------------------------------------------------------
(* The main thread outside the server                                       *)

Loop ==
  /\ At("loop")
  /\ IF gKeep
       THEN Goto("install") /\ status' = status
       ELSE Goto("return") /\ status' = "ok"
  /\ UNCHANGED <<telemetryVars, gKeep, serverVars, watchdogVars, historyVars>>

\* Mutant: installs the handler and forgets the flag.
InstallForgetsFlag ==
  /\ At("install")
  /\ Goto("setjmp")
  /\ UNCHANGED <<telemetryVars, gKeep, serverVars, watchdogVars, status, historyVars>>

\* MSP_ARM_FALLBACK_POINT: the handler and the flag first ...
Install ==
  /\ At("install")
  /\ Goto("setjmp")
  /\ armed' = TRUE
  /\ UNCHANGED <<telemetryVars, gKeep, serverVars, wd, wdKeep, pending, saved,
                 lostLocks, status, historyVars>>

\* ... then sigsetjmp.
SetJmp ==
  /\ At("setjmp")
  /\ Goto("keep")
  /\ saved' = TRUE
  /\ UNCHANGED <<telemetryVars, gKeep, serverVars, wd, wdKeep, pending, armed,
                 lostLocks, status, historyVars>>

\* The fallback branch: sleep(1), continue.
Cooldown ==
  /\ At("cooldown")
  /\ Goto("loop")
  /\ UNCHANGED <<telemetryVars, gKeep, serverVars, watchdogVars, status, historyVars>>

FreeThreads == {t \in Threads : ~Alive(t)}

\* Mutant: watchdog_keep_running is set once, before the first pass.
KeepOnce ==
  /\ At("keep")
  /\ Goto("spawn")
  /\ wdKeep' = (wdKeep \/ ~early)
  /\ UNCHANGED <<telemetryVars, gKeep, serverVars, wd, pending, armed, saved,
                 lostLocks, status, historyVars>>

\* watchdog_keep_running = true: the slot the older threads look at, too.
Keep ==
  /\ At("keep")
  /\ Goto("spawn")
  /\ wdKeep' = TRUE
  /\ UNCHANGED <<telemetryVars, gKeep, serverVars, wd, pending, armed, saved,
                 lostLocks, status, historyVars>>

\* pthread_create, with a stack that the library has kept of a thread before, or with
\* memory that malloc has to give.
Spawn ==
  /\ At("spawn")
  /\ \E t \in FreeThreads : wd' = [wd EXCEPT ![t] = "check"]
  /\ Goto("announce")
  /\ UNCHANGED <<telemetryVars, gKeep, serverVars, wdKeep, pending, armed, saved,
                 lostLocks, status, historyVars>>

\* It asks malloc for memory, whose lock a jump has left locked: nothing but another
\* jump leads out of here.
SpawnWaits ==
  /\ At("spawn")
  /\ "heap" \in lostLocks
  /\ Goto("spawnWaits")
  /\ UNCHANGED <<telemetryVars, gKeep, serverVars, watchdogVars, status, historyVars>>

\* EAGAIN: main() returns 1.
SpawnFails ==
  /\ At("spawn")
  /\ FreeThreads = {}
  /\ Goto("return")
  /\ status' = "failed"
  /\ UNCHANGED <<telemetryVars, gKeep, serverVars, watchdogVars, historyVars>>

\* pthread_detach, the server's configuration, fprintf(stderr, ...).
Announce ==
  /\ At("announce")
  /\ Goto("socket")
  /\ UNCHANGED <<telemetryVars, gKeep, serverVars, watchdogVars, status, historyVars>>

\* The server; the reading needs the heap.
Server ==
  /\ ServerStep
  /\ pc = "read" => "heap" \notin lostLocks
  /\ UNCHANGED <<watchdogVars, status, historyVars>>

\* The server has returned: watchdog_keep_running = false.
Post ==
  /\ At("post")
  /\ Goto("loop")
  /\ wdKeep' = FALSE
  /\ early' = (early \/ gKeep)
  /\ UNCHANGED <<telemetryVars, gKeep, serverVars, wd, pending, armed, saved,
                 lostLocks, status, lost, jumped>>

\* The end of the process takes its threads, sockets and pending signals along.
ProcessDies ==
  /\ pc' = "exited"
  /\ open' = 0
  /\ lost' = 0
  /\ path' = IF path \in {"none", "old"} THEN path ELSE "deaf"
  /\ backlog' = <<>>
  /\ conn' = NoClient
  /\ client' = Reset(ClientStates)
  /\ wd' = [t \in Threads |-> "none"]
  /\ pending' = FALSE
  /\ UNCHANGED <<hot, gKeep, line, cooled, wdKeep, armed, saved, lostLocks,
                 jumped, early>>

\* main() has returned; the other threads run until exit() is through.
Return ==
  /\ At("return")
  /\ ProcessDies
  /\ status' = status

----------------------------------------------------------------------------
(* Signals                                                                  *)

\* SIGINT or SIGTERM: handle_shutdown_signal.
Shutdown ==
  /\ gKeep
  /\ pc # "exited"
  /\ gKeep' = FALSE
  /\ UNCHANGED <<telemetryVars, pc, serverVars, watchdogVars, status, historyVars>>

\* The locks of the C library the main thread may be holding at p; "heap" is
\* malloc's, which a thread that waits for it does not hold.
LocksAt(p) ==
  IF ~LibcLocks THEN {}
  ELSE CASE p = "reading" -> {"heap", "stdio"}  \* opendir, fopen, fclose, ...
         [] p = "spawn"   -> {"heap"}           \* the memory of the new thread
         [] p \in {"announce", "cooldown", "post", "return"} -> {"stdio"}
         [] OTHER         -> {}

\* siglongjmp to the fallback branch: the locals of the server are gone, what
\* they referred to stays.
Rollback ==
  /\ pc' = "cooldown"
  /\ status' = "none"
  /\ path' = CASE path = "live" -> "stale" [] path = "bound" -> "deaf" [] OTHER -> path
  /\ client' = [c \in Clients |->
                  CASE client[c] \in {"waiting", "toldCool", "toldHot"} -> "orphan"
                    [] client[c] = "gone" -> "idle"
                    [] OTHER -> client[c]]
  /\ backlog' = <<>>
  /\ conn' = NoClient
  /\ \E locks \in SUBSET LocksAt(pc) : lostLocks' = lostLocks \cup locks
  /\ lost' = lost + Held(pc)
  /\ jumped' = TRUE

\* fallback_signal_handler on the main thread.
Fallback ==
  /\ pending
  /\ pc # "exited"
  /\ pending' = FALSE
  /\ IF armed
       THEN Rollback
       ELSE UNCHANGED <<pc, status, path, client, backlog, conn, lostLocks, lost, jumped>>
  /\ UNCHANGED <<telemetryVars, gKeep, line, cooled, wd, wdKeep, armed, saved, early>>

\* The jump into the frame of main() after it has returned is undefined: it may
\* work as the jumps before it did (Fallback), or destroy the process.
FallbackIntoDeadFrame ==
  /\ pending
  /\ armed
  /\ At("return")
  /\ ProcessDies
  /\ status' = "crashed"

----------------------------------------------------------------------------

MainStep ==
  \/ Loop \/ Install \/ SetJmp \/ Cooldown \/ Keep \/ Spawn \/ SpawnWaits \/ SpawnFails
  \/ Announce \/ Server \/ Post \/ Return

Thread(t) ==
  /\ WatchdogThread(t)
  /\ UNCHANGED <<telemetryVars, pc, gKeep, serverVars, status, historyVars>>

Environment ==
  /\ EnvironmentStep
  /\ UNCHANGED <<watchdogVars, status, historyVars>>

Next ==
  \/ MainStep
  \/ \E t \in Threads : Thread(t)
  \/ Shutdown
  \/ Fallback
  \/ FallbackIntoDeadFrame
  \/ Environment

Spec == Init /\ [][Next]_vars

\* The kernel schedules both threads and delivers a pending signal.  Nothing is
\* promised about the machine, the clients or a shutdown.
Fairness ==
  /\ WF_vars(MainStep)
  /\ WF_vars(Fallback \/ FallbackIntoDeadFrame)
  /\ \A t \in Threads : WF_vars(Thread(t))

FairSpec == Spec /\ Fairness

----------------------------------------------------------------------------
(* Safety                                                                   *)

\* A signal can only find the handler installed and the jump buffer filled:
\* MSP_ARM_FALLBACK_POINT sets the flag before sigsetjmp fills the buffer, and
\* watchdogs of earlier passes may still be running (sandbox_watchdog.h:135).
ArmedBeforeSignalled ==
  pending \/ (\E t \in Threads : Alive(t)) => armed /\ saved

\* While telemetry is served, some watchdog is still to look at the next sample,
\* or its signal is on the way, whatever threads of earlier passes do to the
\* flag they share with it (watchdogd_main.c:185, 229).  One that waits for a lost
\* lock of stdio still counts: ViolationInterrupts excepts it.
NeverUnguarded ==
  pc \in Guarded => /\ wdKeep
                    /\ pending \/ \E t \in Threads : Alive(t)

\* Two watchdogs are alive together only after the server has returned by
\* itself: a fallback never leaves one behind (watchdogd_main.c:168-171).
SoleWatchdog ==
  ~early => \A t, u \in Threads : Alive(t) /\ Alive(u) => t = u

\* Every descriptor is one that the server will still close, or was abandoned
\* by a fallback: no early return and no failed connection keeps one.
FdsAccounted == open = Held(pc) + lost

\* The socket file leads to the current listen_fd from listen() until the loop
\* ends, also after stale files of earlier passes (telemetry_server.c:59-64).
ServingIsReachable == pc \in ServePcs => path = "live"

\* A daemon that never fell back and ends by a shutdown signal leaves no socket
\* file of its own (watchdogd_main.c:141-142, telemetry_server.c:115-116).
CleanExitRemovesSocket == status = "ok" /\ ~jumped => path \in {"none", "old"}

\* The same without the exception, as the comment at watchdogd_main.c:141-142
\* has it: a graceful shutdown does not leave the socket file behind.
ShutdownRemovesSocket == status = "ok" => path \in {"none", "old"}

\* No client is told a cool temperature if the machine was hot all the time
\* since it connected (telemetry_server.c:102-110).
AnswersAreFresh == \A c \in Clients : client[c] = "toldCool" => c \in cooled

----------------------------------------------------------------------------
(* Liveness                                                                 *)

\* A jump out of malloc has left its lock locked, and the main thread waits for it
\* in a reading or in pthread_create.
BlockedOnLock == "heap" \in lostLocks /\ pc \in {"read", "spawnWaits"}

\* After SIGTERM the process ends, from wherever the main thread is and whatever
\* the watchdogs still signal; only a lock that a jump left behind can keep it, in
\* a reading or in pthread_create (watchdogd_main.c:54-61, 161, 194;
\* sandbox_watchdog.c:31).
ShutdownCompletes == ~gKeep ~> pc = "exited" \/ BlockedOnLock

\* A violation that lasts interrupts the server once it serves, or finds it on the
\* way out, as long as the watchdog can report it (sandbox_watchdog.c:79-94).
ViolationInterrupts ==
  hot /\ pc \in ServePcs
    ~> ~hot \/ pc \in {"cooldown", "exited"} \/ "stdio" \in lostLocks

\* What the server and, at the same time, the watchdog need: the listening
\* socket, one connection and two readings.
Descriptors == lost + 2 + 2 * ReadingFds <= FdLimit

\* A query is answered or its client gives up, unless a fallback or a shutdown
\* gets in between, or a fallback before has cost the descriptors or a lock
\* (telemetry_server.c:97-112).
QueriesAreServed ==
  \A c \in Clients :
    client[c] = "waiting" ~> client[c] # "waiting" \/ ~Descriptors \/ BlockedOnLock

\* Once the machine stays cool, the daemon serves again, however many fallbacks
\* there were before, as long as these leave enough descriptors and the locks.
ResumesWithDescriptors ==
  [](Descriptors /\ lostLocks = {}) /\ <>[](~hot /\ gKeep) => []<>(pc = "select")

\* The same without the exception: "re-arms and resumes after a fallback".
Resumes == <>[](~hot /\ gKeep) => []<>(pc = "select")

=============================================================================
