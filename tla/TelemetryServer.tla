--------------------------- MODULE TelemetryServer ---------------------------
(****************************************************************************)
(* msp_telemetry_server_run (telemetry_server.c): one call of it, made by   *)
(* the thread whose program counter is pc, and the clients that query it.   *)
(*                                                                          *)
(* A value of pc names the system call the thread makes next.  The call     *)
(* starts at "socket" and returns by reaching "post".  Nothing here says    *)
(* how often it is called: Watchdogd does.                                  *)
(****************************************************************************)
EXTENDS Telemetry, Sequences

CONSTANTS
  Clients,          \* processes that may query the daemon
  NoClient,
  SocketMayFail     \* may bind() or listen() fail: the directory of the socket
                    \* does not exist, is not writable, ...

VARIABLES
  pc,               \* of the thread that runs the server
  gKeep,            \* g_keep_running, the *keep_running of the server
  path,             \* the socket file: what a connect() to it finds
  backlog,          \* connections the current listen_fd holds, oldest first
  conn,             \* the client behind conn_fd
  line,             \* the line[] built from the last sample
  client,           \* what each client is doing
  cooled            \* history: clients that saw a cool machine since connecting

serverVars == <<path, backlog, conn, line, client, cooled>>

ASSUME ClientsAssumption ==
  /\ NoClient \notin Clients
  /\ SocketMayFail \in BOOLEAN

\* none: no file.  old: left behind by an earlier daemon, nobody listens.
\* bound: of the current listen_fd, which does not listen yet.
\* live: the current listen_fd listens.  stale: of an older listen_fd that is
\* still open and listening, and that nobody accepts from.  deaf: of a socket
\* that is closed or never listened.
PathStates == {"none", "old", "bound", "live", "stale", "deaf"}

\* waiting: connected, reading until EOF.  told...: read a line, not yet EOF.
\* gone: closed its end while in the backlog or being served.  orphan:
\* connected to a socket that nobody serves any more.
ClientStates == {"idle", "waiting", "toldCool", "toldHot", "gone", "orphan"}

SetupPcs   == {"unlinkStale", "bind", "listen"}
ServePcs   == {"serve", "select", "accept", "read", "reading", "write", "close"}
FinishPcs  == {"closeListen", "unlink"}
ServerPcs  == {"socket"} \cup SetupPcs \cup ServePcs \cup FinishPcs

\* The descriptors the locals of the server, and of a reading in progress,
\* refer to when the thread is at p.
Held(p) ==
  CASE p \in SetupPcs \cup {"serve", "select", "accept", "closeListen"} -> 1
    [] p \in {"read", "write", "close"} -> 2
    [] p = "reading" -> 2 + ReadingFds
    [] OTHER -> 0

At(p) == pc = p
Goto(p) == pc' = p

ServerTypeOK ==
  /\ hot \in BOOLEAN
  /\ open \in Nat
  /\ gKeep \in BOOLEAN
  /\ path \in PathStates
  /\ backlog \in Seq(Clients)
  /\ conn \in Clients \cup {NoClient}
  /\ line \in {"cool", "hot"}
  /\ client \in [Clients -> ClientStates]
  /\ cooled \subseteq Clients

ServerInit ==
  /\ hot \in BOOLEAN
  /\ open = 0
  /\ gKeep = TRUE
  /\ path \in {"none", "old"}
  /\ backlog = <<>>
  /\ conn = NoClient
  /\ line = "cool"
  /\ client = [c \in Clients |-> "idle"]
  /\ cooled = {}

----------------------------------------------------------------------------
(* Setting up the listening socket                                          *)

Socket ==
  /\ At("socket")
  /\ IF open < FdLimit
       THEN Goto("unlinkStale") /\ open' = open + 1
       ELSE Goto("post") /\ open' = open
  /\ UNCHANGED <<hot, gKeep, serverVars>>

\* Mutant: binds without removing the file of an earlier run.
SkipUnlinkStale ==
  /\ At("unlinkStale")
  /\ Goto("bind")
  /\ UNCHANGED <<telemetryVars, gKeep, serverVars>>

UnlinkStale ==
  /\ At("unlinkStale")
  /\ Goto("bind")
  /\ path' = "none"
  /\ UNCHANGED <<telemetryVars, gKeep, backlog, conn, line, client, cooled>>

Bind ==
  /\ At("bind")
  /\ path = "none"
  /\ Goto("listen")
  /\ path' = "bound"
  /\ UNCHANGED <<telemetryVars, gKeep, backlog, conn, line, client, cooled>>

\* Mutant: the early return that forgets close(listen_fd).
BindFailsKeepsFd ==
  /\ At("bind")
  /\ SocketMayFail \/ path # "none"
  /\ Goto("post")
  /\ UNCHANGED <<telemetryVars, gKeep, serverVars>>

\* EADDRINUSE, or no permission to create the file.
BindFails ==
  /\ At("bind")
  /\ SocketMayFail \/ path # "none"
  /\ Goto("post")
  /\ open' = open - 1
  /\ UNCHANGED <<hot, gKeep, serverVars>>

Listen ==
  /\ At("listen")
  /\ Goto("serve")
  /\ path' = "live"
  /\ UNCHANGED <<telemetryVars, gKeep, backlog, conn, line, client, cooled>>

\* Mutant: the result of listen() is not looked at.
ListenFailsIgnored ==
  /\ At("listen")
  /\ SocketMayFail
  /\ Goto("serve")
  /\ UNCHANGED <<telemetryVars, gKeep, serverVars>>

\* Closes and unlinks as the normal end does.
ListenFails ==
  /\ At("listen")
  /\ SocketMayFail
  /\ Goto("closeListen")
  /\ UNCHANGED <<telemetryVars, gKeep, serverVars>>

----------------------------------------------------------------------------
(* The service loop                                                         *)

\* Mutant: a loop that does not look at *keep_running.
ServeForever ==
  /\ At("serve")
  /\ Goto("select")
  /\ UNCHANGED <<telemetryVars, gKeep, serverVars>>

Serve ==
  /\ At("serve")
  /\ Goto(IF gKeep THEN "select" ELSE "closeListen")
  /\ UNCHANGED <<telemetryVars, gKeep, serverVars>>

SelectReady ==
  /\ At("select")
  /\ backlog # <<>>
  /\ Goto("accept")
  /\ UNCHANGED <<telemetryVars, gKeep, serverVars>>

\* Mutant: select() with listen_fd for listen_fd + 1 never sees the socket.
SelectIgnoresSocket ==
  /\ At("select")
  /\ Goto("serve")
  /\ UNCHANGED <<telemetryVars, gKeep, serverVars>>

\* The 200 ms pass, or the shutdown signal interrupts the call.
SelectTimesOut ==
  /\ At("select")
  /\ backlog = <<>> \/ ~gKeep
  /\ Goto("serve")
  /\ UNCHANGED <<telemetryVars, gKeep, serverVars>>

Accept ==
  /\ At("accept")
  /\ open < FdLimit
  /\ Goto("read")
  /\ open' = open + 1
  /\ conn' = Head(backlog)
  /\ backlog' = Tail(backlog)
  /\ UNCHANGED <<hot, gKeep, path, line, client, cooled>>

\* EMFILE: the connection stays in the backlog.
AcceptFails ==
  /\ At("accept")
  /\ open >= FdLimit
  /\ Goto("serve")
  /\ UNCHANGED <<telemetryVars, gKeep, serverVars>>

\* Mutant: serves the sample of the previous query again.
ReadReusesLine ==
  /\ At("read")
  /\ Goto("write")
  /\ UNCHANGED <<telemetryVars, gKeep, serverVars>>

\* opendir() and fopen() of the thermal reader.
Read ==
  /\ At("read")
  /\ IF open + ReadingFds <= FdLimit
       THEN Goto("reading") /\ open' = open + ReadingFds /\ line' = line
       ELSE Goto("write") /\ open' = open /\ line' = Reading
  /\ UNCHANGED <<hot, gKeep, path, backlog, conn, client, cooled>>

\* The sample is taken; fclose() and closedir().
EndRead ==
  /\ At("reading")
  /\ Goto("write")
  /\ open' = open - ReadingFds
  /\ line' = IF hot THEN "hot" ELSE "cool"
  /\ UNCHANGED <<hot, gKeep, path, backlog, conn, client, cooled>>

\* write_all(): EPIPE, when the client is gone, is ignored.
Write ==
  /\ At("write")
  /\ Goto("close")
  /\ client' = IF client[conn] = "waiting"
                 THEN [client EXCEPT ![conn] = IF line = "cool" THEN "toldCool" ELSE "toldHot"]
                 ELSE client
  /\ UNCHANGED <<telemetryVars, gKeep, path, backlog, conn, line, cooled>>

\* close(conn_fd): the client reads EOF.
Close ==
  /\ At("close")
  /\ Goto("serve")
  /\ open' = open - 1
  /\ conn' = NoClient
  /\ client' = [client EXCEPT ![conn] = "idle"]
  /\ UNCHANGED <<hot, gKeep, path, backlog, line, cooled>>

\* The clients a set of sockets resets when they are closed for good.
Reset(states) == [c \in Clients |-> IF client[c] \in states THEN "idle" ELSE client[c]]

\* close(listen_fd): what is still in the backlog is reset.
CloseListen ==
  /\ At("closeListen")
  /\ Goto("unlink")
  /\ open' = open - 1
  /\ path' = "deaf"
  /\ backlog' = <<>>
  /\ client' = Reset({"waiting", "gone"})
  /\ UNCHANGED <<hot, gKeep, conn, line, cooled>>

\* Mutant: closes listen_fd a second time.
UnlinkClosesAgain ==
  /\ At("unlink")
  /\ Goto("post")
  /\ open' = open - 1
  /\ path' = "none"
  /\ UNCHANGED <<hot, gKeep, backlog, conn, line, client, cooled>>

\* Mutant: returns without removing the socket file.
UnlinkSkipped ==
  /\ At("unlink")
  /\ Goto("post")
  /\ UNCHANGED <<telemetryVars, gKeep, serverVars>>

Unlink ==
  /\ At("unlink")
  /\ Goto("post")
  /\ path' = "none"
  /\ UNCHANGED <<telemetryVars, gKeep, backlog, conn, line, client, cooled>>

ServerStep ==
  \/ Socket \/ UnlinkStale \/ Bind \/ BindFails \/ Listen \/ ListenFails
  \/ Serve \/ SelectReady \/ SelectTimesOut \/ Accept \/ AcceptFails
  \/ Read \/ EndRead \/ Write \/ Close \/ CloseListen \/ Unlink

----------------------------------------------------------------------------
(* The environment: the machine and the clients (WatchdogTelemetryReader)   *)

Connected(c) == client[c] \in {"waiting", "toldCool", "toldHot", "orphan"}

Heat ==
  /\ ~hot
  /\ hot' = TRUE
  /\ UNCHANGED <<open, pc, gKeep, serverVars>>

Cool ==
  /\ hot
  /\ hot' = FALSE
  /\ cooled' = cooled \cup {c \in Clients : Connected(c)}
  /\ UNCHANGED <<open, pc, gKeep, path, backlog, conn, line, client>>

\* connect() to a socket that listens.  On a stale one it succeeds as well.
Connect(c) ==
  /\ client[c] = "idle"
  /\ \/ /\ path = "live"
        /\ client' = [client EXCEPT ![c] = "waiting"]
        /\ backlog' = Append(backlog, c)
     \/ /\ path = "stale"
        /\ client' = [client EXCEPT ![c] = "orphan"]
        /\ backlog' = backlog
  /\ cooled' = IF hot THEN cooled \ {c} ELSE cooled \cup {c}
  /\ UNCHANGED <<telemetryVars, pc, gKeep, path, conn, line>>

\* The client's 2 s timeout: it closes its end.
GiveUp(c) ==
  /\ client[c] \in {"waiting", "orphan"}
  /\ client' = [client EXCEPT ![c] = IF client[c] = "orphan" THEN "idle" ELSE "gone"]
  /\ UNCHANGED <<telemetryVars, pc, gKeep, path, backlog, conn, line, cooled>>

EnvironmentStep ==
  \/ Heat
  \/ Cool
  \/ \E c \in Clients : Connect(c) \/ GiveUp(c)

=============================================================================
