--------------------------- MODULE DaemonLifecycle ---------------------------
(***************************************************************************)
(* How hyperd processes and hyperctl commands share the two runtime        *)
(* artifacts, the lockfile hyperd.pid and the socket hyperd.sock: the      *)
(* start-up and shutdown of a daemon (runtime.rs, server.rs), the serial   *)
(* accept loop, and the commands daemon start | status | stop, cleanup and *)
(* reset-runtime (client.rs, daemon.rs, maintenance.rs).  Every system     *)
(* call on an artifact is an action of its own, and a daemon may be killed *)
(* between any two of them.                                                *)
(***************************************************************************)
EXTENDS Naturals, Sequences

CONSTANTS
    Daemon,       \* hyperd processes; a process id is used once
    Ctl,          \* hyperctl processes
    Nothing,      \* no file, no process, no connection
    Commands,     \* the commands this instance runs
    Careful,      \* TRUE: commands are run one at a time, never while a
                  \* daemon is starting, and reset-runtime only once the
                  \* daemon has stopped (FALSE: at any time)
    MaxCrashes,   \* bound: daemons killed
    MaxBacklog    \* bound: connections waiting on one listener

ASSUME CommandsAssumption ==
    Commands \subseteq {"start", "status", "stop", "reset"}
ASSUME NoneAssumption ==
    Nothing \notin Daemon /\ Nothing \notin [inode : Daemon, pid : Daemon \union {Nothing}]
ASSUME LifecycleBounds ==
    Careful \in BOOLEAN /\ MaxCrashes \in Nat /\ MaxBacklog \in Nat \ {0}

VARIABLES
    pidFile,      \* hyperd.pid: Nothing, or the process that created the file
                  \* and the process id in it (Nothing while it is empty)
    socket,       \* hyperd.sock: Nothing, or the daemon that bound it
    dpc,          \* where each daemon is
    backlog,      \* connections to a daemon: <<client, request>>
    stopping,     \* the daemon's shutdown channel holds true
    cpc, op,      \* where each command is, and which command it is
    stage,        \* what its current exchange with the daemon is for
    conn, reply,  \* the daemon it is connected to, and whether it answered
    child,        \* the daemon a start command has spawned
    claim,        \* the last answer of a finished command (history)
    crashes

fileVars == <<pidFile, socket>>
daemonVars == <<dpc, backlog, stopping>>
ctlVars == <<cpc, op, stage, conn, reply, child>>
lifecycleVars == <<fileVars, daemonVars, ctlVars, claim, crashes>>

Starting == {"boot", "create", "check", "unlink", "recreate", "write",
             "socket_check", "socket_unlink", "bind"}
DaemonPC == Starting \union {"off", "serving", "drop_socket", "drop_pid",
                             "exiting", "dead"}
CtlPC == {"idle", "connect", "wait", "pid_read", "pid_check", "pid_unlink",
          "sock_check", "sock_connect", "sock_unlink", "spawn",
          "reset_sock", "reset_pid"}
Stage == {"probe", "poll", "ask", "confirm"}
Request == {"status", "shutdown"}
Claim == {"none", "running", "stopped", "already_stopped", "reset", "failed"}

Alive(d) == dpc[d] \notin {"off", "dead"}
Listening(file) == file \in {d \in Daemon : dpc[d] = "serving"}

LifecycleTypeOK ==
    /\ pidFile \in [inode : Daemon, pid : Daemon \union {Nothing}] \union {Nothing}
    /\ socket \in Daemon \union {Nothing}
    /\ dpc \in [Daemon -> DaemonPC]
    /\ DOMAIN backlog = Daemon
    /\ \A d \in Daemon : /\ backlog[d] \in Seq(Ctl \X Request)
                         /\ Len(backlog[d]) <= MaxBacklog
    /\ stopping \in [Daemon -> BOOLEAN]
    /\ cpc \in [Ctl -> CtlPC]
    /\ op \in [Ctl -> Commands \union {"none"}]
    /\ stage \in [Ctl -> Stage]
    /\ conn \in [Ctl -> Daemon \union {Nothing}]
    /\ reply \in [Ctl -> BOOLEAN]
    /\ child \in [Ctl -> Daemon \union {Nothing}]
    /\ claim \in Claim
    /\ crashes \in 0 .. MaxCrashes

LifecycleInit ==
    /\ pidFile = Nothing /\ socket = Nothing
    /\ dpc = [d \in Daemon |-> "off"]
    /\ backlog = [d \in Daemon |-> <<>>]
    /\ stopping = [d \in Daemon |-> FALSE]
    /\ cpc = [c \in Ctl |-> "idle"]
    /\ op = [c \in Ctl |-> "none"]
    /\ stage = [c \in Ctl |-> "probe"]
    /\ conn = [c \in Ctl |-> Nothing]
    /\ reply = [c \in Ctl |-> FALSE]
    /\ child = [c \in Ctl |-> Nothing]
    /\ claim = "none"
    /\ crashes = 0

-----------------------------------------------------------------------------
(* A daemon                                                                *)

DGoto(d, label) == dpc' = [dpc EXCEPT ![d] = label]

NewPidFile(d) == [inode |-> d, pid |-> Nothing]

\* Nothing is under way that a careful operator would wait for.
Quiet == /\ \A c \in Ctl : cpc[c] = "idle"
         /\ \A d \in Daemon : dpc[d] \notin Starting
Stopped == \A d \in Daemon : ~Alive(d)

\* hyperd serve, run by hand or by a supervisor.
Launch(d) ==
    /\ dpc[d] = "off" /\ (Careful => Quiet)
    /\ DGoto(d, "boot")
    /\ claim' = "none"
    /\ UNCHANGED <<fileVars, backlog, stopping, ctlVars, crashes>>

\* Directories are made and the store is opened before the lock is taken.
Bootstrap(d) ==
    /\ dpc[d] = "boot"
    /\ DGoto(d, "create")
    /\ UNCHANGED <<fileVars, backlog, stopping, ctlVars, claim, crashes>>

\* create_new: either the file is ours, or it existed.
CreatePidFile(d) ==
    /\ dpc[d] = "create"
    /\ IF pidFile = Nothing
         THEN pidFile' = NewPidFile(d) /\ DGoto(d, "write")
         ELSE UNCHANGED pidFile /\ DGoto(d, "check")
    /\ UNCHANGED <<socket, backlog, stopping, ctlVars, claim, crashes>>

\* Mutant: whatever the file names is taken for dead.
CheckPidFileTrustsNothing(d) ==
    /\ dpc[d] = "check"
    /\ DGoto(d, "unlink")
    /\ UNCHANGED <<fileVars, backlog, stopping, ctlVars, claim, crashes>>

\* An existing file is stale unless it names a live process; a file that
\* cannot be read or parsed names none.
CheckPidFile(d) ==
    /\ dpc[d] = "check"
    /\ LET pid == IF pidFile = Nothing THEN Nothing ELSE pidFile.pid IN
         IF pid # Nothing /\ Alive(pid) THEN DGoto(d, "exiting") ELSE DGoto(d, "unlink")
    /\ UNCHANGED <<fileVars, backlog, stopping, ctlVars, claim, crashes>>

UnlinkStalePidFile(d) ==
    /\ dpc[d] = "unlink"
    /\ pidFile' = Nothing
    /\ DGoto(d, IF pidFile = Nothing THEN "exiting" ELSE "recreate")
    /\ UNCHANGED <<socket, backlog, stopping, ctlVars, claim, crashes>>

RecreatePidFile(d) ==
    /\ dpc[d] = "recreate"
    /\ IF pidFile = Nothing
         THEN pidFile' = NewPidFile(d) /\ DGoto(d, "write")
         ELSE UNCHANGED pidFile /\ DGoto(d, "exiting")
    /\ UNCHANGED <<socket, backlog, stopping, ctlVars, claim, crashes>>

\* The id goes to the file this process created, linked or not.
WritePid(d) ==
    /\ dpc[d] = "write"
    /\ pidFile' = IF pidFile # Nothing /\ pidFile.inode = d
                    THEN [pidFile EXCEPT !.pid = d] ELSE pidFile
    /\ DGoto(d, "socket_check")
    /\ UNCHANGED <<socket, backlog, stopping, ctlVars, claim, crashes>>

\* Mutant: the socket a killed daemon has left is bound over.
CheckSocketBindsOver(d) ==
    /\ dpc[d] = "socket_check"
    /\ DGoto(d, "bind")
    /\ UNCHANGED <<fileVars, backlog, stopping, ctlVars, claim, crashes>>

CheckSocket(d) ==
    /\ dpc[d] = "socket_check"
    /\ DGoto(d, IF socket = Nothing THEN "bind" ELSE "socket_unlink")
    /\ UNCHANGED <<fileVars, backlog, stopping, ctlVars, claim, crashes>>

\* The guard that drops the artifacts does not exist yet: an error here
\* leaves the pid file behind.
UnlinkStaleSocket(d) ==
    /\ dpc[d] = "socket_unlink"
    /\ socket' = Nothing
    /\ DGoto(d, IF socket = Nothing THEN "exiting" ELSE "bind")
    /\ UNCHANGED <<pidFile, backlog, stopping, ctlVars, claim, crashes>>

Bind(d) ==
    /\ dpc[d] = "bind"
    /\ IF socket = Nothing
         THEN socket' = d /\ DGoto(d, "serving")
         ELSE UNCHANGED socket /\ DGoto(d, "drop_socket")
    /\ UNCHANGED <<pidFile, backlog, stopping, ctlVars, claim, crashes>>

\* The accept loop looks at the shutdown channel before each connection, and
\* serves one connection at a time, to its end.
HandleStatus(d) ==
    /\ dpc[d] = "serving" /\ ~stopping[d]
    /\ backlog[d] # <<>> /\ Head(backlog[d])[2] = "status"
    /\ UNCHANGED stopping

HandleShutdown(d) ==
    /\ dpc[d] = "serving" /\ ~stopping[d]
    /\ backlog[d] # <<>> /\ Head(backlog[d])[2] = "shutdown"
    /\ stopping' = [stopping EXCEPT ![d] = TRUE]

\* The answer reaches the client unless it has given this connection up: a
\* request that is in the backlog is handled all the same.
Serve(d) ==
    /\ HandleStatus(d) \/ HandleShutdown(d)
    /\ LET c == Head(backlog[d])[1]
           rest == Tail(backlog[d])
           given_up == conn[c] # d \/ \E i \in DOMAIN rest : rest[i][1] = c
       IN /\ backlog' = [backlog EXCEPT ![d] = rest]
          /\ reply' = IF given_up THEN reply ELSE [reply EXCEPT ![c] = TRUE]
    /\ UNCHANGED <<fileVars, dpc, cpc, op, stage, conn, child, claim, crashes>>

\* Mutant: the loop ends only when nobody waits.
StopServingWhenIdle(d) ==
    /\ dpc[d] = "serving" /\ stopping[d] /\ backlog[d] = <<>>
    /\ DGoto(d, "drop_socket")
    /\ UNCHANGED <<fileVars, backlog, stopping, ctlVars, claim, crashes>>

\* The loop ends and the listener is dropped with what waits on it.
StopServing(d) ==
    /\ dpc[d] = "serving" /\ stopping[d]
    /\ backlog' = [backlog EXCEPT ![d] = <<>>]
    /\ DGoto(d, "drop_socket")
    /\ UNCHANGED <<fileVars, stopping, ctlVars, claim, crashes>>

\* RuntimeArtifactsGuard::drop removes the files under these names,
\* whoever made them: the socket, then the pid file.
DropSocket(d) ==
    /\ dpc[d] = "drop_socket"
    /\ socket' = Nothing
    /\ DGoto(d, "drop_pid")
    /\ UNCHANGED <<pidFile, backlog, stopping, ctlVars, claim, crashes>>

DropPidFile(d) ==
    /\ dpc[d] = "drop_pid"
    /\ pidFile' = Nothing
    /\ DGoto(d, "exiting")
    /\ UNCHANGED <<socket, backlog, stopping, ctlVars, claim, crashes>>

Exit(d) ==
    /\ dpc[d] = "exiting"
    /\ DGoto(d, "dead")
    /\ UNCHANGED <<fileVars, backlog, stopping, ctlVars, claim, crashes>>

\* Killed: the kernel closes its connections, the files stay.
Crash(d) ==
    /\ Alive(d) /\ crashes < MaxCrashes
    /\ crashes' = crashes + 1
    /\ DGoto(d, "dead")
    /\ backlog' = [backlog EXCEPT ![d] = <<>>]
    /\ UNCHANGED <<fileVars, stopping, ctlVars, claim>>

-----------------------------------------------------------------------------
(* A command                                                               *)

CGoto(c, label) == cpc' = [cpc EXCEPT ![c] = label]

Finish(c, answer) ==
    /\ CGoto(c, "idle")
    /\ op' = [op EXCEPT ![c] = "none"]
    /\ stage' = [stage EXCEPT ![c] = "probe"]
    /\ conn' = [conn EXCEPT ![c] = Nothing]
    /\ reply' = [reply EXCEPT ![c] = FALSE]
    /\ child' = [child EXCEPT ![c] = Nothing]
    /\ claim' = answer

\* Open an exchange with the daemon, for the purpose given.
Exchange(c, purpose) ==
    /\ CGoto(c, "connect")
    /\ stage' = [stage EXCEPT ![c] = purpose]
    /\ conn' = [conn EXCEPT ![c] = Nothing]
    /\ reply' = [reply EXCEPT ![c] = FALSE]

\* Every command first asks for the daemon's status.
Begin(c) ==
    /\ cpc[c] = "idle"
    /\ Careful => Quiet
    /\ \E command \in Commands :
          /\ Careful /\ command = "reset" => Stopped
          /\ op' = [op EXCEPT ![c] = command]
    /\ Exchange(c, "probe")
    /\ claim' = "none"
    /\ UNCHANGED <<fileVars, daemonVars, child, crashes>>

Connect(c) ==
    /\ cpc[c] = "connect"
    /\ Listening(socket) /\ Len(backlog[socket]) < MaxBacklog
    /\ conn' = [conn EXCEPT ![c] = socket]
    /\ backlog' = [backlog EXCEPT ![socket] = Append(@,
          <<c, IF stage[c] = "ask" THEN "shutdown" ELSE "status">>)]
    /\ CGoto(c, "wait")
    /\ UNCHANGED <<fileVars, dpc, stopping, op, stage, reply, child, claim, crashes>>

\* daemon status, doctor and cleanup are done when the daemon answers, and
\* reset-runtime refuses to run.
ProbeAnswered(c) ==
    /\ stage[c] = "probe"
    /\ \/ op[c] = "stop" /\ Exchange(c, "ask") /\ UNCHANGED <<op, child, claim>>
       \/ op[c] \in {"start", "status", "reset"} /\ Finish(c, "running")

PollAnswered(c) == stage[c] = "poll" /\ Finish(c, "running")

ShutdownAnswered(c) ==
    stage[c] = "ask" /\ Exchange(c, "confirm") /\ UNCHANGED <<op, child, claim>>

\* Still there: ask again, until five seconds have passed.
ConfirmAnswered(c) ==
    /\ stage[c] = "confirm"
    /\ \/ Exchange(c, "confirm") /\ UNCHANGED <<op, child, claim>>
       \/ Finish(c, "failed")

Answered(c) ==
    /\ cpc[c] = "wait" /\ reply[c]
    /\ \/ ProbeAnswered(c) \/ PollAnswered(c)
       \/ ShutdownAnswered(c) \/ ConfirmAnswered(c)
    /\ UNCHANGED <<fileVars, daemonVars, crashes>>

\* Nobody listens until the connect timeout, or the answer does not come
\* before the request timeout, or the connection is closed without one.
NoAnswer(c) ==
    \/ cpc[c] = "connect" /\ ~Listening(socket)
    \/ cpc[c] = "wait" /\ ~reply[c]

ProbeFailed(c) ==
    /\ stage[c] = "probe"
    /\ CGoto(c, IF op[c] = "reset" THEN "reset_sock" ELSE "pid_read")
    /\ conn' = [conn EXCEPT ![c] = Nothing]
    /\ UNCHANGED <<op, stage, reply, child, claim>>

\* The child has exited, or the start goes on polling, or its five seconds
\* are over; the daemon it has spawned is left alone.
PollFailed(c) ==
    /\ stage[c] = "poll"
    /\ \/ /\ dpc[child[c]] # "dead"
          /\ Exchange(c, "poll") /\ UNCHANGED <<op, child, claim>>
       \/ Finish(c, "failed")

\* Mutant: an unanswered shutdown request is taken for a granted one.
AskFailedConfirms(c) ==
    stage[c] = "ask" /\ Exchange(c, "confirm") /\ UNCHANGED <<op, child, claim>>

AskFailed(c) == stage[c] = "ask" /\ Finish(c, "failed")

ConfirmFailed(c) == stage[c] = "confirm" /\ Finish(c, "stopped")

Unanswered(c) ==
    /\ NoAnswer(c)
    /\ ProbeFailed(c) \/ PollFailed(c) \/ AskFailed(c) \/ ConfirmFailed(c)
    /\ UNCHANGED <<fileVars, daemonVars, crashes>>

\* cleanup_stale_runtime_artifacts found a live process: start gives up;
\* the others report what they see, and stop reports a stopped daemon.
LivePid(c) == pidFile # Nothing /\ pidFile.pid # Nothing /\ Alive(pidFile.pid)

CleanupDone(c) ==
    \/ /\ op[c] = "start" /\ CGoto(c, "spawn")
       /\ UNCHANGED <<op, stage, conn, reply, child, claim>>
    \/ op[c] = "stop" /\ Finish(c, "already_stopped")
    \/ op[c] = "status" /\ Finish(c, "failed")

\* Mutant: a process that does not answer is taken for a dead one.
ReadPidFileIgnoresLive(c) ==
    /\ cpc[c] = "pid_read"
    /\ CGoto(c, "pid_check")
    /\ UNCHANGED <<fileVars, daemonVars, op, stage, conn, reply, child, claim, crashes>>

ReadPidFile(c) ==
    /\ cpc[c] = "pid_read"
    /\ IF LivePid(c)
         THEN Finish(c, IF op[c] = "stop" THEN "already_stopped" ELSE "failed")
         ELSE /\ CGoto(c, "pid_check")
              /\ UNCHANGED <<op, stage, conn, reply, child, claim>>
    /\ UNCHANGED <<fileVars, daemonVars, crashes>>

\* Any pid file there is by now goes.
PidFileExists(c) ==
    /\ cpc[c] = "pid_check"
    /\ CGoto(c, IF pidFile = Nothing THEN "sock_check" ELSE "pid_unlink")
    /\ UNCHANGED <<fileVars, daemonVars, op, stage, conn, reply, child, claim, crashes>>

RemovePidFile(c) ==
    /\ cpc[c] = "pid_unlink"
    /\ pidFile' = Nothing
    /\ IF pidFile = Nothing
         THEN Finish(c, "failed")
         ELSE /\ CGoto(c, "sock_check")
              /\ UNCHANGED <<op, stage, conn, reply, child, claim>>
    /\ UNCHANGED <<socket, daemonVars, crashes>>

SocketExists(c) ==
    /\ cpc[c] = "sock_check"
    /\ IF socket = Nothing
         THEN CleanupDone(c)
         ELSE /\ CGoto(c, "sock_connect")
              /\ UNCHANGED <<op, stage, conn, reply, child, claim>>
    /\ UNCHANGED <<fileVars, daemonVars, crashes>>

\* The connection is dropped at once: the daemon reads an empty request.
TrySocket(c) ==
    /\ cpc[c] = "sock_connect"
    /\ IF Listening(socket)
         THEN CleanupDone(c)
         ELSE /\ CGoto(c, "sock_unlink")
              /\ UNCHANGED <<op, stage, conn, reply, child, claim>>
    /\ UNCHANGED <<fileVars, daemonVars, crashes>>

RemoveSocket(c) ==
    /\ cpc[c] = "sock_unlink"
    /\ socket' = Nothing
    /\ IF socket = Nothing THEN Finish(c, "failed") ELSE CleanupDone(c)
    /\ UNCHANGED <<pidFile, daemonVars, crashes>>

Spawn(c) ==
    /\ cpc[c] = "spawn"
    /\ \E d \in Daemon :
          /\ dpc[d] = "off"
          /\ DGoto(d, "boot")
          /\ child' = [child EXCEPT ![c] = d]
    /\ Exchange(c, "poll")
    /\ UNCHANGED <<fileVars, backlog, stopping, op, claim, crashes>>

\* The spawn fails; here, only once every process id is used.
SpawnFails(c) ==
    /\ cpc[c] = "spawn" /\ \A d \in Daemon : dpc[d] # "off"
    /\ Finish(c, "failed")
    /\ UNCHANGED <<fileVars, daemonVars, crashes>>

\* reset-runtime removes both names, whoever holds them.
ResetSocket(c) ==
    /\ cpc[c] = "reset_sock"
    /\ socket' = Nothing
    /\ CGoto(c, "reset_pid")
    /\ UNCHANGED <<pidFile, daemonVars, op, stage, conn, reply, child, claim, crashes>>

ResetPidFile(c) ==
    /\ cpc[c] = "reset_pid"
    /\ pidFile' = Nothing
    /\ Finish(c, "reset")
    /\ UNCHANGED <<socket, daemonVars, crashes>>

-----------------------------------------------------------------------------
StartUp(d) == \/ Bootstrap(d) \/ CreatePidFile(d) \/ CheckPidFile(d)
              \/ UnlinkStalePidFile(d) \/ RecreatePidFile(d) \/ WritePid(d)
              \/ CheckSocket(d) \/ UnlinkStaleSocket(d) \/ Bind(d)

ShutDown(d) == StopServing(d) \/ DropSocket(d) \/ DropPidFile(d) \/ Exit(d)

DaemonStep(d) == StartUp(d) \/ Serve(d) \/ ShutDown(d)

Cleanup(c) == \/ ReadPidFile(c) \/ PidFileExists(c) \/ RemovePidFile(c)
              \/ SocketExists(c) \/ TrySocket(c) \/ RemoveSocket(c)

CtlStep(c) == \/ Connect(c) \/ Answered(c) \/ Unanswered(c) \/ Cleanup(c)
              \/ Spawn(c) \/ SpawnFails(c) \/ ResetSocket(c) \/ ResetPidFile(c)

LifecycleNext == \/ \E d \in Daemon : Launch(d) \/ DaemonStep(d) \/ Crash(d)
                 \/ \E c \in Ctl : Begin(c) \/ CtlStep(c)

\* The scheduler of the operating system runs every process; nobody has to
\* type a command, and nothing has to be killed.
Fairness == /\ \A d \in Daemon : WF_lifecycleVars(DaemonStep(d))
            /\ \A c \in Ctl : WF_lifecycleVars(CtlStep(c))

Lifecycle == LifecycleInit /\ [][LifecycleNext]_lifecycleVars /\ Fairness

-----------------------------------------------------------------------------
(* Properties                                                              *)

\* From the moment a daemon has written its id to the moment it removes the
\* file, the lockfile is its own.
LockHeld ==
    \A d \in Daemon :
        dpc[d] \in {"socket_check", "socket_unlink", "bind", "serving", "drop_socket"}
            => pidFile = [inode |-> d, pid |-> d]

\* A daemon that serves can be reached: the socket leads to it.
Reachable == \A d \in Daemon : dpc[d] = "serving" => socket = d

\* A stop that was told by the daemon itself that it shuts down, and then
\* says "daemon stopped", leaves no daemon that would take a request.
StoppedIsStopped ==
    claim = "stopped" => \A d \in Daemon : dpc[d] = "serving" => stopping[d]

\* Whatever crashes have left behind, a daemon that is started when no other
\* one is alive, and is not killed itself, comes to serve on the socket.
StartWorks ==
    \A d \in Daemon :
        (/\ dpc[d] = "boot" /\ \A e \in Daemon \ {d} : ~Alive(e)
         /\ crashes = MaxCrashes)
            ~> (socket = d /\ dpc[d] = "serving")

\* A daemon that has answered a shutdown request goes away.
ShutdownEnds == \A d \in Daemon : stopping[d] ~> ~Alive(d)
=============================================================================
