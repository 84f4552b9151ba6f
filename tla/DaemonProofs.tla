----------------------------- MODULE DaemonProofs -----------------------------
(***************************************************************************)
(* Proofs about the daemon: its processes and artifacts (DaemonLifecycle)  *)
(* and what one of them does for its clients (Requests).                   *)
(*                                                                         *)
(* DaemonLifecycle, for any number of daemons, commands, crashes and       *)
(* waiting connections, when commands are run one at a time and not while  *)
(* a daemon starts (Careful).  The pid file then excludes: at most one     *)
(* daemon gets past it, and only that one removes it, unless a command has *)
(* seen that nobody is left to hold it.                                    *)
(*                                                                         *)
(* Requests: whatever is asked, in any order and number, for any number of *)
(* repositories, contents, buffers, patterns and failures.                 *)
(***************************************************************************)
EXTENDS DaemonLifecycle, Requests, TLAPS

-----------------------------------------------------------------------------
(* The lock                                                                *)

\* From the write of its id to the removal of the file.
Owning == {"socket_check", "socket_unlink", "bind", "serving", "drop_socket", "drop_pid"}
NoOwner == \A d \in Daemon : dpc[d] \notin Owning

\* After the pid file was found stale, to the end of a command's cleanup.
Cleaning == {"pid_check", "pid_unlink", "sock_check", "sock_connect", "sock_unlink", "spawn"}

PlaceTypes ==
    /\ pidFile \in [inode : Daemon, pid : Daemon \union {Nothing}] \union {Nothing}
    /\ socket \in Daemon \union {Nothing}
    /\ dpc \in [Daemon -> DaemonPC]
    /\ cpc \in [Ctl -> CtlPC]
    /\ op \in [Ctl -> Commands \union {"none"}]
    /\ stage \in [Ctl -> Stage]

\* The lock: whose it is while somebody owns it, or is about to.
LockInv ==
    /\ \A d \in Daemon : dpc[d] \in Owning => pidFile = [inode |-> d, pid |-> d]
    /\ \A d \in Daemon : dpc[d] = "write" => pidFile = NewPidFile(d)
    /\ \A d \in Daemon : dpc[d] = "unlink" => NoOwner
    /\ \A c \in Ctl : cpc[c] \in Cleaning => NoOwner

\* One command at a time, one daemon starting at a time, and both only when
\* the command waits for the daemon it has spawned.
SerialInv ==
    /\ \A c, e \in Ctl : cpc[c] # "idle" /\ cpc[e] # "idle" => c = e
    /\ \A d, e \in Daemon : dpc[d] \in Starting /\ dpc[e] \in Starting => d = e
    /\ \A c \in Ctl, d \in Daemon :
          cpc[c] # "idle" /\ dpc[d] \in Starting =>
              stage[c] = "poll" /\ cpc[c] \in {"connect", "wait"}

\* A reset runs when no daemon is alive, and only a start spawns.
ResetInv ==
    /\ \A c \in Ctl : cpc[c] # "idle" /\ op[c] = "reset" => Stopped
    /\ \A c \in Ctl : cpc[c] \in {"reset_sock", "reset_pid"} => op[c] = "reset"
    /\ \A c \in Ctl : cpc[c] = "spawn" => op[c] = "start"

LifecycleInv == PlaceTypes /\ LockInv /\ SerialInv /\ ResetInv /\ Reachable

LEMMA InitLifecycle == LifecycleInit => LifecycleInv
BY DEF LifecycleInit, LifecycleInv, PlaceTypes, LockInv, SerialInv, ResetInv, Reachable, NoOwner, Owning,
       Cleaning, Starting, DaemonPC, CtlPC, Stage, Stopped, Alive

LEMMA DaemonInv ==
  ASSUME Careful, LifecycleInv, NEW d \in Daemon, Launch(d) \/ DaemonStep(d) \/ Crash(d)
  PROVE  LifecycleInv'
<1> USE NoneAssumption DEF LifecycleInv, PlaceTypes, LockInv, SerialInv, ResetInv, Reachable, NoOwner,
      Owning, Cleaning, Starting, DaemonPC, Stopped, Alive, DGoto, NewPidFile,
      fileVars, ctlVars
<1>1. CASE Launch(d)
  BY <1>1 DEF Launch, Quiet
<1>2. CASE Bootstrap(d)
  BY <1>2 DEF Bootstrap
<1>3. CASE CreatePidFile(d)
  <2>1. PlaceTypes'
    BY <1>3 DEF CreatePidFile
  <2>2. LockInv'
    <3>1. CASE pidFile = Nothing
      <4>1. NoOwner
        BY <3>1
      <4> QED BY <1>3, <3>1, <4>1 DEF CreatePidFile
    <3>2. CASE pidFile # Nothing
      BY <1>3, <3>2 DEF CreatePidFile
    <3> QED BY <3>1, <3>2
  <2>3. SerialInv'
    BY <1>3 DEF CreatePidFile
  <2>4. ResetInv' /\ Reachable'
    BY <1>3 DEF CreatePidFile
  <2> QED BY <2>1, <2>2, <2>3, <2>4
<1>4. CASE CheckPidFile(d)
  <2>1. PlaceTypes'
    BY <1>4 DEF CheckPidFile
  <2>2. LockInv'
    <3>1. CASE dpc' = [dpc EXCEPT ![d] = "unlink"]
      <4>1. NoOwner
        BY <1>4, <3>1 DEF CheckPidFile
      <4> QED BY <1>4, <3>1, <4>1 DEF CheckPidFile
    <3>2. CASE dpc' = [dpc EXCEPT ![d] = "exiting"]
      BY <1>4, <3>2 DEF CheckPidFile
    <3> QED BY <1>4, <3>1, <3>2 DEF CheckPidFile
  <2>3. SerialInv'
    BY <1>4 DEF CheckPidFile
  <2>4. ResetInv' /\ Reachable'
    BY <1>4 DEF CheckPidFile
  <2> QED BY <2>1, <2>2, <2>3, <2>4
<1>5. CASE UnlinkStalePidFile(d)
  BY <1>5 DEF UnlinkStalePidFile
<1>6. CASE RecreatePidFile(d)
  <2>1. PlaceTypes'
    BY <1>6 DEF RecreatePidFile
  <2>2. LockInv'
    <3>1. CASE pidFile = Nothing
      <4>1. NoOwner
        BY <3>1
      <4> QED BY <1>6, <3>1, <4>1 DEF RecreatePidFile
    <3>2. CASE pidFile # Nothing
      BY <1>6, <3>2 DEF RecreatePidFile
    <3> QED BY <3>1, <3>2
  <2>3. SerialInv'
    BY <1>6 DEF RecreatePidFile
  <2>4. ResetInv' /\ Reachable'
    BY <1>6 DEF RecreatePidFile
  <2> QED BY <2>1, <2>2, <2>3, <2>4
<1>7. CASE WritePid(d)
  <2>1. PlaceTypes'
    BY <1>7 DEF WritePid
  <2>2. LockInv'
    <3>1. pidFile = [inode |-> d, pid |-> Nothing] /\ pidFile' = [inode |-> d, pid |-> d]
      BY <1>7 DEF WritePid
    <3>2. \A e \in Daemon : dpc[e] \notin Owning /\ (e # d => dpc[e] \notin Starting)
      BY <1>7, <3>1 DEF WritePid
    <3>3. \A c \in Ctl : cpc[c] \notin Cleaning
      BY <1>7 DEF WritePid
    <3> QED BY <1>7, <3>1, <3>2, <3>3 DEF WritePid
  <2>3. SerialInv'
    BY <1>7 DEF WritePid
  <2>4. ResetInv' /\ Reachable'
    BY <1>7 DEF WritePid
  <2> QED BY <2>1, <2>2, <2>3, <2>4
<1>8. CASE CheckSocket(d)
  BY <1>8 DEF CheckSocket
<1>9. CASE UnlinkStaleSocket(d)
  BY <1>9 DEF UnlinkStaleSocket
<1>10. CASE Bind(d)
  BY <1>10 DEF Bind
<1>11. CASE Serve(d)
  BY <1>11 DEF Serve
<1>12. CASE StopServing(d)
  BY <1>12 DEF StopServing
<1>13. CASE DropSocket(d)
  BY <1>13 DEF DropSocket
<1>14. CASE DropPidFile(d)
  BY <1>14 DEF DropPidFile
<1>15. CASE Exit(d)
  BY <1>15 DEF Exit
<1>16. CASE Crash(d)
  BY <1>16 DEF Crash
<1> QED
  BY <1>1, <1>2, <1>3, <1>4, <1>5, <1>6, <1>7, <1>8, <1>9, <1>10, <1>11, <1>12, <1>13,
     <1>14, <1>15, <1>16 DEF DaemonStep, StartUp, ShutDown

LEMMA CtlInv ==
  ASSUME Careful, LifecycleInv, NEW c \in Ctl, Begin(c) \/ CtlStep(c)
  PROVE  LifecycleInv'
<1> USE NoneAssumption, CommandsAssumption
    DEF LifecycleInv, PlaceTypes, LockInv, SerialInv, ResetInv, Reachable, NoOwner,
      Owning, Cleaning, Starting, DaemonPC, CtlPC, Stage, Stopped, Alive, CGoto,
      fileVars, daemonVars
<1>1. CASE Begin(c)
  BY <1>1 DEF Begin, Quiet, Exchange
<1>2. CASE Connect(c)
  BY <1>2 DEF Connect
<1>3. CASE Answered(c)
  BY <1>3 DEF Answered, ProbeAnswered, PollAnswered, ShutdownAnswered, ConfirmAnswered,
     Exchange, Finish
<1>4. CASE Unanswered(c)
  BY <1>4 DEF Unanswered, NoAnswer, ProbeFailed, PollFailed, AskFailed, ConfirmFailed,
     Exchange, Finish
<1>5. CASE ReadPidFile(c)
  BY <1>5 DEF ReadPidFile, LivePid, Finish
<1>6. CASE PidFileExists(c)
  BY <1>6 DEF PidFileExists
<1>7. CASE RemovePidFile(c)
  BY <1>7 DEF RemovePidFile, Finish
<1>8. CASE SocketExists(c)
  BY <1>8 DEF SocketExists, CleanupDone, Finish
<1>9. CASE TrySocket(c)
  BY <1>9 DEF TrySocket, CleanupDone, Finish
<1>10. CASE RemoveSocket(c)
  BY <1>10 DEF RemoveSocket, CleanupDone, Finish
<1>11. CASE Spawn(c)
  BY <1>11 DEF Spawn, Exchange, DGoto
<1>12. CASE SpawnFails(c)
  BY <1>12 DEF SpawnFails, Finish
<1>13. CASE ResetSocket(c)
  BY <1>13 DEF ResetSocket
<1>14. CASE ResetPidFile(c)
  BY <1>14 DEF ResetPidFile, Finish
<1> QED
  BY <1>1, <1>2, <1>3, <1>4, <1>5, <1>6, <1>7, <1>8, <1>9, <1>10, <1>11, <1>12, <1>13,
     <1>14 DEF CtlStep, Cleanup

LEMMA StepLifecycle ==
  ASSUME Careful
  PROVE  LifecycleInv /\ [LifecycleNext]_lifecycleVars => LifecycleInv'
<1> SUFFICES ASSUME LifecycleInv, [LifecycleNext]_lifecycleVars PROVE LifecycleInv'
  OBVIOUS
<1>1. CASE UNCHANGED lifecycleVars
  BY <1>1 DEF lifecycleVars, fileVars, daemonVars, ctlVars, LifecycleInv, PlaceTypes, LockInv, SerialInv,
              ResetInv, Reachable, NoOwner, Stopped, Alive, NewPidFile
<1> QED BY <1>1, DaemonInv, CtlInv DEF LifecycleNext

LEMMA LifecycleInvAlways ==
  ASSUME Careful
  PROVE  Lifecycle => []LifecycleInv
BY InitLifecycle, StepLifecycle, PTL DEF Lifecycle

\* Run with care, daemons and commands keep the lock: from the write of its
\* id to the removal of its socket, the pid file is the daemon's own, so no
\* two daemons are past it, whatever is killed and whenever.
THEOREM LockIsHeld ==
  ASSUME Careful
  PROVE  Lifecycle => []LockHeld
<1>1. LifecycleInv => LockHeld
  BY DEF LifecycleInv, LockInv, LockHeld, Owning
<1> QED BY <1>1, LifecycleInvAlways, PTL

\* Run with care, a daemon that serves is the one that the socket leads to:
\* nobody else binds it, unlinks it as stale or drops it meanwhile.
THEOREM ServingIsReachable ==
  ASSUME Careful
  PROVE  Lifecycle => []Reachable
<1>1. LifecycleInv => Reachable
  BY DEF LifecycleInv
<1> QED BY <1>1, LifecycleInvAlways, PTL

-----------------------------------------------------------------------------
(* What a stop may conclude                                                *)

ExchangeTypes ==
    /\ backlog \in [Daemon -> Seq(Ctl \X Request)]
    /\ stopping \in [Daemon -> BOOLEAN]
    /\ conn \in [Ctl -> Daemon \union {Nothing}]
    /\ reply \in [Ctl -> BOOLEAN]

Ending == \A d \in Daemon : dpc[d] = "serving" => stopping[d]

\* Of the requests of a command that wait on one daemon, the last is the one
\* it waits for; those before it, it has given up.
LastIsShutdown(c, queue) ==
    \A i \in 1..Len(queue) :
        queue[i][1] = c /\ (\A j \in 1..Len(queue) : j > i => queue[j][1] # c)
            => queue[i][2] = "shutdown"

\* An answer to the request to stop comes from the daemon that serves, and it
\* has stopped taking requests by then.
StopInv ==
    /\ \A c \in Ctl : cpc[c] = "connect" => conn[c] = Nothing /\ ~reply[c]
    /\ \A c \in Ctl : cpc[c] = "wait" /\ stage[c] = "ask" =>
          \A d \in Daemon : conn[c] = d => LastIsShutdown(c, backlog[d])
    /\ \A c \in Ctl : cpc[c] = "wait" /\ stage[c] = "ask" /\ reply[c] => Ending
    /\ \A c \in Ctl : cpc[c] # "idle" /\ stage[c] = "confirm" => Ending
    /\ claim = "stopped" =>
          /\ Ending /\ \A c \in Ctl : cpc[c] = "idle"
          /\ \A d \in Daemon : dpc[d] \notin Starting

StoppedInv == ExchangeTypes /\ StopInv

LEMMA InitStopped == LifecycleInit => StoppedInv
BY DEF LifecycleInit, StoppedInv, ExchangeTypes, StopInv

\* A daemon that answers the request to stop is the only one that serves.
LEMMA ServeStopped ==
  ASSUME Careful, LifecycleInv, StoppedInv, NEW d \in Daemon, Serve(d)
  PROVE  StoppedInv'
<1> DEFINE queue == backlog[d]
           c == Head(queue)[1]
           rest == Tail(queue)
<1>1. /\ dpc[d] = "serving" /\ queue # <<>> /\ queue \in Seq(Ctl \X Request)
      /\ UNCHANGED <<fileVars, dpc, cpc, op, stage, conn, child, claim, crashes>>
      /\ backlog' = [backlog EXCEPT ![d] = rest]
  BY DEF Serve, HandleStatus, HandleShutdown, StoppedInv, ExchangeTypes
<1>2. /\ queue[1] \in Ctl \X Request /\ Head(queue) = queue[1] /\ c \in Ctl
      /\ rest \in Seq(Ctl \X Request) /\ Len(rest) = Len(queue) - 1
      /\ \A i \in 1..Len(rest) : rest[i] = queue[i + 1]
  BY <1>1
<1>3. /\ stopping' \in {stopping, [stopping EXCEPT ![d] = TRUE]}
      /\ queue[1][2] = "shutdown" => stopping' = [stopping EXCEPT ![d] = TRUE]
  BY <1>1, <1>2 DEF Serve, HandleStatus, HandleShutdown
<1>4. \/ reply' = reply
      \/ /\ conn[c] = d /\ \A i \in 1..Len(rest) : rest[i][1] # c
         /\ reply' = [reply EXCEPT ![c] = TRUE]
  <2>1. reply' = IF conn[c] # d \/ \E i \in DOMAIN rest : rest[i][1] = c
                   THEN reply ELSE [reply EXCEPT ![c] = TRUE]
    BY Zenon DEF Serve
  <2>2. DOMAIN rest = 1..Len(rest)
    BY <1>2
  <2> HIDE DEF c, rest
  <2> QED BY <2>1, <2>2
<1> HIDE DEF c, rest, queue
<1>5. ExchangeTypes'
  BY <1>1, <1>2, <1>3, <1>4 DEF StoppedInv, ExchangeTypes
<1>6. Ending => Ending'
  BY <1>1, <1>3 DEF Ending, StoppedInv, ExchangeTypes
<1>7. \A x \in Ctl : cpc[x] = "connect" => conn'[x] = Nothing /\ ~reply'[x]
  BY <1>1, <1>2, <1>4, NoneAssumption DEF StoppedInv, StopInv, ExchangeTypes
<1>8. ASSUME NEW x \in Ctl, cpc[x] = "wait", stage[x] = "ask", NEW e \in Daemon, conn[x] = e
      PROVE  LastIsShutdown(x, backlog'[e])
  <2>1. LastIsShutdown(x, backlog[e])
    BY <1>8 DEF StoppedInv, StopInv
  <2>2. CASE e = d
    <3>1. backlog'[e] = rest
      BY <1>1, <2>2 DEF StoppedInv, ExchangeTypes
    <3>2. LastIsShutdown(x, queue)
      BY <2>1, <2>2 DEF queue
    <3>3. Len(queue) \in Nat
      BY <1>1
    <3> SUFFICES ASSUME NEW i \in 1..Len(rest), rest[i][1] = x,
                        \A j \in 1..Len(rest) : j > i => rest[j][1] # x
                 PROVE  rest[i][2] = "shutdown"
      BY <3>1 DEF LastIsShutdown
    <3>4. i + 1 \in 1..Len(queue) /\ queue[i + 1] = rest[i]
      BY <1>2, <3>3
    <3>5. ASSUME NEW j \in 1..Len(queue), j > i + 1 PROVE queue[j][1] # x
      <4>1. j - 1 \in 1..Len(rest) /\ j - 1 > i /\ rest[j - 1] = queue[j]
        BY <1>2, <3>3, <3>5
      <4> QED BY <4>1
    <3> QED BY <3>2, <3>4, <3>5 DEF LastIsShutdown
  <2>3. CASE e # d
    BY <1>1, <2>1, <2>3 DEF StoppedInv, ExchangeTypes
  <2> QED BY <2>2, <2>3
<1>9. ASSUME NEW x \in Ctl, cpc[x] = "wait", stage[x] = "ask", reply'[x]
      PROVE  Ending'
  <2>1. CASE reply[x]
    BY <1>6, <1>9, <2>1 DEF StoppedInv, StopInv
  <2>2. CASE ~reply[x]
    <3>1. x = c /\ conn[c] = d /\ \A i \in 1..Len(rest) : rest[i][1] # c
      BY <1>2, <1>4, <1>9, <2>2 DEF StoppedInv, ExchangeTypes
    <3>2. LastIsShutdown(c, queue)
      BY <1>9, <3>1 DEF StoppedInv, StopInv, queue
    <3>3. 1 \in 1..Len(queue) /\ queue[1][1] = c /\ Len(queue) \in Nat
      BY <1>1, <1>2 DEF c
    <3>4. ASSUME NEW j \in 1..Len(queue), j > 1 PROVE queue[j][1] # c
      <4>1. j - 1 \in 1..Len(rest) /\ rest[j - 1] = queue[j]
        BY <1>2, <3>3, <3>4
      <4> QED BY <3>1, <4>1
    <3>5. queue[1][2] = "shutdown"
      BY <3>2, <3>3, <3>4 DEF LastIsShutdown
    <3>6. \A e \in Daemon : dpc[e] = "serving" => e = d
      BY <1>1 DEF LifecycleInv, LockInv, Owning
    <3> QED BY <1>1, <1>3, <3>5, <3>6 DEF Ending, StoppedInv, ExchangeTypes
  <2> QED BY <2>1, <2>2
<1> QED BY <1>1, <1>5, <1>6, <1>7, <1>8, <1>9 DEF StoppedInv, StopInv

LEMMA DaemonStopped ==
  ASSUME Careful, LifecycleInv, StoppedInv, NEW d \in Daemon, Launch(d) \/ DaemonStep(d) \/ Crash(d)
  PROVE  StoppedInv'
<1> USE DEF LifecycleInv, PlaceTypes, SerialInv, StoppedInv, ExchangeTypes, StopInv, Ending,
      Starting, DGoto, fileVars, ctlVars
<1>1. CASE Launch(d)
  BY <1>1 DEF Launch, Quiet
<1>2. CASE Bootstrap(d)
  BY <1>2 DEF Bootstrap
<1>3. CASE CreatePidFile(d)
  BY <1>3 DEF CreatePidFile
<1>4. CASE CheckPidFile(d)
  BY <1>4 DEF CheckPidFile
<1>5. CASE UnlinkStalePidFile(d)
  <2>1. /\ dpc[d] = "unlink" /\ \E to \in {"exiting", "recreate"} : dpc' = [dpc EXCEPT ![d] = to]
        /\ UNCHANGED <<backlog, stopping, ctlVars, claim>>
    BY <1>5 DEF UnlinkStalePidFile
  <2> QED BY <2>1
<1>6. CASE RecreatePidFile(d)
  BY <1>6 DEF RecreatePidFile
<1>7. CASE WritePid(d)
  BY <1>7 DEF WritePid
<1>8. CASE CheckSocket(d)
  BY <1>8 DEF CheckSocket
<1>9. CASE UnlinkStaleSocket(d)
  BY <1>9 DEF UnlinkStaleSocket
<1>10. CASE Bind(d)
  <2>1. /\ dpc[d] = "bind" /\ \E to \in {"serving", "drop_socket"} : dpc' = [dpc EXCEPT ![d] = to]
        /\ UNCHANGED <<backlog, stopping, ctlVars, claim>>
    BY <1>10 DEF Bind
  <2>2. \A c \in Ctl : cpc[c] # "idle" => stage[c] = "poll"
    BY <2>1
  <2>3. claim # "stopped"
    BY <2>1
  <2> QED BY <2>1, <2>2, <2>3
<1>11. CASE Serve(d)
  BY <1>11, ServeStopped
<1>12. CASE StopServing(d)
  <2>1. /\ backlog' = [backlog EXCEPT ![d] = <<>>]
        /\ \E to \in {"drop_socket", "dead"} : dpc' = [dpc EXCEPT ![d] = to]
        /\ UNCHANGED <<stopping, ctlVars, claim>>
    BY <1>12 DEF StopServing
  <2>2. \A c \in Ctl : LastIsShutdown(c, <<>>)
    BY DEF LastIsShutdown
  <2>3. \A c \in Ctl, e \in Daemon : LastIsShutdown(c, backlog[e]) => LastIsShutdown(c, backlog'[e])
    BY <2>1, <2>2
  <2>4. ExchangeTypes'
    BY <2>1
  <2>5. Ending => Ending'
    BY <2>1
  <2> QED BY <2>1, <2>3, <2>4, <2>5
<1>13. CASE DropSocket(d)
  BY <1>13 DEF DropSocket
<1>14. CASE DropPidFile(d)
  BY <1>14 DEF DropPidFile
<1>15. CASE Exit(d)
  BY <1>15 DEF Exit
<1>16. CASE Crash(d)
  <2>1. /\ backlog' = [backlog EXCEPT ![d] = <<>>]
        /\ \E to \in {"drop_socket", "dead"} : dpc' = [dpc EXCEPT ![d] = to]
        /\ UNCHANGED <<stopping, ctlVars, claim>>
    BY <1>16 DEF Crash
  <2>2. \A c \in Ctl : LastIsShutdown(c, <<>>)
    BY DEF LastIsShutdown
  <2>3. \A c \in Ctl, e \in Daemon : LastIsShutdown(c, backlog[e]) => LastIsShutdown(c, backlog'[e])
    BY <2>1, <2>2
  <2>4. ExchangeTypes'
    BY <2>1
  <2>5. Ending => Ending'
    BY <2>1
  <2> QED BY <2>1, <2>3, <2>4, <2>5
<1> QED
  BY <1>1, <1>2, <1>3, <1>4, <1>5, <1>6, <1>7, <1>8, <1>9, <1>10, <1>11, <1>12, <1>13,
     <1>14, <1>15, <1>16 DEF DaemonStep, StartUp, ShutDown

\* The request a command has just sent is the last of its own.
LEMMA ConnectStopped ==
  ASSUME Careful, LifecycleInv, StoppedInv, NEW c \in Ctl, Connect(c)
  PROVE  StoppedInv'
<1> DEFINE new == <<c, IF stage[c] = "ask" THEN "shutdown" ELSE "status">>
           queue == backlog[socket]
<1>1. /\ socket \in Daemon /\ cpc[c] = "connect"
      /\ conn' = [conn EXCEPT ![c] = socket]
      /\ backlog' = [backlog EXCEPT ![socket] = Append(queue, new)]
      /\ cpc' = [cpc EXCEPT ![c] = "wait"]
      /\ UNCHANGED <<fileVars, dpc, stopping, op, stage, reply, child, claim, crashes>>
  BY DEF Connect, Listening, CGoto
<1>2. queue \in Seq(Ctl \X Request) /\ new \in Ctl \X Request
  BY <1>1 DEF StoppedInv, ExchangeTypes, Request
<1>3. /\ Len(Append(queue, new)) = Len(queue) + 1 /\ Len(queue) \in Nat
      /\ Append(queue, new) \in Seq(Ctl \X Request)
      /\ Append(queue, new)[Len(queue) + 1] = new
  BY <1>2
<1>4. ExchangeTypes'
  BY <1>1, <1>3 DEF StoppedInv, ExchangeTypes
<1>5. \A x \in Ctl : x # c => cpc'[x] = "idle"
  BY <1>1 DEF LifecycleInv, SerialInv, PlaceTypes
<1>6. cpc'[c] = "wait" /\ ~reply'[c] /\ conn'[c] = socket
  BY <1>1 DEF StoppedInv, StopInv, ExchangeTypes, LifecycleInv, PlaceTypes
<1>7. stage[c] = "ask" => LastIsShutdown(c, backlog'[socket])
  <2> SUFFICES ASSUME stage[c] = "ask", NEW i \in 1..(Len(queue) + 1),
                      \A j \in 1..(Len(queue) + 1) : j > i => Append(queue, new)[j][1] # c
               PROVE  Append(queue, new)[i][2] = "shutdown"
    BY <1>1, <1>3 DEF StoppedInv, ExchangeTypes, LastIsShutdown
  <2>1. new[1] = c /\ new[2] = "shutdown"
    OBVIOUS
  <2> HIDE DEF new, queue
  <2>2. Len(queue) + 1 \in 1..(Len(queue) + 1)
    BY <1>3
  <2>3. ~(Len(queue) + 1 > i)
    BY <1>3, <2>1, <2>2
  <2>4. i = Len(queue) + 1
    BY <1>3, <2>3
  <2> QED BY <1>3, <2>1, <2>4
<1>8. claim # "stopped"
  BY <1>1 DEF StoppedInv, StopInv
<1> HIDE DEF new, queue
<1>9. stage[c] = "confirm" => Ending'
  BY <1>1 DEF StoppedInv, StopInv, Ending
<1> QED BY <1>1, <1>4, <1>5, <1>6, <1>7, <1>8, <1>9, NoneAssumption DEF StoppedInv, StopInv

\* A command that ends says "daemon stopped" only when it has been told so.
LEMMA FinishStopped ==
  ASSUME Careful, LifecycleInv, StoppedInv, NEW c \in Ctl, cpc[c] # "idle", NEW told,
         Finish(c, told), UNCHANGED <<dpc, backlog, stopping>>,
         told = "stopped" => stage[c] = "confirm"
  PROVE  StoppedInv'
<1> USE DEF LifecycleInv, PlaceTypes, SerialInv, StoppedInv, ExchangeTypes, StopInv, Ending, Starting,
      Finish, CGoto
<1>1. \A x \in Ctl : cpc'[x] = "idle"
  OBVIOUS
<1>2. ExchangeTypes'
  OBVIOUS
<1>3. claim' = "stopped" => Ending' /\ \A d \in Daemon : dpc'[d] \notin Starting
  OBVIOUS
<1> QED BY <1>1, <1>2, <1>3

\* A command that asks again, or for something else.
LEMMA ExchangeStopped ==
  ASSUME Careful, LifecycleInv, StoppedInv, NEW c \in Ctl, cpc[c] # "idle", NEW purpose,
         Exchange(c, purpose), UNCHANGED <<dpc, backlog, stopping, claim>>,
         purpose = "confirm" => Ending
  PROVE  StoppedInv'
<1> USE DEF LifecycleInv, PlaceTypes, SerialInv, StoppedInv, ExchangeTypes, StopInv, Ending, Starting,
      Exchange, CGoto
<1>1. \A x \in Ctl \ {c} : cpc'[x] = "idle"
  OBVIOUS
<1>2. ExchangeTypes'
  OBVIOUS
<1>3. cpc'[c] = "connect" /\ conn'[c] = Nothing /\ ~reply'[c] /\ stage'[c] = purpose
  OBVIOUS
<1>4. claim' # "stopped"
  OBVIOUS
<1> QED BY <1>1, <1>2, <1>3, <1>4

\* A command that goes on without an exchange.
LEMMA GotoStopped ==
  ASSUME Careful, LifecycleInv, StoppedInv, NEW c \in Ctl, cpc[c] # "idle",
         NEW label \in CtlPC \ {"idle", "connect", "wait"},
         CGoto(c, label), UNCHANGED <<dpc, backlog, stopping, stage, reply, claim>>,
         conn' \in {conn, [conn EXCEPT ![c] = Nothing]}
  PROVE  StoppedInv'
<1> USE DEF LifecycleInv, PlaceTypes, SerialInv, StoppedInv, ExchangeTypes, StopInv, Ending, Starting, CGoto
<1>1. \A x \in Ctl \ {c} : cpc'[x] = "idle"
  OBVIOUS
<1>2. conn' \in [Ctl -> Daemon \union {Nothing}]
  <2>1. CASE conn' = conn
    BY <2>1
  <2>2. CASE conn' = [conn EXCEPT ![c] = Nothing]
    BY <2>2
  <2> QED BY <2>1, <2>2
<1>3. ExchangeTypes'
  BY <1>2
<1>4. cpc'[c] \notin {"idle", "connect", "wait"}
  OBVIOUS
<1>5. stage[c] = "confirm" => Ending'
  OBVIOUS
<1>6. claim' # "stopped"
  OBVIOUS
<1>7. StopInv'
  <2>1. \A x \in Ctl : cpc'[x] \notin {"connect", "wait"}
    BY <1>1, <1>4
  <2>2. \A x \in Ctl : cpc'[x] # "idle" /\ stage'[x] = "confirm" => Ending'
    BY <1>1, <1>5
  <2> QED BY <2>1, <2>2, <1>6
<1> QED BY <1>3, <1>7

LEMMA CtlStopped ==
  ASSUME Careful, LifecycleInv, StoppedInv, NEW c \in Ctl, Begin(c) \/ CtlStep(c)
  PROVE  StoppedInv'
<1> USE DEF fileVars, daemonVars
<1>1. CASE Begin(c)
  BY <1>1, NoneAssumption
     DEF Begin, Quiet, Exchange, LifecycleInv, PlaceTypes, SerialInv, StoppedInv, ExchangeTypes,
         StopInv, Ending, Starting, CGoto
<1>2. CASE Connect(c)
  BY <1>2, ConnectStopped
<1>3. CASE Answered(c)
  <2>1. cpc[c] = "wait" /\ cpc[c] # "idle" /\ reply[c] /\ UNCHANGED <<dpc, backlog, stopping>>
    BY <1>3 DEF Answered
  <2>2. CASE ProbeAnswered(c)
    BY <2>1, <2>2, FinishStopped, ExchangeStopped DEF ProbeAnswered
  <2>3. CASE PollAnswered(c)
    BY <2>1, <2>3, FinishStopped DEF PollAnswered
  <2>4. CASE ShutdownAnswered(c)
    <3>1. Ending
      BY <2>1, <2>4 DEF ShutdownAnswered, StoppedInv, StopInv
    <3> QED BY <2>1, <2>4, <3>1, ExchangeStopped DEF ShutdownAnswered
  <2>5. CASE ConfirmAnswered(c)
    <3>1. Ending
      BY <2>1, <2>5 DEF ConfirmAnswered, StoppedInv, StopInv
    <3> QED BY <2>1, <2>5, <3>1, ExchangeStopped, FinishStopped DEF ConfirmAnswered
  <2> QED BY <1>3, <2>2, <2>3, <2>4, <2>5 DEF Answered
<1>4. CASE Unanswered(c)
  <2>1. cpc[c] # "idle" /\ UNCHANGED <<dpc, backlog, stopping>>
    BY <1>4 DEF Unanswered, NoAnswer
  <2>2. CASE ProbeFailed(c)
    BY <2>1, <2>2, GotoStopped DEF ProbeFailed, CtlPC
  <2>3. CASE PollFailed(c)
    BY <2>1, <2>3, FinishStopped, ExchangeStopped DEF PollFailed
  <2>4. CASE AskFailed(c)
    BY <2>1, <2>4, FinishStopped DEF AskFailed
  <2>5. CASE ConfirmFailed(c)
    BY <2>1, <2>5, FinishStopped DEF ConfirmFailed
  <2> QED BY <1>4, <2>2, <2>3, <2>4, <2>5 DEF Unanswered
<1>5. ASSUME cpc[c] # "idle", UNCHANGED <<dpc, backlog, stopping>>, CleanupDone(c)
      PROVE  StoppedInv'
  BY <1>5, FinishStopped, GotoStopped DEF CleanupDone, CtlPC
<1>6. CASE ReadPidFile(c)
  BY <1>6, FinishStopped, GotoStopped DEF ReadPidFile, CtlPC
<1>7. CASE PidFileExists(c)
  BY <1>7, GotoStopped DEF PidFileExists, CtlPC
<1>8. CASE RemovePidFile(c)
  BY <1>8, FinishStopped, GotoStopped DEF RemovePidFile, CtlPC
<1>9. CASE SocketExists(c)
  BY <1>5, <1>9, GotoStopped DEF SocketExists, CtlPC
<1>10. CASE TrySocket(c)
  BY <1>5, <1>10, GotoStopped DEF TrySocket, CtlPC
<1>11. CASE RemoveSocket(c)
  BY <1>5, <1>11, FinishStopped DEF RemoveSocket
<1>12. CASE Spawn(c)
  BY <1>12, NoneAssumption
     DEF Spawn, Exchange, DGoto, LifecycleInv, PlaceTypes, SerialInv, StoppedInv, ExchangeTypes,
         StopInv, Ending, Starting, CGoto
<1>13. CASE SpawnFails(c)
  BY <1>13, FinishStopped DEF SpawnFails
<1>14. CASE ResetSocket(c)
  BY <1>14, GotoStopped DEF ResetSocket, CtlPC
<1>15. CASE ResetPidFile(c)
  BY <1>15, FinishStopped DEF ResetPidFile
<1> QED
  BY <1>1, <1>2, <1>3, <1>4, <1>6, <1>7, <1>8, <1>9, <1>10, <1>11, <1>12, <1>13, <1>14,
     <1>15 DEF CtlStep, Cleanup

LEMMA StoppedAlways ==
  ASSUME Careful
  PROVE  Lifecycle => []StoppedInv
<1>1. LifecycleInv /\ StoppedInv /\ [LifecycleNext]_lifecycleVars => StoppedInv'
  <2> SUFFICES ASSUME LifecycleInv, StoppedInv, [LifecycleNext]_lifecycleVars PROVE StoppedInv'
    OBVIOUS
  <2>1. CASE UNCHANGED lifecycleVars
    BY <2>1 DEF lifecycleVars, fileVars, daemonVars, ctlVars, StoppedInv, ExchangeTypes, StopInv, Ending
  <2> QED BY <2>1, DaemonStopped, CtlStopped DEF LifecycleNext
<1> QED BY <1>1, InitStopped, LifecycleInvAlways, PTL DEF Lifecycle

\* Run with care, a stop that says "daemon stopped" after the daemon granted
\* it leaves no daemon that takes requests, whatever requests of other commands
\* were given up and still wait, and whatever is killed.
THEOREM StopIsFinal ==
  ASSUME Careful
  PROVE  Lifecycle => []StoppedIsStopped
<1>1. StoppedInv => StoppedIsStopped
  BY DEF StoppedInv, StopInv, Ending, StoppedIsStopped
<1> QED BY <1>1, StoppedAlways, PTL

-----------------------------------------------------------------------------
(* Requests: the snapshots that an answer is made of                       *)

\* What a request that changes nothing leaves: an answer made of nothing, or
\* of a snapshot whose manifest is still on disk.
Looked ==
    /\ UNCHANGED <<present, row, listed, kept, buffers, watchers, jobs, errors,
                   lifecycle, halfGone, purged>>
    /\ answer' \in kept \union {Absent}
    /\ faults' \in {faults, faults + 1} /\ faults' <= MaxFaults

LEMMA NoneIsNothing == None \notin Repo /\ None \notin Content /\ None \notin Ignores
BY RequestsAssumption

\* An answer is made of a snapshot only if the code is ok.
LEMMA ReadLooks ==
  ASSUME TypeOK, NEW q, NEW code, Read(q, code), NoFault \/ Fault,
         UNCHANGED present,
         code = "ok" => q.method \in StoreOnly \/ q.snapshot \in kept \union {Absent}
  PROVE  Looked
<1>1. UNCHANGED <<present, row, listed, kept, buffers, watchers, jobs, errors,
                  lifecycle, halfGone, purged>>
  BY DEF Read, disk, runtime
<1>2. answer' \in kept \union {Absent}
  BY DEF Read, Respond
<1>3. faults' \in {faults, faults + 1} /\ faults' <= MaxFaults
  BY RequestsAssumption DEF NoFault, Fault, TypeOK
<1> QED BY <1>1, <1>2, <1>3 DEF Looked

LEMMA LoadedIsKept ==
  ASSUME NEW s, Loaded(s) = "ok"
  PROVE  s \in kept
BY DEF Loaded

LEMMA OwnIsKept ==
  ASSUME NEW r, NEW s, OwnSnapshot(r, s) = "ok"
  PROVE  s \in kept
BY LoadedIsKept DEF OwnSnapshot

\* The searches, lookups and plans of the indexes.
LEMMA QueriesLook ==
  ASSUME TypeOK,
         NEW q \in ParseCommands \union SymbolCommands \union SemanticCommands
                   \union ImpactCommands \union QueryCommands,
         ServeSymbols(q) \/ ServeSemantic(q) \/ ServeImpact(q) \/ ServePlanner(q)
  PROVE  Looked
<1>1. CASE ServeSymbols(q)
  <2>1. First(Shown(q.repo, FALSE), OwnSnapshot(q.repo, q.snapshot)) = "ok"
          => q.snapshot \in kept
    BY OwnIsKept DEF First
  <2> QED BY <1>1, <2>1, ReadLooks DEF ServeSymbols, Serving
<1>2. CASE ServeSnapshot(q)
  <2>1. OwnSnapshot(q.repo, q.snapshot) = "ok" => q.snapshot \in kept
    BY OwnIsKept
  <2> QED BY <1>2, <2>1, ReadLooks DEF ServeSnapshot, Serving
<1>3. CASE q.method \in StoreOnly /\ Serving /\ NoFault /\ Read(q, "ok")
  BY <1>3, ReadLooks DEF Serving
<1> QED BY <1>1, <1>2, <1>3 DEF ServeSemantic, ServeImpact, ServePlanner

\* The commands that list, show and compare.
LEMMA CommandsLook ==
  ASSUME TypeOK,
         \/ OpenFails
         \/ \E q \in RepoCommands : ReposList(q) \/ ReposShow(q) \/ RepoStatus(q)
         \/ \E q \in SnapshotCommands :
               SnapshotsShow(q) \/ SnapshotsDiff(q) \/ SnapshotsReadFile(q)
         \/ \E q \in BufferCommands : BuffersList(q)
         \/ \E q \in PlainRequests : DaemonStatus(q) \/ SnapshotsList(q) \/ Told(q)
  PROVE  Looked
<1>1. CASE OpenFails
  BY <1>1, ReadLooks DEF OpenFails, Serving
<1>2. ASSUME NEW q \in RepoCommands, ReposList(q) \/ ReposShow(q) \/ RepoStatus(q)
      PROVE  Looked
  <2>1. q.snapshot = Absent
    BY <1>2 DEF RepoCommands, AddRequests, RemoveRequests, AskOf
  <2> QED BY <1>2, <2>1, ReadLooks DEF ReposList, ReposShow, RepoStatus, Serving
<1>3. ASSUME NEW q \in SnapshotCommands,
             SnapshotsShow(q) \/ SnapshotsDiff(q) \/ SnapshotsReadFile(q)
      PROVE  Looked
  <2>1. CASE SnapshotsShow(q)
    BY <2>1, LoadedIsKept, ReadLooks DEF SnapshotsShow, Serving
  <2>2. CASE SnapshotsDiff(q)
    <3>1. First(Loaded(q.snapshot), Loaded(q.right)) = "ok" => q.snapshot \in kept
      BY LoadedIsKept DEF First
    <3> QED BY <2>2, <3>1, ReadLooks DEF SnapshotsDiff, Serving
  <2>3. CASE SnapshotsReadFile(q)
    <3>1. PICK code \in {Loaded(q.snapshot), "snapshot_not_found", "invalid_request"} :
             Read(q, code)
      BY <2>3 DEF SnapshotsReadFile
    <3>2. code = "ok" => q.snapshot \in kept
      BY <3>1, LoadedIsKept
    <3> QED BY <2>3, <3>1, <3>2, ReadLooks DEF SnapshotsReadFile, Serving
  <2> QED BY <1>3, <2>1, <2>2, <2>3
<1>4. ASSUME NEW q \in BufferCommands, BuffersList(q) PROVE Looked
  <2>1. q.snapshot = Absent
    BY <1>4 DEF BufferCommands, AskOf
  <2> QED BY <1>4, <2>1, ReadLooks DEF BuffersList, Serving
<1>5. ASSUME NEW q \in PlainRequests, DaemonStatus(q) \/ SnapshotsList(q) \/ Told(q)
      PROVE  Looked
  <2>1. q.snapshot = Absent
    BY <1>5 DEF PlainRequests, AskOf
  <2> QED BY <1>5, <2>1, ReadLooks DEF DaemonStatus, SnapshotsList, Told, Serving
<1> QED BY <1>1, <1>2, <1>3, <1>4, <1>5

-----------------------------------------------------------------------------
(* Types                                                                   *)

Job == [repo : Repo, kind : {"repo_refresh", "watch_ingest", "snapshot_capture"},
        state : {"running"}]

\* A job that is started and settled leaves the others as they are.
LEMMA SettledIsAsBefore ==
  ASSUME NEW js \in Seq(Job), NEW r \in Repo,
         NEW kind \in {"repo_refresh", "watch_ingest", "snapshot_capture"}
  PROVE  Settled(Started(js, r, kind)) = js
<1> DEFINE job == [repo |-> r, kind |-> kind, state |-> "running"]
<1>1. job \in Job
  BY DEF Job
<1> HIDE DEF job
<1>2. Append(js, job) \in Seq(Job) /\ Len(Append(js, job)) = Len(js) + 1
  BY <1>1
<1>3. SubSeq(Append(js, job), 1, Len(js)) = js
  BY <1>1
<1> QED BY <1>2, <1>3 DEF Settled, Started, job

TypeInv ==
    /\ TypeOK
    /\ jobs \in Seq(Job) /\ halfGone \subseteq Repo /\ purged \subseteq Snapshot

\* What was purged is neither on disk nor answered.
PurgeInv == kept \cap purged = {} /\ answer \notin purged

IInv == TypeInv /\ ActiveJobsAreWatches /\ RuntimeFollowsRows /\ PurgeInv

LEMMA AbsentIsNone == Absent \notin Snapshot
BY NoneIsNothing DEF Absent, Snapshot

LEMMA CodesReported ==
  /\ \A e \in {"repo", "root", "path", "buffer", "duplicate", "registered", "query", "other"} :
        /\ InternalError[e] \in Codes /\ RepoStoreError[e] \in Codes \ {"ok"}
        /\ SnapshotError[e] \in Codes \ {"ok"} /\ InternalError[e] # "ok"
BY DEF InternalError, RepoStoreError, SnapshotError, Reported, Codes

LEMMA InitInv == Init => IInv
<1> SUFFICES ASSUME Init PROVE IInv
  OBVIOUS
<1> USE DEF Init
<1>1. TypeInv
  BY RequestsAssumption DEF TypeInv, TypeOK
<1>2. ActiveJobsAreWatches
  BY RequestsAssumption DEF ActiveJobsAreWatches
<1>3. RuntimeFollowsRows
  BY DEF RuntimeFollowsRows
<1>4. PurgeInv
  BY DEF PurgeInv
<1> QED BY <1>1, <1>2, <1>3, <1>4 DEF IInv

LEMMA LookedInv ==
  ASSUME IInv, Looked
  PROVE  IInv'
<1> USE DEF IInv, Looked
<1>1. TypeInv'
  <2>1. answer' \in Snapshot \union {Absent} /\ faults' \in 0..MaxFaults
    BY RequestsAssumption DEF TypeInv, TypeOK
  <2> QED BY <2>1 DEF TypeInv, TypeOK
<1>2. ActiveJobsAreWatches'
  BY DEF ActiveJobsAreWatches, TypeInv, TypeOK
<1>3. RuntimeFollowsRows'
  BY DEF RuntimeFollowsRows
<1>4. PurgeInv'
  BY AbsentIsNone DEF PurgeInv, TypeInv
<1> QED BY <1>1, <1>2, <1>3, <1>4

-----------------------------------------------------------------------------
(* Repositories                                                            *)

LEMMA AddedInv ==
  ASSUME IInv, NEW q \in AddRequests, row[q.repo] = None, UNCHANGED present,
         Added(q)
  PROVE  IInv'
<1> DEFINE r == q.repo
           refreshed == Settled(Started(jobs, r, "repo_refresh"))
           cleared == [errors EXCEPT ![r] = None]
<1>1. r \in Repo /\ q.ignores \in Ignores /\ q.snapshot = Absent
  BY DEF AddRequests
<1>2. refreshed = jobs
  BY <1>1, SettledIsAsBefore DEF IInv, TypeInv
<1>3. /\ row' = [row EXCEPT ![r] = q.ignores]
      /\ UNCHANGED <<listed, kept, buffers, lifecycle, halfGone, purged>>
  BY DEF Added
<1>4. \/ ~q.watch /\ NoFault /\ Respond(q, "ok") /\ jobs' = refreshed
         /\ errors' = cleared /\ UNCHANGED watchers
      \/ Attached(q, refreshed, cleared)
      \/ AttachFails(q, refreshed, cleared)
  BY DEF Added
<1> HIDE DEF refreshed, cleared
<1>5. answer' = Absent
  BY <1>1, <1>4 DEF Attached, AttachFails, Respond
<1>6. /\ faults' \in {faults, faults + 1} /\ faults' <= MaxFaults
      /\ \/ jobs' = jobs
         \/ /\ faults' = faults + 1
            /\ jobs' = Append(jobs, [repo |-> r, kind |-> "watch_ingest", state |-> "running"])
  <2>1. Settled(Started(jobs, r, "watch_ingest")) = jobs
    BY <1>1, SettledIsAsBefore DEF IInv, TypeInv
  <2>2. faults <= MaxFaults
    BY RequestsAssumption DEF IInv, TypeInv, TypeOK
  <2> QED BY <1>2, <1>4, <2>1, <2>2, RequestsAssumption
          DEF Attached, AttachFails, NoFault, Fault, Started, IInv, TypeInv, TypeOK
<1>7. /\ watchers' \in {watchers, [watchers EXCEPT ![r] = IF @ = None THEN q.ignores ELSE @]}
      /\ errors' \in {cleared, [cleared EXCEPT ![r] = InternalError["root"]]}
  BY <1>4 DEF Attached, AttachFails
<1>8. TypeInv'
  <2>1. row' \in [Repo -> Ignores \union {None}] /\ watchers' \in [Repo -> Ignores \union {None}]
    BY <1>1, <1>3, <1>7 DEF IInv, TypeInv, TypeOK
  <2>2. errors' \in [Repo -> Codes \union {None}]
    BY <1>1, <1>7, CodesReported DEF cleared, IInv, TypeInv, TypeOK
  <2>3. jobs' \in Seq(Job)
    <3>1. [repo |-> r, kind |-> "watch_ingest", state |-> "running"] \in Job
      BY <1>1 DEF Job
    <3>2. jobs \in Seq(Job)
      BY DEF IInv, TypeInv
    <3> QED BY <1>6, <3>1, <3>2
  <2>4. faults' \in 0..MaxFaults
    BY <1>6, RequestsAssumption DEF IInv, TypeInv, TypeOK
  <2> QED BY <2>1, <2>2, <2>3, <2>4, <1>3, <1>5 DEF IInv, TypeInv, TypeOK
<1>9. ActiveJobsAreWatches'
  <2>1. CASE jobs' = jobs
    BY <2>1, <1>6 DEF IInv, TypeInv, TypeOK, ActiveJobsAreWatches
  <2>2. CASE /\ faults' = faults + 1
             /\ jobs' = Append(jobs, [repo |-> r, kind |-> "watch_ingest", state |-> "running"])
    <3>1. Len(jobs') = Len(jobs) + 1 /\ jobs \in Seq(Job) /\ Len(jobs) <= faults
      BY <2>2 DEF IInv, TypeInv, ActiveJobsAreWatches
    <3>2. \A i \in 1..Len(jobs') :
             jobs'[i] = IF i <= Len(jobs) THEN jobs[i]
                        ELSE [repo |-> r, kind |-> "watch_ingest", state |-> "running"]
      BY <2>2, <3>1
    <3>3. \A i \in 1..Len(jobs') : jobs'[i].kind = "watch_ingest" /\ jobs'[i].state = "running"
      BY <3>1, <3>2 DEF IInv, ActiveJobsAreWatches
    <3>4. DOMAIN jobs' = 1..Len(jobs')
      BY <1>8 DEF TypeInv
    <3>5. Len(jobs') <= faults'
      BY <2>2, <3>1 DEF IInv, TypeInv, TypeOK
    <3> QED BY <3>3, <3>4, <3>5 DEF ActiveJobsAreWatches
  <2> QED BY <1>6, <2>1, <2>2
<1>10. RuntimeFollowsRows'
  <2> SUFFICES ASSUME NEW x \in Repo \ halfGone
               PROVE  /\ watchers'[x] # None => row'[x] = watchers'[x]
                      /\ errors'[x] # None => row'[x] # None
    BY <1>3 DEF RuntimeFollowsRows
  <2>1. CASE x = r
    <3>1. watchers[r] = None
      BY <2>1 DEF IInv, RuntimeFollowsRows
    <3>2. row'[r] = q.ignores /\ q.ignores # None
      BY <1>1, <1>3, NoneIsNothing DEF IInv, TypeInv, TypeOK
    <3>3. watchers'[r] \in {None, q.ignores}
      BY <1>1, <1>7, <3>1 DEF IInv, TypeInv, TypeOK
    <3> QED BY <2>1, <3>2, <3>3
  <2>2. CASE x # r
    <3>1. row'[x] = row[x] /\ watchers'[x] = watchers[x] /\ errors'[x] = errors[x]
      BY <2>2, <1>3, <1>7 DEF cleared, IInv, TypeInv, TypeOK
    <3> QED BY <3>1 DEF IInv, RuntimeFollowsRows
  <2> QED BY <2>1, <2>2
<1>11. PurgeInv'
  BY <1>3, <1>5, AbsentIsNone DEF IInv, PurgeInv, TypeInv
<1> QED BY <1>8, <1>9, <1>10, <1>11 DEF IInv

LEMMA AddInv ==
  ASSUME IInv, NEW q \in AddRequests, ReposAdd(q)
  PROVE  IInv'
<1>1. q.repo \in Repo /\ q.ignores \in Ignores /\ q.snapshot = Absent
  BY DEF AddRequests
<1>2. CASE NoFault /\ (Read(q, RepoStoreError["path"]) \/ Read(q, RepoStoreError["registered"]))
  BY <1>1, <1>2, ReadLooks, LookedInv DEF ReposAdd, Serving, IInv, TypeInv
<1>3. CASE row[q.repo] = None /\ Added(q)
  BY <1>3, AddedInv DEF ReposAdd, Serving
<1>4. CASE row[q.repo] = None /\ AddFailsHalfway(q)
  <2>1. /\ row' = [row EXCEPT ![q.repo] = q.ignores]
        /\ UNCHANGED <<present, listed, kept, buffers, watchers, jobs, errors, lifecycle,
                       halfGone, purged>>
        /\ faults' = faults + 1 /\ faults' <= MaxFaults
    BY <1>4, RequestsAssumption DEF AddFailsHalfway, ReposAdd, Serving, Fault, runtime, IInv, TypeInv, TypeOK
  <2>2. answer' = Absent
    BY <1>1, <1>4 DEF AddFailsHalfway, Respond
  <2>3. TypeInv'
    BY <1>1, <2>1, <2>2, RequestsAssumption DEF IInv, TypeInv, TypeOK
  <2>4. ActiveJobsAreWatches'
    BY <2>1 DEF IInv, TypeInv, TypeOK, ActiveJobsAreWatches
  <2>5. RuntimeFollowsRows'
    BY <1>1, <1>4, <2>1, NoneIsNothing DEF IInv, TypeInv, TypeOK, RuntimeFollowsRows
  <2>6. PurgeInv'
    BY <2>1, <2>2, AbsentIsNone DEF IInv, TypeInv, PurgeInv
  <2> QED BY <2>3, <2>4, <2>5, <2>6 DEF IInv
<1> QED BY <1>2, <1>3, <1>4 DEF ReposAdd

LEMMA RemoveInv ==
  ASSUME IInv, NEW q \in RemoveRequests, ReposRemove(q)
  PROVE  IInv'
<1> DEFINE r == q.repo
<1>1. r \in Repo /\ q.snapshot = Absent
  BY DEF RemoveRequests
<1>2. UNCHANGED present
  BY DEF ReposRemove, Serving
<1>3. CASE RemoveFailsHalfway(q)
  <2>1. /\ row' = [row EXCEPT ![r] = None]
        /\ listed' \subseteq listed /\ buffers' \subseteq buffers
        /\ halfGone' = halfGone \union {r}
        /\ UNCHANGED <<kept, watchers, jobs, errors, lifecycle, purged>>
        /\ faults' = faults + 1 /\ faults' <= MaxFaults
    BY <1>3, RequestsAssumption
       DEF RemoveFailsHalfway, BuffersOf, Fault, runtime, IInv, TypeInv, TypeOK
  <2>2. answer' = Absent
    BY <1>1, <1>3 DEF RemoveFailsHalfway, Respond
  <2>3. TypeInv'
    BY <1>1, <1>2, <2>1, <2>2, RequestsAssumption DEF IInv, TypeInv, TypeOK
  <2>4. ActiveJobsAreWatches'
    BY <2>1 DEF IInv, TypeInv, TypeOK, ActiveJobsAreWatches
  <2>5. RuntimeFollowsRows'
    BY <1>1, <2>1 DEF IInv, TypeInv, TypeOK, RuntimeFollowsRows
  <2>6. PurgeInv'
    BY <2>1, <2>2, AbsentIsNone DEF IInv, TypeInv, PurgeInv
  <2> QED BY <2>3, <2>4, <2>5, <2>6 DEF IInv
<1>4. CASE /\ NoFault /\ Respond(q, "ok") /\ Forget(r)
           /\ \/ row' = [row EXCEPT ![r] = None]
              \/ row[r] = None /\ row' = row
           /\ halfGone' = halfGone \ {r}
           /\ \/ purged' = purged \union Of(r, Snapshot) /\ Purge(q)
              \/ UNCHANGED <<listed, kept, buffers, purged>>
  <2>1. /\ row'[r] = None /\ watchers'[r] = None /\ errors'[r] = None
        /\ row' \in [Repo -> Ignores \union {None}]
        /\ watchers' \in [Repo -> Ignores \union {None}]
        /\ errors' \in [Repo -> Codes \union {None}]
        /\ \A x \in Repo \ {r} :
              row'[x] = row[x] /\ watchers'[x] = watchers[x] /\ errors'[x] = errors[x]
    BY <1>1, <1>4 DEF Forget, IInv, TypeInv, TypeOK
  <2>2. /\ answer' = Absent /\ UNCHANGED <<jobs, lifecycle, faults>>
    BY <1>1, <1>4 DEF Respond, Forget, NoFault
  <2>3. /\ listed' \subseteq kept' /\ kept' \subseteq kept /\ buffers' \subseteq buffers
        /\ purged' \subseteq Snapshot /\ kept' \cap purged' = {}
    <3>1. CASE purged' = purged \union Of(r, Snapshot) /\ Purge(q)
      BY <3>1 DEF Purge, Of, BuffersOf, IInv, TypeInv, TypeOK, PurgeInv
    <3>2. CASE UNCHANGED <<listed, kept, buffers, purged>>
      BY <3>2 DEF IInv, TypeInv, TypeOK, PurgeInv
    <3> QED BY <1>4, <3>1, <3>2
  <2>4. TypeInv'
    BY <1>2, <1>4, <2>1, <2>2, <2>3 DEF IInv, TypeInv, TypeOK
  <2>5. ActiveJobsAreWatches'
    BY <2>2 DEF IInv, ActiveJobsAreWatches
  <2>6. RuntimeFollowsRows'
    BY <1>4, <2>1 DEF IInv, RuntimeFollowsRows
  <2>7. PurgeInv'
    BY <2>2, <2>3, AbsentIsNone DEF PurgeInv
  <2> QED BY <2>4, <2>5, <2>6, <2>7 DEF IInv
<1> QED BY <1>3, <1>4 DEF ReposRemove, disk

-----------------------------------------------------------------------------
(* Snapshots, buffers and the daemon                                       *)

\* A snapshot is taken of a registered repository only, and a failure of it is
\* remembered until one is taken.
LEMMA CreateInv ==
  ASSUME IInv, NEW q \in CreateRequests, SnapshotsCreate(q)
  PROVE  IInv'
<1> DEFINE r == q.repo
           settled == Settled(Started(jobs, r, "snapshot_capture"))
<1>1. r \in Repo /\ q.snapshot = Absent
  BY DEF CreateRequests
<1>2. settled = jobs
  BY <1>1, SettledIsAsBefore DEF IInv, TypeInv
<1>3. CASE Shown(r, FALSE) # "ok" /\ NoFault /\ Read(q, Shown(r, FALSE))
  BY <1>1, <1>3, ReadLooks, LookedInv DEF SnapshotsCreate, Serving, IInv, TypeInv
<1> HIDE DEF settled
<1>4. CASE /\ row[r] # None
           /\ UNCHANGED <<present, row, buffers, watchers, lifecycle, halfGone>>
           /\ jobs' = settled /\ faults' \in {faults, faults + 1} /\ faults' <= MaxFaults
           /\ errors' = [errors EXCEPT ![r] = errors'[r]]
           /\ errors'[r] \in Codes \union {None}
           /\ \/ answer' = Absent /\ UNCHANGED <<listed, kept, purged>>
              \/ \E s \in Snapshot :
                    /\ answer' \in {Absent, s} /\ purged' = purged \ {s}
                    /\ kept' = kept \union {s} /\ listed' \in {listed, listed \union {s}}
  <2>1. /\ answer' \in Snapshot \union {Absent} /\ purged' \subseteq Snapshot
        /\ listed' \subseteq kept' /\ kept' \subseteq Snapshot
        /\ answer' \notin purged' /\ kept' \cap purged' = {}
    <3>1. CASE answer' = Absent /\ UNCHANGED <<listed, kept, purged>>
      BY <3>1, AbsentIsNone DEF IInv, TypeInv, TypeOK, PurgeInv
    <3>2. ASSUME NEW s \in Snapshot,
                 /\ answer' \in {Absent, s} /\ purged' = purged \ {s}
                 /\ kept' = kept \union {s} /\ listed' \in {listed, listed \union {s}}
          PROVE  /\ answer' \in Snapshot \union {Absent} /\ purged' \subseteq Snapshot
                 /\ listed' \subseteq kept' /\ kept' \subseteq Snapshot
                 /\ answer' \notin purged' /\ kept' \cap purged' = {}
      BY <3>2, AbsentIsNone DEF IInv, TypeInv, TypeOK, PurgeInv
    <3> QED BY <1>4, <3>1, <3>2
  <2>2. errors' \in [Repo -> Codes \union {None}]
    BY <1>1, <1>4 DEF IInv, TypeInv, TypeOK
  <2>3. TypeInv'
    BY <1>2, <1>4, <2>1, <2>2, RequestsAssumption DEF IInv, TypeInv, TypeOK
  <2>4. ActiveJobsAreWatches'
    BY <1>2, <1>4 DEF IInv, TypeInv, TypeOK, ActiveJobsAreWatches
  <2>5. RuntimeFollowsRows'
    <3>1. \A x \in Repo \ {r} : errors'[x] = errors[x]
      BY <1>1, <1>4 DEF IInv, TypeInv, TypeOK
    <3> QED BY <1>4, <3>1 DEF IInv, RuntimeFollowsRows
  <2>6. PurgeInv'
    BY <2>1 DEF PurgeInv
  <2> QED BY <2>3, <2>4, <2>5, <2>6 DEF IInv
<1>5. ASSUME Shown(r, FALSE) = "ok" PROVE row[r] # None
  BY <1>5 DEF Shown, ShowError, InternalError, Reported
<1>6. faults \in Nat /\ faults <= MaxFaults /\ MaxFaults \in Nat
  BY RequestsAssumption DEF IInv, TypeInv, TypeOK
<1>7. ASSUME NEW code \in Codes \ {"ok"}, Shown(r, FALSE) = "ok", NoFault, CreateFails(q, code)
      PROVE  IInv'
  <2>1. answer' = Absent /\ UNCHANGED <<present, row, listed, kept, buffers, watchers, lifecycle,
                                        halfGone, purged, faults>>
    BY <1>1, <1>7 DEF CreateFails, Respond, NoFault, disk, SnapshotsCreate, Serving
  <2>2. jobs' = settled /\ errors' = [errors EXCEPT ![r] = code]
    BY <1>7 DEF CreateFails, settled
  <2>3. errors' = [errors EXCEPT ![r] = errors'[r]] /\ errors'[r] = code
    BY <1>1, <2>2 DEF IInv, TypeInv, TypeOK
  <2> QED BY <1>4, <1>5, <1>6, <1>7, <2>1, <2>2, <2>3
<1>8. ASSUME NEW s \in Of(r, Snapshot), Shown(r, FALSE) = "ok",
             (NoFault /\ Created(q, s)) \/ CreateFailsHalfway(q, s)
      PROVE  IInv'
  <2>1. s \in Snapshot
    BY DEF Of
  <2>2. /\ UNCHANGED <<present, row, buffers, watchers, lifecycle, halfGone>>
        /\ jobs' = settled /\ purged' = purged \ {s} /\ kept' = kept \union {s}
        /\ listed' \in {listed, listed \union {s}}
        /\ faults' \in {faults, faults + 1} /\ faults' <= MaxFaults
    BY <1>6, <1>8 DEF Created, CreateFailsHalfway, NoFault, Fault, settled, SnapshotsCreate, Serving
  <2>3. answer' \in {Absent, s}
    BY <1>1, <1>8 DEF Created, CreateFailsHalfway, Respond, CreateRequests
  <2>4. errors' \in {[errors EXCEPT ![r] = None], [errors EXCEPT ![r] = SnapshotError["other"]]}
    BY <1>8 DEF Created, CreateFailsHalfway
  <2>5. SnapshotError["other"] \in Codes
    BY DEF SnapshotError, Reported, Codes
  <2>6. errors' = [errors EXCEPT ![r] = errors'[r]] /\ errors'[r] \in Codes \union {None}
    BY <1>1, <2>4, <2>5 DEF IInv, TypeInv, TypeOK
  <2> QED BY <1>4, <1>5, <1>8, <2>1, <2>2, <2>3, <2>6
<1>9. CreateCheck(q) # "ok" => CreateCheck(q) \in Codes \ {"ok"}
  BY DEF CreateCheck, First, BufferCheck, SnapshotError, Reported, Codes
<1>10. SnapshotError["other"] \in Codes \ {"ok"}
  BY DEF SnapshotError, Reported, Codes
<1> QED BY <1>3, <1>7, <1>8, <1>9, <1>10 DEF SnapshotsCreate

LEMMA BuffersInv ==
  ASSUME IInv, NEW q \in BufferCommands, NEW stored \in SUBSET (Repo \X Buffer),
         BuffersChange(q, stored)
  PROVE  IInv'
<1>1. q.snapshot = Absent
  BY DEF BufferCommands, AskOf
<1>2. CASE NoFault /\ Read(q, Shown(q.repo, FALSE))
  BY <1>1, <1>2, ReadLooks, LookedInv DEF BuffersChange, Serving, IInv, TypeInv
<1>3. CASE /\ NoFault /\ Respond(q, "ok") /\ buffers' = stored
           /\ UNCHANGED <<row, listed, kept, runtime, halfGone, purged>>
  <2>1. answer' = Absent /\ buffers' \subseteq Repo \X Buffer
        /\ UNCHANGED <<present, row, listed, kept, watchers, jobs, errors, lifecycle,
                       halfGone, purged, faults>>
    BY <1>1, <1>3 DEF Respond, NoFault, runtime, BuffersChange, Serving
  <2>2. TypeInv'
    BY <2>1 DEF IInv, TypeInv, TypeOK
  <2>3. ActiveJobsAreWatches' /\ RuntimeFollowsRows'
    BY <2>1 DEF IInv, ActiveJobsAreWatches, RuntimeFollowsRows
  <2>4. PurgeInv'
    BY <2>1, AbsentIsNone DEF IInv, TypeInv, PurgeInv
  <2> QED BY <2>2, <2>3, <2>4 DEF IInv
<1> QED BY <1>2, <1>3 DEF BuffersChange

LEMMA ShutdownInv ==
  ASSUME IInv, NEW q \in PlainRequests, Shutdown(q)
  PROVE  IInv'
<1>1. q.snapshot = Absent
  BY DEF PlainRequests, AskOf
<1>2. /\ answer' = Absent /\ lifecycle' = "stopping"
      /\ UNCHANGED <<present, row, listed, kept, buffers, watchers, jobs, errors,
                     halfGone, purged, faults>>
  BY <1>1 DEF Shutdown, Serving, Respond, NoFault, disk
<1>3. TypeInv'
  BY <1>2 DEF IInv, TypeInv, TypeOK
<1>4. ActiveJobsAreWatches' /\ RuntimeFollowsRows'
  BY <1>2 DEF IInv, ActiveJobsAreWatches, RuntimeFollowsRows
<1>5. PurgeInv'
  BY <1>2, AbsentIsNone DEF IInv, TypeInv, PurgeInv
<1> QED BY <1>3, <1>4, <1>5 DEF IInv

LEMMA RestartInv ==
  ASSUME IInv, Restart
  PROVE  IInv'
<1> USE DEF Restart, disk
<1>1. TypeInv'
  BY DEF IInv, TypeInv, TypeOK
<1>2. ActiveJobsAreWatches'
  BY RequestsAssumption DEF IInv, TypeInv, TypeOK, ActiveJobsAreWatches
<1>3. RuntimeFollowsRows'
  BY DEF RuntimeFollowsRows
<1>4. PurgeInv'
  BY DEF IInv, PurgeInv
<1> QED BY <1>1, <1>2, <1>3, <1>4 DEF IInv

LEMMA MoveRootInv ==
  ASSUME IInv, NEW r \in Repo, MoveRoot(r)
  PROVE  IInv'
BY DEF MoveRoot, disk, runtime, IInv, TypeInv, TypeOK, ActiveJobsAreWatches,
       RuntimeFollowsRows, PurgeInv

-----------------------------------------------------------------------------
(* Every step                                                              *)

LEMMA HandleInv ==
  ASSUME IInv, Handle
  PROVE  IInv'
<1>1. CASE \/ OpenFails
           \/ \E q \in RepoCommands : ReposList(q) \/ ReposShow(q) \/ RepoStatus(q)
           \/ \E q \in SnapshotCommands :
                 SnapshotsShow(q) \/ SnapshotsDiff(q) \/ SnapshotsReadFile(q)
           \/ \E q \in BufferCommands : BuffersList(q)
           \/ \E q \in PlainRequests : DaemonStatus(q) \/ SnapshotsList(q) \/ Told(q)
  BY <1>1, CommandsLook, LookedInv DEF IInv, TypeInv
<1>2. CASE \/ \E q \in ParseCommands \union SymbolCommands : ServeSymbols(q)
           \/ \E q \in SemanticCommands : ServeSemantic(q)
           \/ \E q \in ImpactCommands : ServeImpact(q)
           \/ \E q \in QueryCommands : ServePlanner(q)
  BY <1>2, QueriesLook, LookedInv DEF IInv, TypeInv
<1>3. CASE \E q \in AddRequests : ReposAdd(q)
  BY <1>3, AddInv
<1>4. CASE \E q \in RemoveRequests : ReposRemove(q)
  BY <1>4, RemoveInv
<1>5. CASE \E q \in CreateRequests : SnapshotsCreate(q)
  BY <1>5, CreateInv
<1>6. ASSUME NEW q \in BufferCommands,
             \/ q.method = "buffers_set" /\ BuffersSet(q)
             \/ q.method = "buffers_clear" /\ BuffersClear(q)
      PROVE  IInv'
  <2>1. q.repo \in Repo /\ q.buffer \in Buffer
    BY <1>6 DEF BufferCommands, AskOf
  <2>2. /\ buffers \union {<<q.repo, q.buffer>>} \in SUBSET (Repo \X Buffer)
        /\ buffers \ {<<q.repo, q.buffer>>} \in SUBSET (Repo \X Buffer)
    BY <2>1 DEF IInv, TypeInv, TypeOK
  <2> QED BY <1>6, <2>2, BuffersInv DEF BuffersSet, BuffersClear
<1>7. CASE \E q \in PlainRequests : Shutdown(q)
  BY <1>7, ShutdownInv
<1> QED BY <1>1, <1>2, <1>3, <1>4, <1>5, <1>6, <1>7 DEF Handle

LEMMA StepInv == IInv /\ [Next]_vars => IInv'
<1> SUFFICES ASSUME IInv, [Next]_vars PROVE IInv'
  OBVIOUS
<1>1. CASE UNCHANGED vars
  BY <1>1 DEF vars, disk, runtime, IInv, TypeInv, TypeOK, ActiveJobsAreWatches,
              RuntimeFollowsRows, PurgeInv
<1> QED BY <1>1, HandleInv, RestartInv, MoveRootInv DEF Next

LEMMA InvAlways == Spec => []IInv
BY InitInv, StepInv, PTL DEF Spec

\* Every answer's code, job, watcher and error is of its type, and a manifest
\* row has its file, whatever is asked, fails or restarts.
THEOREM RequestTypes == Spec => []TypeOK
<1>1. IInv => TypeOK
  BY DEF IInv, TypeInv
<1> QED BY <1>1, InvAlways, PTL

\* For any number of repositories and failures, no job stays active but the
\* watch of a repository that could not be attached, one for each failure.
THEOREM OnlyWatchesStayActive == Spec => []ActiveJobsAreWatches
<1>1. IInv => ActiveJobsAreWatches
  BY DEF IInv
<1> QED BY <1>1, InvAlways, PTL

\* For any number of repositories and failures, watchers and errors in memory
\* follow the rows of the registry, but where a removal failed halfway.
THEOREM MemoryFollowsRegistry == Spec => []RuntimeFollowsRows
<1>1. IInv => RuntimeFollowsRows
  BY DEF IInv
<1> QED BY <1>1, InvAlways, PTL

\* For any number of repositories, snapshots and failures, no answer is made
\* of a snapshot that a purge took away: its file is gone, and every request
\* that answers from a snapshot loads the file first.
THEOREM PurgedStaysUnanswered == Spec => []PurgedIsUnanswered
<1>1. IInv => PurgedIsUnanswered
  BY DEF IInv, PurgeInv, PurgedIsUnanswered
<1> QED BY <1>1, InvAlways, PTL
=============================================================================
