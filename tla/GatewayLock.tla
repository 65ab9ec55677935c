---------------------------- MODULE GatewayLock ----------------------------
(***************************************************************************)
(* The gateway's lock file and the run loop that holds it                  *)
(* (src/gateway/lock.ts, src/gateway/run-loop.ts).                         *)
(*                                                                         *)
(* Processes contend for one file.  A process creates it exclusively and   *)
(* then writes who it is into it; one that finds it there looks at the     *)
(* owner (does anybody answer on 127.0.0.1 at the contender's own port? is *)
(* the owner's pid alive?) and removes the file, by path, when it thinks   *)
(* the owner dead.  Every step between two awaits is an action.  Gateways  *)
(* then start, serve, stop and release; commands ("gateway status",        *)
(* "gateway stop", onboarding) acquire the lock to see whether they can,   *)
(* and release it.  They take the port from the configuration, a gateway   *)
(* from its command line.                                                  *)
(*                                                                         *)
(* Only gateways listen on the ports; a port nobody listens on refuses     *)
(* connections well before a contender's time is over.                     *)
(***************************************************************************)
EXTENDS Naturals, FiniteSets

CONSTANTS Gateway,  \* gateway processes, each started at most once
          Command,  \* commands that probe the lock
          Port,
          PortOf,   \* the port each process was given
          HostOf,   \* the address each gateway binds
          NoOne

Process == Gateway \cup Command

\* 127.0.0.1, 0.0.0.0, or another address of the machine (always the same).
Host == {"loopback", "any", "other"}

ASSUME ProcessAssumption == Gateway \cap Command = {} /\ NoOne \notin Gateway \cup Command

ASSUME AddressAssumption == PortOf \in [Process -> Port] /\ HostOf \in [Gateway -> Host]

VARIABLES
  file,     \* the lock file: who created it, is the payload in, is it >30 s old
  pc,       \* where each process stands
  seen,     \* the owner each contender has read
  signals,  \* each gateway's handlers of SIGTERM, SIGINT and SIGUSR1
  slow,     \* contenders one of whose probes ran into its timer
  trusted   \* history: gateways in reach of a contender's probe that served when
            \* it found the file, and since, and did not leave its probe unanswered

lockVars == <<file, pc, seen, signals, slow, trusted>>

NoFile == [by |-> NoOne, written |-> FALSE, aged |-> FALSE]

Contending == {"try", "retry", "write", "read", "probe", "pid", "unknown", "remove", "wait"}
Holding    == {"starting", "serving", "stopping", "release", "exiting"}
Ended      == {"failed", "gone"}

LockTypeOK ==
  /\ file \in [by : Process \cup {NoOne}, written : BOOLEAN, aged : BOOLEAN]
  /\ file.by = NoOne => file = NoFile
  /\ pc \in [Process -> {"off"} \cup Contending \cup Holding \cup Ended]
  /\ seen \in [Process -> Process \cup {NoOne}]
  /\ signals \in [Gateway -> {"new", "installed", "removed"}]
  /\ slow \subseteq Process
  /\ trusted \in [Process -> SUBSET Gateway]

Serving == {p \in Gateway : pc[p] = "serving"}

\* Those that a connection to 127.0.0.1 at the port of p gets to.
InReach(p) == {q \in Serving : PortOf[q] = PortOf[p] /\ HostOf[q] # "other"}

\* Those that keep gateway p from binding its own address.
InTheWay(p) == {q \in Serving : /\ PortOf[q] = PortOf[p]
                                /\ HostOf[q] = HostOf[p] \/ "any" \in {HostOf[p], HostOf[q]}}

Alive   == {p \in Process : pc[p] \notin {"off"} \cup Ended}

-----------------------------------------------------------------------------
LockInit ==
  /\ file = NoFile
  /\ pc = [p \in Process |-> "off"]
  /\ seen = [p \in Process |-> NoOne]
  /\ signals = [p \in Gateway |-> "new"]
  /\ slow = {}
  /\ trusted = [p \in Process |-> {}]

Goto(p, label) == pc' = [pc EXCEPT ![p] = label]

\* p no longer serves, if it did.
Distrust(p) == trusted' = [q \in Process |-> trusted[q] \ {p}]

\* The gateway command refuses to start on an address in use.
Launch(p) ==
  /\ pc[p] = "off"
  /\ p \in Gateway => InTheWay(p) = {}
  /\ Goto(p, "try")
  /\ UNCHANGED <<file, seen, signals, slow, trusted>>

-----------------------------------------------------------------------------
(* acquireGatewayLock().                                                   *)

\* open(lockPath, "wx") creates the file...
Create(p) ==
  /\ pc[p] \in {"try", "retry"}
  /\ file = NoFile
  /\ file' = [by |-> p, written |-> FALSE, aged |-> FALSE]
  /\ Goto(p, "write")
  /\ UNCHANGED <<seen, signals, slow, trusted>>

\* ... or fails with EEXIST.
FindFile(p) ==
  /\ pc[p] \in {"try", "retry"}
  /\ file # NoFile
  /\ trusted' = [trusted EXCEPT ![p] = InReach(p)]
  /\ Goto(p, "read")
  /\ UNCHANGED <<file, seen, signals, slow>>

\* The payload goes to the file p opened, even if that was removed meanwhile.
\* A gateway goes on to install its signal handlers, once, and to start.
WritePayload(p) ==
  /\ pc[p] = "write"
  /\ file' = IF file.by = p THEN [file EXCEPT !.written = TRUE] ELSE file
  /\ signals' = [g \in Gateway |->
       IF g = p /\ signals[g] = "new" THEN "installed" ELSE signals[g]]
  /\ Goto(p, IF p \in Gateway THEN "starting" ELSE "exiting")
  /\ UNCHANGED <<seen, slow, trusted>>

\* readLockPayload(): null when the file is gone or not yet written.
ReadPayload(p) ==
  /\ pc[p] = "read"
  /\ \/ /\ file.written
        /\ seen' = [seen EXCEPT ![p] = file.by]
        /\ Goto(p, "probe")
     \/ /\ ~file.written
        /\ Goto(p, "unknown")
        /\ UNCHANGED seen
  /\ UNCHANGED <<file, signals, slow, trusted>>

\* checkPortFree(): where nobody listens the connection is refused, and the owner
\* is dead; so it is when there is no answer for a second, or any other error.
ProbePort(p) ==
  /\ pc[p] = "probe"
  /\ \/ /\ Goto(p, IF InReach(p) = {} THEN "remove" ELSE "pid")
        /\ UNCHANGED <<slow, trusted>>
     \/ /\ Goto(p, "remove")
        /\ slow' = slow \cup {p}
        /\ trusted' = [trusted EXCEPT ![p] = {}]
  /\ UNCHANGED <<file, seen, signals>>

\* Faulty variant: the pid is not asked for.
CheckNothing(p) ==
  /\ pc[p] = "pid"
  /\ Goto(p, "remove")
  /\ UNCHANGED <<file, seen, signals, slow, trusted>>

\* isPidAlive(); on Linux the start time tells a reused pid from the owner's.
CheckPid(p) ==
  /\ pc[p] = "pid"
  /\ Goto(p, IF seen[p] \in Alive THEN "wait" ELSE "remove")
  /\ UNCHANGED <<file, seen, signals, slow, trusted>>

\* The next iteration looks at the file anew.
Forget(p) ==
  /\ seen' = [seen EXCEPT ![p] = NoOne]
  /\ trusted' = [trusted EXCEPT ![p] = {}]

\* A file that says nothing is given staleMs.
CheckAge(p) ==
  /\ pc[p] = "unknown"
  /\ Goto(p, IF file.aged THEN "remove" ELSE "wait")
  /\ UNCHANGED <<file, seen, signals, slow, trusted>>

\* Faulty variant: the stale file is left where it is.
RemoveNothing(p) ==
  /\ pc[p] = "remove"
  /\ Goto(p, "retry")
  /\ Forget(p)
  /\ UNCHANGED <<file, signals, slow>>

\* fs.rm(): whatever file is there now.
Remove(p) ==
  /\ pc[p] = "remove"
  /\ file' = NoFile
  /\ Goto(p, "retry")
  /\ Forget(p)
  /\ UNCHANGED <<signals, slow>>

\* The poll interval passes...
Wait(p) ==
  /\ pc[p] = "wait"
  /\ Goto(p, "retry")
  /\ Forget(p)
  /\ UNCHANGED <<file, signals, slow>>

\* ... and the timeout with it, which a slow probe may have used up before:
\* GatewayLockError, and the process exits.
GiveUp(p) ==
  /\ pc[p] = "wait" \/ (pc[p] = "retry" /\ p \in slow)
  /\ Goto(p, "failed")
  /\ UNCHANGED <<file, seen, signals, slow, trusted>>

-----------------------------------------------------------------------------
(* runGatewayLoop().                                                       *)

\* The HTTP server starts last, when channels and cron already run.
Listen(p) ==
  /\ pc[p] = "starting" /\ InTheWay(p) = {}
  /\ Goto(p, "serving")
  /\ UNCHANGED <<file, seen, signals, slow, trusted>>

\* start() throws, or a signal arrives meanwhile: release and exit.
StartEnds(p) ==
  /\ pc[p] = "starting"
  /\ Goto(p, "exiting")
  /\ \/ UNCHANGED signals
     \/ signals[p] = "installed" /\ signals' = [signals EXCEPT ![p] = "removed"]
  /\ UNCHANGED <<file, seen, slow, trusted>>

\* A signal: the handlers are removed, and close() first frees the port.
Signal(p) ==
  /\ pc[p] = "serving" /\ signals[p] = "installed"
  /\ signals' = [signals EXCEPT ![p] = "removed"]
  /\ Goto(p, "stopping")
  /\ Distrust(p)
  /\ UNCHANGED <<file, seen, slow>>

\* The service has stopped too.
Stopped(p) ==
  /\ pc[p] = "stopping"
  /\ Goto(p, "release")
  /\ UNCHANGED <<file, seen, signals, slow, trusted>>

\* release() removes the file, whoever's, and the process exits; a restart may
\* also go on in this process (XOPCBOT_NO_RESPAWN, or the spawn failed).
Release(p) ==
  /\ pc[p] \in {"release", "exiting"}
  /\ file' = NoFile
  /\ \/ Goto(p, "gone") /\ UNCHANGED slow
     \/ pc[p] = "release" /\ Goto(p, "try") /\ slow' = slow \ {p}
  /\ UNCHANGED <<seen, signals, trusted>>

\* The process dies without releasing: killed, by a signal without handlers, by
\* the force-exit timer, or because the port it starts on is in use.
Die(p) ==
  /\ pc[p] \in Contending \cup Holding
  /\ Goto(p, "gone")
  /\ IF p \in Gateway THEN Distrust(p) ELSE UNCHANGED trusted
  /\ UNCHANGED <<file, seen, signals, slow>>

\* staleMs passes; a process that writes its payload does not take so long.
Age ==
  /\ file # NoFile /\ ~file.aged
  /\ pc[file.by] # "write"
  /\ file' = [file EXCEPT !.aged = TRUE]
  /\ UNCHANGED <<pc, seen, signals, slow, trusted>>

Acquire(p) == \/ Create(p) \/ FindFile(p) \/ WritePayload(p) \/ ReadPayload(p)
              \/ ProbePort(p) \/ CheckPid(p) \/ CheckAge(p) \/ Remove(p)
              \/ Wait(p) \/ GiveUp(p)

Live(p) == Listen(p) \/ StartEnds(p) \/ Signal(p) \/ Stopped(p)

LockNext == \/ Age
            \/ \E p \in Process : Launch(p) \/ Acquire(p) \/ Release(p) \/ Die(p)
            \/ \E p \in Gateway : Live(p)

\* A contender's loop is driven by timers and file operations that complete.
LockSpec == LockInit /\ [][LockNext]_lockVars /\ \A p \in Process : WF_lockVars(Acquire(p))

-----------------------------------------------------------------------------
\* "Prevents multiple gateway instances from running simultaneously": never do
\* two gateways run between acquiring the lock and releasing it.
ExclusiveHolder == \A p, q \in Gateway :
  pc[p] \in Holding /\ pc[q] \in Holding => p = q

\* "Try to acquire lock - if successful, gateway is not running": whoever probes
\* while the owner serves goes on to the pid, unless the probe ran into its timer.
OwnerInServiceIsSeen ==
  [][\A p \in Process : pc[p] = "probe" /\ seen[p] \in Serving /\ pc'[p] = "remove"
       => p \in slow']_lockVars

\* A contender never removes the lock of a gateway that has been serving all
\* through its attempt on the port that it probes, and has not left its probe
\* unanswered, however stale what it read about the owner.
RemoveSparesServing ==
  [][\A p \in Process : pc[p] = "remove" /\ file # file' => file.by \notin trusted[p]]_lockVars

\* A dead gateway does not block the next one: a process that starts alone
\* against a complete lock file, or an unfinished one older than staleMs, acquires
\* the lock, dies, or is joined by another.  Its probe must not run into its timer
\* (whoever it is that drops connections to the port), for that may take all of a
\* command's time; nothing else excuses its giving up.
StaleLockIsTakenOver == \A p \in Process :
  pc[p] = "try" /\ Alive = {p} /\ (file.written \/ file.aged)
    ~> pc[p] \in Holding \cup {"gone"} \/ Alive \ {p} # {} \/ p \in slow
=============================================================================
