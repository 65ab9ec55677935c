---------------------------- MODULE AgentInbox -----------------------------
(***************************************************************************)
(* Messages between agent processes: the inbox of one agent                *)
(* (src/agent/ipc/inbox.ts) and the bus that listens to it and waits for   *)
(* the answers to what it has sent (src/agent/ipc/bus.ts).                 *)
(*                                                                         *)
(* A message is a file in the inbox's pending directory.  Whoever sends it *)
(* creates the file and then fills it, with nothing that says when.  The   *)
(* listener watches the directory: for every name that appears in it or    *)
(* leaves it, a loop starts that takes the oldest file, reads it, renames  *)
(* it into the processed directory, hands it over, and starts again.       *)
(* Nothing keeps two loops apart.                                          *)
(*                                                                         *)
(* A message is its identifier, which says when it was made, not when it   *)
(* was written.  The events of the watcher are the external part: one for  *)
(* each name that appears or leaves while somebody watches.                *)
(***************************************************************************)
EXTENDS Naturals, FiniteSets

CONSTANTS Message,    \* identifiers, in the order of their names
          Request,    \* tasks sent to other agents to wait for their answers
          ReplyTo,    \* the request that a message answers, or NoRequest
          Loop,       \* bound: loops that run together
          MaxCrashes, \* bound: how often the process dies
          NoRequest,
          NoLoop

ASSUME InboxAssumption == /\ Message \subseteq Nat
                          /\ ReplyTo \in [Message -> Request \cup {NoRequest}]
                          /\ NoRequest \notin Request /\ NoLoop \notin Loop
                          /\ MaxCrashes \in Nat

VARIABLES file,    \* each message's file: none, empty, whole, or moved away
          bus,     \* off, starting (before the watcher is there) or listening
          first,   \* the loop over what was there before the watcher
          events,  \* the watcher's events that no loop was started for yet
          pc,      \* where each loop stands
          target,  \* the file it has picked
          wait,    \* where each request stands
          handed,  \* how often each message was handed over (history)
          lost,    \* messages a dying process had in its hands (history)
          excused, \* what may stay behind, see MessagesAreTaken (history)
          crashes

loops     == <<pc, target, first>>
history   == <<handed, lost, excused>>
inboxVars == <<file, bus, events, loops, wait, history, crashes>>

Active == {"listing", "reading", "renaming", "carrying", "handling", "leaving"}
Open   == {"sending", "waiting"}

InboxTypeOK == /\ file \in [Message -> {"none", "empty", "whole", "moved"}]
               /\ bus \in {"off", "starting", "listening"}
               /\ first \in Loop \cup {NoLoop}
               /\ events \in Nat
               /\ pc \in [Loop -> Active \cup {"idle"}]
               /\ target \in [Loop -> Message \cup {NoRequest}]
               /\ wait \in [Request -> Open \cup {"new", "failed", "answered", "timedout",
                                                  "stopped", "lost"}]
               /\ handed \in [Message -> Nat]
               /\ lost \subseteq Message /\ excused \subseteq Message
               /\ crashes \in 0 .. MaxCrashes

InboxInit == /\ file = [m \in Message |-> "none"]
             /\ bus = "off" /\ first = NoLoop /\ events = 0
             /\ pc = [l \in Loop |-> "idle"]
             /\ target = [l \in Loop |-> NoRequest]
             /\ wait = [r \in Request |-> "new"]
             /\ handed = [m \in Message |-> 0]
             /\ lost = {} /\ excused = {}
             /\ crashes = 0

Pending == {m \in Message : file[m] \in {"empty", "whole"}}

\* A name appears in the directory, or leaves it.
Notify == events' = IF bus = "listening" THEN events + 1 ELSE events

Goto(l, label) == pc' = [pc EXCEPT ![l] = label]

-----------------------------------------------------------------------------
(* Senders.                                                                *)

\* enqueue(): the file is there, and empty.  An answer is made once its request
\* can be read, which may be before enqueue() has returned to who sent it.
Create(m) ==
  /\ file[m] = "none"
  /\ ReplyTo[m] # NoRequest => wait[ReplyTo[m]] \notin {"new", "failed"}
  /\ file' = [file EXCEPT ![m] = "empty"]
  /\ Notify
  \* the first loop may have looked for the last time, and nobody watches yet
  /\ excused' = IF /\ bus = "starting"
                   /\ pc[first] \in {"reading", "renaming", "leaving"}
                THEN excused \cup {m} ELSE excused
  /\ UNCHANGED <<bus, loops, wait, handed, lost, crashes>>

\* Its content is there.  A sender that dies or cannot write never gets here.
Fill(m) ==
  /\ file[m] = "empty"
  /\ file' = [file EXCEPT ![m] = "whole"]
  /\ UNCHANGED <<bus, events, loops, wait, history, crashes>>

\* sendTaskAndWait(): the task goes into the other agent's inbox, and only
\* when that has returned is the answer waited for.
Send(r) ==
  /\ wait[r] = "new"
  /\ wait' = [wait EXCEPT ![r] = "sending"]
  /\ UNCHANGED <<file, bus, events, loops, history, crashes>>

SendEnds(r) ==
  /\ wait[r] = "sending"
  /\ \E end \in {"waiting", "failed"} : wait' = [wait EXCEPT ![r] = end]
  /\ UNCHANGED <<file, bus, events, loops, history, crashes>>

\* Faulty variant: no timer for who begins to wait after the bus has stopped.
TimeoutWhileListening(r) ==
  /\ wait[r] = "waiting" /\ bus # "off"
  /\ wait' = [wait EXCEPT ![r] = "timedout"]
  /\ UNCHANGED <<file, bus, events, loops, history, crashes>>

Timeout(r) ==
  /\ wait[r] = "waiting"
  /\ wait' = [wait EXCEPT ![r] = "timedout"]
  /\ UNCHANGED <<file, bus, events, loops, history, crashes>>

-----------------------------------------------------------------------------
(* The listener.                                                           *)

\* Faulty variant: only the watcher, and what is there waits for the next name.
StartWatching(l) ==
  /\ bus = "off" /\ pc[l] = "idle"
  /\ bus' = "listening"
  /\ excused' = {}
  /\ UNCHANGED <<file, events, loops, wait, handed, lost, crashes>>

\* startListening(): first what is there, then the watcher.
Start(l) ==
  /\ bus = "off" /\ pc[l] = "idle"
  /\ bus' = "starting" /\ first' = l
  /\ Goto(l, "listing")
  /\ excused' = {}
  /\ UNCHANGED <<file, events, target, wait, handed, lost, crashes>>

\* stopListening(): no watcher, no waiter; loops that run go on.  While the
\* first loop runs there is no watcher to close, and later it will be there.
Stop ==
  /\ bus # "off"
  /\ bus' = IF bus = "listening" THEN "off" ELSE bus
  /\ events' = 0
  /\ wait' = [r \in Request |-> IF wait[r] = "waiting" THEN "stopped" ELSE wait[r]]
  /\ UNCHANGED <<file, loops, history, crashes>>

\* The watcher calls back: a loop starts.
Notice(l) ==
  /\ events > 0 /\ pc[l] = "idle"
  /\ events' = events - 1
  /\ Goto(l, "listing")
  /\ UNCHANGED <<file, bus, first, target, wait, history, crashes>>

\* dequeue(): the directory is listed,
List(l) ==
  /\ pc[l] = "listing"
  /\ \/ /\ Pending = {}
        /\ Goto(l, "leaving")
        /\ UNCHANGED target
     \/ /\ \E m \in Pending : /\ \A n \in Pending : m <= n
                              /\ target' = [target EXCEPT ![l] = m]
        /\ Goto(l, "reading")
  /\ UNCHANGED <<file, bus, first, events, wait, history, crashes>>

\* the oldest file is read and parsed,
Read(l) ==
  /\ pc[l] = "reading"
  /\ Goto(l, IF file[target[l]] = "whole" THEN "renaming" ELSE "leaving")
  /\ excused' = IF file[target[l]] = "empty" THEN excused \cup {target[l]} ELSE excused
  /\ UNCHANGED <<file, bus, first, target, events, wait, handed, lost, crashes>>

\* Faulty variant: what was read is handed over, moved or not.
RenameAnyway(l) ==
  /\ pc[l] = "renaming"
  /\ file' = [file EXCEPT ![target[l]] = "moved"]
  /\ Notify
  /\ Goto(l, "carrying")
  /\ UNCHANGED <<bus, first, target, wait, history, crashes>>

\* and moved, unless another loop has moved it since.
Rename(l) ==
  /\ pc[l] = "renaming"
  /\ \/ /\ file[target[l]] = "whole"
        /\ file' = [file EXCEPT ![target[l]] = "moved"]
        /\ Notify
        /\ Goto(l, "carrying")
     \/ /\ file[target[l]] # "whole"
        /\ Goto(l, "leaving")
        /\ UNCHANGED <<file, events>>
  /\ UNCHANGED <<bus, first, target, wait, history, crashes>>

\* The answer to a request that waits settles it; the rest is for the handler.
Awaited(m) == ReplyTo[m] # NoRequest /\ wait[ReplyTo[m]] = "waiting"

HandOver(l) ==
  LET m == target[l]
  IN  /\ pc[l] = "carrying"
      /\ handed' = [handed EXCEPT ![m] = @ + 1]
      /\ \/ /\ Awaited(m)
            /\ wait' = [wait EXCEPT ![ReplyTo[m]] = "answered"]
            /\ Goto(l, "listing")
         \/ /\ ~Awaited(m)
            /\ Goto(l, "handling")
            /\ UNCHANGED wait
      /\ UNCHANGED <<file, bus, first, target, events, lost, excused, crashes>>

\* The handler returns or throws, which is logged.
HandlerEnds(l) ==
  /\ pc[l] = "handling"
  /\ Goto(l, "listing")
  /\ UNCHANGED <<file, bus, first, target, events, wait, history, crashes>>

\* The loop ends; after the first one the watcher is set up.
Leave(l) ==
  /\ pc[l] = "leaving"
  /\ Goto(l, "idle")
  /\ target' = [target EXCEPT ![l] = NoRequest]
  /\ bus' = IF l = first THEN "listening" ELSE bus
  /\ first' = IF l = first THEN NoLoop ELSE first
  /\ UNCHANGED <<file, events, wait, history, crashes>>

\* The process dies, and with it what it had taken and not handed over.
Crash ==
  /\ crashes < MaxCrashes
  /\ crashes' = crashes + 1
  /\ lost' = lost \cup {target[l] : l \in {k \in Loop : pc[k] = "carrying"}}
  /\ pc' = [l \in Loop |-> "idle"]
  /\ target' = [l \in Loop |-> NoRequest]
  /\ bus' = "off" /\ first' = NoLoop /\ events' = 0
  /\ wait' = [r \in Request |-> IF wait[r] \in Open THEN "lost" ELSE wait[r]]
  /\ UNCHANGED <<file, handed, excused>>

-----------------------------------------------------------------------------
Proceed(l) == \/ List(l) \/ Read(l) \/ Rename(l)
              \/ HandOver(l) \/ HandlerEnds(l) \/ Leave(l)

InboxNext == \/ \E m \in Message : Create(m) \/ Fill(m)
             \/ \E r \in Request : Send(r) \/ SendEnds(r) \/ Timeout(r)
             \/ \E l \in Loop : Start(l) \/ Notice(l) \/ Proceed(l)
             \/ Stop \/ Crash

\* File operations and handlers end, events arrive, timers fire.
InboxFairness == /\ \A l \in Loop : WF_inboxVars(Proceed(l))
                 /\ WF_inboxVars(\E l \in Loop : Notice(l))
                 /\ \A r \in Request : WF_inboxVars(SendEnds(r)) /\ WF_inboxVars(Timeout(r))

InboxSpec == InboxInit /\ [][InboxNext]_inboxVars /\ InboxFairness

-----------------------------------------------------------------------------
Carriers(m) == {l \in Loop : pc[l] = "carrying" /\ target[l] = m}

(***************************************************************************)
(* A message that has left the pending directory is in one place: with one *)
(* loop that is about to hand it over, handed over once, or lost with the  *)
(* process that held it.  Loops that read the same file do not both have   *)
(* it, and one that is still there was handed to nobody.                   *)
(***************************************************************************)
Accounted ==
  \A m \in Message :
    Cardinality(Carriers(m)) + handed[m] + (IF m \in lost THEN 1 ELSE 0)
      = IF file[m] = "moved" THEN 1 ELSE 0

(***************************************************************************)
(* A whole message of an agent that listens is taken, however loops and    *)
(* senders interleave, with two exceptions: it, or an older one before it, *)
(* was found unreadable (its sender was still writing, or died), or was    *)
(* created after the first loop's last look and before the watcher.        *)
(***************************************************************************)
MessagesAreTaken ==
  \A m \in Message :
    file[m] = "whole" /\ bus # "off"
      ~> \/ file[m] = "moved" \/ bus = "off"
         \/ \E h \in excused \cap Pending : h <= m

\* Who waits for an answer gets it or an error: no order of answers, timers,
\* stops and loops leaves a request open.
WaitsEnd == \A r \in Request : wait[r] \in Open ~> wait[r] \notin Open

\* "Watch for new messages": every message of an agent that listens is handed
\* over in the end.
WatchedIsHandled ==
  \A m \in Message :
    file[m] = "whole" /\ bus = "listening" ~> file[m] = "moved" \/ bus = "off"

\* "Send a task and wait for response": who times out was not answered before.
TimedOutIsUnanswered ==
  [][\A r \in Request, m \in Message :
       ReplyTo[m] = r /\ wait[r] = "waiting" /\ wait'[r] = "timedout" => handed[m] = 0]_inboxVars
=============================================================================
