--------------------------- MODULE AgentRunRelay ---------------------------
(***************************************************************************)
(* The relay of one web run and who uses it: src/gateway/agent-run-relay.ts *)
(* (ensureRun, publish, complete, subscribe), the generator of             *)
(* src/gateway/service.ts (runAgent) that publishes, and the two handlers  *)
(* of src/gateway/hono/sse.ts.                                             *)
(*                                                                         *)
(* The response to POST /api/agent pulls the generator: each event is      *)
(* published and then yielded, and the next is asked for when the response *)
(* has taken it.  POST /api/agent/resume subscribes: it is replayed the    *)
(* events from the first and then follows, asleep while there are none.    *)
(* The buffer has a limit and drops what comes after.  Five minutes after  *)
(* its completion the run is forgotten; who reads it keeps the buffer.     *)
(* Runs have random identifiers and share nothing here: one is enough.     *)
(***************************************************************************)
EXTENDS Naturals, Sequences

CONSTANTS Reader,     \* calls of resume
          MaxEvents,  \* MAX_EVENTS
          MaxSent     \* bound: how many events the agent's stream yields

ASSUME LimitAssumption == MaxEvents \in Nat /\ MaxSent \in Nat

VARIABLES pump,     \* where the generator stands
          run,      \* the relay's entry, its done flag, and whether it is deleted
          sent,     \* events published so far; an event is its number
          events,   \* state.events
          waiters,  \* state.waiters
          reader,   \* where each subscriber stands
          cursor,   \* its cursor
          got       \* what it was given (history)

entry   == <<run, events, sent>>
readers == <<waiters, reader, cursor, got>>
vars    == <<pump, run, sent, events, waiters, reader, cursor, got>>

TypeOK == /\ pump \in {"idle", "accepted", "preparing", "pulling", "writing", "failing", "over"}
          /\ run \in {"none", "live", "done", "gone"}
          /\ sent \in Nat
          /\ events \in Seq(Nat)
          /\ waiters \subseteq Reader
          /\ reader \in [Reader -> {"idle", "refused", "read", "wait", "ended"}]
          /\ cursor \in [Reader -> Nat]
          /\ got \in [Reader -> Seq(Nat)]

Init == /\ pump = "idle"
        /\ run = "none" /\ sent = 0 /\ events = <<>>
        /\ waiters = {}
        /\ reader = [s \in Reader |-> "idle"]
        /\ cursor = [s \in Reader |-> 0]
        /\ got = [s \in Reader |-> <<>>]

-----------------------------------------------------------------------------
WakeAll == /\ waiters' = {}
           /\ reader' = [s \in Reader |-> IF s \in waiters THEN "read" ELSE reader[s]]
           /\ UNCHANGED <<cursor, got>>

Store == /\ sent' = sent + 1
         /\ events' = IF Len(events) >= MaxEvents THEN events ELSE Append(events, sent + 1)

Publish == Store /\ WakeAll

\* runAgent: ensureRun and the status event.
Accept == /\ pump = "idle"
          /\ pump' = "accepted" /\ run' = "live"
          /\ Publish

\* The response has taken what was yielded; a closed connection takes anything.
Written == /\ pump \in {"accepted", "writing", "failing"}
           /\ pump' = [accepted |-> "preparing", writing |-> "pulling", failing |-> "over"][pump]
           /\ UNCHANGED <<entry, readers>>

Prepared == /\ pump = "preparing"
            /\ pump' = "pulling"
            /\ UNCHANGED <<entry, readers>>

\* prepareInboundAttachments throws: only the outer catch sees it.
PrepareFails == /\ pump = "preparing"
                /\ pump' = "over"
                /\ UNCHANGED <<entry, readers>>

Emit == /\ pump = "pulling" /\ sent < MaxSent
        /\ pump' = "writing"
        /\ Publish
        /\ UNCHANGED run

\* Faulty variant: the completion wakes nobody.
StreamEndsSilently == /\ pump = "pulling"
                      /\ pump' = "over" /\ run' = "done"
                      /\ UNCHANGED <<sent, events, readers>>

StreamEnds == /\ pump = "pulling"
              /\ pump' = "over" /\ run' = "done"
              /\ WakeAll
              /\ UNCHANGED <<sent, events>>

\* The error event and the completion, with no await between them.
StreamFails == /\ pump = "pulling"
               /\ pump' = "failing" /\ run' = "done"
               /\ Publish

Expire == /\ run = "done"
          /\ run' = "gone"
          /\ UNCHANGED <<pump, sent, events, readers>>

-----------------------------------------------------------------------------
Resume(s) == /\ reader[s] = "idle" /\ run # "none"
             /\ reader' = [reader EXCEPT ![s] = IF run = "gone" THEN "refused" ELSE "read"]
             /\ UNCHANGED <<pump, entry, waiters, cursor, got>>

Take(s) == /\ reader[s] = "read" /\ cursor[s] < Len(events)
           /\ got' = [got EXCEPT ![s] = Append(@, events[cursor[s] + 1])]
           /\ cursor' = [cursor EXCEPT ![s] = @ + 1]
           /\ UNCHANGED <<pump, entry, waiters, reader>>

Sleep(s) == /\ reader[s] = "read" /\ cursor[s] >= Len(events) /\ run = "live"
            /\ waiters' = waiters \cup {s}
            /\ reader' = [reader EXCEPT ![s] = "wait"]
            /\ UNCHANGED <<pump, entry, cursor, got>>

\* Faulty variant: the done flag is looked at before the buffer.
EndWhenDone(s) == /\ reader[s] = "read" /\ run \in {"done", "gone"}
                  /\ reader' = [reader EXCEPT ![s] = "ended"]
                  /\ UNCHANGED <<pump, entry, waiters, cursor, got>>

End(s) == /\ reader[s] = "read" /\ cursor[s] >= Len(events) /\ run \in {"done", "gone"}
          /\ reader' = [reader EXCEPT ![s] = "ended"]
          /\ UNCHANGED <<pump, entry, waiters, cursor, got>>

Follow(s) == Take(s) \/ Sleep(s) \/ End(s)

Next == \/ Accept \/ Written \/ Prepared \/ PrepareFails
        \/ Emit \/ StreamEnds \/ StreamFails \/ Expire
        \/ \E s \in Reader : Resume(s) \/ Follow(s)

\* A subscriber goes on by itself, and its connection takes what it is sent.
Spec == Init /\ [][Next]_vars /\ \A s \in Reader : WF_vars(Follow(s))

-----------------------------------------------------------------------------
(***************************************************************************)
(* No wake-up is lost: who sleeps is among the waiters, has read all there *)
(* is, and the run is not over.                                            *)
(***************************************************************************)
SleepersAreUpToDate ==
  \A s \in Reader : reader[s] = "wait" =>
    s \in waiters /\ cursor[s] = Len(events) /\ run = "live"

Lesser(m, n) == IF m < n THEN m ELSE n

(***************************************************************************)
(* Every subscriber, whenever it came, is given the run's events from the  *)
(* first, in order and without a gap.  When its stream ends it has been    *)
(* given all of them, up to the limit of the buffer.                       *)
(***************************************************************************)
StreamIsComplete ==
  \A s \in Reader :
    /\ got[s] = [i \in 1 .. cursor[s] |-> i]
    /\ cursor[s] <= sent
    /\ reader[s] = "ended" => cursor[s] = Lesser(sent, MaxEvents)

\* Once the run is over, every subscription ends.
ReadersEnd == \A s \in Reader : run \in {"done", "gone"} /\ reader[s] \in {"read", "wait"}
                                  ~> reader[s] = "ended"
=============================================================================
