------------------------------ MODULE Outbound ------------------------------
(***************************************************************************)
(* Outbound messages from the bus to the channel, across restarts          *)
(* (src/infra/bus/queue.ts, ChannelManager.send and                        *)
(* replayPendingOutboundMessages of src/channels/manager.ts,               *)
(* src/channels/outbound/persist-store.ts, start, stop, sendMessage and    *)
(* the outbound processor of src/gateway/service.ts, and the restart in    *)
(* the same process of src/gateway/run-loop.ts).                           *)
(*                                                                         *)
(* A message is published on the bus, whose one consumer is the outbound   *)
(* processor, or sent directly.  Either way send() makes an entry in the   *)
(* durable queue, asks the hooks, hands the message to the channel and     *)
(* removes the entry.  send[m] is the await where the send of m stands.    *)
(* A message is one send: its identity stands for its entry's id.          *)
(*                                                                         *)
(* A gateway that is restarted in its process leaves the sends under way   *)
(* to go on beside the new one, with the store object they began with.     *)
(***************************************************************************)
EXTENDS Naturals, Sequences

CONSTANTS Msg,        \* messages
          Direct,     \* those that sendMessage sends, past the bus
          MaxLives,   \* bound: starts of the gateway
          MaxFaults   \* bound: writes of the durable queue that fail

ASSUME DirectAssumption == Direct \subseteq Msg
ASSUME BoundsAssumption == MaxLives \in Nat \ {0} /\ MaxFaults \in Nat

VARIABLES life,       \* the gateway process, from start() to its end
          lives,      \* how many times it was started
          faults,     \* how many writes have failed
          queue,      \* MessageBus.outboundQueue
          proc,       \* the outbound processor
          send,       \* where the send of each message stands
          pending,    \* OutboundPersistStore.pending
          file,       \* outbound-pending.json
          toReplay,   \* what replayPendingOutboundMessages has left to do
          again,      \* the gateway was restarted in this process
          old,        \* where the sends stand that it left to go on
          oldPending, \* OutboundPersistStore.pending of the store they use
          exposed,    \* messages whose entries shared the file with such sends
                      \* (history)
          published,  \* what the bus took in this life, in order, without what
                      \* its shutdown forgot (history)
          stored,     \* messages whose entry was written (history)
          settled     \* messages that the channel took or that send() gave up,
                      \* vetoed or refused (history)

process == <<life, lives, queue, proc, toReplay>>
store   == <<pending, file, faults>>
history == <<stored, settled>>
earlier == <<again, old, oldPending, exposed>>
vars    == <<process, store, history, published, send, earlier>>

Places    == {"new", "queued", "tts", "hook", "deliver", "taken", "sent", "over"}
InFlight  == {"tts", "hook", "deliver", "taken", "sent"}
Entries(s) == {s[i] : i \in DOMAIN s}
Under(sends) == {m \in Msg : sends[m] \in InFlight}

TypeOK == /\ life \in {"down", "replay", "up", "stopping"}
          /\ lives \in 0..MaxLives /\ faults \in 0..MaxFaults
          /\ proc \in {"off", "waiting", "busy", "backoff"}
          /\ send \in [Msg -> Places] /\ old \in [Msg -> Places] /\ again \in BOOLEAN
          /\ stored \subseteq Msg /\ settled \subseteq Msg /\ exposed \subseteq Msg
          /\ \A s \in {queue, pending, file, toReplay, published, oldPending} :
               /\ s \in Seq(Msg)
               /\ \A i, j \in DOMAIN s : s[i] = s[j] => i = j

-----------------------------------------------------------------------------
\* flush(): the whole list, to a temporary file that is renamed; it can fail.
Flushed(list) == /\ pending' = list
                 /\ file' = list
                 /\ UNCHANGED faults

FlushFails(list) == /\ faults < MaxFaults
                    /\ faults' = faults + 1
                    /\ pending' = list
                    /\ UNCHANGED file

\* pending.splice(i, 1)
Splice(s, i) == [j \in 1..(Len(s) - 1) |-> s[IF j < i THEN j ELSE j + 1]]

\* ack(): an entry that is not in the list is left alone; send and replay
\* alike swallow a failing write.
Ack(m) ==
  \/ m \notin Entries(pending) /\ UNCHANGED store
  \/ \E i \in DOMAIN pending :
       /\ pending[i] = m
       /\ Flushed(Splice(pending, i)) \/ FlushFails(Splice(pending, i))

\* The top of the processor's loop, with the sends as they now stand: take the
\* next message, wait for one, or leave when the service stops.
NextMessage(sends) ==
  \/ /\ life = "up" /\ queue # <<>>
     /\ proc' = "busy"
     /\ queue' = Tail(queue)
     /\ send' = [sends EXCEPT ![Head(queue)] = "tts"]
  \/ /\ life = "up" /\ queue = <<>>
     /\ proc' = "waiting"
     /\ send' = sends /\ UNCHANGED queue
  \/ /\ life = "stopping"
     /\ proc' = "off"
     /\ send' = sends /\ UNCHANGED queue

Replaying(m) == life = "replay" /\ toReplay # <<>> /\ m = Head(toReplay)

\* send() of m has returned to whoever called it.
Return(m) ==
  /\ UNCHANGED <<life, lives>>
  /\ \/ /\ Replaying(m)
        /\ toReplay' = Tail(toReplay)
        /\ send' = [send EXCEPT ![m] = "over"]
        /\ UNCHANGED <<queue, proc>>
     \/ /\ ~Replaying(m) /\ m \in Direct
        /\ send' = [send EXCEPT ![m] = "over"]
        /\ UNCHANGED <<queue, proc, toReplay>>
     \/ /\ ~Replaying(m) /\ m \notin Direct
        /\ NextMessage([send EXCEPT ![m] = "over"])
        /\ UNCHANGED toReplay

\* send() of m has thrown: the processor logs it and sleeps for a second.
Reject(m) ==
  /\ send' = [send EXCEPT ![m] = "over"]
  /\ proc' = IF m \in Direct THEN proc ELSE "backoff"
  /\ UNCHANGED <<life, lives, queue, toReplay>>

-----------------------------------------------------------------------------
Init == /\ life = "down" /\ lives = 0 /\ faults = 0
        /\ queue = <<>> /\ proc = "off" /\ toReplay = <<>>
        /\ pending = <<>> /\ file = <<>>
        /\ send = [m \in Msg |-> "new"]
        /\ stored = {} /\ settled = {} /\ published = <<>>
        /\ again = FALSE /\ old = [m \in Msg |-> "over"]
        /\ oldPending = <<>> /\ exposed = {}

\* start(): load the durable queue, start the channels, replay what it holds.
Start ==
  /\ life = "down" /\ lives < MaxLives
  /\ life' = "replay" /\ lives' = lives + 1
  /\ pending' = file /\ toReplay' = file
  /\ UNCHANGED <<queue, proc, send, file, faults, history, published, earlier>>

\* Faulty variant: the entry is removed before its message is sent again.
ReplayNextAckingFirst ==
  /\ life = "replay" /\ toReplay # <<>>
  /\ send[Head(toReplay)] = "over"
  /\ send' = [send EXCEPT ![Head(toReplay)] = "tts"]
  /\ Ack(Head(toReplay))
  /\ UNCHANGED <<process, history, published, earlier>>

\* replayPendingOutboundMessages: the next entry.  It is sent again, with
\* skipPersist; an entry settled in an earlier life is no longer new.
ReplayNext ==
  /\ life = "replay" /\ toReplay # <<>>
  /\ send[Head(toReplay)] = "over"
  /\ send' = [send EXCEPT ![Head(toReplay)] = "tts"]
  /\ UNCHANGED <<process, store, history, published, earlier>>

\* The rest of start(): the processor begins with what the bus has by now.
StartProcessor ==
  /\ life = "replay" /\ toReplay = <<>>
  /\ life' = "up"
  /\ \/ /\ queue # <<>>
        /\ proc' = "busy" /\ queue' = Tail(queue)
        /\ send' = [send EXCEPT ![Head(queue)] = "tts"]
     \/ /\ queue = <<>>
        /\ proc' = "waiting" /\ UNCHANGED <<queue, send>>
  /\ UNCHANGED <<lives, toReplay, store, history, published, earlier>>

\* Faulty variant: the waiting consumer is handed the message but not removed.
PublishKeepingConsumer(m) ==
  /\ m \notin Direct /\ send[m] = "new"
  /\ life \in {"replay", "up"}
  /\ \/ /\ proc # "waiting"
        /\ queue' = Append(queue, m)
        /\ send' = [send EXCEPT ![m] = "queued"]
     \/ /\ proc = "waiting"
        /\ send' = [send EXCEPT ![m] = "tts"]
        /\ UNCHANGED queue
  /\ published' = Append(published, m)
  /\ UNCHANGED <<proc, life, lives, toReplay, store, history, earlier>>

\* Faulty variant: the message is queued although the processor waits.
PublishToQueue(m) ==
  /\ m \notin Direct /\ send[m] = "new"
  /\ life \in {"replay", "up"}
  /\ queue' = Append(queue, m)
  /\ send' = [send EXCEPT ![m] = "queued"]
  /\ published' = Append(published, m)
  /\ UNCHANGED <<proc, life, lives, toReplay, store, history, earlier>>

\* Publishing while the processor does not wait, or with it waiting: then the
\* message is handed to it.  After the shutdown publishing does nothing.
Publish(m) ==
  /\ m \notin Direct /\ send[m] = "new"
  /\ \/ /\ life \in {"replay", "up"} /\ proc # "waiting"
        /\ queue' = Append(queue, m)
        /\ send' = [send EXCEPT ![m] = "queued"]
        /\ published' = Append(published, m)
        /\ UNCHANGED proc
     \/ /\ life \in {"replay", "up"} /\ proc = "waiting"
        /\ proc' = "busy"
        /\ send' = [send EXCEPT ![m] = "tts"]
        /\ published' = Append(published, m)
        /\ UNCHANGED queue
     \/ /\ life = "stopping"
        /\ send' = [send EXCEPT ![m] = "over"]
        /\ UNCHANGED <<queue, proc, published>>
  /\ UNCHANGED <<life, lives, toReplay, store, history, earlier>>

\* sendMessage: a request of the gateway's API, which listens after start().
SendDirect(m) ==
  /\ m \in Direct /\ send[m] = "new" /\ life = "up"
  /\ send' = [send EXCEPT ![m] = "tts"]
  /\ UNCHANGED <<process, store, history, published, earlier>>

\* The speech synthesis has returned: enqueue the message, unless it is being
\* replayed, and ask the hooks.  An entry that cannot be written stays in the
\* list in memory, and send() throws.
Persist(m) ==
  /\ send[m] = "tts"
  /\ \/ /\ Replaying(m)
        /\ send' = [send EXCEPT ![m] = "hook"]
        /\ UNCHANGED <<process, store, stored>>
     \/ /\ ~Replaying(m)
        /\ Flushed(Append(pending, m))
        /\ stored' = stored \cup {m}
        /\ send' = [send EXCEPT ![m] = "hook"]
        /\ UNCHANGED process
     \/ /\ ~Replaying(m)
        /\ FlushFails(Append(pending, m))
        /\ Reject(m)
        /\ UNCHANGED stored
  /\ exposed' = IF Under(old) = {} \/ Replaying(m) THEN exposed ELSE exposed \cup {m}
  /\ UNCHANGED <<settled, published, again, old, oldPending>>

\* The hooks let the message pass: hand it to the channel's adapter.
Pass(m) ==
  /\ send[m] = "hook"
  /\ send' = [send EXCEPT ![m] = "deliver"]
  /\ UNCHANGED <<process, store, history, published, earlier>>

\* A hook vetoes it, or its channel is internal, unknown or cannot send.
Drop(m) ==
  /\ send[m] = "hook"
  /\ settled' = settled \cup {m}
  /\ Ack(m) /\ Return(m)
  /\ UNCHANGED <<stored, published, earlier>>

\* The channel takes the message; the adapter does not know yet.
Take(m) ==
  /\ send[m] = "deliver"
  /\ send' = [send EXCEPT ![m] = "taken"]
  /\ settled' = settled \cup {m}
  /\ UNCHANGED <<process, store, stored, published, earlier>>

\* The adapter returns: it succeeded, or it reports a failure and the message
\* is given up.  Then the hooks are told.
Answer(m) ==
  /\ send[m] \in {"deliver", "taken"}
  /\ settled' = settled \cup {m}
  /\ send' = [send EXCEPT ![m] = "sent"]
  /\ UNCHANGED <<process, store, stored, published, earlier>>

\* Faulty variant: the entry is removed also when the adapter throws.
ThrowAcked(m) ==
  /\ send[m] \in {"deliver", "taken"}
  /\ Ack(m) /\ Return(m)
  /\ UNCHANGED <<history, published, earlier>>

\* The adapter throws, whether or not the channel took the message: the entry
\* stays for the next start.
Throw(m) ==
  /\ send[m] \in {"deliver", "taken"}
  /\ Return(m)
  /\ UNCHANGED <<store, history, published, earlier>>

\* The hooks were told: remove the entry.
Finish(m) ==
  /\ send[m] = "sent"
  /\ Ack(m) /\ Return(m)
  /\ UNCHANGED <<history, published, earlier>>

\* The processor's second of sleep is over.
Resume == /\ proc = "backoff"
          /\ NextMessage(send)
          /\ UNCHANGED <<life, lives, toReplay, store, history, published, earlier>>

\* stop(): running is cleared and the bus shut down, which rejects a waiting
\* processor and forgets the queue.  A send in progress goes on.  A signal
\* asks for it; after a restart in the process signals are no longer heard.
Stop ==
  /\ life = "up" /\ ~again
  /\ life' = "stopping"
  /\ proc' = IF proc = "waiting" THEN "off" ELSE proc
  /\ queue' = <<>>
  /\ send' = [m \in Msg |-> IF send[m] = "queued" THEN "over" ELSE send[m]]
  /\ published' = SubSeq(published, 1, Len(published) - Len(queue))
  /\ UNCHANGED <<lives, toReplay, store, history, earlier>>

\* What the end of a gateway takes with it: only the file remains.
Ends == /\ life' = "down" /\ proc' = "off"
        /\ queue' = <<>> /\ toReplay' = <<>> /\ pending' = <<>> /\ published' = <<>>
        /\ send' = [m \in Msg |-> IF send[m] = "new" THEN "new" ELSE "over"]
        /\ UNCHANGED <<lives, file, faults, history>>

\* The process ends, after stop() or by a crash.
Die == /\ life # "down" \/ again
       /\ Ends
       /\ again' = FALSE /\ old' = [m \in Msg |-> "over"] /\ oldPending' = <<>>
       /\ UNCHANGED exposed

\* handleRestartAfterClose: no other process is spawned, and the run loop will
\* start a new gateway in this one.  stop() did not wait for the sends under way.
Restart ==
  /\ life = "stopping" /\ lives < MaxLives
  /\ Ends
  /\ again' = TRUE
  /\ old' = [m \in Msg |-> IF m \in Under(send) THEN send[m] ELSE "over"]
  /\ oldPending' = IF Under(send) = {} THEN <<>> ELSE pending
  /\ exposed' = IF Under(send) = {} THEN exposed
                 ELSE exposed \cup Under(send) \cup Entries(pending) \cup Entries(file)

\* flush() of the store that the earlier gateway left: its own list.
OldFlushed(list) == oldPending' = list /\ file' = list /\ UNCHANGED faults

OldFlushFails(list) == /\ faults < MaxFaults
                       /\ faults' = faults + 1
                       /\ oldPending' = list
                       /\ UNCHANGED file

OldAck(m) ==
  \/ m \notin Entries(oldPending) /\ UNCHANGED <<oldPending, file, faults>>
  \/ \E i \in DOMAIN oldPending :
       /\ oldPending[i] = m
       /\ OldFlushed(Splice(oldPending, i)) \/ OldFlushFails(Splice(oldPending, i))

Goes(m, place) == old' = [old EXCEPT ![m] = place]

\* A send that the earlier gateway left goes on, as the actions above: its entry
\* is written, the hooks let it pass, the channel takes the message, the adapter
\* returns (Persist, Pass, Take, Answer), ...
OldGoesOn(m) ==
  /\ \/ /\ old[m] = "tts" /\ Goes(m, "hook")
        /\ OldFlushed(Append(oldPending, m))
        /\ stored' = stored \cup {m}
        /\ UNCHANGED settled
     \/ /\ old[m] = "hook" /\ Goes(m, "deliver")
        /\ UNCHANGED <<oldPending, file, faults, history>>
     \/ /\ old[m] = "deliver" /\ Goes(m, "taken")
        /\ settled' = settled \cup {m}
        /\ UNCHANGED <<oldPending, file, faults, stored>>
     \/ /\ old[m] \in {"deliver", "taken"} /\ Goes(m, "sent")
        /\ settled' = settled \cup {m}
        /\ UNCHANGED <<oldPending, file, faults, stored>>
  /\ UNCHANGED <<process, pending, published, send, again, exposed>>

\* ... or it ends: not written, vetoed, thrown by the adapter, or told (Persist,
\* Drop, Throw, Finish).
OldEnds(m) ==
  /\ Goes(m, "over")
  /\ \/ /\ old[m] = "tts" /\ OldFlushFails(Append(oldPending, m))
        /\ UNCHANGED history
     \/ /\ old[m] = "hook" /\ OldAck(m)
        /\ settled' = settled \cup {m} /\ UNCHANGED stored
     \/ /\ old[m] \in {"deliver", "taken"}
        /\ UNCHANGED <<oldPending, file, faults, history>>
     \/ old[m] = "sent" /\ OldAck(m) /\ UNCHANGED history
  /\ UNCHANGED <<process, pending, published, send, again, exposed>>

Step(m) == Persist(m) \/ Pass(m) \/ Drop(m) \/ Take(m) \/ Answer(m)
             \/ Throw(m) \/ Finish(m)

Next == \/ \E m \in Msg : Publish(m) \/ SendDirect(m) \/ Step(m)
                           \/ OldGoesOn(m) \/ OldEnds(m)
        \/ Start \/ ReplayNext \/ StartProcessor \/ Resume \/ Stop \/ Die \/ Restart

\* What the process awaits comes: speech, hooks and adapters return or throw,
\* the timer fires.  Nobody need publish, stop the gateway or start it again,
\* and nothing is expected of the sends of an earlier gateway.
Fairness == /\ \A m \in Msg : WF_vars(Persist(m) \/ Pass(m) \/ Drop(m)
                                         \/ Answer(m) \/ Throw(m) \/ Finish(m))
            /\ WF_vars(ReplayNext) /\ WF_vars(StartProcessor) /\ WF_vars(Resume)

Spec == Init /\ [][Next]_vars /\ Fairness

-----------------------------------------------------------------------------
\* Durability: a message whose entry was written stays in the file until the
\* channel took it or send() gave it up, through other sends' writes, failing
\* writes, replays, crashes and restarts, unless it was in the file while sends
\* of an earlier gateway of the process still used it.
KeptUntilDecided == stored \ exposed \subseteq Entries(file) \cup settled

\* An acknowledgement is final: a message whose entry has left the file is not
\* being sent any more, nor ever again, by this process or a later one, with the
\* same exception.
AckIsFinal == \A m \in stored \ (Entries(file) \cup exposed) : send[m] = "over"

\* Refuted in OutboundRestart.cfg: the same without the exception.  The store
\* of a gateway that was restarted in its process writes its own list over what
\* the next one has put into the file.
KeptThroughRestarts == stored \subseteq Entries(file) \cup settled

\* The bus keeps the order: no message is sent while one that was published
\* before it in the same life is still being sent or waits.
SentInOrder == \A i, j \in DOMAIN published :
  i < j /\ send[published[j]] # "queued" => send[published[i]] = "over"

\* No message is left waiting in the bus: the processor comes to every one,
\* whatever becomes of those before it, unless the gateway ends first.
PublishedIsSent == \A m \in Msg : send[m] = "queued" ~> send[m] # "queued"
=============================================================================
