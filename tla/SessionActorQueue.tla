------------------------- MODULE SessionActorQueue -------------------------
(***************************************************************************)
(* The per-session actor queue of the ACP control plane                    *)
(* (src/acp/control-plane/session-actor-queue.ts).                         *)
(*                                                                         *)
(* actors is the Map of the class: a partial function from actor keys to   *)
(* {pending, running}.  A call of run() pushes its task and starts the     *)
(* head if nothing runs; a task that settles calls dequeue(), which starts *)
(* the next task or deletes the actor.  JavaScript runs the code between   *)
(* two awaits without interruption, so run() up to the task's first await  *)
(* is one step, and so is the tail of a task whose operation has settled.  *)
(***************************************************************************)
EXTENDS Naturals, Sequences

CONSTANTS Key,      \* actor keys, as normalizeActorKey returns them
          Op,       \* the calls of run(); each is made at most once
          KeyOf     \* the actor key each call is made under

ASSUME KeyOfAssumption == KeyOf \in [Op -> Key]

VARIABLES actors,   \* Map<string, ActorState>
          opState   \* where each call's operation stands

qvars == <<actors, opState>>

Outcome  == {"resolved", "rejected"}
OpStates == {"new", "queued", "running"} \cup Outcome

Actor == [pending : Seq(Op), running : BOOLEAN]

TypeOK == /\ DOMAIN actors \subseteq Key
          /\ actors \in [DOMAIN actors -> Actor]
          /\ opState \in [Op -> OpStates]

-----------------------------------------------------------------------------
NewActor == [pending |-> <<>>, running |-> FALSE]

GetOrCreateActor(k) == IF k \in DOMAIN actors THEN actors[k] ELSE NewActor

PutActor(k, actor) ==
  [j \in DOMAIN actors \cup {k} |-> IF j = k THEN actor ELSE actors[j]]

DeleteActor(k) == [j \in DOMAIN actors \ {k} |-> actors[j]]

Push(actor, o) ==
  [pending |-> Append(actor.pending, o), running |-> actor.running]

\* Faulty variant: the youngest pending task is started instead of the oldest.
StartYoungest(k, actor, states) ==
  LET n == Len(actor.pending)
  IN  /\ actors' = PutActor(k, [pending |-> SubSeq(actor.pending, 1, n - 1),
                                running |-> TRUE])
      /\ opState' = [states EXCEPT ![actor.pending[n]] = "running"]

\* Shift the head of pending and start it; states is opState so far.
StartHead(k, actor, states) ==
  /\ actors' = PutActor(k, [pending |-> Tail(actor.pending), running |-> TRUE])
  /\ opState' = [states EXCEPT ![Head(actor.pending)] = "running"]

\* Faulty variant: the running flag is not looked at.
ProcessQueueAlways(k, actor, states) == StartHead(k, actor, states)

\* processQueue(): leave the actor alone while it runs a task.
ProcessQueue(k, actor, states) ==
  \/ /\ actor.running
     /\ actors' = PutActor(k, actor)
     /\ opState' = states
  \/ /\ ~actor.running
     /\ StartHead(k, actor, states)

\* Faulty variant: cleaning up without looking at pending.
DequeueDropping(k, states) ==
  /\ actors' = DeleteActor(k)
  /\ opState' = states

\* dequeue(): start the next task, or clean up the empty actor.  The early
\* return for a missing actor is dead code: BusyActorsRun says that the actor
\* of a running task is in the map, so actors[k] is defined here.
Dequeue(k, states) ==
  \/ /\ actors[k].pending # <<>>
     /\ StartHead(k, actors[k], states)
  \/ /\ actors[k].pending = <<>>
     /\ actors' = DeleteActor(k)
     /\ opState' = states

-----------------------------------------------------------------------------
Init == /\ actors = [k \in {} |-> NewActor]
        /\ opState = [o \in Op |-> "new"]

\* run(): push the task and process the queue.
Run(o) ==
  /\ opState[o] = "new"
  /\ ProcessQueue(KeyOf[o], Push(GetOrCreateActor(KeyOf[o]), o),
                  [opState EXCEPT ![o] = "queued"])

\* The operation of a running task settles: so does the caller's promise, and
\* the finally block of the task dequeues.
Settle(o, outcome) ==
  /\ opState[o] = "running"
  /\ Dequeue(KeyOf[o], [opState EXCEPT ![o] = outcome])

Next == \E o \in Op : Run(o) \/ \E r \in Outcome : Settle(o, r)

\* Callers need not call.  An operation that was started settles: what it
\* awaits (runtime calls, file writes) completes or fails.
Fairness == \A o \in Op : WF_qvars(\E r \in Outcome : Settle(o, r))

Safe == Init /\ [][Next]_qvars
Spec == Safe /\ Fairness

-----------------------------------------------------------------------------
Running(k) == {o \in Op : KeyOf[o] = k /\ opState[o] = "running"}
Unsettled == {o \in Op : opState[o] \in {"queued", "running"}}

\* Operations of one session never overlap: under an actor key at most one is
\* running, whatever the interleaving of run() calls and settling tasks.
MutualExclusion == \A o, p \in Op :
  (opState[o] = "running" /\ opState[p] = "running" /\ KeyOf[o] = KeyOf[p]) => o = p

\* No lost wake-up and no leak: the map holds an actor exactly while one of its
\* calls is unsettled, and then one of them is running, so that its dequeue()
\* will reach everything still pending.
BusyActorsRun ==
  /\ DOMAIN actors = {KeyOf[o] : o \in Unsettled}
  /\ \A k \in DOMAIN actors : actors[k].running /\ Running(k) # {}

\* The queue as its callers see it: the running call, then the pending ones.
LineOf(k) == IF k \in DOMAIN actors
               THEN <<CHOOSE o \in Op : KeyOf[o] = k /\ opState[o] = "running">>
                      \o actors[k].pending
               ELSE <<>>

Line == [k \in Key |-> LineOf(k)]
Returned == [o \in Op |-> IF opState[o] \in Outcome THEN opState[o] ELSE "none"]

Calls == INSTANCE SerialCalls WITH line <- Line, outcome <- Returned

\* Calls of one key return in the order they were made, one at a time, each
\* once, and every call made returns: the queue implements SerialCalls.
ImplementsSerialCalls == Calls!Spec
=============================================================================
