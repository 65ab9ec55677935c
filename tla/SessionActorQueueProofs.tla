---------------------- MODULE SessionActorQueueProofs ----------------------
(***************************************************************************)
(* Proofs about the session actor queue, for any set of keys and calls:    *)
(* type correctness, mutual exclusion per key, and that the map holds an   *)
(* actor exactly while a call of its key is unsettled; and that the queue  *)
(* implements the safety of SerialCalls.                                   *)
(*                                                                         *)
(* None of these is inductive alone: starting the head of pending keeps    *)
(* mutual exclusion only because pending calls are waiting calls of that   *)
(* key, each listed once, and because the map forgets no waiting call.     *)
(***************************************************************************)
EXTENDS SessionActorQueue, SequenceTheorems, TLAPS

\* Every actor of the map runs a call of its key.
ActorsRun == \A k \in DOMAIN actors :
  /\ actors[k].running
  /\ \E o \in Op : KeyOf[o] = k /\ opState[o] = "running"

\* A call that has not settled has its actor.
UnsettledHaveActor == \A o \in Op :
  opState[o] \in {"queued", "running"} => KeyOf[o] \in DOMAIN actors

\* pending lists waiting calls of its own key, none of them twice...
PendingAreQueued == \A k \in DOMAIN actors : \A i \in DOMAIN actors[k].pending :
  /\ opState[actors[k].pending[i]] = "queued"
  /\ KeyOf[actors[k].pending[i]] = k

PendingOnce == \A k \in DOMAIN actors : \A i, j \in DOMAIN actors[k].pending :
  actors[k].pending[i] = actors[k].pending[j] => i = j

\* ... and every waiting call is listed.
QueuedArePending == \A o \in Op : opState[o] = "queued" =>
  \E i \in DOMAIN actors[KeyOf[o]].pending : actors[KeyOf[o]].pending[i] = o

IInv == /\ TypeOK
        /\ MutualExclusion
        /\ ActorsRun
        /\ UnsettledHaveActor
        /\ PendingAreQueued
        /\ PendingOnce
        /\ QueuedArePending

-----------------------------------------------------------------------------
\* What actors.set() leaves in the map: the new entry and the others.
LEMMA PutActorType ==
  ASSUME TypeOK, NEW k \in Key, NEW a \in Actor
  PROVE  /\ DOMAIN PutActor(k, a) = DOMAIN actors \cup {k}
         /\ PutActor(k, a)[k] = a
         /\ \A j \in DOMAIN actors : j # k => PutActor(k, a)[j] = actors[j]
         /\ PutActor(k, a) \in [DOMAIN PutActor(k, a) -> Actor]
         /\ DOMAIN PutActor(k, a) \subseteq Key
BY DEF PutActor, TypeOK

\* What actors.delete() leaves in the map: every other entry.
LEMMA DeleteActorType ==
  ASSUME TypeOK, NEW k \in Key
  PROVE  /\ DOMAIN DeleteActor(k) = DOMAIN actors \ {k}
         /\ \A j \in DOMAIN DeleteActor(k) : DeleteActor(k)[j] = actors[j]
         /\ DeleteActor(k) \in [DOMAIN DeleteActor(k) -> Actor]
         /\ DOMAIN DeleteActor(k) \subseteq Key
BY DEF DeleteActor, TypeOK

-----------------------------------------------------------------------------
\* A new queue has an empty map and no call has been made.
LEMMA InitIInv == Init => IInv
BY SMT DEF Init, IInv, TypeOK, MutualExclusion, ActorsRun, UnsettledHaveActor,
       PendingAreQueued, PendingOnce, QueuedArePending, OpStates, Outcome

\* run() by o when the actor is running a task: o joins pending.
LEMMA RunQueues ==
  ASSUME IInv, NEW o \in Op, Run(o), KeyOf[o] \in DOMAIN actors
  PROVE  IInv'
<1> DEFINE k == KeyOf[o]
           pushed == Push(actors[k], o)
<1>1. /\ k \in Key
      /\ actors[k] \in Actor
      /\ actors[k].running
  BY KeyOfAssumption DEF IInv, TypeOK, ActorsRun
<1>2. /\ pushed \in Actor
      /\ pushed.running
      /\ pushed.pending = Append(actors[k].pending, o)
  BY <1>1 DEF Actor, Push
<1>3. /\ opState[o] = "new"
      /\ actors' = PutActor(k, pushed)
      /\ opState' = [opState EXCEPT ![o] = "queued"]
  BY <1>1, <1>2 DEF Run, GetOrCreateActor, ProcessQueue
<1>4. /\ DOMAIN actors' = DOMAIN actors
      /\ actors'[k] = pushed
      /\ \A j \in DOMAIN actors : j # k => actors'[j] = actors[j]
      /\ actors' \in [DOMAIN actors' -> Actor]
  <2>1. /\ DOMAIN PutActor(k, pushed) = DOMAIN actors \cup {k}
        /\ PutActor(k, pushed)[k] = pushed
        /\ \A j \in DOMAIN actors : j # k => PutActor(k, pushed)[j] = actors[j]
        /\ PutActor(k, pushed) \in [DOMAIN PutActor(k, pushed) -> Actor]
    <3> HIDE DEF pushed
    <3>. QED  BY <1>1, <1>2, PutActorType DEF IInv
  <2>. QED  BY <2>1, <1>3
<1>5. /\ opState' \in [Op -> OpStates]
      /\ opState'[o] = "queued"
      /\ \A p \in Op : p # o => opState'[p] = opState[p]
  BY <1>3 DEF IInv, TypeOK, OpStates
<1>6. /\ DOMAIN pushed.pending = 1 .. (Len(actors[k].pending) + 1)
      /\ DOMAIN actors[k].pending = 1 .. Len(actors[k].pending)
      /\ Len(actors[k].pending) \in Nat
      /\ pushed.pending[Len(actors[k].pending) + 1] = o
      /\ \A i \in DOMAIN actors[k].pending : pushed.pending[i] = actors[k].pending[i]
  BY <1>1, <1>2 DEF Actor
<1>7. \A j \in DOMAIN actors : \A i \in DOMAIN actors[j].pending :
         actors[j].pending[i] \in Op /\ actors[j].pending[i] # o
  BY <1>3 DEF IInv, TypeOK, Actor, PendingAreQueued
<1>a. TypeOK'
  BY <1>4, <1>5 DEF IInv, TypeOK
<1>b. MutualExclusion'
  BY <1>3, <1>5 DEF IInv, MutualExclusion
<1>c. ActorsRun'
  BY <1>2, <1>3, <1>4, <1>5 DEF IInv, ActorsRun
<1>d. UnsettledHaveActor'
  BY <1>4, <1>5 DEF IInv, UnsettledHaveActor
<1>e. PendingAreQueued'
  <2> SUFFICES ASSUME NEW j \in DOMAIN actors', NEW i \in DOMAIN actors'[j].pending
               PROVE  /\ opState'[actors'[j].pending[i]] = "queued"
                      /\ KeyOf[actors'[j].pending[i]] = j
    BY DEF PendingAreQueued
  <2>1. CASE j = k
    <3> HIDE DEF k, pushed
    <3>1. i \in 1 .. (Len(actors[k].pending) + 1) /\ actors'[j].pending[i] = pushed.pending[i]
      BY <2>1, <1>4, <1>6
    <3>2. CASE i = Len(actors[k].pending) + 1
      BY <2>1, <3>1, <3>2, <1>5, <1>6 DEF k
    <3>3. CASE i # Len(actors[k].pending) + 1
      <4>1. i \in DOMAIN actors[k].pending /\ pushed.pending[i] = actors[k].pending[i]
        BY <3>1, <3>3, <1>6
      <4>2. k \in DOMAIN actors
        BY DEF k
      <4> QED BY <2>1, <3>1, <4>1, <4>2, <1>5, <1>7 DEF IInv, PendingAreQueued
    <3> QED BY <3>2, <3>3
  <2>2. CASE j # k
    BY <2>2, <1>4, <1>5, <1>7 DEF IInv, PendingAreQueued
  <2>. QED  BY <2>1, <2>2
<1>f. PendingOnce'
  <2> SUFFICES ASSUME NEW j \in DOMAIN actors',
                      NEW i1 \in DOMAIN actors'[j].pending,
                      NEW i2 \in DOMAIN actors'[j].pending,
                      actors'[j].pending[i1] = actors'[j].pending[i2]
               PROVE  i1 = i2
    BY DEF PendingOnce
  <2>1. CASE j = k
    <3> DEFINE n == Len(actors[k].pending)
    <3>1. pushed.pending[i1] = pushed.pending[i2]
          /\ i1 \in 1 .. (n + 1) /\ i2 \in 1 .. (n + 1)
      <4> HIDE DEF pushed
      <4> QED BY <2>1, <1>4, <1>6
    <3>2. \A i \in 1 .. n : pushed.pending[i] = actors[k].pending[i] /\ pushed.pending[i] # o
      <4> HIDE DEF pushed
      <4> QED BY <1>6, <1>7
    <3>3. pushed.pending[n + 1] = o
      BY <1>6
    <3>4. \A i, l \in 1 .. n : actors[k].pending[i] = actors[k].pending[l] => i = l
      BY <1>6 DEF IInv, PendingOnce
    <3> HIDE DEF pushed, k
    <3>5. n \in Nat
      BY <1>6
    <3> HIDE DEF n
    <3> QED BY <3>1, <3>2, <3>3, <3>4, <3>5
  <2>2. CASE j # k
    BY <2>2, <1>4 DEF IInv, PendingOnce
  <2>. QED  BY <2>1, <2>2
<1>g. QueuedArePending'
  <2> SUFFICES ASSUME NEW p \in Op, opState'[p] = "queued"
               PROVE  \E i \in DOMAIN actors'[KeyOf[p]].pending :
                         actors'[KeyOf[p]].pending[i] = p
    BY DEF QueuedArePending
  <2>1. CASE p = o
    BY <2>1, <1>4, <1>6
  <2>2. CASE p # o
    <3>1. opState[p] = "queued" /\ KeyOf[p] \in DOMAIN actors
      BY <2>2, <1>5 DEF IInv, UnsettledHaveActor
    <3>2. PICK i \in DOMAIN actors[KeyOf[p]].pending : actors[KeyOf[p]].pending[i] = p
      BY <3>1 DEF IInv, QueuedArePending
    <3>3. i \in DOMAIN actors'[KeyOf[p]].pending /\ actors'[KeyOf[p]].pending[i] = p
      BY <3>1, <3>2, <1>4, <1>6
    <3>. QED  BY <3>3
  <2>. QED  BY <2>1, <2>2
<1>. QED  BY <1>a, <1>b, <1>c, <1>d, <1>e, <1>f, <1>g DEF IInv

\* run() by o when its key has no actor: o starts at once.
LEMMA RunStarts ==
  ASSUME IInv, NEW o \in Op, Run(o), KeyOf[o] \notin DOMAIN actors
  PROVE  IInv'
<1> DEFINE k == KeyOf[o]
           started == [pending |-> <<>>, running |-> TRUE]
<1>1. k \in Key
  BY KeyOfAssumption
<1>2. started \in Actor
  BY DEF Actor
<1>3. /\ Push(NewActor, o).pending = <<o>>
      /\ Push(NewActor, o).running = FALSE
      /\ Tail(<<o>>) = <<>>
      /\ Head(<<o>>) = o
  BY DEF Push, NewActor
<1>4. /\ opState[o] = "new"
      /\ actors' = PutActor(k, started)
      /\ opState' = [[opState EXCEPT ![o] = "queued"] EXCEPT ![o] = "running"]
  BY <1>3 DEF Run, GetOrCreateActor, ProcessQueue, StartHead
<1>5. /\ DOMAIN actors' = DOMAIN actors \cup {k}
      /\ actors'[k] = started
      /\ \A j \in DOMAIN actors : j # k /\ actors'[j] = actors[j]
      /\ actors' \in [DOMAIN actors' -> Actor]
      /\ DOMAIN actors' \subseteq Key
  <2>1. k \notin DOMAIN actors
    OBVIOUS
  <2> HIDE DEF k, started
  <2>2. /\ DOMAIN PutActor(k, started) = DOMAIN actors \cup {k}
        /\ PutActor(k, started)[k] = started
        /\ \A j \in DOMAIN actors : j # k => PutActor(k, started)[j] = actors[j]
        /\ PutActor(k, started) \in [DOMAIN PutActor(k, started) -> Actor]
        /\ DOMAIN PutActor(k, started) \subseteq Key
    BY <1>1, <1>2, PutActorType DEF IInv
  <2> QED BY <2>1, <2>2, <1>4
<1>6. /\ opState' \in [Op -> OpStates]
      /\ opState'[o] = "running"
      /\ \A p \in Op : p # o => opState'[p] = opState[p]
  BY <1>4 DEF IInv, TypeOK, OpStates
<1>7. \A j \in DOMAIN actors : \A i \in DOMAIN actors[j].pending :
         actors[j].pending[i] \in Op /\ actors[j].pending[i] # o
  BY <1>4 DEF IInv, TypeOK, Actor, PendingAreQueued
<1>8. \A p \in Op : opState[p] \in {"queued", "running"} => KeyOf[p] # k
  BY DEF IInv, UnsettledHaveActor
<1>9. started.running /\ DOMAIN started.pending = {}
  OBVIOUS
<1>a. TypeOK'
  BY <1>5, <1>6 DEF TypeOK
<1>b. MutualExclusion'
  BY <1>6, <1>8 DEF IInv, MutualExclusion
<1>c. ActorsRun'
  BY <1>4, <1>5, <1>6, <1>9 DEF IInv, ActorsRun
<1>d. UnsettledHaveActor'
  BY <1>5, <1>6 DEF IInv, UnsettledHaveActor
<1>e. PendingAreQueued'
  BY <1>5, <1>6, <1>7, <1>9 DEF IInv, PendingAreQueued
<1>f. PendingOnce'
  BY <1>5, <1>9 DEF IInv, PendingOnce
<1>g. QueuedArePending'
  <2> SUFFICES ASSUME NEW p \in Op, opState'[p] = "queued"
               PROVE  \E i \in DOMAIN actors'[KeyOf[p]].pending :
                         actors'[KeyOf[p]].pending[i] = p
    BY DEF QueuedArePending
  <2>1. opState[p] = "queued" /\ KeyOf[p] \in DOMAIN actors
    BY <1>6 DEF IInv, UnsettledHaveActor
  <2>. QED  BY <2>1, <1>5 DEF IInv, QueuedArePending
<1>. QED  BY <1>a, <1>b, <1>c, <1>d, <1>e, <1>f, <1>g DEF IInv

\* The last call of a key settles: its actor is deleted.
LEMMA SettleLast ==
  ASSUME IInv, NEW o \in Op, NEW r \in Outcome, Settle(o, r),
         actors[KeyOf[o]].pending = <<>>
  PROVE  IInv'
<1> DEFINE k == KeyOf[o]
<1>1. /\ k \in Key
      /\ k \in DOMAIN actors
      /\ opState[o] = "running"
  BY KeyOfAssumption DEF Settle, IInv, UnsettledHaveActor
<1>2. /\ actors' = DeleteActor(k)
      /\ opState' = [opState EXCEPT ![o] = r]
  BY DEF Settle, Dequeue
<1>3. /\ DOMAIN actors' = DOMAIN actors \ {k}
      /\ \A j \in DOMAIN actors' : actors'[j] = actors[j]
      /\ actors' \in [DOMAIN actors' -> Actor]
      /\ DOMAIN actors' \subseteq Key
  BY <1>1, <1>2, DeleteActorType DEF IInv
<1>4. /\ opState' \in [Op -> OpStates]
      /\ opState'[o] \notin {"queued", "running"}
      /\ \A p \in Op : p # o => opState'[p] = opState[p]
  BY <1>2 DEF IInv, TypeOK, OpStates, Outcome
<1>5. \A p \in Op : p # o /\ opState[p] \in {"queued", "running"} => KeyOf[p] # k
  <2> SUFFICES ASSUME NEW p \in Op, p # o, opState[p] \in {"queued", "running"},
                      KeyOf[p] = k
               PROVE  FALSE
    OBVIOUS
  <2>1. opState[p] = "queued"
    BY <1>1 DEF IInv, MutualExclusion
  <2>2. DOMAIN actors[k].pending = {}
    OBVIOUS
  <2>. QED  BY <2>1, <2>2 DEF IInv, QueuedArePending
<1>6. \A j \in DOMAIN actors : \A i \in DOMAIN actors[j].pending :
         actors[j].pending[i] \in Op /\ actors[j].pending[i] # o
  BY <1>1 DEF IInv, TypeOK, Actor, PendingAreQueued
<1>a. TypeOK'
  BY <1>3, <1>4 DEF TypeOK
<1>b. MutualExclusion'
  BY <1>4 DEF IInv, MutualExclusion
<1>c. ActorsRun'
  BY <1>3, <1>4 DEF IInv, ActorsRun
<1>d. UnsettledHaveActor'
  BY <1>3, <1>4, <1>5 DEF IInv, UnsettledHaveActor
<1>e. PendingAreQueued'
  BY <1>3, <1>4, <1>6 DEF IInv, PendingAreQueued
<1>f. PendingOnce'
  BY <1>3 DEF IInv, PendingOnce
<1>g. QueuedArePending'
  BY <1>3, <1>4, <1>5 DEF IInv, UnsettledHaveActor, QueuedArePending
<1>. QED  BY <1>a, <1>b, <1>c, <1>d, <1>e, <1>f, <1>g DEF IInv

\* A call settles while others of its key wait: the oldest of them starts.
LEMMA SettleNext ==
  ASSUME IInv, NEW o \in Op, NEW r \in Outcome, Settle(o, r),
         actors[KeyOf[o]].pending # <<>>
  PROVE  IInv'
<1> DEFINE k == KeyOf[o]
           P == actors[k].pending
           n == Head(P)
           started == [pending |-> Tail(P), running |-> TRUE]
<1>1. /\ k \in Key
      /\ k \in DOMAIN actors
      /\ opState[o] = "running"
      /\ P \in Seq(Op)
      /\ P # <<>>
  BY KeyOfAssumption DEF Settle, IInv, TypeOK, Actor, UnsettledHaveActor
<1>2. /\ Len(P) \in Nat /\ Len(P) > 0
      /\ DOMAIN P = 1 .. Len(P)
      /\ n = P[1]
      /\ n \in Op
      /\ Tail(P) \in Seq(Op)
      /\ DOMAIN Tail(P) = 1 .. (Len(P) - 1)
      /\ \A i \in 1 .. (Len(P) - 1) : Tail(P)[i] = P[i + 1]
  <2> HIDE DEF P
  <2>. QED  BY <1>1
<1>3. opState[n] = "queued" /\ KeyOf[n] = k /\ n # o
  BY <1>1, <1>2 DEF IInv, PendingAreQueued
<1>4. started \in Actor /\ started.running /\ started.pending = Tail(P)
  BY <1>2 DEF Actor
<1>5. /\ actors' = PutActor(k, started)
      /\ opState' = [[opState EXCEPT ![o] = r] EXCEPT ![n] = "running"]
  BY <1>1 DEF Settle, Dequeue, StartHead
<1>6. /\ DOMAIN actors' = DOMAIN actors
      /\ actors'[k] = started
      /\ \A j \in DOMAIN actors : j # k => actors'[j] = actors[j]
      /\ actors' \in [DOMAIN actors' -> Actor]
      /\ DOMAIN actors' \subseteq Key
  <2>1. /\ DOMAIN PutActor(k, started) = DOMAIN actors \cup {k}
        /\ PutActor(k, started)[k] = started
        /\ \A j \in DOMAIN actors : j # k => PutActor(k, started)[j] = actors[j]
        /\ PutActor(k, started) \in [DOMAIN PutActor(k, started) -> Actor]
        /\ DOMAIN PutActor(k, started) \subseteq Key
    <3> HIDE DEF started
    <3>. QED  BY <1>1, <1>4, PutActorType DEF IInv
  <2>. QED  BY <2>1, <1>1, <1>5
<1>7. /\ opState' \in [Op -> OpStates]
      /\ opState'[o] \notin {"queued", "running"}
      /\ opState'[n] = "running"
      /\ \A p \in Op : p # o /\ p # n => opState'[p] = opState[p]
  BY <1>2, <1>3, <1>5 DEF IInv, TypeOK, OpStates, Outcome
<1>8. \A j \in DOMAIN actors : \A i \in DOMAIN actors[j].pending :
         /\ actors[j].pending[i] \in Op
         /\ actors[j].pending[i] # o
         /\ j # k => actors[j].pending[i] # n
  BY <1>1, <1>3 DEF IInv, TypeOK, Actor, PendingAreQueued
<1>9. \A i \in DOMAIN P : P[i] = n => i = 1
  BY <1>1, <1>2 DEF IInv, PendingOnce
<1>a. TypeOK'
  BY <1>6, <1>7 DEF TypeOK
<1>b. MutualExclusion'
  BY <1>1, <1>2, <1>3, <1>7 DEF IInv, MutualExclusion
<1>c. ActorsRun'
  <2> SUFFICES ASSUME NEW j \in DOMAIN actors
               PROVE  /\ actors'[j].running
                      /\ \E p \in Op : KeyOf[p] = j /\ opState'[p] = "running"
    BY <1>6 DEF ActorsRun
  <2>1. CASE j = k
    BY <2>1, <1>2, <1>3, <1>4, <1>6, <1>7
  <2>2. CASE j # k
    <3>1. PICK p \in Op : KeyOf[p] = j /\ opState[p] = "running"
      BY DEF IInv, ActorsRun
    <3>2. p # o /\ p # n
      BY <3>1, <2>2, <1>3
    <3>. QED  BY <3>1, <3>2, <2>2, <1>6, <1>7 DEF IInv, ActorsRun
  <2>. QED  BY <2>1, <2>2
<1>d. UnsettledHaveActor'
  BY <1>1, <1>2, <1>3, <1>6, <1>7 DEF IInv, UnsettledHaveActor
<1>e. PendingAreQueued'
  <2> SUFFICES ASSUME NEW j \in DOMAIN actors, NEW i \in DOMAIN actors'[j].pending
               PROVE  /\ opState'[actors'[j].pending[i]] = "queued"
                      /\ KeyOf[actors'[j].pending[i]] = j
    BY <1>6 DEF PendingAreQueued
  <2>1. CASE j = k
    <3>1. i \in 1 .. (Len(P) - 1) /\ actors'[j].pending[i] = P[i + 1]
      BY <2>1, <1>2, <1>4, <1>6
    <3>2. i + 1 \in DOMAIN P /\ i + 1 # 1
      BY <3>1, <1>2
    <3>3. opState[P[i + 1]] = "queued" /\ KeyOf[P[i + 1]] = k
      BY <3>2, <1>1 DEF IInv, PendingAreQueued
    <3>. QED  BY <2>1, <3>1, <3>2, <3>3, <1>1, <1>7, <1>8, <1>9
  <2>2. CASE j # k
    BY <2>2, <1>6, <1>7, <1>8 DEF IInv, PendingAreQueued
  <2>. QED  BY <2>1, <2>2
<1>f. PendingOnce'
  <2> SUFFICES ASSUME NEW j \in DOMAIN actors,
                      NEW i1 \in DOMAIN actors'[j].pending,
                      NEW i2 \in DOMAIN actors'[j].pending,
                      actors'[j].pending[i1] = actors'[j].pending[i2]
               PROVE  i1 = i2
    BY <1>6 DEF PendingOnce
  <2>1. CASE j = k
    <3>1. /\ i1 \in 1 .. (Len(P) - 1) /\ i2 \in 1 .. (Len(P) - 1)
          /\ P[i1 + 1] = P[i2 + 1]
      BY <2>1, <1>2, <1>4, <1>6
    <3>2. i1 + 1 \in DOMAIN P /\ i2 + 1 \in DOMAIN P
      BY <3>1, <1>2
    <3>3. i1 + 1 = i2 + 1
      BY <3>1, <3>2, <1>1 DEF IInv, PendingOnce
    <3>. QED  BY <3>1, <3>3, <1>2
  <2>2. CASE j # k
    BY <2>2, <1>6 DEF IInv, PendingOnce
  <2>. QED  BY <2>1, <2>2
<1>g. QueuedArePending'
  <2> SUFFICES ASSUME NEW p \in Op, opState'[p] = "queued"
               PROVE  \E i \in DOMAIN actors'[KeyOf[p]].pending :
                         actors'[KeyOf[p]].pending[i] = p
    BY DEF QueuedArePending
  <2>1. /\ opState[p] = "queued" /\ p # n
        /\ KeyOf[p] \in DOMAIN actors
    BY <1>7 DEF IInv, UnsettledHaveActor
  <2>2. PICK i \in DOMAIN actors[KeyOf[p]].pending : actors[KeyOf[p]].pending[i] = p
    BY <2>1 DEF IInv, QueuedArePending
  <2>3. CASE KeyOf[p] = k
    <3>1. i \in 2 .. Len(P)
      BY <2>1, <2>2, <2>3, <1>2
    <3>2. /\ i - 1 \in 1 .. (Len(P) - 1)
          /\ Tail(P)[i - 1] = P[i]
      BY <3>1, <1>2
    <3>. QED  BY <2>2, <2>3, <3>2, <1>2, <1>4, <1>6
  <2>4. CASE KeyOf[p] # k
    BY <2>1, <2>2, <2>4, <1>6
  <2>. QED  BY <2>3, <2>4
<1>. QED  BY <1>a, <1>b, <1>c, <1>d, <1>e, <1>f, <1>g DEF IInv

-----------------------------------------------------------------------------
\* What run() does to the calls: its own waits or runs, the others stand.
LEMMA RunMoves ==
  ASSUME IInv, NEW o \in Op, Run(o)
  PROVE  /\ opState[o] = "new" /\ opState'[o] \in {"queued", "running"}
         /\ \A p \in Op : p # o => opState'[p] = opState[p]
<1> DEFINE k == KeyOf[o]
<1>1. CASE k \in DOMAIN actors
  <2>1. actors[k].running
    BY <1>1 DEF IInv, ActorsRun
  <2>2. opState[o] = "new" /\ opState' = [opState EXCEPT ![o] = "queued"]
    BY <1>1, <2>1 DEF Run, GetOrCreateActor, ProcessQueue, Push
  <2> QED BY <2>2 DEF IInv, TypeOK
<1>2. CASE k \notin DOMAIN actors
  <2>1. Push(NewActor, o).running = FALSE /\ Head(Push(NewActor, o).pending) = o
    BY DEF Push, NewActor
  <2>2. /\ opState[o] = "new"
        /\ opState' = [[opState EXCEPT ![o] = "queued"] EXCEPT ![o] = "running"]
    BY <1>2, <2>1 DEF Run, GetOrCreateActor, ProcessQueue, StartHead
  <2> QED BY <2>2 DEF IInv, TypeOK
<1> QED BY <1>1, <1>2

\* What the end of an operation does to the calls: its own has settled, and of
\* the others at most a waiting one starts.
LEMMA SettleMoves ==
  ASSUME IInv, NEW o \in Op, NEW r \in Outcome, Settle(o, r)
  PROVE  /\ opState[o] = "running" /\ opState'[o] = r
         /\ \A p \in Op : p # o =>
              \/ opState'[p] = opState[p]
              \/ opState[p] = "queued" /\ opState'[p] = "running"
<1> DEFINE k == KeyOf[o]
           P == actors[k].pending
<1>1. /\ k \in DOMAIN actors
      /\ opState[o] = "running"
      /\ P \in Seq(Op)
  BY KeyOfAssumption DEF Settle, IInv, TypeOK, Actor, UnsettledHaveActor
<1>2. CASE P = <<>>
  <2>1. opState' = [opState EXCEPT ![o] = r]
    BY <1>2 DEF Settle, Dequeue
  <2> QED BY <1>1, <2>1 DEF IInv, TypeOK
<1>3. CASE P # <<>>
  <2>1. opState' = [[opState EXCEPT ![o] = r] EXCEPT ![Head(P)] = "running"]
    BY <1>3 DEF Settle, Dequeue, StartHead
  <2>2. Head(P) = P[1] /\ 1 \in DOMAIN P /\ Head(P) \in Op
    <3> HIDE DEF P
    <3> QED BY <1>1, <1>3
  <2>3. opState[Head(P)] = "queued" /\ Head(P) # o
    BY <1>1, <2>2 DEF IInv, PendingAreQueued
  <2> HIDE DEF P
  <2> QED BY <1>1, <2>1, <2>2, <2>3 DEF IInv, TypeOK
<1> QED BY <1>2, <1>3

-----------------------------------------------------------------------------
\* The invariant is inductive: it holds initially and every step keeps it.
THEOREM Inductive == Safe => []IInv
<1>1. Init => IInv
  BY InitIInv
<1>2. IInv /\ [Next]_qvars => IInv'
  <2> SUFFICES ASSUME IInv, [Next]_qvars
               PROVE  IInv'
    OBVIOUS
  <2>1. CASE UNCHANGED qvars
    BY <2>1 DEF qvars, IInv, TypeOK, MutualExclusion, ActorsRun,
                UnsettledHaveActor, PendingAreQueued, PendingOnce, QueuedArePending
  <2>2. ASSUME NEW o \in Op, Run(o)
        PROVE  IInv'
    BY <2>2, RunQueues, RunStarts
  <2>3. ASSUME NEW o \in Op, NEW r \in Outcome, Settle(o, r)
        PROVE  IInv'
    BY <2>3, SettleLast, SettleNext
  <2>. QED  BY <2>1, <2>2, <2>3 DEF Next
<1>. QED  BY <1>1, <1>2, PTL DEF Safe

\* Type correctness, for any keys and calls.
THEOREM TypeCorrect == Safe => []TypeOK
BY Inductive, PTL DEF IInv

\* Two operations of one session never overlap, for any keys and calls.
THEOREM SafeMutualExclusion == Safe => []MutualExclusion
BY Inductive, PTL DEF IInv

\* The map holds an actor exactly while a call of its key is unsettled, and
\* then one of these calls is running: no wake-up is lost, no actor leaks.
THEOREM SafeBusyActorsRun == Safe => []BusyActorsRun
<1>1. IInv => BusyActorsRun
  BY DEF IInv, TypeOK, ActorsRun, UnsettledHaveActor, BusyActorsRun, Running, Unsettled
<1>. QED  BY <1>1, Inductive, PTL

-----------------------------------------------------------------------------
(***************************************************************************)
(* SessionActorQueue implements the safety of SerialCalls: run() is an     *)
(* arrival, the end of an operation a return.  The inductive invariant     *)
(* gives the running call that heads each line.                            *)
(***************************************************************************)
\* The line of a key whose call o runs: o, then what is pending...
LEMMA LineNow ==
  ASSUME IInv, NEW o \in Op, opState[o] = "running"
  PROVE  LineOf(KeyOf[o]) = <<o>> \o actors[KeyOf[o]].pending
<1>1. KeyOf[o] \in DOMAIN actors
  BY DEF IInv, UnsettledHaveActor
<1>2. \A p \in Op : KeyOf[p] = KeyOf[o] /\ opState[p] = "running" <=> p = o
  BY DEF IInv, MutualExclusion
<1>3. (CHOOSE p \in Op : KeyOf[p] = KeyOf[o] /\ opState[p] = "running") = o
  BY <1>2
<1> QED BY <1>1, <1>3 DEF LineOf

\* ... and the same of the state after a step.
LEMMA LineNext ==
  ASSUME IInv', NEW o \in Op, opState'[o] = "running"
  PROVE  LineOf(KeyOf[o])' = <<o>> \o actors'[KeyOf[o]].pending
<1>1. KeyOf[o] \in DOMAIN actors'
  BY DEF IInv, UnsettledHaveActor
<1>2. \A p \in Op : KeyOf[p] = KeyOf[o] /\ opState'[p] = "running" <=> p = o
  BY DEF IInv, MutualExclusion
<1>3. (CHOOSE p \in Op : KeyOf[p] = KeyOf[o] /\ opState'[p] = "running") = o
  BY <1>2
<1> QED BY <1>1, <1>3 DEF LineOf

\* A step that leaves an actor and the calls of its key alone leaves its line.
LEMMA LineKept ==
  ASSUME IInv, IInv', NEW j \in Key,
         j \in DOMAIN actors <=> j \in DOMAIN actors',
         j \in DOMAIN actors => actors'[j] = actors[j],
         \A p \in Op : KeyOf[p] = j => opState'[p] = opState[p]
  PROVE  LineOf(j)' = LineOf(j)
<1>1. CASE j \in DOMAIN actors
  <2>1. PICK p \in Op : KeyOf[p] = j /\ opState[p] = "running"
    BY <1>1 DEF IInv, ActorsRun
  <2>2. opState'[p] = "running"
    BY <2>1
  <2>3. LineOf(j) = <<p>> \o actors[j].pending
    BY <2>1, LineNow
  <2>4. LineOf(j)' = <<p>> \o actors'[j].pending
    BY <2>1, <2>2, LineNext
  <2> QED BY <1>1, <2>3, <2>4
<1>2. CASE j \notin DOMAIN actors
  BY <1>2 DEF LineOf
<1> QED BY <1>1, <1>2

\* Growing and shrinking a line at its ends.
LEMMA LineGrows ==
  ASSUME NEW S, NEW o \in S, NEW h \in S, NEW p \in Seq(S)
  PROVE  <<h>> \o Append(p, o) = Append(<<h>> \o p, o)
<1>1. <<h>> \in Seq(S) /\ <<o>> \in Seq(S)
  OBVIOUS
<1>2. Append(p, o) = p \o <<o>> /\ Append(<<h>> \o p, o) = (<<h>> \o p) \o <<o>>
  BY <1>1, AppendIsConcat, ConcatProperties
<1> QED BY <1>1, <1>2, ConcatAssociative

LEMMA LineShrinks ==
  ASSUME NEW S, NEW h \in S, NEW p \in Seq(S)
  PROVE  /\ <<h>> \o p # <<>>
         /\ Head(<<h>> \o p) = h
         /\ Tail(<<h>> \o p) = p
         /\ p # <<>> => <<Head(p)>> \o Tail(p) = p
<1>1. <<h>> \in Seq(S) /\ Len(<<h>>) = 1 /\ <<h>>[1] = h
  OBVIOUS
<1> DEFINE l == <<h>> \o p
<1>2. /\ l \in Seq(S) /\ Len(l) = 1 + Len(p)
      /\ \A i \in 1 .. (1 + Len(p)) : l[i] = IF i <= 1 THEN h ELSE p[i - 1]
  BY <1>1, ConcatProperties
<1>3. Len(p) \in Nat
  OBVIOUS
<1> HIDE DEF l
<1>4. l # <<>> /\ Head(l) = h
  BY <1>2, <1>3
<1>5. Tail(l) = p
  <2>1. Tail(l) \in Seq(S) /\ Len(Tail(l)) = Len(p)
    BY <1>2, <1>3, <1>4
  <2>2. \A i \in 1 .. Len(p) : Tail(l)[i] = p[i]
    BY <1>2, <1>3, <1>4
  <2> QED BY <2>1, <2>2, SeqEqual
<1>6. p # <<>> => <<Head(p)>> \o Tail(p) = p
  BY ConcatSimplifications, HeadTailProperties
<1> QED BY <1>4, <1>5, <1>6 DEF l

-----------------------------------------------------------------------------
\* How a step shows in the lines: all that changes is the line of one key.
LEMMA LinesChange ==
  ASSUME IInv, IInv', NEW k \in Key, NEW l, LineOf(k)' = l,
         \A j \in Key : j # k => LineOf(j)' = LineOf(j)
  PROVE  Line' = [Line EXCEPT ![k] = l]
<1>1. \A j \in Key : LineOf(j)' = IF j = k THEN l ELSE LineOf(j)
  OBVIOUS
<1>2. Line' = [j \in Key |-> IF j = k THEN l ELSE LineOf(j)]
  BY <1>1 DEF Line
<1>3. [Line EXCEPT ![k] = l] = [j \in Key |-> IF j = k THEN l ELSE LineOf(j)]
  BY DEF Line
<1> QED BY <1>2, <1>3

\* A call that has not been made, or has returned, is in no line.
LEMMA NewNotInLine ==
  ASSUME IInv, NEW o \in Op, opState[o] = "new"
  PROVE  ~Calls!InLine(o)
<1> DEFINE k == KeyOf[o]
           p == actors[k].pending
<1>1. k \in Key /\ Line[k] = LineOf(k)
  BY KeyOfAssumption DEF Line
<1>2. CASE k \notin DOMAIN actors
  BY <1>1, <1>2 DEF LineOf, Calls!InLine
<1>3. CASE k \in DOMAIN actors
  <2>1. PICK h \in Op : KeyOf[h] = k /\ opState[h] = "running"
    BY <1>3 DEF IInv, ActorsRun
  <2>2. LineOf(k) = <<h>> \o p
    BY <2>1, LineNow
  <2>3. h # o /\ p \in Seq(Op) /\ \A i \in DOMAIN p : p[i] # o
    BY <1>3, <2>1 DEF IInv, TypeOK, Actor, PendingAreQueued
  <2> HIDE DEF p
  <2>4. \A i \in DOMAIN (<<h>> \o p) : (<<h>> \o p)[i] # o
    <3>1. <<h>> \in Seq(Op) /\ Len(<<h>>) = 1 /\ <<h>>[1] = h /\ Len(p) \in Nat
      BY <2>3
    <3>2. /\ <<h>> \o p \in Seq(Op) /\ Len(<<h>> \o p) = 1 + Len(p)
          /\ \A i \in 1 .. (1 + Len(p)) :
               (<<h>> \o p)[i] = IF i <= 1 THEN <<h>>[i] ELSE p[i - 1]
      BY <3>1, <2>3, ConcatProperties
    <3>3. DOMAIN (<<h>> \o p) = 1 .. (1 + Len(p))
      BY <3>2
    <3>4. \A i \in 1 .. (1 + Len(p)) : i > 1 => i - 1 \in DOMAIN p
      BY <2>3, <3>1
    <3>5. \A i \in 1 .. (1 + Len(p)) : i <= 1 => i = 1
      BY <3>1
    <3> QED BY <2>3, <3>1, <3>2, <3>3, <3>4, <3>5
  <2> QED BY <1>1, <2>2, <2>4 DEF Calls!InLine
<1> QED BY <1>2, <1>3

\* run() while a call of the key runs: the call goes to the end of the line.
LEMMA RunQueuesArrives ==
  ASSUME IInv, IInv', NEW o \in Op, Run(o), KeyOf[o] \in DOMAIN actors
  PROVE  Calls!Arrive(o)
<1> DEFINE k == KeyOf[o]
           a == actors[k]
           pushed == Push(a, o)
<1>1. /\ k \in Key
      /\ k \in DOMAIN actors
      /\ a \in Actor
      /\ a.running
      /\ a.pending \in Seq(Op)
  BY KeyOfAssumption DEF IInv, TypeOK, ActorsRun, Actor
<1>2. /\ pushed \in Actor
      /\ pushed.running
      /\ pushed.pending = Append(a.pending, o)
  BY <1>1 DEF Actor, Push
<1>3. /\ opState[o] = "new"
      /\ actors' = PutActor(k, pushed)
      /\ opState' = [opState EXCEPT ![o] = "queued"]
  BY <1>1, <1>2 DEF Run, GetOrCreateActor, ProcessQueue
<1>4. /\ DOMAIN actors' = DOMAIN actors
      /\ actors'[k] = pushed
      /\ \A j \in DOMAIN actors : j # k => actors'[j] = actors[j]
  <2>1. /\ DOMAIN PutActor(k, pushed) = DOMAIN actors \cup {k}
        /\ PutActor(k, pushed)[k] = pushed
        /\ \A j \in DOMAIN actors : j # k => PutActor(k, pushed)[j] = actors[j]
    <3> HIDE DEF pushed
    <3> QED BY <1>1, <1>2, PutActorType DEF IInv
  <2> QED BY <2>1, <1>1, <1>3
<1>5. PICK h \in Op : KeyOf[h] = k /\ opState[h] = "running"
  BY <1>1 DEF IInv, ActorsRun
<1>6. h # o /\ opState'[h] = "running" /\ \A q \in Op : q # o => opState'[q] = opState[q]
  BY <1>3, <1>5 DEF IInv, TypeOK
<1>7. LineOf(k) = <<h>> \o a.pending
  BY <1>5, LineNow
<1>8. LineOf(k)' = <<h>> \o pushed.pending
  <2>1. LineOf(KeyOf[h])' = <<h>> \o actors'[KeyOf[h]].pending
    BY <1>6, LineNext
  <2> QED BY <2>1, <1>4, <1>5
<1>9. LineOf(k)' = Append(LineOf(k), o)
  BY <1>1, <1>2, <1>7, <1>8, LineGrows
<1>10. \A j \in Key : j # k => LineOf(j)' = LineOf(j)
  BY <1>4, <1>6, LineKept
<1>11. Line' = [Line EXCEPT ![k] = Append(Line[k], o)]
  <2>1. Line[k] = LineOf(k)
    BY <1>1 DEF Line
  <2> QED BY <1>1, <1>9, <1>10, <2>1, LinesChange
<1>12. Returned' = Returned /\ Returned[o] = "none"
  BY <1>3, <1>6 DEF Returned, Outcome, IInv, TypeOK
<1>13. ~Calls!InLine(o)
  BY <1>3, NewNotInLine
<1> QED BY <1>11, <1>12, <1>13 DEF Calls!Arrive

\* run() of the first call of a key: it is the line.
LEMMA RunStartsArrives ==
  ASSUME IInv, IInv', NEW o \in Op, Run(o), KeyOf[o] \notin DOMAIN actors
  PROVE  Calls!Arrive(o)
<1> DEFINE k == KeyOf[o]
           started == [pending |-> <<>>, running |-> TRUE]
<1>1. k \in Key /\ k \notin DOMAIN actors /\ started \in Actor
  BY KeyOfAssumption DEF Actor
<1>2. /\ Push(NewActor, o).pending = <<o>>
      /\ Push(NewActor, o).running = FALSE
      /\ Tail(<<o>>) = <<>>
      /\ Head(<<o>>) = o
  BY DEF Push, NewActor
<1>3. /\ opState[o] = "new"
      /\ actors' = PutActor(k, started)
      /\ opState' = [[opState EXCEPT ![o] = "queued"] EXCEPT ![o] = "running"]
  BY <1>2 DEF Run, GetOrCreateActor, ProcessQueue, StartHead
<1>4. /\ DOMAIN actors' = DOMAIN actors \cup {k}
      /\ actors'[k] = started
      /\ \A j \in DOMAIN actors : actors'[j] = actors[j]
  <2>1. /\ DOMAIN PutActor(k, started) = DOMAIN actors \cup {k}
        /\ PutActor(k, started)[k] = started
        /\ \A j \in DOMAIN actors : j # k => PutActor(k, started)[j] = actors[j]
    <3> HIDE DEF started
    <3> QED BY <1>1, PutActorType DEF IInv
  <2> QED BY <2>1, <1>1, <1>3
<1>5. opState'[o] = "running" /\ \A q \in Op : q # o => opState'[q] = opState[q]
  BY <1>3 DEF IInv, TypeOK
<1>6. LineOf(k) = <<>>
  BY <1>1 DEF LineOf
<1>7. LineOf(k)' = Append(<<>>, o)
  <2>1. LineOf(KeyOf[o])' = <<o>> \o actors'[KeyOf[o]].pending
    BY <1>5, LineNext
  <2>2. actors'[k].pending = <<>> /\ <<o>> \o <<>> = Append(<<>>, o)
    BY <1>4
  <2> QED BY <2>1, <2>2
<1>8. \A j \in Key : j # k => LineOf(j)' = LineOf(j)
  BY <1>4, <1>5, LineKept
<1>9. Line' = [Line EXCEPT ![k] = Append(Line[k], o)]
  <2>1. Line[k] = <<>>
    BY <1>1, <1>6 DEF Line
  <2> QED BY <1>1, <1>7, <1>8, <2>1, LinesChange
<1>10. Returned' = Returned /\ Returned[o] = "none"
  BY <1>3, <1>5 DEF Returned, Outcome, IInv, TypeOK
<1>11. ~Calls!InLine(o)
  BY <1>3, NewNotInLine
<1> QED BY <1>9, <1>10, <1>11 DEF Calls!Arrive

\* A call that settles heads its line and returns; whichever way dequeue()
\* goes, what was pending is the new line.
LEMMA SettleReturns ==
  ASSUME IInv, IInv', NEW o \in Op, NEW r \in Outcome, Settle(o, r)
  PROVE  Calls!Return(o, r)
<1> DEFINE k == KeyOf[o]
           p == actors[k].pending
           started == [pending |-> Tail(p), running |-> TRUE]
<1>1. /\ k \in Key /\ k \in DOMAIN actors
      /\ opState[o] = "running"
      /\ p \in Seq(Op)
  BY KeyOfAssumption DEF Settle, IInv, TypeOK, Actor, UnsettledHaveActor
<1>2. LineOf(k) = <<o>> \o p
  BY <1>1, LineNow
<1>3. /\ <<o>> \o p # <<>>
      /\ Head(<<o>> \o p) = o
      /\ Tail(<<o>> \o p) = p
      /\ p # <<>> => <<Head(p)>> \o Tail(p) = p
  BY <1>1, LineShrinks
<1>4. /\ LineOf(k)' = p
      /\ \A j \in Key : j # k => LineOf(j)' = LineOf(j)
      /\ Returned' = [Returned EXCEPT ![o] = r]
  <2>1. CASE p = <<>>
    <3>1. /\ actors' = DeleteActor(k)
          /\ opState' = [opState EXCEPT ![o] = r]
      BY <2>1 DEF Settle, Dequeue
    <3>2. /\ DOMAIN actors' = DOMAIN actors \ {k}
          /\ \A j \in DOMAIN actors' : actors'[j] = actors[j]
      BY <1>1, <3>1, DeleteActorType DEF IInv
    <3>3. /\ opState'[o] = r
          /\ \A q \in Op : q # o => opState'[q] = opState[q]
      BY <3>1 DEF IInv, TypeOK
    <3>4. LineOf(k)' = p
      BY <2>1, <3>2 DEF LineOf
    <3>5. \A j \in Key : j # k => LineOf(j)' = LineOf(j)
      BY <3>2, <3>3, LineKept
    <3>6. Returned' = [Returned EXCEPT ![o] = r]
      BY <3>3 DEF Returned
    <3> QED BY <3>4, <3>5, <3>6
  <2>2. CASE p # <<>>
    <3>1. Head(p) \in Op /\ Head(p) = p[1] /\ 1 \in DOMAIN p /\ Tail(p) \in Seq(Op)
      <4> HIDE DEF p
      <4> QED BY <1>1, <2>2
    <3>2. opState[Head(p)] = "queued" /\ KeyOf[Head(p)] = k /\ Head(p) # o
      BY <1>1, <3>1 DEF IInv, PendingAreQueued
    <3>3. started \in Actor
      BY <3>1 DEF Actor
    <3>4. /\ actors' = PutActor(k, started)
          /\ opState' = [[opState EXCEPT ![o] = r] EXCEPT ![Head(p)] = "running"]
      BY <2>2, <1>1 DEF Settle, Dequeue, StartHead
    <3>5. /\ DOMAIN actors' = DOMAIN actors
          /\ actors'[k] = started
          /\ \A j \in DOMAIN actors : j # k => actors'[j] = actors[j]
      <4>1. /\ DOMAIN PutActor(k, started) = DOMAIN actors \cup {k}
            /\ PutActor(k, started)[k] = started
            /\ \A j \in DOMAIN actors : j # k => PutActor(k, started)[j] = actors[j]
        <5> HIDE DEF started
        <5> QED BY <1>1, <3>3, PutActorType DEF IInv
      <4> QED BY <4>1, <1>1, <3>4
    <3>6. /\ opState'[o] = r
          /\ opState'[Head(p)] = "running"
          /\ \A q \in Op : q # o /\ q # Head(p) => opState'[q] = opState[q]
      BY <3>1, <3>2, <3>4 DEF IInv, TypeOK
    <3>7. LineOf(k)' = p
      <4>1. PICK n \in Op : n = Head(p)
        BY <3>1
      <4>2. KeyOf[n] = k /\ opState'[n] = "running"
        BY <4>1, <3>2, <3>6
      <4>3. LineOf(KeyOf[n])' = <<n>> \o actors'[KeyOf[n]].pending
        BY <4>2, LineNext
      <4>4. LineOf(KeyOf[n])' = LineOf(k)' /\ actors'[KeyOf[n]].pending = Tail(p)
        BY <4>2, <3>5
      <4> HIDE DEF p
      <4> QED BY <4>1, <4>3, <4>4, <2>2, <1>3
    <3>8. \A j \in Key : j # k => LineOf(j)' = LineOf(j)
      BY <3>2, <3>5, <3>6, LineKept
    <3>9. Returned' = [Returned EXCEPT ![o] = r]
      BY <3>1, <3>2, <3>6 DEF Returned, Outcome
    <3> QED BY <3>7, <3>8, <3>9
  <2> QED BY <2>1, <2>2
<1>5. Line[k] = <<o>> \o p
  BY <1>1, <1>2 DEF Line
<1>6. Line' = [Line EXCEPT ![k] = Tail(Line[k])]
  BY <1>1, <1>3, <1>4, <1>5, LinesChange
<1>7. Line[k] # <<>> /\ o = Head(Line[k])
  BY <1>3, <1>5
<1> QED BY <1>4, <1>6, <1>7 DEF Calls!Return

\* The queue implements the safety of SerialCalls, for any keys and calls:
\* calls of one key return one at a time and in the order they were made, and
\* no call returns twice or without having been made.
THEOREM ImplementsSafely == Safe => Calls!Safe
<1>1. Init => Calls!Init
  <2> SUFFICES ASSUME Init PROVE Calls!Init
    OBVIOUS
  <2>1. \A k \in Key : LineOf(k) = <<>>
    BY DEF Init, LineOf
  <2>2. \A o \in Op : opState[o] \notin Outcome
    BY DEF Init, Outcome
  <2> QED BY <2>1, <2>2 DEF Calls!Init, Line, Returned
<1>2. IInv /\ IInv' /\ [Next]_qvars => [Calls!Next]_(Calls!vars)
  <2> SUFFICES ASSUME IInv, IInv', [Next]_qvars
               PROVE  [Calls!Next]_(Calls!vars)
    OBVIOUS
  <2>1. CASE UNCHANGED qvars
    <3>1. actors' = actors /\ opState' = opState
      BY <2>1 DEF qvars
    <3>2. UNCHANGED Calls!vars
      BY <3>1 DEF Calls!vars, Line, LineOf, Returned
    <3> QED BY <3>2
  <2>2. ASSUME NEW o \in Op, Run(o)
        PROVE  Calls!Next
    BY <2>2, RunQueuesArrives, RunStartsArrives DEF Calls!Next
  <2>3. ASSUME NEW o \in Op, NEW r \in Outcome, Settle(o, r)
        PROVE  Calls!Next
    BY <2>3, SettleReturns DEF Calls!Next, Calls!Outcome, Outcome
  <2> QED BY <2>1, <2>2, <2>3 DEF Next
<1> QED BY <1>1, <1>2, Inductive, PTL DEF Safe, Calls!Safe
=============================================================================
