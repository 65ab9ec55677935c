----------------------- MODULE AcpControlPlaneProofs -----------------------
(***************************************************************************)
(* What AcpControlPlane promises, for any sessions, calls and operations.  *)
(*                                                                         *)
(* The manager touches its actor queue only by run() and by the end of an  *)
(* operation, so what SessionActorQueueProofs shows of the queue alone     *)
(* holds of the queue inside the manager: the operations of one session    *)
(* never overlap.  All else rests on that.  A turn is registered, marked   *)
(* "running" and unwound by one operation, and no other operation of its   *)
(* session runs meanwhile; what runs outside the queue (idle eviction, the *)
(* cancellation of a registered turn) does not touch the registry nor the  *)
(* stored state, and takes no handle from a session with a turn.           *)
(***************************************************************************)
EXTENDS AcpControlPlane, TLAPS

\* The theorems about the queue, for the manager's queue.
QueueProofs == INSTANCE SessionActorQueueProofs
                 WITH Key <- Session, Op <- Call, KeyOf <- SessionOf

\* TypeOK of what the manager keeps beside the queue.
ManagerTypeOK ==
  /\ kind \in [Call -> Kind \cup {"none"}]
  /\ pc \in [Call -> PC]
  /\ result \in [Call -> Queue!Outcome]
  /\ toEvict \in [Call -> SUBSET Session]
  /\ closing \in [Call -> SUBSET Session]
  /\ idle \subseteq cached /\ cached \subseteq Session
  /\ open \subseteq Session /\ transcript \subseteq Session
  /\ active \in [Session -> Call \cup {NoCall}]
  /\ meta \in [Session -> State]
  /\ oneshot \subseteq Session
  /\ left \subseteq Session

\* The operations of one session do not overlap.
OneAtATime == \A c, d \in Call :
  opState[c] = "running" /\ opState[d] = "running" /\ SessionOf[c] = SessionOf[d] => c = d

\* A call that waits in the queue has not begun its body.
WaitersWait == \A c \in Call : opState[c] = "queued" => pc[c] = "actor"

\* From resolveSession() until its handle is cached, a body's session has
\* metadata...
EnsuredHasMeta == \A c \in Call :
  opState[c] = "running" /\ pc[c] \in {"created", "ensureCached", "ensureStored", "ensured"}
    => meta[SessionOf[c]] # "absent"

\* ... and a turn that unwinds has replaced the "running" it had stored.
UnwindingIsStored == \A c \in Call :
  opState[c] = "running" /\ pc[c] = "unwinding" => meta[SessionOf[c]] # "running"

\* Only turns reach the labels of executeTurn().
OnlyTurnsMark == \A c \in Call :
  opState[c] = "running" /\ pc[c] \in {"marking", "lost", "streaming", "unwinding"}
    => kind[c] = "turn"

IInv == /\ ManagerTypeOK
        /\ WaitersWait
        /\ OnlyTurnsMark
        /\ EnsuredHasMeta
        /\ CachedHasMeta
        /\ UnwindingIsStored
        /\ RunningHasTurn
        /\ RegistryMatchesActor

-----------------------------------------------------------------------------
\* A process that has just started keeps no handle and no registered turn, and
\* what is stored was left by one that ended.
LEMMA InitEstablishes == Init => IInv
BY CallsAssumption
DEF Init, Queue!Init, IInv, ManagerTypeOK, WaitersWait, OnlyTurnsMark, EnsuredHasMeta, CachedHasMeta,
    UnwindingIsStored, RunningHasTurn, RegistryMatchesActor, PC, State, Kind, Queue!Outcome

\* Every step keeps the types, whatever the queue does.
LEMMA TypeStep == ManagerTypeOK /\ [Next]_vars => ManagerTypeOK'
<1> SUFFICES ASSUME ManagerTypeOK, [Next]_vars PROVE ManagerTypeOK'
  OBVIOUS
<1>0. SessionOf \in [Call -> Session] /\ KindsOf \in [Call -> SUBSET Kind]
  BY CallsAssumption, KindsAssumption
<1>1. {"resolved", "rejected"} = Queue!Outcome
  BY DEF Queue!Outcome
<1> USE <1>0, <1>1 DEF ManagerTypeOK, Goto, EndBody, At, SetSessionState, runtime, cache, store
<1>2. ASSUME NEW s \in Session, GrowIdle(s) PROVE ManagerTypeOK'
  BY <1>2 DEF GrowIdle
<1>3. ASSUME NEW c \in Call, Invoke(c) \/ ListPending(c) PROVE ManagerTypeOK'
  BY <1>3 DEF Invoke, ListPending, PC, Kind
<1>4. ASSUME NEW c \in Call, EvictSkip(c) PROVE ManagerTypeOK'
  BY <1>4 DEF EvictSkip
<1>5. ASSUME NEW c \in Call, Evict(c) PROVE ManagerTypeOK'
  BY <1>5 DEF Evict, StartClose, PC
<1>6. ASSUME NEW c \in Call, EvictClosed(c) PROVE ManagerTypeOK'
  BY <1>6 DEF EvictClosed, FinishClose, FailClose, PC
<1>7. ASSUME NEW c \in Call, CancelActiveTurn(c) \/ Enqueue(c) PROVE ManagerTypeOK'
  BY <1>7 DEF CancelActiveTurn, Enqueue, PC
<1>8. ASSUME NEW c \in Call, Ensure(c) PROVE ManagerTypeOK'
  <2>1. CASE Resolve(c) \/ AbortedInQueue(c) \/ ReuseHandle(c) \/ EnsureFails(c)
    BY <2>1 DEF Resolve, AbortedInQueue, ReuseHandle, EnsureFails, PC
  <2>2. CASE Create(c) \/ OpenHandle(c)
    BY <2>2 DEF Create, OpenHandle, PC, State
  <2>3. CASE DropAfterCreate(c) \/ CacheHandle(c)
    BY <2>3 DEF DropAfterCreate, CacheHandle, PC
  <2> QED BY <1>8, <2>1, <2>2, <2>3 DEF Ensure
<1>9. ASSUME NEW c \in Call, Turn(c) PROVE ManagerTypeOK'
  <2>1. CASE MarkRunning(c) \/ MarkFails(c) \/ TurnSucceeds(c) \/ TurnFails(c)
             \/ IdleNotWritten(c)
    BY <2>1 DEF MarkRunning, MarkFails, TurnSucceeds, TurnFails, IdleNotWritten, PC, State
  <2>2. CASE RegisterTurn(c) \/ UnwindTurn(c)
    BY <2>2 DEF RegisterTurn, UnwindTurn, PC
  <2>3. CASE OneshotClose(c) \/ OneshotClosed(c)
    BY <2>3 DEF OneshotClose, OneshotClosed, StartClose, FinishClose, FailClose, PC
  <2> QED BY <1>9, <2>1, <2>2, <2>3 DEF Turn
<1>10. ASSUME NEW c \in Call, Operate(c) PROVE ManagerTypeOK'
  <2>1. CASE InitializeReturns(c) \/ StatusReturns(c) \/ SetOption(c) \/ Reconcile(c)
    BY <2>1 DEF InitializeReturns, StatusReturns, SetOption, Reconcile, PC
  <2>2. CASE Control(c) \/ CloseMeta(c)
    BY <2>2 DEF Control, CloseMeta, PC, State, Queue!Outcome
  <2>3. CASE CloseRuntime(c) \/ RuntimeClosed(c)
    BY <2>3 DEF CloseRuntime, RuntimeClosed, StartClose, FinishClose, FailClose, PC
  <2>4. CASE Return(c)
    BY <2>4 DEF Return, PC
  <2> QED BY <1>10, <2>1, <2>2, <2>3, <2>4 DEF Operate
<1>11. CASE UNCHANGED vars
  BY <1>11 DEF vars
<1> QED BY <1>2, <1>3, <1>4, <1>5, <1>6, <1>7, <1>8, <1>9, <1>10, <1>11 DEF Next, Proceed, Enter

\* What the manager keeps beside its queue (manager.core.ts, turn-manager.ts,
\* runtime-cache-manager.ts) keeps its type.
THEOREM ManagerTypes == Spec => []ManagerTypeOK
<1>1. Init => ManagerTypeOK
  BY InitEstablishes DEF IInv
<1> QED BY <1>1, TypeStep, PTL DEF Spec

-----------------------------------------------------------------------------
(* The manager's queue is a queue.                                         *)

\* Steps of every operation but Enqueue and Return leave the queue alone.
LEMMA BodiesLeaveQueue ==
  ASSUME NEW c \in Call, Ensure(c) \/ Turn(c) \/ (Operate(c) /\ ~Return(c))
  PROVE  UNCHANGED queue
<1>1. CASE Ensure(c)
  BY <1>1 DEF Ensure, Resolve, AbortedInQueue, Create, DropAfterCreate, ReuseHandle,
              OpenHandle, EnsureFails, CacheHandle
<1>2. CASE Turn(c)
  BY <1>2 DEF Turn, MarkRunning, MarkFails, RegisterTurn, TurnSucceeds, TurnFails,
              IdleNotWritten, UnwindTurn,
              OneshotClose, OneshotClosed
<1>3. CASE Operate(c) /\ ~Return(c)
  BY <1>3 DEF Operate, InitializeReturns, StatusReturns, SetOption, Reconcile, Control,
              CloseRuntime, RuntimeClosed, CloseMeta
<1> QED BY <1>1, <1>2, <1>3

\* Every step of the manager is a run(), the end of an operation, or nothing
\* to the queue.
LEMMA QueueStep == ManagerTypeOK /\ [Next]_vars => [Queue!Next]_queue
<1> SUFFICES ASSUME ManagerTypeOK, [Next]_vars PROVE [Queue!Next]_queue
  OBVIOUS
<1>1. ASSUME NEW c \in Call, Enqueue(c) PROVE Queue!Next
  BY <1>1 DEF Enqueue, Queue!Next
<1>2. ASSUME NEW c \in Call, Return(c) PROVE Queue!Next
  <2>1. result[c] \in Queue!Outcome /\ Queue!Settle(c, result[c])
    BY <1>2 DEF Return, ManagerTypeOK
  <2> QED BY <2>1 DEF Queue!Next
<1>3. ASSUME NEW s \in Session, GrowIdle(s) PROVE UNCHANGED queue
  BY <1>3 DEF GrowIdle
<1>4. ASSUME NEW c \in Call,
             Invoke(c) \/ ListPending(c) \/ EvictSkip(c) \/ Evict(c) \/ EvictClosed(c)
               \/ CancelActiveTurn(c)
      PROVE  UNCHANGED queue
  BY <1>4 DEF Invoke, ListPending, EvictSkip, Evict, EvictClosed, CancelActiveTurn
<1>5. CASE UNCHANGED vars
  BY <1>5 DEF vars
<1> QED BY <1>1, <1>2, <1>3, <1>4, <1>5, BodiesLeaveQueue DEF Next, Proceed, Enter

\* The queue the manager instantiates and the one the proofs instantiate are
\* the same queue.
LEMMA SameQueue ==
  /\ Queue!Init <=> QueueProofs!Init
  /\ [Queue!Next]_queue <=> [QueueProofs!Next]_(QueueProofs!qvars)
  /\ Queue!TypeOK <=> QueueProofs!TypeOK
  /\ Queue!Outcome = QueueProofs!Outcome
  /\ \A c \in Call : Queue!Run(c) <=> QueueProofs!Run(c)
  /\ \A c \in Call, r \in Queue!Outcome : Queue!Settle(c, r) <=> QueueProofs!Settle(c, r)
BY DEF Queue!Init, QueueProofs!Init, Queue!Next, QueueProofs!Next, queue, QueueProofs!qvars,
       Queue!TypeOK, QueueProofs!TypeOK, Queue!Outcome, QueueProofs!Outcome,
       Queue!OpStates, QueueProofs!OpStates, Queue!Actor, QueueProofs!Actor,
       Queue!Run, QueueProofs!Run, Queue!Settle, QueueProofs!Settle,
       Queue!ProcessQueue, QueueProofs!ProcessQueue, Queue!Dequeue, QueueProofs!Dequeue,
       Queue!StartHead, QueueProofs!StartHead, Queue!Push, QueueProofs!Push,
       Queue!GetOrCreateActor, QueueProofs!GetOrCreateActor, Queue!PutActor,
       QueueProofs!PutActor, Queue!DeleteActor, QueueProofs!DeleteActor,
       Queue!NewActor, QueueProofs!NewActor

\* The calls a manager makes of its queue are calls of SessionActorQueue.
THEOREM UsesQueue == Spec => QueueProofs!Safe
<1>1. Init => QueueProofs!Init
  BY SameQueue DEF Init
<1>2. ManagerTypeOK /\ [Next]_vars => [QueueProofs!Next]_(QueueProofs!qvars)
  BY QueueStep, SameQueue
<1> QED BY <1>1, <1>2, ManagerTypes, PTL DEF Spec, QueueProofs!Safe

\* So the inductive invariant of session-actor-queue.ts holds inside the manager.
THEOREM QueueInvariant == Spec => []QueueProofs!IInv
<1>1. QueueProofs!Safe => []QueueProofs!IInv
  BY QueueProofs!Inductive, CallsAssumption
<1> QED BY <1>1, UsesQueue, PTL

\* The state of manager and queue keeps its type.
THEOREM TypeCorrect == Spec => []TypeOK
<1>1. ManagerTypeOK /\ QueueProofs!IInv => TypeOK
  BY SameQueue DEF TypeOK, ManagerTypeOK, QueueProofs!IInv
<1> QED BY <1>1, ManagerTypes, QueueInvariant, PTL

\* Operations of one session never overlap in the manager either.
THEOREM OperationsTakeTurns == Spec => []OneAtATime
<1>1. QueueProofs!IInv => OneAtATime
  BY DEF QueueProofs!IInv, QueueProofs!MutualExclusion, OneAtATime
<1> QED BY <1>1, QueueInvariant, PTL

\* How the two steps that go through the queue move the calls.
LEMMA EnqueueMoves ==
  ASSUME QueueProofs!IInv, NEW c \in Call, Enqueue(c)
  PROVE  /\ opState[c] = "new" /\ opState'[c] \in {"queued", "running"}
         /\ \A d \in Call : d # c => opState'[d] = opState[d]
<1>1. QueueProofs!Run(c)
  BY SameQueue DEF Enqueue
<1> QED BY <1>1, QueueProofs!RunMoves, CallsAssumption

LEMMA ReturnMoves ==
  ASSUME ManagerTypeOK, QueueProofs!IInv, NEW c \in Call, Return(c)
  PROVE  /\ opState[c] = "running" /\ opState'[c] \in {"resolved", "rejected"}
         /\ \A d \in Call : d # c =>
              \/ opState'[d] = opState[d]
              \/ opState[d] = "queued" /\ opState'[d] = "running"
<1>1. result[c] \in Queue!Outcome /\ Queue!Settle(c, result[c])
  BY DEF Return, ManagerTypeOK
<1>2. result[c] \in QueueProofs!Outcome /\ QueueProofs!Settle(c, result[c])
  BY <1>1, SameQueue
<1>3. result[c] \in {"resolved", "rejected"}
  BY <1>1 DEF Queue!Outcome
<1> QED BY <1>2, <1>3, QueueProofs!SettleMoves, CallsAssumption

-----------------------------------------------------------------------------
(* What a step can touch.                                                  *)

Outside(c) == \/ Invoke(c) \/ ListPending(c) \/ EvictSkip(c) \/ Evict(c)
              \/ EvictClosed(c) \/ CancelActiveTurn(c)

Body(c) == Ensure(c) \/ Turn(c) \/ (Operate(c) /\ ~Return(c))

\* A step of the system is outside the queue, into it, inside an operation's
\* body, or its end.
LEMMA StepCases == [Next]_vars =>
  \/ UNCHANGED vars
  \/ \E s \in Session : GrowIdle(s)
  \/ \E c \in Call : Outside(c) \/ Enqueue(c) \/ Body(c) \/ Return(c)
BY DEF Next, Proceed, Enter, Operate, Outside, Body

\* Outside the queue a call does not touch the registry nor the metadata, and
\* takes no handle from a session with a registered turn.
LEMMA OutsideMoves ==
  ASSUME ManagerTypeOK, NEW c \in Call, Outside(c)
  PROVE  /\ UNCHANGED <<queue, active, meta, left>>
         /\ pc[c] \in {"idle", "evict", "evictClose"}
         /\ pc'[c] \in {"evict", "evictClose", "done"}
         /\ \A d \in Call : d # c => pc'[d] = pc[d] /\ kind'[d] = kind[d]
         /\ cached' \subseteq cached
         /\ \A s \in cached : active[s] # NoCall => s \in cached'
<1> USE DEF ManagerTypeOK, Goto, store
<1>1. CASE Invoke(c)
  BY <1>1 DEF Invoke
<1>2. CASE ListPending(c) \/ EvictSkip(c)
  BY <1>2 DEF ListPending, EvictSkip, cache
<1>3. CASE Evict(c)
  BY <1>3 DEF Evict, StartClose
<1>4. CASE EvictClosed(c) \/ CancelActiveTurn(c)
  BY <1>4 DEF EvictClosed, CancelActiveTurn, cache
<1> QED BY <1>1, <1>2, <1>3, <1>4 DEF Outside

\* A body touches what is kept of its own session.
LEMMA BodyMoves ==
  ASSUME ManagerTypeOK, NEW c \in Call, Body(c)
  PROVE  /\ UNCHANGED <<queue, kind>>
         /\ opState[c] = "running"
         /\ \A d \in Call : d # c => pc'[d] = pc[d]
         /\ \A s \in Session : s # SessionOf[c] =>
              /\ active'[s] = active[s] /\ meta'[s] = meta[s]
              /\ (s \in cached' <=> s \in cached) /\ (s \in left' <=> s \in left)
<1>1. UNCHANGED queue
  BY BodiesLeaveQueue DEF Body
<1> USE DEF ManagerTypeOK, Goto, At, EndBody, SetSessionState, store, cache
<1>2. CASE Ensure(c)
  <2>1. CASE Resolve(c) \/ AbortedInQueue(c) \/ ReuseHandle(c) \/ EnsureFails(c)
    BY <1>1, <2>1 DEF Resolve, AbortedInQueue, ReuseHandle, EnsureFails
  <2>2. CASE Create(c) \/ OpenHandle(c) \/ DropAfterCreate(c) \/ CacheHandle(c)
    BY <1>1, <2>2 DEF Create, OpenHandle, DropAfterCreate, CacheHandle
  <2> QED BY <1>2, <2>1, <2>2 DEF Ensure
<1>3. CASE Turn(c)
  <2>1. CASE MarkRunning(c) \/ MarkFails(c) \/ TurnSucceeds(c) \/ TurnFails(c)
             \/ IdleNotWritten(c)
    BY <1>1, <2>1 DEF MarkRunning, MarkFails, TurnSucceeds, TurnFails, IdleNotWritten
  <2>2. CASE RegisterTurn(c) \/ UnwindTurn(c)
    BY <1>1, <2>2 DEF RegisterTurn, UnwindTurn
  <2>3. CASE OneshotClose(c) \/ OneshotClosed(c)
    BY <1>1, <2>3 DEF OneshotClose, OneshotClosed, StartClose
  <2> QED BY <1>3, <2>1, <2>2, <2>3 DEF Turn
<1>4. CASE Operate(c) /\ ~Return(c)
  <2>1. CASE InitializeReturns(c) \/ StatusReturns(c) \/ SetOption(c) \/ Reconcile(c)
    BY <1>1, <2>1 DEF InitializeReturns, StatusReturns, SetOption, Reconcile
  <2>2. CASE Control(c) \/ CloseMeta(c)
    BY <1>1, <2>2 DEF Control, CloseMeta
  <2>3. CASE CloseRuntime(c) \/ RuntimeClosed(c)
    BY <1>1, <2>3 DEF CloseRuntime, RuntimeClosed, StartClose
  <2> QED BY <1>4, <2>1, <2>2, <2>3 DEF Operate
<1> QED BY <1>2, <1>3, <1>4 DEF Body

-----------------------------------------------------------------------------
(* The invariant, one conjunct at a time.                                  *)

Before == ManagerTypeOK /\ QueueProofs!IInv /\ OneAtATime

\* A call has not begun its body while it waits.
LEMMA WaitersStep == Before /\ WaitersWait /\ [Next]_vars => WaitersWait'
<1> SUFFICES ASSUME Before, WaitersWait, [Next]_vars,
                    NEW d \in Call, opState'[d] = "queued"
             PROVE  pc'[d] = "actor"
  BY DEF WaitersWait
<1> USE DEF Before, WaitersWait
<1>1. CASE UNCHANGED vars
  BY <1>1 DEF vars, queue
<1>2. ASSUME NEW s \in Session, GrowIdle(s) PROVE pc'[d] = "actor"
  BY <1>2 DEF GrowIdle, queue
<1>3. ASSUME NEW c \in Call, Outside(c) PROVE pc'[d] = "actor"
  BY <1>3, OutsideMoves DEF queue
<1>4. ASSUME NEW c \in Call, Enqueue(c) PROVE pc'[d] = "actor"
  BY <1>4, EnqueueMoves DEF Enqueue, Goto, ManagerTypeOK
<1>5. ASSUME NEW c \in Call, Body(c) PROVE pc'[d] = "actor"
  BY <1>5, BodyMoves DEF queue
<1>6. ASSUME NEW c \in Call, Return(c) PROVE pc'[d] = "actor"
  BY <1>6, ReturnMoves DEF Return, Goto, ManagerTypeOK
<1> QED BY <1>1, <1>2, <1>3, <1>4, <1>5, <1>6, StepCases

\* A call that runs after a step outside every body was running at the same
\* label before, or stands at the start of its body.
LEMMA RunningAfter ==
  ASSUME Before, WaitersWait, [Next]_vars, NEW d \in Call, opState'[d] = "running"
  PROVE  \/ Body(d)
         \/ pc'[d] \in {"actor", "evict", "evictClose", "done"}
         \/ opState[d] = "running" /\ pc'[d] = pc[d] /\ kind'[d] = kind[d]
<1> USE DEF Before, WaitersWait
<1>1. CASE UNCHANGED vars
  BY <1>1 DEF vars, queue
<1>2. ASSUME NEW s \in Session, GrowIdle(s) 
      PROVE  opState[d] = "running" /\ pc'[d] = pc[d] /\ kind'[d] = kind[d]
  BY <1>2 DEF GrowIdle, queue
<1>3. ASSUME NEW c \in Call, Outside(c)
      PROVE  \/ pc'[d] \in {"evict", "evictClose", "done"}
             \/ opState[d] = "running" /\ pc'[d] = pc[d] /\ kind'[d] = kind[d]
  BY <1>3, OutsideMoves DEF queue
<1>4. ASSUME NEW c \in Call, Enqueue(c)
      PROVE  \/ pc'[d] = "actor"
             \/ opState[d] = "running" /\ pc'[d] = pc[d] /\ kind'[d] = kind[d]
  BY <1>4, EnqueueMoves DEF Enqueue, Goto, ManagerTypeOK
<1>5. ASSUME NEW c \in Call, Body(c), c # d
      PROVE  opState[d] = "running" /\ pc'[d] = pc[d] /\ kind'[d] = kind[d]
  BY <1>5, BodyMoves DEF queue
<1>6. ASSUME NEW c \in Call, Return(c)
      PROVE  \/ pc'[d] = "actor"
             \/ opState[d] = "running" /\ pc'[d] = pc[d] /\ kind'[d] = kind[d]
  BY <1>6, ReturnMoves DEF Return, Goto, ManagerTypeOK
<1> QED BY <1>1, <1>2, <1>3, <1>4, <1>5, <1>6, StepCases

\* While d runs, only d touches its session's metadata, registry and cache.
LEMMA OwnSession ==
  ASSUME Before, [Next]_vars, NEW d \in Call, opState[d] = "running", ~Body(d)
  PROVE  /\ meta'[SessionOf[d]] = meta[SessionOf[d]]
         /\ active'[SessionOf[d]] = active[SessionOf[d]]
<1> USE DEF Before
<1>1. CASE UNCHANGED vars
  BY <1>1 DEF vars, store
<1>2. ASSUME NEW s \in Session, GrowIdle(s) PROVE UNCHANGED <<meta, active>>
  BY <1>2 DEF GrowIdle, store
<1>3. ASSUME NEW c \in Call, Outside(c) PROVE UNCHANGED <<meta, active>>
  BY <1>3, OutsideMoves
<1>4. ASSUME NEW c \in Call, Enqueue(c) \/ Return(c) PROVE UNCHANGED <<meta, active>>
  BY <1>4 DEF Enqueue, Return, store
<1>5. ASSUME NEW c \in Call, Body(c), c # d
      PROVE  /\ meta'[SessionOf[d]] = meta[SessionOf[d]]
             /\ active'[SessionOf[d]] = active[SessionOf[d]]
  <2>1. opState[c] = "running" /\ SessionOf[c] # SessionOf[d]
    BY <1>5, BodyMoves DEF OneAtATime
  <2> QED BY <1>5, <2>1, BodyMoves, CallsAssumption
<1> QED BY <1>1, <1>2, <1>3, <1>4, <1>5, StepCases

LEMMA UnwindingStep ==
  Before /\ WaitersWait /\ UnwindingIsStored /\ [Next]_vars => UnwindingIsStored'
<1> SUFFICES ASSUME Before, WaitersWait, UnwindingIsStored, [Next]_vars,
                    NEW d \in Call, opState'[d] = "running", pc'[d] = "unwinding"
             PROVE  meta'[SessionOf[d]] # "running"
  BY DEF UnwindingIsStored
<1>1. CASE Body(d)
  <2> USE CallsAssumption DEF Before, ManagerTypeOK, Goto, At, EndBody, SetSessionState
  <2>1. CASE Ensure(d)
    BY <2>1 DEF Ensure, Resolve, AbortedInQueue, Create, DropAfterCreate, ReuseHandle,
                OpenHandle, EnsureFails, CacheHandle
  <2>2. CASE Turn(d)
    BY <2>2 DEF Turn, MarkRunning, MarkFails, RegisterTurn, TurnSucceeds, TurnFails,
                IdleNotWritten, UnwindTurn,
                OneshotClose, OneshotClosed, StartClose
  <2>3. CASE Operate(d) /\ ~Return(d)
    BY <2>3 DEF Operate, InitializeReturns, StatusReturns, SetOption, Reconcile, Control,
                CloseRuntime, RuntimeClosed, CloseMeta, StartClose
  <2> QED BY <1>1, <2>1, <2>2, <2>3 DEF Body
<1>2. CASE ~Body(d)
  BY <1>2, RunningAfter, OwnSession DEF UnwindingIsStored
<1> QED BY <1>1, <1>2

LEMMA EnsuredStep ==
  Before /\ WaitersWait /\ EnsuredHasMeta /\ CachedHasMeta /\ [Next]_vars => EnsuredHasMeta'
<1> SUFFICES ASSUME Before, WaitersWait, EnsuredHasMeta, CachedHasMeta, [Next]_vars,
                    NEW d \in Call, opState'[d] = "running",
                    pc'[d] \in {"created", "ensureCached", "ensureStored", "ensured"}
             PROVE  meta'[SessionOf[d]] # "absent"
  BY DEF EnsuredHasMeta
<1>1. CASE Body(d)
  <2> USE CallsAssumption DEF Before, ManagerTypeOK, Goto, At, EndBody, SetSessionState
  <2>1. CASE Ensure(d)
    <3>1. CASE Resolve(d)
      BY <3>1 DEF Resolve, CachedHasMeta, store
    <3>2. CASE Create(d) \/ DropAfterCreate(d) \/ OpenHandle(d)
      BY <3>2 DEF Create, DropAfterCreate, OpenHandle, EnsuredHasMeta, store
    <3>3. CASE AbortedInQueue(d) \/ ReuseHandle(d) \/ EnsureFails(d) \/ CacheHandle(d)
      BY <3>3 DEF AbortedInQueue, ReuseHandle, EnsureFails, CacheHandle
    <3> QED BY <2>1, <3>1, <3>2, <3>3 DEF Ensure
  <2>2. CASE Turn(d)
    BY <2>2 DEF Turn, MarkRunning, MarkFails, RegisterTurn, TurnSucceeds, TurnFails,
                IdleNotWritten, UnwindTurn,
                OneshotClose, OneshotClosed, StartClose
  <2>3. CASE Operate(d) /\ ~Return(d)
    BY <2>3 DEF Operate, InitializeReturns, StatusReturns, SetOption, Reconcile, Control,
                CloseRuntime, RuntimeClosed, CloseMeta, StartClose
  <2> QED BY <1>1, <2>1, <2>2, <2>3 DEF Body
<1>2. CASE ~Body(d)
  BY <1>2, RunningAfter, OwnSession DEF EnsuredHasMeta
<1> QED BY <1>1, <1>2

\* A handle enters the cache from a body whose session has metadata; metadata
\* goes away (closeSession) only with the handle, in one body.
LEMMA CachedStep ==
  Before /\ EnsuredHasMeta /\ CachedHasMeta /\ [Next]_vars => CachedHasMeta'
<1> SUFFICES ASSUME Before, EnsuredHasMeta, CachedHasMeta, [Next]_vars, NEW s \in cached'
             PROVE  meta'[s] # "absent"
  BY DEF CachedHasMeta
<1> USE DEF Before, CachedHasMeta
<1>0. s \in Session
  BY TypeStep DEF ManagerTypeOK
<1>1. CASE UNCHANGED vars
  BY <1>1 DEF vars, cache, store
<1>2. ASSUME NEW x \in Session, GrowIdle(x) PROVE meta'[s] # "absent"
  BY <1>2 DEF GrowIdle, store
<1>3. ASSUME NEW c \in Call, Outside(c) PROVE meta'[s] # "absent"
  BY <1>3, OutsideMoves
<1>4. ASSUME NEW c \in Call, Enqueue(c) \/ Return(c) PROVE meta'[s] # "absent"
  BY <1>4 DEF Enqueue, Return, cache, store
<1>5. ASSUME NEW c \in Call, Body(c) PROVE meta'[s] # "absent"
  <2>1. CASE s # SessionOf[c]
    BY <1>0, <1>5, <2>1, BodyMoves
  <2>2. CASE s = SessionOf[c]
    <3> USE <2>2, CallsAssumption DEF ManagerTypeOK, Goto, At, EndBody, SetSessionState, store, cache
    <3>1. CASE Ensure(c)
      <4>1. CASE Resolve(c) \/ AbortedInQueue(c) \/ ReuseHandle(c) \/ EnsureFails(c)
        BY <4>1 DEF Resolve, AbortedInQueue, ReuseHandle, EnsureFails
      <4>2. CASE Create(c) \/ DropAfterCreate(c)
        BY <4>2 DEF Create, DropAfterCreate
      <4>3. CASE OpenHandle(c) \/ CacheHandle(c)
        BY <4>3 DEF OpenHandle, CacheHandle, EnsuredHasMeta
      <4> QED BY <3>1, <4>1, <4>2, <4>3 DEF Ensure
    <3>2. CASE Turn(c)
      <4>1. CASE MarkRunning(c) \/ MarkFails(c) \/ TurnSucceeds(c) \/ TurnFails(c)
                 \/ IdleNotWritten(c)
        BY <4>1 DEF MarkRunning, MarkFails, TurnSucceeds, TurnFails, IdleNotWritten
      <4>2. CASE RegisterTurn(c) \/ UnwindTurn(c) \/ OneshotClose(c) \/ OneshotClosed(c)
        BY <4>2 DEF RegisterTurn, UnwindTurn, OneshotClose, OneshotClosed
      <4> QED BY <3>2, <4>1, <4>2 DEF Turn
    <3>3. CASE Operate(c) /\ ~Return(c)
      <4>1. CASE Control(c) \/ CloseMeta(c)
        BY <4>1 DEF Control, CloseMeta
      <4>2. CASE InitializeReturns(c) \/ StatusReturns(c) \/ SetOption(c) \/ Reconcile(c)
                   \/ CloseRuntime(c) \/ RuntimeClosed(c)
        BY <4>2 DEF InitializeReturns, StatusReturns, SetOption, Reconcile, CloseRuntime,
                    RuntimeClosed
      <4> QED BY <3>3, <4>1, <4>2 DEF Operate
    <3> QED BY <1>5, <3>1, <3>2, <3>3 DEF Body
  <2> QED BY <2>1, <2>2
<1> QED BY <1>1, <1>2, <1>3, <1>4, <1>5, StepCases

\* Nothing but executeTurn() (turn-manager.ts) marks a session.
LEMMA OnlyTurnsStep ==
  Before /\ WaitersWait /\ OnlyTurnsMark /\ [Next]_vars => OnlyTurnsMark'
<1> SUFFICES ASSUME Before, WaitersWait, OnlyTurnsMark, [Next]_vars,
                    NEW d \in Call, opState'[d] = "running",
                    pc'[d] \in {"marking", "lost", "streaming", "unwinding"}
             PROVE  kind'[d] = "turn"
  BY DEF OnlyTurnsMark
<1>1. CASE Body(d)
  <2>0. kind' = kind /\ opState[d] = "running"
    BY <1>1, BodyMoves DEF Before
  <2> USE <2>0 DEF Before, ManagerTypeOK, Goto, At, EndBody
  <2>1. CASE Ensure(d)
    BY <2>1 DEF Ensure, Resolve, AbortedInQueue, Create, DropAfterCreate, ReuseHandle,
                OpenHandle, EnsureFails, CacheHandle
  <2>2. CASE Turn(d)
    BY <2>2 DEF Turn, MarkRunning, MarkFails, RegisterTurn, TurnSucceeds, TurnFails,
                IdleNotWritten, UnwindTurn,
                OneshotClose, OneshotClosed, StartClose, OnlyTurnsMark
  <2>3. CASE Operate(d) /\ ~Return(d)
    BY <2>3 DEF Operate, InitializeReturns, StatusReturns, SetOption, Reconcile, Control,
                CloseRuntime, RuntimeClosed, CloseMeta, StartClose
  <2> QED BY <1>1, <2>1, <2>2, <2>3 DEF Body
<1>2. CASE ~Body(d)
  BY <1>2, RunningAfter DEF OnlyTurnsMark
<1> QED BY <1>1, <1>2

\* A turn stays where it is while others take steps.
LEMMA TurnStays ==
  ASSUME Before, [Next]_vars, NEW d \in Call, InTurn(d), ~Body(d)
  PROVE  InTurn(d)' /\ pc'[d] = pc[d]
<1> SUFFICES opState'[d] = opState[d] /\ pc'[d] = pc[d] /\ kind'[d] = kind[d]
  BY DEF InTurn
<1> USE DEF Before, InTurn
<1>1. CASE UNCHANGED vars
  BY <1>1 DEF vars, queue
<1>2. ASSUME NEW s \in Session, GrowIdle(s)
      PROVE  opState'[d] = opState[d] /\ pc'[d] = pc[d] /\ kind'[d] = kind[d]
  BY <1>2 DEF GrowIdle, queue
<1>3. ASSUME NEW c \in Call, Outside(c)
      PROVE  opState'[d] = opState[d] /\ pc'[d] = pc[d] /\ kind'[d] = kind[d]
  BY <1>3, OutsideMoves DEF queue
<1>4. ASSUME NEW c \in Call, Enqueue(c)
      PROVE  opState'[d] = opState[d] /\ pc'[d] = pc[d] /\ kind'[d] = kind[d]
  BY <1>4, EnqueueMoves DEF Enqueue, Goto, ManagerTypeOK
<1>5. ASSUME NEW c \in Call, Body(c)
      PROVE  opState'[d] = opState[d] /\ pc'[d] = pc[d] /\ kind'[d] = kind[d]
  BY <1>5, BodyMoves DEF queue
<1>6. ASSUME NEW c \in Call, Return(c)
      PROVE  opState'[d] = opState[d] /\ pc'[d] = pc[d] /\ kind'[d] = kind[d]
  BY <1>6, ReturnMoves DEF Return, Goto, At, ManagerTypeOK
<1> QED BY <1>1, <1>2, <1>3, <1>4, <1>5, <1>6, StepCases

\* The steps a turn itself takes: it registers or cannot, ends, and unwinds.
LEMMA TurnAdvances ==
  ASSUME Before, NEW d \in Call, InTurn(d), Body(d)
  PROVE  \/ MarkFails(d) \/ RegisterTurn(d) \/ TurnSucceeds(d) \/ TurnFails(d)
         \/ IdleNotWritten(d) \/ UnwindTurn(d)
<1> USE DEF InTurn, At
<1>1. ~Ensure(d)
  BY DEF Ensure, Resolve, AbortedInQueue, Create, DropAfterCreate, ReuseHandle,
         OpenHandle, EnsureFails, CacheHandle
<1>2. ~(Operate(d) /\ ~Return(d))
  BY DEF Operate, InitializeReturns, StatusReturns, SetOption, Reconcile, Control,
         CloseRuntime, RuntimeClosed, CloseMeta
<1>3. ~MarkRunning(d) /\ ~OneshotClose(d) /\ ~OneshotClosed(d)
  BY DEF MarkRunning, OneshotClose, OneshotClosed
<1> QED BY <1>1, <1>2, <1>3 DEF Body, Turn

\* Only executeTurn() stores "running" and registers, for its own call.
LEMMA OthersDoNotMark ==
  ASSUME Before, [Next]_vars, NEW s \in Session
  PROVE  /\ meta'[s] = "running" /\ meta[s] # "running" =>
              \E c \in Call : MarkRunning(c) /\ SessionOf[c] = s
         /\ s \in left /\ s \notin left' =>
              \E c \in Call : MarkRunning(c) /\ SessionOf[c] = s
         /\ active'[s] # active[s] =>
              \E c \in Call : (RegisterTurn(c) \/ UnwindTurn(c)) /\ SessionOf[c] = s
<1> USE DEF Before
<1>1. CASE UNCHANGED vars
  BY <1>1 DEF vars, store
<1>2. ASSUME NEW x \in Session, GrowIdle(x) PROVE UNCHANGED <<meta, active, left>>
  BY <1>2 DEF GrowIdle, store
<1>3. ASSUME NEW c \in Call, Outside(c) PROVE UNCHANGED <<meta, active, left>>
  BY <1>3, OutsideMoves
<1>4. ASSUME NEW c \in Call, Enqueue(c) \/ Return(c) PROVE UNCHANGED <<meta, active, left>>
  BY <1>4 DEF Enqueue, Return, store
<1>5. ASSUME NEW c \in Call, Body(c),
             \/ meta'[s] = "running" /\ meta[s] # "running"
             \/ s \in left /\ s \notin left'
             \/ active'[s] # active[s]
      PROVE  /\ SessionOf[c] = s
             /\ meta'[s] = "running" /\ meta[s] # "running" => MarkRunning(c)
             /\ s \in left /\ s \notin left' => MarkRunning(c)
             /\ active'[s] # active[s] => RegisterTurn(c) \/ UnwindTurn(c)
  <2>1. SessionOf[c] = s
    BY <1>5, BodyMoves
  <2> USE DEF ManagerTypeOK, SetSessionState, store
  <2>2. CASE Ensure(c)
    <3>1. /\ UNCHANGED <<active, left>>
          /\ UNCHANGED meta \/ meta' = [meta EXCEPT ![SessionOf[c]] = "idle"]
      BY <2>2 DEF Ensure, Resolve, AbortedInQueue, Create, DropAfterCreate, ReuseHandle,
                  OpenHandle, EnsureFails, CacheHandle
    <3> QED BY <1>5, <2>1, <3>1
  <2>3. CASE Turn(c) /\ ~MarkRunning(c) /\ ~RegisterTurn(c) /\ ~UnwindTurn(c)
    <3>1. /\ UNCHANGED active
          /\ left \subseteq left'
          /\ UNCHANGED meta \/ \E state \in {"idle", "error"} : SetSessionState(SessionOf[c], state)
      BY <2>3 DEF Turn, MarkFails, TurnSucceeds, TurnFails, IdleNotWritten, OneshotClose,
                  OneshotClosed
    <3> QED BY <1>5, <2>1, <3>1
  <2>4. CASE MarkRunning(c) \/ RegisterTurn(c) \/ UnwindTurn(c)
    <3>1. MarkRunning(c) => UNCHANGED active
      BY DEF MarkRunning
    <3>2. RegisterTurn(c) \/ UnwindTurn(c) => UNCHANGED <<meta, left>>
      BY DEF RegisterTurn, UnwindTurn
    <3> QED BY <1>5, <2>1, <2>4, <3>1, <3>2
  <2>5. CASE Operate(c) /\ ~Return(c)
    <3>1. /\ UNCHANGED <<active, left>>
          /\ \/ UNCHANGED meta
             \/ \E state \in {"idle", "error"} : SetSessionState(SessionOf[c], state)
             \/ meta' = [meta EXCEPT ![SessionOf[c]] = "absent"]
      BY <2>5 DEF Operate, InitializeReturns, StatusReturns, SetOption, Reconcile, Control,
                  CloseRuntime, RuntimeClosed, CloseMeta
    <3> QED BY <1>5, <2>1, <3>1
  <2> QED BY <1>5, <2>1, <2>2, <2>3, <2>4, <2>5 DEF Body
<1> QED BY <1>1, <1>2, <1>3, <1>4, <1>5, StepCases

\* The call that stored "running" stays a turn in progress until it has stored
\* another state.
LEMMA RunningStep ==
  Before /\ UnwindingIsStored /\ RunningHasTurn /\ [Next]_vars => RunningHasTurn'
<1> SUFFICES ASSUME Before, UnwindingIsStored, RunningHasTurn, [Next]_vars,
                    NEW s \in Session, s \notin left', meta'[s] = "running"
             PROVE  \E c \in Call : SessionOf[c] = s /\ InTurn(c)'
  BY DEF RunningHasTurn
<1> USE DEF Before
<1>1. CASE meta[s] # "running" \/ s \in left
  <2>1. PICK c \in Call : MarkRunning(c) /\ SessionOf[c] = s
    BY <1>1, OthersDoNotMark
  <2>2. InTurn(c)'
    BY <2>1 DEF MarkRunning, At, Goto, InTurn, ManagerTypeOK, queue
  <2> QED BY <2>1, <2>2
<1>2. CASE meta[s] = "running" /\ s \notin left
  <2>1. PICK c \in Call : SessionOf[c] = s /\ InTurn(c)
    BY <1>2 DEF RunningHasTurn
  <2>2. CASE ~Body(c)
    BY <2>1, <2>2, TurnStays
  <2>3. CASE Body(c)
    <3>1. CASE RegisterTurn(c) \/ TurnSucceeds(c) \/ TurnFails(c) \/ IdleNotWritten(c)
      BY <2>1, <3>1 DEF RegisterTurn, TurnSucceeds, TurnFails, IdleNotWritten, At, Goto, InTurn,
                        ManagerTypeOK, queue
    <3>2. CASE UnwindTurn(c)
      BY <1>2, <2>1, <3>2 DEF UnwindTurn, At, UnwindingIsStored
    <3>3. CASE MarkFails(c)
      BY <2>1, <3>3 DEF MarkFails
    <3> QED BY <2>1, <2>3, <3>1, <3>2, <3>3, TurnAdvances
  <2> QED BY <2>1, <2>2, <2>3
<1> QED BY <1>1, <1>2

\* A registered call stays a turn in progress until it takes itself out.
LEMMA RegistryStep ==
  Before /\ OnlyTurnsMark /\ RegistryMatchesActor /\ [Next]_vars => RegistryMatchesActor'
<1> SUFFICES ASSUME Before, OnlyTurnsMark, RegistryMatchesActor, [Next]_vars,
                    NEW s \in Session, active'[s] # NoCall
             PROVE  (/\ SessionOf[active[s]] = s
                     /\ InTurn(active[s])
                     /\ pc[active[s]] # "marking")'
  BY DEF RegistryMatchesActor
<1> USE DEF Before, ManagerTypeOK
<1>1. CASE active'[s] # active[s]
  <2>1. PICK c \in Call : (RegisterTurn(c) \/ UnwindTurn(c)) /\ SessionOf[c] = s
    BY <1>1, OthersDoNotMark
  <2>2. CASE UnwindTurn(c)
    BY <1>1, <2>1, <2>2 DEF UnwindTurn
  <2>3. CASE RegisterTurn(c)
    <3>1. active'[s] = c
      BY <2>1, <2>3 DEF RegisterTurn
    <3>2. InTurn(c)' /\ pc'[c] # "marking"
      BY <2>3 DEF RegisterTurn, At, Goto, InTurn, OnlyTurnsMark, queue
    <3> QED BY <2>1, <3>1, <3>2 DEF InTurn
  <2> QED BY <2>1, <2>2, <2>3
<1>2. CASE active'[s] = active[s]
  <2>1. PICK c \in Call : /\ c = active[s] /\ SessionOf[c] = s
                          /\ InTurn(c) /\ pc[c] # "marking"
    BY <1>2 DEF RegistryMatchesActor
  <2>2. CASE ~Body(c)
    <3>1. InTurn(c)' /\ pc'[c] = pc[c]
      BY <2>1, <2>2, TurnStays
    <3> QED BY <1>2, <2>1, <3>1 DEF InTurn
  <2>3. CASE Body(c)
    <3>1. CASE TurnSucceeds(c) \/ TurnFails(c) \/ IdleNotWritten(c)
      <4>1. InTurn(c)' /\ pc'[c] # "marking"
        BY <2>1, <3>1 DEF TurnSucceeds, TurnFails, IdleNotWritten, At, Goto, InTurn, queue
      <4> QED BY <1>2, <2>1, <4>1 DEF InTurn
    <3>2. CASE UnwindTurn(c)
      BY <1>2, <2>1, <3>2 DEF UnwindTurn
    <3>3. CASE RegisterTurn(c) \/ MarkFails(c)
      BY <2>1, <3>3 DEF RegisterTurn, MarkFails, At
    <3> QED BY <2>1, <2>3, <3>1, <3>2, <3>3, TurnAdvances
  <2> QED BY <2>2, <2>3
<1> QED BY <1>1, <1>2

-----------------------------------------------------------------------------
\* The inductive invariant of the manager holds in every behaviour.
THEOREM Inductive == Spec => []IInv
<1>1. Init => IInv
  BY InitEstablishes
<1>2. IInv /\ Before /\ [Next]_vars => IInv'
  BY TypeStep, WaitersStep, OnlyTurnsStep, EnsuredStep, CachedStep, UnwindingStep,
     RunningStep, RegistryStep DEF IInv
<1>3. ManagerTypeOK /\ QueueProofs!IInv /\ OneAtATime => Before
  BY DEF Before
<1> QED BY <1>1, <1>2, <1>3, ManagerTypes, QueueInvariant, OperationsTakeTurns, PTL DEF Spec

\* What activeTurnBySession names is a turn of that session in progress
\* (turn-manager.ts): a cancellation never reaches another turn.
THEOREM RegistryIsTrue == Spec => []RegistryMatchesActor
BY Inductive, PTL DEF IInv

\* A session that this process stored as "running" reads so only while a turn of
\* it is in progress, or after one whose very first write failed: no failure
\* behind that one (turn-manager.ts) leaves the mark behind.
THEOREM RunningIsTrue == Spec => []RunningHasTurn
BY Inductive, PTL DEF IInv

\* A session whose metadata was removed keeps no cached runtime handle
\* (closeSession of manager.core.ts, ensureRuntimeHandle of session lifecycle).
THEOREM NoHandleOutlivesMeta == Spec => []CachedHasMeta
BY Inductive, PTL DEF IInv

\* While a registered turn goes on no step, idle eviction least of all
\* (runtime-cache-manager.ts), takes the handle it streams from.
THEOREM TurnsKeepHandles == Spec => EvictionSparesTurns
<1> DEFINE Spares == \A s \in Session :
             active[s] # NoCall /\ active'[s] = active[s] /\ s \in cached => s \in cached'
<1>1. Before /\ RegistryMatchesActor /\ [Next]_vars => Spares
  <2> SUFFICES ASSUME Before, RegistryMatchesActor, [Next]_vars, NEW s \in Session,
                      active[s] # NoCall, s \in cached
               PROVE  s \in cached'
    OBVIOUS
  <2> USE DEF Before
  <2>1. CASE UNCHANGED vars
    BY <2>1 DEF vars, cache
  <2>2. ASSUME NEW x \in Session, GrowIdle(x) PROVE s \in cached'
    BY <2>2 DEF GrowIdle
  <2>3. ASSUME NEW c \in Call, Outside(c) PROVE s \in cached'
    BY <2>3, OutsideMoves
  <2>4. ASSUME NEW c \in Call, Enqueue(c) \/ Return(c) PROVE s \in cached'
    BY <2>4 DEF Enqueue, Return, cache
  <2>5. ASSUME NEW c \in Call, Body(c) PROVE s \in cached'
    <3>1. CASE SessionOf[c] # s
      BY <2>5, <3>1, BodyMoves
    <3>2. CASE SessionOf[c] = s
      <4>1. active[s] \in Call /\ SessionOf[active[s]] = s /\ InTurn(active[s])
        BY DEF RegistryMatchesActor, ManagerTypeOK
      <4>2. c = active[s]
        BY <2>5, <3>2, <4>1, BodyMoves DEF OneAtATime, InTurn
      <4>3. InTurn(c)
        BY <4>1, <4>2
      <4>4. \/ MarkFails(c) \/ RegisterTurn(c) \/ TurnSucceeds(c) \/ TurnFails(c)
            \/ IdleNotWritten(c) \/ UnwindTurn(c)
        BY <2>5, <4>3, TurnAdvances
      <4> QED BY <4>4 DEF MarkFails, RegisterTurn, TurnSucceeds, TurnFails, IdleNotWritten,
                          UnwindTurn, cache
    <3> QED BY <3>1, <3>2
  <2> QED BY <2>1, <2>2, <2>3, <2>4, <2>5, StepCases
<1>2. ManagerTypeOK /\ QueueProofs!IInv /\ OneAtATime => Before
  BY DEF Before
<1> QED BY <1>1, <1>2, ManagerTypes, QueueInvariant, OperationsTakeTurns, RegistryIsTrue, PTL
        DEF Spec, EvictionSparesTurns
=============================================================================
