-------------------------- MODULE AcpControlPlane --------------------------
(***************************************************************************)
(* The ACP control plane: AcpSessionManager with its runtime-handle cache, *)
(* turn manager, lifecycle manager and per-session actor queue, on top of  *)
(* the local runtime (src/acp/control-plane/, runtime/backends/local.ts).  *)
(*                                                                         *)
(* A call of the manager is a process.  It first walks the idle handles    *)
(* (outside any queue), then runs its body in the actor of its session;    *)
(* cancelSession may instead act at once on a registered turn.  A step is  *)
(* the code between two awaits at which another call can interfere.        *)
(*                                                                         *)
(* Handles of one session are interchangeable (they carry only the session *)
(* key), so the cache and the runtime's session map are sets of sessions.  *)
(* Of a session's metadata the state field is kept, or its absence, as the *)
(* store has it in memory, where every read of this process finds it: save *)
(* changes it before it writes the index, and throws when the write fails. *)
(***************************************************************************)
EXTENDS Naturals, Sequences, FiniteSets

CONSTANTS Session,    \* session keys, normalized
          Call,       \* calls of the manager's operations
          SessionOf,  \* the session of each call
          KindsOf,    \* the operations each call may turn out to be
          Kept,       \* the state in each session's metadata from an earlier process
          Warm,       \* sessions with metadata already opened and cached in this one
          Talked,     \* sessions with a transcript
          NoCall      \* "no active turn"

State == {"absent", "idle", "running", "error"}

ASSUME CallsAssumption ==
  /\ SessionOf \in [Call -> Session]
  /\ Kept \in [Session -> State] /\ Talked \subseteq Session
  /\ Warm \subseteq {s \in Session : Kept[s] # "absent"}
  /\ NoCall \notin Call

Kind == {"initialize", "turn", "status", "setOption", "cancel", "reset", "close",
         "reconcile"}

ASSUME KindsAssumption == KindsOf \in [Call -> SUBSET Kind]

VARIABLES
  actors, opState,  \* the actor queue
  kind,             \* which operation each call is
  pc,               \* where each call stands
  result,           \* how the body of each call ends
  toEvict,          \* idle candidates each call has still to look at
  closing,          \* sessions whose runtime close() each call awaits
  cached,           \* sessions with a cached runtime handle
  idle,             \* those whose entry is older than the TTL
  open,             \* sessions the runtime knows
  transcript,       \* sessions with messages, which close() saves first
  active,           \* activeTurnBySession
  meta,             \* state of each session's stored metadata
  oneshot,          \* sessions whose stored mode is "oneshot"
  left              \* history: sessions whose last "running" was an earlier
                    \* process's, or of a turn that could not write it and ended

queue   == <<actors, opState>>
runtime == <<open, transcript, closing>>
cache   == <<cached, idle, toEvict>>
store   == <<meta, oneshot, left>>
vars    == <<queue, kind, pc, result, runtime, cache, active, store>>

Queue == INSTANCE SessionActorQueue
           WITH Key <- Session, Op <- Call, KeyOf <- SessionOf

PC == {"idle", "evict", "evictClose", "actor",
       "created", "ensureCached", "ensureStored", "ensured", "ready",
       "marking", "lost", "streaming", "unwinding", "oneshot", "oneshotClose",
       "closeRuntime", "closed", "settle", "done"}

TypeOK ==
  /\ Queue!TypeOK
  /\ kind \in [Call -> Kind \cup {"none"}]
  /\ pc \in [Call -> PC]
  /\ result \in [Call -> Queue!Outcome]
  /\ toEvict \in [Call -> SUBSET Session]
  /\ closing \in [Call -> SUBSET Session]
  /\ idle \subseteq cached /\ cached \subseteq Session
  /\ open \subseteq Session /\ transcript \subseteq Session
  /\ active \in [Session -> Call \cup {NoCall}]
  /\ meta \in [Session -> State]
  /\ oneshot \subseteq Session
  /\ left \subseteq Session

-----------------------------------------------------------------------------
Init ==
  /\ Queue!Init
  /\ kind = [c \in Call |-> "none"]
  /\ pc = [c \in Call |-> "idle"]
  /\ result = [c \in Call |-> "resolved"]
  /\ toEvict = [c \in Call |-> {}]
  /\ closing = [c \in Call |-> {}]
  /\ cached = Warm /\ open = Warm
  /\ transcript = Talked
  /\ meta = Kept /\ left = {s \in Session : Kept[s] = "running"}
  /\ oneshot = {}
  /\ idle = {}
  /\ active = [s \in Session |-> NoCall]

Goto(c, label) == pc' = [pc EXCEPT ![c] = label]

\* The body of c runs in its session's actor and has reached label.
At(c, label) == opState[c] = "running" /\ pc[c] = label

EndBody(c, outcome) ==
  /\ Goto(c, "settle")
  /\ result' = [result EXCEPT ![c] = outcome]

\* setSessionState(): nothing is written for a session without metadata.
SetSessionState(s, state) ==
  meta' = [meta EXCEPT ![s] = IF @ = "absent" THEN @ ELSE state]

\* How a body that writes its session's metadata last may end: what is written
\* can fail to reach the file, and then save() throws.
Written(s) == IF meta[s] = "absent" THEN {"resolved"} ELSE {"resolved", "rejected"}

\* LocalAcpRuntime.close(): with messages to save, the session stays known
\* until the save is done; without, it is forgotten at once.
StartClose(c, s, waiting, after) ==
  \/ /\ s \in open \cap transcript
     /\ closing' = [closing EXCEPT ![c] = {s}]
     /\ Goto(c, waiting)
     /\ UNCHANGED open
  \/ /\ s \notin open \cap transcript
     /\ open' = open \ {s}
     /\ Goto(c, after)
     /\ UNCHANGED closing

\* The save is done; close() deletes by key whatever session is there now.
FinishClose(c) ==
  /\ open' = open \ closing[c]
  /\ closing' = [closing EXCEPT ![c] = {}]

\* The save fails: close() throws and the session stays.
FailClose(c) ==
  /\ closing' = [closing EXCEPT ![c] = {}]
  /\ UNCHANGED open

-----------------------------------------------------------------------------
(* Entering the manager: rate limit, idle eviction, the queue.             *)

\* A cached handle becomes older than the TTL.
GrowIdle(s) ==
  /\ s \in cached \ idle
  /\ idle' = idle \cup {s}
  /\ UNCHANGED <<queue, kind, pc, result, runtime, cached, toEvict, active, store>>

\* evictIdle() collects the idle candidates.  (A call refused before that, by
\* the rate limiter or for its arguments, changes nothing and is left out.)
Invoke(c) ==
  /\ pc[c] = "idle"
  /\ \E k \in KindsOf[c] \ {"reconcile"} : kind' = [kind EXCEPT ![c] = k]
  /\ toEvict' = [toEvict EXCEPT ![c] = idle]
  /\ Goto(c, "evict")
  /\ UNCHANGED <<queue, result, runtime, cached, idle, active, store>>

\* reconcilePendingSessionIdentities() evicts nothing: it queues one body after
\* the other for the sessions it lists, each of which is a call here.
ListPending(c) ==
  /\ pc[c] = "idle"
  /\ "reconcile" \in KindsOf[c] /\ meta[SessionOf[c]] # "absent"
  /\ kind' = [kind EXCEPT ![c] = "reconcile"]
  /\ Goto(c, "evict")
  /\ UNCHANGED <<queue, result, runtime, cache, active, store>>

\* A candidate with an active turn, or no longer cached, is passed over.
EvictSkip(c) ==
  /\ pc[c] = "evict"
  /\ \E s \in toEvict[c] :
       /\ active[s] # NoCall \/ s \notin cached
       /\ toEvict' = [toEvict EXCEPT ![c] = @ \ {s}]
  /\ UNCHANGED <<queue, kind, pc, result, runtime, cached, idle, active, store>>

\* Faulty variant: active turns are not looked at.
EvictAny(c) ==
  /\ pc[c] = "evict"
  /\ \E s \in toEvict[c] \cap cached :
       /\ cached' = cached \ {s}
       /\ idle' = idle \ {s}
       /\ toEvict' = [toEvict EXCEPT ![c] = @ \ {s}]
       /\ StartClose(c, s, "evictClose", "evict")
  /\ UNCHANGED <<queue, kind, result, transcript, active, store>>

\* Faulty variant: the touch time outlives the entry.
EvictKeepingTouch(c) ==
  /\ pc[c] = "evict"
  /\ \E s \in toEvict[c] \cap cached :
       /\ active[s] = NoCall
       /\ cached' = cached \ {s}
       /\ toEvict' = [toEvict EXCEPT ![c] = @ \ {s}]
       /\ StartClose(c, s, "evictClose", "evict")
  /\ UNCHANGED <<queue, kind, result, transcript, idle, active, store>>

\* The others leave the cache, and their runtime session is closed.
Evict(c) ==
  /\ pc[c] = "evict"
  /\ \E s \in toEvict[c] \cap cached :
       /\ active[s] = NoCall
       /\ cached' = cached \ {s}
       /\ idle' = idle \ {s}
       /\ toEvict' = [toEvict EXCEPT ![c] = @ \ {s}]
       /\ StartClose(c, s, "evictClose", "evict")
  /\ UNCHANGED <<queue, kind, result, transcript, active, store>>

\* An eviction's close ends; errors are ignored.
EvictClosed(c) ==
  /\ pc[c] = "evictClose"
  /\ FinishClose(c) \/ FailClose(c)
  /\ Goto(c, "evict")
  /\ UNCHANGED <<queue, kind, result, transcript, cache, active, store>>

\* cancelSession() finds a registered turn: abort it and await the runtime's
\* cancel (one promise, shared by every canceller), outside the queue.
CancelActiveTurn(c) ==
  /\ pc[c] = "evict" /\ toEvict[c] = {}
  /\ kind[c] = "cancel" /\ active[SessionOf[c]] # NoCall
  /\ Goto(c, "done")
  /\ kind' = [kind EXCEPT ![c] = "none"]
  /\ UNCHANGED <<queue, result, runtime, cache, active, store>>

\* withSessionActor(): everything else queues behind the session's actor.
Enqueue(c) ==
  /\ pc[c] = "evict" /\ toEvict[c] = {}
  /\ kind[c] = "cancel" => active[SessionOf[c]] = NoCall
  /\ Queue!Run(c)
  /\ Goto(c, "actor")
  /\ UNCHANGED <<kind, result, runtime, cache, active, store>>

-----------------------------------------------------------------------------
(* The start of a body: resolveSession() and ensureHandle().               *)

\* A cached handle answers with a made-up "idle" metadata; else the store.
Resolve(c) ==
  LET s == SessionOf[c]
  IN  /\ At(c, "actor") /\ kind[c] # "initialize"
      /\ \/ /\ s \in cached
            /\ Goto(c, "ensureCached")
            /\ UNCHANGED result
         \/ /\ s \notin cached /\ meta[s] # "absent"
            /\ Goto(c, "ensureStored")
            /\ UNCHANGED result
         \/ /\ s \notin cached /\ meta[s] = "absent"
            /\ EndBody(c, IF kind[c] = "reconcile" THEN "resolved" ELSE "rejected")
         \* closeSession({requireAcpSession: false}) goes on to its metadata
         \/ /\ s \notin cached /\ meta[s] = "absent" /\ kind[c] = "close"
            /\ Goto(c, "closed")
            /\ UNCHANGED result
      /\ UNCHANGED <<queue, kind, runtime, cache, active, store>>

\* The caller's signal was aborted while the status call waited.
AbortedInQueue(c) ==
  /\ At(c, "actor") /\ kind[c] = "status"
  /\ EndBody(c, "rejected")
  /\ UNCHANGED <<queue, kind, runtime, cache, active, store>>

\* lifecycle.initializeSession(): the runtime opens the session and its
\* metadata is written, which may fail;
Create(c) ==
  /\ At(c, "actor") /\ kind[c] = "initialize"
  /\ open' = open \cup {SessionOf[c]}
  /\ meta' = [meta EXCEPT ![SessionOf[c]] = "idle"]
  /\ \/ oneshot' = oneshot \cup {SessionOf[c]}
     \/ oneshot' = oneshot \ {SessionOf[c]}
  /\ \/ Goto(c, "created") /\ UNCHANGED result
     \/ EndBody(c, "rejected")
  /\ UNCHANGED <<queue, kind, transcript, closing, cache, active, left>>

\* onRuntimeCreated drops a cached handle, then ensureHandle() makes one.
DropAfterCreate(c) ==
  /\ At(c, "created")
  /\ cached' = cached \ {SessionOf[c]}
  /\ idle' = idle \ {SessionOf[c]}
  /\ Goto(c, "ensureStored")
  /\ UNCHANGED <<queue, kind, result, runtime, toEvict, active, store>>

\* ensureHandle(): reuse the cached handle...
ReuseHandle(c) ==
  /\ At(c, "ensureCached") \/ At(c, "ensureStored")
  /\ SessionOf[c] \in cached
  /\ Goto(c, "ready")
  /\ UNCHANGED <<queue, kind, result, runtime, cache, active, store>>

\* ... or have the runtime (re)open the session.  Changed metadata is persisted
\* with the state it was resolved with: the made-up "idle", when it came from a
\* cache entry that was evicted meanwhile.  If that fails the session is open and
\* its handle is not cached.
OpenHandle(c) ==
  LET s == SessionOf[c]
  IN  /\ At(c, "ensureCached") \/ At(c, "ensureStored")
      /\ s \notin cached
      /\ open' = open \cup {s}
      /\ \/ UNCHANGED meta
         \/ pc[c] = "ensureCached" /\ meta' = [meta EXCEPT ![s] = "idle"]
      /\ \/ Goto(c, "ensured") /\ UNCHANGED result
         \/ EndBody(c, "rejected")
      /\ UNCHANGED <<queue, kind, transcript, closing, cache, active, oneshot, left>>

\* The backend is not there, or ensureSession() throws, in either place; a close
\* with allowBackendUnavailable does without the runtime.
EnsureFails(c) ==
  /\ \/ At(c, "actor") /\ kind[c] = "initialize"
     \/ At(c, "ensureCached") \/ At(c, "ensureStored")
  /\ kind[c] = "initialize" \/ SessionOf[c] \notin cached
  /\ \/ EndBody(c, "rejected")
     \/ kind[c] = "close" /\ Goto(c, "closed") /\ UNCHANGED result
  /\ UNCHANGED <<queue, kind, runtime, cache, active, store>>

\* The handle enters the cache with a new touch time: a candidate list made
\* earlier passes over it, since the recheck uses the time of that list.
CacheHandle(c) ==
  LET s == SessionOf[c]
  IN  /\ At(c, "ensured")
      /\ cached' = cached \cup {s}
      /\ idle' = idle \ {s}
      /\ toEvict' = [d \in Call |-> toEvict[d] \ {s}]
      /\ Goto(c, "ready")
      /\ UNCHANGED <<queue, kind, result, runtime, active, store>>

-----------------------------------------------------------------------------
(* executeTurn().                                                          *)

MarkRunning(c) ==
  /\ At(c, "ready") /\ kind[c] = "turn"
  /\ SetSessionState(SessionOf[c], "running")
  /\ left' = left \ {SessionOf[c]}
  /\ Goto(c, "marking")
  /\ UNCHANGED <<queue, kind, result, runtime, cache, active, oneshot>>

\* That write is awaited before the try block: when it fails the turn is over,
\* and what it stored in memory stays.
MarkFails(c) ==
  /\ At(c, "marking")
  /\ meta[SessionOf[c]] # "absent"
  /\ left' = left \cup {SessionOf[c]}
  /\ EndBody(c, "rejected")
  /\ UNCHANGED <<queue, kind, runtime, cache, active, meta, oneshot>>

\* "running" is written: only now is the turn registered.  The runtime looks
\* its session up at once and throws when it is not there.
RegisterTurn(c) ==
  /\ At(c, "marking")
  /\ active' = [active EXCEPT ![SessionOf[c]] = c]
  /\ Goto(c, IF SessionOf[c] \in open THEN "streaming" ELSE "lost")
  /\ UNCHANGED <<queue, kind, result, runtime, cache, store>>

\* The stream ended; "idle" is being written.
TurnSucceeds(c) ==
  /\ At(c, "streaming")
  /\ transcript' = transcript \cup {SessionOf[c]}
  /\ SetSessionState(SessionOf[c], "idle")
  /\ result' = [result EXCEPT ![c] = "resolved"]
  /\ Goto(c, "unwinding")
  /\ UNCHANGED <<queue, kind, open, closing, cache, active, oneshot, left>>

\* "idle" cannot be written: the catch block stores "error".
IdleNotWritten(c) ==
  /\ At(c, "unwinding") /\ result[c] = "resolved"
  /\ meta[SessionOf[c]] # "absent"
  /\ SetSessionState(SessionOf[c], "error")
  /\ result' = [result EXCEPT ![c] = "rejected"]
  /\ UNCHANGED <<queue, kind, pc, runtime, cache, active, oneshot, left>>

\* Faulty variant: a failed turn leaves the stored state alone.
TurnFailsSilently(c) ==
  /\ At(c, "streaming") \/ At(c, "lost")
  /\ result' = [result EXCEPT ![c] = "rejected"]
  /\ Goto(c, "unwinding")
  /\ UNCHANGED <<queue, kind, runtime, cache, active, store>>

\* The session is unknown, the stream reports an error, or it throws.  Whether
\* "error" then reaches the file or not, the turn throws.
TurnFails(c) ==
  /\ At(c, "streaming") \/ At(c, "lost")
  /\ SetSessionState(SessionOf[c], "error")
  /\ result' = [result EXCEPT ![c] = "rejected"]
  /\ Goto(c, "unwinding")
  /\ UNCHANGED <<queue, kind, runtime, cache, active, oneshot, left>>

\* Faulty variant: the finally block forgets the turn's registration.
UnwindTurnRegistered(c) ==
  /\ At(c, "unwinding")
  /\ Goto(c, IF SessionOf[c] \in oneshot THEN "oneshot" ELSE "settle")
  /\ UNCHANGED <<queue, kind, result, runtime, cache, active, store>>

\* The finally block.
UnwindTurn(c) ==
  /\ At(c, "unwinding")
  /\ active' = [active EXCEPT ![SessionOf[c]] = IF @ = c THEN NoCall ELSE @]
  /\ Goto(c, IF SessionOf[c] \in oneshot THEN "oneshot" ELSE "settle")
  /\ UNCHANGED <<queue, kind, result, runtime, cache, store>>

\* A oneshot session is closed after its turn; its cache entry stays.
OneshotClose(c) ==
  /\ At(c, "oneshot")
  /\ StartClose(c, SessionOf[c], "oneshotClose", "settle")
  /\ UNCHANGED <<queue, kind, result, transcript, cache, active, store>>

OneshotClosed(c) ==
  /\ At(c, "oneshotClose")
  /\ FinishClose(c) \/ FailClose(c)
  /\ Goto(c, "settle")
  /\ UNCHANGED <<queue, kind, result, transcript, cache, active, store>>

-----------------------------------------------------------------------------
(* The bodies of the other operations.                                     *)

InitializeReturns(c) ==
  /\ At(c, "ready") /\ kind[c] = "initialize"
  /\ EndBody(c, "resolved")
  /\ UNCHANGED <<queue, kind, runtime, cache, active, store>>

\* getSessionStatus() only reads; an unknown session has an empty status.
StatusReturns(c) ==
  /\ At(c, "ready") /\ kind[c] = "status"
  /\ EndBody(c, "resolved")
  /\ UNCHANGED <<queue, kind, runtime, cache, active, store>>

\* setSessionRuntimeMode() and setSessionConfigOption(): the runtime may
\* refuse or the write fail; storing an option may drop the handle (its cwd is
\* compared).
SetOption(c) ==
  /\ At(c, "ready") /\ kind[c] = "setOption"
  /\ \/ /\ EndBody(c, "rejected")
        /\ UNCHANGED <<cached, idle>>
     \/ /\ EndBody(c, "resolved")
        /\ \E drop \in SUBSET {SessionOf[c]} :
             /\ cached' = cached \ drop
             /\ idle' = idle \ drop
  /\ UNCHANGED <<queue, kind, runtime, toEvict, active, store>>

\* reconcileRuntimeSessionIdentifiers(): the runtime's status may name other
\* identifiers, which drops the handle; the metadata is stored with the identity
\* and the state it has.  Without a status nothing changes.
Reconcile(c) ==
  /\ At(c, "ready") /\ kind[c] = "reconcile"
  /\ \E drop \in SUBSET {SessionOf[c]}, outcome \in {"resolved", "rejected"} :
       /\ cached' = cached \ drop
       /\ idle' = idle \ drop
       /\ EndBody(c, outcome)
  /\ UNCHANGED <<queue, kind, runtime, toEvict, active, store>>

\* cancelSession() and resetSession() in the queue: the runtime throws when it
\* does not know the session.  A failing write of "idle" is caught there as well,
\* and "error" stored; that of "error" is not.
Control(c) ==
  LET s == SessionOf[c]
  IN  /\ At(c, "ready") /\ kind[c] \in {"cancel", "reset"}
      /\ \/ /\ s \in open
            /\ SetSessionState(s, "idle")
            /\ EndBody(c, "resolved")
            /\ transcript' = IF kind[c] = "reset" THEN transcript \ {s} ELSE transcript
         \/ /\ s \in open /\ "rejected" \in Written(s)
            /\ SetSessionState(s, "error")
            /\ EndBody(c, "rejected")
            /\ transcript' = IF kind[c] = "reset" THEN transcript \ {s} ELSE transcript
         \/ /\ s \notin open
            /\ SetSessionState(s, "error")
            /\ EndBody(c, "rejected")
            /\ UNCHANGED transcript
      /\ UNCHANGED <<queue, kind, open, closing, cache, active, oneshot, left>>

CloseRuntime(c) ==
  /\ At(c, "ready") /\ kind[c] = "close"
  /\ StartClose(c, SessionOf[c], "closeRuntime", "closed")
  /\ UNCHANGED <<queue, kind, result, transcript, cache, active, store>>

RuntimeClosed(c) ==
  /\ At(c, "closeRuntime")
  /\ \/ /\ FinishClose(c)
        /\ Goto(c, "closed")
        /\ UNCHANGED result
     \/ /\ FailClose(c)
        /\ EndBody(c, "rejected")
  /\ UNCHANGED <<queue, kind, transcript, cache, active, store>>

\* Faulty variant: the handle of the closed session stays in the cache.
CloseMetaOnly(c) ==
  LET s == SessionOf[c]
  IN  /\ At(c, "closed")
      /\ \/ meta' = [meta EXCEPT ![s] = "absent"]
         \/ UNCHANGED meta
      /\ EndBody(c, "resolved")
      /\ UNCHANGED <<queue, kind, runtime, cache, active, oneshot, left>>

\* clearCached(), then with clearMeta the metadata is overwritten by none, and
\* the close throws when that cannot be written.
CloseMeta(c) ==
  LET s == SessionOf[c]
  IN  /\ At(c, "closed")
      /\ cached' = cached \ {s}
      /\ idle' = idle \ {s}
      /\ \/ /\ meta' = [meta EXCEPT ![s] = "absent"]
            /\ \E outcome \in Queue!Outcome : EndBody(c, outcome)
         \/ EndBody(c, "resolved") /\ UNCHANGED meta
      /\ UNCHANGED <<queue, kind, runtime, toEvict, active, oneshot, left>>

\* Faulty variant: the promise settles but nothing is dequeued.
ReturnWithoutDequeue(c) ==
  /\ At(c, "settle")
  /\ opState' = [opState EXCEPT ![c] = result[c]]
  /\ Goto(c, "done")
  /\ kind' = [kind EXCEPT ![c] = "none"]
  /\ result' = [result EXCEPT ![c] = "resolved"]
  /\ UNCHANGED <<actors, runtime, cache, active, store>>

\* The body is over: the task of the actor queue settles (what the model kept
\* for the call is cleared).
Return(c) ==
  /\ At(c, "settle")
  /\ Queue!Settle(c, result[c])
  /\ Goto(c, "done")
  /\ kind' = [kind EXCEPT ![c] = "none"]
  /\ result' = [result EXCEPT ![c] = "resolved"]
  /\ UNCHANGED <<runtime, cache, active, store>>

-----------------------------------------------------------------------------
Enter(c) == \/ EvictSkip(c) \/ Evict(c) \/ EvictClosed(c)
            \/ CancelActiveTurn(c) \/ Enqueue(c)

Ensure(c) == \/ Resolve(c) \/ AbortedInQueue(c) \/ Create(c)
             \/ DropAfterCreate(c) \/ ReuseHandle(c)
             \/ OpenHandle(c) \/ EnsureFails(c) \/ CacheHandle(c)

Turn(c) == \/ MarkRunning(c) \/ MarkFails(c) \/ RegisterTurn(c)
           \/ TurnSucceeds(c) \/ TurnFails(c) \/ IdleNotWritten(c)
           \/ UnwindTurn(c) \/ OneshotClose(c) \/ OneshotClosed(c)

Operate(c) == \/ InitializeReturns(c) \/ StatusReturns(c) \/ SetOption(c)
              \/ Reconcile(c) \/ Control(c) \/ CloseRuntime(c) \/ RuntimeClosed(c)
              \/ CloseMeta(c) \/ Return(c)

Proceed(c) == Enter(c) \/ Ensure(c) \/ Turn(c) \/ Operate(c)

Next == \/ \E s \in Session : GrowIdle(s)
        \/ \E c \in Call : Invoke(c) \/ ListPending(c) \/ Proceed(c)

\* A call that has started goes on: file operations end, and so do turns.
Spec == Init /\ [][Next]_vars /\ \A c \in Call : WF_vars(Proceed(c))

-----------------------------------------------------------------------------
InTurn(c) == /\ opState[c] = "running" /\ kind[c] = "turn"
             /\ pc[c] \in {"marking", "lost", "streaming", "unwinding"}

\* What the turn registry says is what the actors do: a registered turn is the
\* running operation of its session, and no operation ends still registered
\* (its session could never be evicted, nor a later cancel reach the queue).
RegistryMatchesActor == \A s \in Session :
  active[s] # NoCall =>
    /\ SessionOf[active[s]] = s
    /\ InTurn(active[s])
    /\ pc[active[s]] # "marking"

\* A stored "running" has a turn behind it, unless it is what an earlier process
\* left or a turn that could not write it.  Whatever fails once a turn is under
\* way, writes included, and whoever acts on the session beside it, its mark is
\* replaced when it is over; and a mark that was left ends with the next turn
\* that is under way, which takes the session out of left.
RunningHasTurn == \A s \in Session \ left :
  meta[s] = "running" => \E c \in Call : SessionOf[c] = s /\ InTurn(c)

\* The same without that exception.
RunningIsNeverLeft == \A s \in Session :
  meta[s] = "running" => \E c \in Call : SessionOf[c] = s /\ InTurn(c)

\* Nothing stays in the cache for a session that was closed and forgotten, nor
\* is there a moment at which it does.
CachedHasMeta == \A s \in cached : meta[s] # "absent"

\* Idle eviction, which runs outside the queue, never takes the handle of a
\* session from under its registered turn.
EvictionSparesTurns ==
  [][\A s \in Session :
       active[s] # NoCall /\ active'[s] = active[s] /\ s \in cached => s \in cached']_vars

\* Every call made returns: no interleaving of evictions, queued operations
\* and cancellations leaves a caller waiting.
EveryCallReturns == \A c \in Call : pc[c] # "idle" ~> pc[c] = "done"

\* What ensureHandle() says it does, "Ensure runtime handle exists (create or
\* reuse cached)": when it reuses a cached handle the runtime knows its session.
ReusedHandleExists ==
  [][\A c \in Call : pc[c] = "ensureCached" /\ pc'[c] = "ready"
                      => SessionOf[c] \in open]_vars
=============================================================================
