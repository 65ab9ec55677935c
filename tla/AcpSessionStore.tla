-------------------------- MODULE AcpSessionStore --------------------------
(***************************************************************************)
(* The file behind the ACP metadata                                        *)
(* (src/acp/control-plane/session-store.ts).                               *)
(*                                                                         *)
(* One JSON file holds every session's entry.  The index is read from it   *)
(* on first use, kept in memory, and written whole by every change, with   *)
(* no lock and no temporary file: a writer first truncates the file, then  *)
(* fills it.  Keys are normalized the same way on every path, so sessions  *)
(* stand for normalized keys.  An entry is named by the call that saved it *)
(***************************************************************************)
EXTENDS Naturals, FiniteSets

CONSTANTS Session,    \* normalized session keys
          Call,       \* calls of the store's operations
          SessionOf,  \* the session each call is about
          AtOnce,     \* how many calls may be in progress together
          MaxCrashes, \* bound: how often the process dies
          None        \* "no entry"

ASSUME StoreAssumption ==
  /\ SessionOf \in [Call -> Session]
  /\ AtOnce \in Nat \ {0} /\ MaxCrashes \in Nat
  /\ None \notin Call

VARIABLES
  disk,     \* the index file
  loaded,   \* indexCache is not null
  index,    \* indexCache
  dirty,    \* indexDirty
  kind,     \* what each call is
  pc,       \* where it stands
  snapshot, \* what it is writing
  promised, \* per session, the entries a reader may find (see NoSilentLoss)
  overlapped, \* two calls were reading or writing the file at once (history)
  crashes

storeVars == <<disk, loaded, index, dirty, kind, pc, snapshot, promised,
              overlapped, crashes>>

\* "forget" is the save of an entry without acp metadata (closeSession).
Kind  == {"load", "save", "forget", "delete", "clear"}
Index == [Session -> Call \cup {None}]
Empty == [s \in Session |-> None]

\* A truncated or half-written file is torn: JSON.parse() refuses it.
Missing  == [state |-> "missing", index |-> Empty]
Torn     == [state |-> "torn", index |-> Empty]
Whole(i) == [state |-> "whole", index |-> i]

Waiting == {"loading", "opening", "filling"}

StoreTypeOK ==
  /\ disk \in [state : {"missing", "torn", "whole"}, index : Index]
  /\ loaded \in BOOLEAN /\ dirty \in BOOLEAN /\ overlapped \in BOOLEAN
  /\ index \in Index
  /\ kind \in [Call -> Kind \cup {"none"}]
  /\ pc \in [Call -> Waiting \cup {"new", "resolved", "rejected", "lost"}]
  /\ snapshot \in [Call -> Index]
  /\ promised \in [Session -> SUBSET (Call \cup {None})]
  /\ crashes \in 0..MaxCrashes

InProgress == {c \in Call : pc[c] \in Waiting}

-----------------------------------------------------------------------------
StoreInit ==
  /\ disk = Missing
  /\ loaded = FALSE /\ index = Empty /\ dirty = FALSE
  /\ kind = [c \in Call |-> "none"]
  /\ pc = [c \in Call |-> "new"]
  /\ snapshot = [c \in Call |-> Empty]
  /\ promised = [s \in Session |-> {None}]
  /\ crashes = 0 /\ overlapped = FALSE

\* Sessions whose entry the call changes.
Touched(c, k) == CASE k = "load"  -> {}
                   [] k = "clear" -> Session
                   [] OTHER       -> {SessionOf[c]}

\* What loadIndex() keeps of an entry: nothing, without acp metadata.
Visible(v) == IF v = None \/ kind[v] = "forget" THEN None ELSE v

\* The entry a reader finds in the sessions that a writing call has changed.
Written(c, k) == IF k = "save" THEN c ELSE None

\* The rest of a call once the index i is in memory: a reader returns, a delete
\* of nothing too, and every other call changes the index and starts to write
\* it.  (indexDirty is set just before, so saveIndex() never returns early.)
\* before is what was promised until now.
Continue(c, k, i, before) ==
  LET changed == [s \in Session |->
                    IF s \notin Touched(c, k) THEN i[s]
                    ELSE IF k \in {"save", "forget"} THEN c ELSE None]
      nothing == k = "load" \/ (k = "delete" /\ i[SessionOf[c]] = None)
  IN  /\ loaded' = TRUE
      /\ \/ /\ nothing
            /\ index' = i
            /\ pc' = [pc EXCEPT ![c] = "resolved"]
            /\ promised' = before
            /\ UNCHANGED <<dirty, snapshot>>
         \/ /\ ~nothing
            /\ index' = changed
            /\ dirty' = TRUE
            /\ snapshot' = [snapshot EXCEPT ![c] = changed]
            /\ promised' = [s \in Session |->
                 IF s \in Touched(c, k) THEN before[s] \cup {Written(c, k)}
                 ELSE before[s]]
            /\ pc' = [pc EXCEPT ![c] = "opening"]

\* Callers take turns on one session (its actor queue), never on two.
Undisturbed(c, k) == \A d \in InProgress :
  SessionOf[d] # SessionOf[c] /\ k # "clear" /\ kind[d] # "clear"

\* A call with an index in memory, without a file, or that clears goes on at
\* once; any other awaits the read.  One that returns at once, from memory,
\* disturbs nobody.
Begin(c) ==
  /\ pc[c] = "new"
  /\ Cardinality(InProgress) < AtOnce
  /\ \E k \in Kind :
       /\ Undisturbed(c, k)
       /\ kind' = [kind EXCEPT ![c] = k]
       /\ \/ /\ k = "clear" \/ (~loaded /\ disk.state = "missing")
             /\ Continue(c, k, Empty, promised)
          \/ /\ k # "clear" /\ loaded
             /\ Continue(c, k, index, promised)
          \/ /\ k # "clear" /\ ~loaded /\ disk.state # "missing"
             /\ pc' = [pc EXCEPT ![c] = "loading"]
             /\ UNCHANGED <<loaded, index, dirty, snapshot, promised>>
  /\ overlapped' = (overlapped \/ (InProgress # {} /\ pc'[c] # "resolved"))
  /\ UNCHANGED <<disk, crashes>>

\* loadIndex() ends: whatever the index was meanwhile, it is replaced.  A file
\* that is torn, or cannot be read, is an empty one: "Failed to load ACP
\* session index, starting fresh", the warning that excuses what is missing.
EndLoad(c) ==
  /\ pc[c] = "loading"
  /\ \/ /\ disk.state = "whole"
        /\ Continue(c, kind[c], [s \in Session |-> Visible(disk.index[s])], promised)
     \/ Continue(c, kind[c], Empty, [s \in Session |-> promised[s] \cup {None}])
  /\ UNCHANGED <<disk, kind, overlapped, crashes>>

\* writeFile() opens the file, which truncates it.
OpenFile(c) ==
  /\ pc[c] = "opening"
  /\ disk' = Torn
  /\ pc' = [pc EXCEPT ![c] = "filling"]
  /\ UNCHANGED <<loaded, index, dirty, kind, snapshot, promised, overlapped, crashes>>

\* i is written shorter than j: it has less entries, and the same ones.
Shorter(i, j) == i # j /\ \A s \in Session : i[s] # None => i[s] = j[s]

\* The content is there.  Over longer content that another writer has left
\* since the file was opened it leaves that one's tail, and the file is torn.
FillFile(c) ==
  /\ pc[c] = "filling"
  /\ LET over == disk.state = "whole" /\ disk.index # snapshot[c]
     IN  \/ /\ over => ~Shorter(snapshot[c], disk.index)
            /\ disk' = Whole(snapshot[c])
         \/ /\ over /\ ~Shorter(disk.index, snapshot[c])
            /\ disk' = Torn
  /\ dirty' = FALSE
  /\ promised' = [s \in Session |->
       IF s \in Touched(c, kind[c]) THEN {Written(c, kind[c])} ELSE promised[s]]
  /\ pc' = [pc EXCEPT ![c] = "resolved"]
  /\ snapshot' = [snapshot EXCEPT ![c] = Empty]
  /\ UNCHANGED <<loaded, index, kind, overlapped, crashes>>

\* Faulty variant: the dirty mark is cleared though the write failed.
WriteFailsClean(c) ==
  /\ pc[c] \in {"opening", "filling"}
  /\ pc' = [pc EXCEPT ![c] = "rejected"]
  /\ snapshot' = [snapshot EXCEPT ![c] = Empty]
  /\ dirty' = FALSE
  /\ UNCHANGED <<disk, loaded, index, kind, promised, overlapped, crashes>>

\* Faulty variant: the error is swallowed and the caller told it is saved.
WriteFailsResolved(c) ==
  /\ pc[c] \in {"opening", "filling"}
  /\ pc' = [pc EXCEPT ![c] = "resolved"]
  /\ promised' = [s \in Session |->
       IF s \in Touched(c, kind[c]) THEN {Written(c, kind[c])} ELSE promised[s]]
  /\ snapshot' = [snapshot EXCEPT ![c] = Empty]
  /\ UNCHANGED <<disk, loaded, index, dirty, kind, overlapped, crashes>>

\* open or write fails: the caller sees the error; memory keeps the change.
WriteFails(c) ==
  /\ pc[c] \in {"opening", "filling"}
  /\ pc' = [pc EXCEPT ![c] = "rejected"]
  /\ snapshot' = [snapshot EXCEPT ![c] = Empty]
  /\ UNCHANGED <<disk, loaded, index, dirty, kind, promised, overlapped, crashes>>

\* The process dies, with the calls in progress, and is started again.
Crash ==
  /\ crashes < MaxCrashes
  /\ crashes' = crashes + 1
  /\ loaded' = FALSE /\ index' = Empty /\ dirty' = FALSE
  /\ pc' = [c \in Call |-> IF c \in InProgress THEN "lost" ELSE pc[c]]
  /\ snapshot' = [c \in Call |-> Empty]
  /\ UNCHANGED <<disk, kind, promised, overlapped>>

StoreNext == Crash \/ \E c \in Call : \/ Begin(c) \/ EndLoad(c) \/ OpenFile(c)
                                 \/ FillFile(c) \/ WriteFails(c)

StoreSpec == StoreInit /\ [][StoreNext]_storeVars

-----------------------------------------------------------------------------
\* No silent loss: promised[s] is what the last call that changed s and
\* returned has left (or a failed, lost or unfinished one may have), and
\* "nothing" once a load has warned that it starts fresh.  A reader finds
\* nothing else: in memory, in the file while nobody writes it, and so after a
\* restart, until two calls have been at the file at once, which nothing
\* prevents for two sessions.
NoSilentLoss == ~overlapped => \A s \in Session :
  /\ loaded => Visible(index[s]) \in promised[s]
  /\ disk.state = "whole" /\ InProgress = {} => Visible(disk.index[s]) \in promised[s]

\* Refuted in AcpStoreOverlap.cfg: "should persist sessions across store
\* instances": another instance over the same directory finds what the calls
\* that returned have saved.
SavedSessionsPersist == InProgress = {} /\ disk.state = "whole" =>
  \A s \in Session : Visible(disk.index[s]) \in promised[s]

\* indexDirty tells the truth: what is in memory while the index is clean and
\* nobody writes is in the file too, and stopping the process loses nothing,
\* with the same exception.
CleanIsWritten ==
  ~overlapped /\ loaded /\ ~dirty /\ InProgress = {} => \A s \in Session :
    Visible(index[s]) # None =>
      disk.state = "whole" /\ disk.index[s] = index[s]
=============================================================================
