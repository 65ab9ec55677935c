------------------------- MODULE DurableFilesProofs -------------------------
(***************************************************************************)
(* The two components that keep a file, proved: the ACP session store and  *)
(* the outbound path with its durable queue.                               *)
(*                                                                         *)
(* All results are about every behaviour.  The store's promises end where  *)
(* two calls are at the file together, which the code does not prevent:    *)
(* the properties say so (overlapped), and AcpStoreOverlap.cfg has what    *)
(* comes of it.                                                            *)
(***************************************************************************)
EXTENDS AcpSessionStore, Outbound, SequenceTheorems, TLAPS

-----------------------------------------------------------------------------
(* The ACP session store. *)

Writing == {"opening", "filling"}

\* A call that reads the file began as one of the kinds.
LoaderHasKind == \A c \in Call : pc[c] = "loading" => kind[c] \in Kind

StoreTyped == StoreTypeOK /\ LoaderHasKind

\* Only one call is in progress.
OneCall == \A c, d \in InProgress : c = d

\* Every entry, in memory or in the file, names a call that has begun.
Begun == {c \in Call : pc[c] # "new"} \cup {None}
EntriesBegun == \A s \in Session : index[s] \in Begun /\ disk.index[s] \in Begun

\* A call that writes has the index in memory as its content, with its own
\* change, and says so by the dirty mark; while it fills the file that is torn.
WriterHasIndex == \A c \in Call : pc[c] \in Writing =>
  /\ loaded /\ dirty /\ snapshot[c] = index /\ kind[c] \in Kind
  /\ \A s \in Touched(c, kind[c]) : Visible(index[s]) = Written(c, kind[c])
FillerTearsFile == \A c \in Call : pc[c] = "filling" => disk.state = "torn"

\* What may be found is promised: in memory, in the file, and without one.
MemoryIsPromised == loaded => \A s \in Session : Visible(index[s]) \in promised[s]
FileIsPromised ==
  /\ disk.state = "whole" => \A s \in Session : Visible(disk.index[s]) \in promised[s]
  /\ disk.state = "missing" => \A s \in Session : None \in promised[s]

\* A clean index in memory is in the file.
CleanInFile == loaded /\ ~dirty => \A s \in Session :
  Visible(index[s]) # None => disk.state = "whole" /\ disk.index[s] = index[s]

Sound == /\ StoreTyped /\ OneCall /\ EntriesBegun
         /\ WriterHasIndex /\ FillerTearsFile
         /\ MemoryIsPromised /\ FileIsPromised /\ CleanInFile

\* The inductive invariant: all this, until two calls are at the file at once.
StoreIInv == StoreTyped /\ (~overlapped => Sound)

-----------------------------------------------------------------------------
LEMMA StoreInitTyped == StoreInit => StoreTyped
<1> SUFFICES ASSUME StoreInit PROVE StoreTyped OBVIOUS
<1>1. Empty \in Index BY DEF Empty, Index
<1>2. Missing \in [state : {"missing", "torn", "whole"}, index : Index]
  BY <1>1 DEF Missing
<1>3. crashes \in 0..MaxCrashes BY StoreAssumption DEF StoreInit, StoreAssumption
<1>4. /\ disk \in [state : {"missing", "torn", "whole"}, index : Index]
      /\ loaded \in BOOLEAN /\ dirty \in BOOLEAN /\ overlapped \in BOOLEAN
      /\ index \in Index
      /\ snapshot \in [Call -> Index]
  BY <1>1, <1>2 DEF StoreInit
<1>5. /\ kind \in [Call -> Kind \cup {"none"}]
      /\ pc \in [Call -> Waiting \cup {"new", "resolved", "rejected", "lost"}]
      /\ promised \in [Session -> SUBSET (Call \cup {None})]
  BY DEF StoreInit
<1>6. LoaderHasKind BY DEF StoreInit, LoaderHasKind
<1> QED BY <1>3, <1>4, <1>5, <1>6 DEF StoreTyped, StoreTypeOK

LEMMA StoreInitSound == StoreInit => Sound
<1> SUFFICES ASSUME StoreInit PROVE Sound OBVIOUS
<1>1. StoreTyped BY StoreInitTyped
<1>2. InProgress = {} BY DEF StoreInit, InProgress, Waiting
<1>3. OneCall BY <1>2 DEF OneCall
<1>4. EntriesBegun BY DEF StoreInit, EntriesBegun, Begun, Empty, Missing
<1>5. WriterHasIndex /\ FillerTearsFile
  BY DEF StoreInit, WriterHasIndex, FillerTearsFile, Writing
<1>6. MemoryIsPromised /\ FileIsPromised /\ CleanInFile
  BY DEF StoreInit, MemoryIsPromised, FileIsPromised, CleanInFile, Missing
<1> QED BY <1>1, <1>3, <1>4, <1>5, <1>6 DEF Sound

-----------------------------------------------------------------------------
\* Types.  The rest of a call, from whatever index and promises.
LEMMA ContinueTyped ==
  ASSUME StoreTypeOK, NEW c \in Call, NEW k \in Kind, NEW i \in Index,
         NEW before \in [Session -> SUBSET (Call \cup {None})],
         Continue(c, k, i, before)
  PROVE  /\ loaded' \in BOOLEAN /\ dirty' \in BOOLEAN /\ index' \in Index
         /\ pc' \in [Call -> Waiting \cup {"new", "resolved", "rejected", "lost"}]
         /\ snapshot' \in [Call -> Index]
         /\ promised' \in [Session -> SUBSET (Call \cup {None})]
         /\ pc'[c] # "loading" /\ \A d \in Call : d # c => pc'[d] = pc[d]
<1> DEFINE Changed == [s \in Session |->
                         IF s \notin Touched(c, k) THEN i[s]
                         ELSE IF k \in {"save", "forget"} THEN c ELSE None]
           Wrote == [s \in Session |-> IF s \in Touched(c, k)
                                       THEN before[s] \cup {Written(c, k)} ELSE before[s]]
<1>1. Changed \in Index BY DEF Index
<1>2. Written(c, k) \in Call \cup {None} BY DEF Written
<1>3. Wrote \in [Session -> SUBSET (Call \cup {None})] BY <1>2
<1>4. /\ loaded' = TRUE
      /\ \/ /\ index' = i /\ pc' = [pc EXCEPT ![c] = "resolved"]
            /\ promised' = before /\ UNCHANGED <<dirty, snapshot>>
         \/ /\ index' = Changed /\ dirty' = TRUE
            /\ snapshot' = [snapshot EXCEPT ![c] = Changed]
            /\ promised' = Wrote /\ pc' = [pc EXCEPT ![c] = "opening"]
  BY Zenon DEF Continue
<1> HIDE DEF Changed, Wrote
<1>5. index' \in Index /\ dirty' \in BOOLEAN BY <1>1, <1>4 DEF StoreTypeOK
<1>6. snapshot' \in [Call -> Index] BY <1>1, <1>4 DEF StoreTypeOK
<1>7. pc' \in [Call -> Waiting \cup {"new", "resolved", "rejected", "lost"}]
  BY <1>4 DEF StoreTypeOK, Waiting
<1>8. pc'[c] # "loading" /\ \A d \in Call : d # c => pc'[d] = pc[d]
  BY <1>4 DEF StoreTypeOK
<1> QED BY <1>3, <1>4, <1>5, <1>6, <1>7, <1>8

LEMMA BeginTyped == ASSUME StoreTyped, NEW c \in Call, Begin(c) PROVE StoreTyped'
<1> USE DEF StoreTyped
<1>1. PICK k \in Kind :
        /\ kind' = [kind EXCEPT ![c] = k]
        /\ \/ Continue(c, k, Empty, promised)
           \/ Continue(c, k, index, promised)
           \/ /\ pc' = [pc EXCEPT ![c] = "loading"]
              /\ UNCHANGED <<loaded, index, dirty, snapshot, promised>>
  BY DEF Begin
<1>2. UNCHANGED <<disk, crashes>> /\ overlapped' \in BOOLEAN
  BY DEF Begin, StoreTypeOK
<1>3. kind' \in [Call -> Kind \cup {"none"}] /\ kind'[c] = k
      /\ \A d \in Call : d # c => kind'[d] = kind[d]
  BY <1>1 DEF StoreTypeOK
<1>4. Empty \in Index /\ index \in Index
      /\ promised \in [Session -> SUBSET (Call \cup {None})]
  BY DEF Empty, Index, StoreTypeOK
<1>5. /\ loaded' \in BOOLEAN /\ dirty' \in BOOLEAN /\ index' \in Index
      /\ pc' \in [Call -> Waiting \cup {"new", "resolved", "rejected", "lost"}]
      /\ snapshot' \in [Call -> Index]
      /\ promised' \in [Session -> SUBSET (Call \cup {None})]
      /\ \A d \in Call : d # c => pc'[d] = pc[d]
  <2>1. CASE Continue(c, k, Empty, promised) BY <2>1, <1>4, ContinueTyped
  <2>2. CASE Continue(c, k, index, promised) BY <2>2, <1>4, ContinueTyped
  <2>3. CASE /\ pc' = [pc EXCEPT ![c] = "loading"]
             /\ UNCHANGED <<loaded, index, dirty, snapshot, promised>>
    BY <2>3 DEF StoreTypeOK, Waiting
  <2> QED BY <1>1, <2>1, <2>2, <2>3
<1>6. StoreTypeOK' BY <1>2, <1>3, <1>5 DEF StoreTypeOK
<1>7. LoaderHasKind' BY <1>3, <1>5 DEF LoaderHasKind
<1> QED BY <1>6, <1>7

LEMMA EndLoadTyped == ASSUME StoreTyped, NEW c \in Call, EndLoad(c) PROVE StoreTyped'
<1> USE DEF StoreTyped
<1> DEFINE Read == [s \in Session |-> Visible(disk.index[s])]
           Excused == [s \in Session |-> promised[s] \cup {None}]
<1>1. Continue(c, kind[c], Read, promised) \/ Continue(c, kind[c], Empty, Excused)
  BY DEF EndLoad
<1>2. kind[c] \in Kind /\ UNCHANGED <<disk, kind, overlapped, crashes>>
  BY DEF EndLoad, LoaderHasKind
<1>3. Read \in Index /\ Empty \in Index
  BY DEF StoreTypeOK, Empty, Index, Visible
<1>4. /\ promised \in [Session -> SUBSET (Call \cup {None})]
      /\ Excused \in [Session -> SUBSET (Call \cup {None})]
  BY DEF StoreTypeOK
<1> HIDE DEF Read, Excused
<1>5. /\ loaded' \in BOOLEAN /\ dirty' \in BOOLEAN /\ index' \in Index
      /\ pc' \in [Call -> Waiting \cup {"new", "resolved", "rejected", "lost"}]
      /\ snapshot' \in [Call -> Index]
      /\ promised' \in [Session -> SUBSET (Call \cup {None})]
      /\ pc'[c] # "loading" /\ \A d \in Call : d # c => pc'[d] = pc[d]
  <2>1. CASE Continue(c, kind[c], Read, promised) BY <2>1, <1>2, <1>3, <1>4, ContinueTyped
  <2>2. CASE Continue(c, kind[c], Empty, Excused) BY <2>2, <1>2, <1>3, <1>4, ContinueTyped
  <2> QED BY <1>1, <2>1, <2>2
<1>6. StoreTypeOK' BY <1>2, <1>5 DEF StoreTypeOK
<1>7. LoaderHasKind' BY <1>2, <1>5 DEF LoaderHasKind
<1> QED BY <1>6, <1>7

LEMMA WriteTyped ==
  ASSUME StoreTyped, NEW c \in Call, OpenFile(c) \/ FillFile(c) \/ WriteFails(c)
  PROVE  StoreTyped'
<1> USE DEF StoreTyped
<1>1. /\ loaded' = loaded /\ index' = index /\ kind' = kind /\ crashes' = crashes
      /\ overlapped' = overlapped /\ dirty' \in {dirty, FALSE}
  BY DEF OpenFile, FillFile, WriteFails
<1>2. pc' \in [Call -> Waiting \cup {"new", "resolved", "rejected", "lost"}]
      /\ \A d \in Call : pc'[d] = "loading" => pc[d] = "loading"
  BY DEF OpenFile, FillFile, WriteFails, StoreTypeOK, Waiting
<1>3. Empty \in Index BY DEF Empty, Index
<1>4. snapshot' \in [Call -> Index]
  BY <1>3 DEF OpenFile, FillFile, WriteFails, StoreTypeOK
<1>5. disk' \in [state : {"missing", "torn", "whole"}, index : Index]
  <2>1. CASE disk' = disk BY <2>1 DEF StoreTypeOK
  <2>2. CASE disk' = Torn BY <2>2, <1>3 DEF Torn
  <2>3. CASE disk' = Whole(snapshot[c])
    <3>1. snapshot[c] \in Index BY DEF StoreTypeOK
    <3> QED BY <2>3, <3>1 DEF Whole
  <2> QED BY <2>1, <2>2, <2>3 DEF OpenFile, FillFile, WriteFails
<1>6. promised' \in [Session -> SUBSET (Call \cup {None})]
  <2>1. Written(c, kind[c]) \in Call \cup {None} BY DEF Written
  <2>2. CASE promised' = promised BY <2>2 DEF StoreTypeOK
  <2>3. CASE promised' = [s \in Session |->
               IF s \in Touched(c, kind[c]) THEN {Written(c, kind[c])} ELSE promised[s]]
    BY <2>1, <2>3 DEF StoreTypeOK
  <2> QED BY <2>2, <2>3 DEF OpenFile, FillFile, WriteFails
<1>7. StoreTypeOK' BY <1>1, <1>2, <1>4, <1>5, <1>6 DEF StoreTypeOK
<1>8. LoaderHasKind' BY <1>1, <1>2 DEF LoaderHasKind
<1> QED BY <1>7, <1>8

LEMMA CrashTyped == ASSUME StoreTyped, Crash PROVE StoreTyped'
<1> USE DEF StoreTyped
<1>1. Empty \in Index BY DEF Empty, Index
<1>2. /\ loaded' \in BOOLEAN /\ dirty' \in BOOLEAN /\ index' \in Index
      /\ snapshot' \in [Call -> Index]
  BY <1>1 DEF Crash
<1>3. pc' \in [Call -> Waiting \cup {"new", "resolved", "rejected", "lost"}]
      /\ \A d \in Call : pc'[d] # "loading"
  BY DEF Crash, StoreTypeOK, InProgress, Waiting
<1>4. crashes' \in 0..MaxCrashes
  BY StoreAssumption DEF StoreAssumption, Crash, StoreTypeOK
<1>5. StoreTypeOK' BY <1>2, <1>3, <1>4 DEF Crash, StoreTypeOK
<1>6. LoaderHasKind' BY <1>3 DEF LoaderHasKind
<1> QED BY <1>5, <1>6

LEMMA NextTyped == StoreTyped /\ [StoreNext]_storeVars => StoreTyped'
<1> SUFFICES ASSUME StoreTyped, [StoreNext]_storeVars PROVE StoreTyped' OBVIOUS
<1>1. CASE Crash BY <1>1, CrashTyped
<1>2. ASSUME NEW c \in Call, Begin(c) PROVE StoreTyped' BY <1>2, BeginTyped
<1>3. ASSUME NEW c \in Call, EndLoad(c) PROVE StoreTyped' BY <1>3, EndLoadTyped
<1>4. ASSUME NEW c \in Call, OpenFile(c) \/ FillFile(c) \/ WriteFails(c) PROVE StoreTyped'
  BY <1>4, WriteTyped
<1>5. CASE UNCHANGED storeVars
  BY <1>5 DEF storeVars, StoreTyped, StoreTypeOK, LoaderHasKind
<1> QED BY <1>1, <1>2, <1>3, <1>4, <1>5 DEF StoreNext

\* Every variable of the session store keeps its type, whatever overlaps.
THEOREM StoreTypeCorrect == StoreSpec => []StoreTypeOK
<1>1. StoreTyped => StoreTypeOK BY DEF StoreTyped
<1> QED BY <1>1, StoreInitTyped, NextTyped, PTL DEF StoreSpec

-----------------------------------------------------------------------------
\* The rest of a call, once an index that agrees with the promises is there.
LEMMA ContinueKeeps ==
  ASSUME Sound, StoreTyped', NEW c \in Call, NEW k \in Kind,
         kind' = [kind EXCEPT ![c] = k], pc[c] = "new" \/ kind[c] = k,
         \A d \in InProgress : d = c,
         pc[c] \notin Writing,
         NEW i \in Index, \A s \in Session : i[s] \in Begun,
         NEW before \in [Session -> SUBSET (Call \cup {None})],
         \A s \in Session : promised[s] \subseteq before[s],
         \A s \in Session : Visible(i[s]) \in before[s] \/ k = "clear",
         ~dirty \/ ~loaded => \A s \in Session : Visible(i[s]) # None =>
                         disk.state = "whole" /\ disk.index[s] = i[s],
         Continue(c, k, i, before), UNCHANGED <<disk, crashes>>
  PROVE  Sound'
<1> DEFINE Nothing == k = "load" \/ (k = "delete" /\ i[SessionOf[c]] = None)
           Changed == [s \in Session |->
                         IF s \notin Touched(c, k) THEN i[s]
                         ELSE IF k \in {"save", "forget"} THEN c ELSE None]
<1> USE StoreAssumption
<1>1. /\ loaded' = TRUE
      /\ \/ /\ Nothing
            /\ index' = i /\ pc' = [pc EXCEPT ![c] = "resolved"]
            /\ promised' = before /\ UNCHANGED <<dirty, snapshot>>
         \/ /\ ~Nothing
            /\ index' = Changed /\ dirty' = TRUE
            /\ snapshot' = [snapshot EXCEPT ![c] = Changed]
            /\ promised' = [s \in Session |->
                 IF s \in Touched(c, k) THEN before[s] \cup {Written(c, k)} ELSE before[s]]
            /\ pc' = [pc EXCEPT ![c] = "opening"]
  BY Zenon DEF Continue
<1>2. Touched(c, k) \subseteq Session BY DEF Touched
<1>5. \A d \in Call : d # c => pc'[d] = pc[d] /\ pc[d] \notin Waiting
  BY <1>1 DEF Sound, StoreTyped, StoreTypeOK, InProgress
<1>6. pc'[c] \in {"resolved", "opening"}
  BY <1>1 DEF Sound, StoreTyped, StoreTypeOK
<1>7. OneCall' BY <1>5 DEF OneCall, InProgress
<1>8. Begun \subseteq Begun' /\ c \in Begun' /\ None \in Begun'
  BY <1>5, <1>6 DEF Begun
<1>9. EntriesBegun'
  BY <1>1, <1>2, <1>8 DEF Sound, EntriesBegun
<1>10. \A s \in Session : Visible(i[s])' = Visible(i[s]) /\ Visible(disk.index[s])' = Visible(disk.index[s])
  <2> TAKE s \in Session
  <2>1. i[s] \in Begun /\ disk.index[s] \in Begun BY DEF Sound, EntriesBegun
  <2>2. Visible(i[s])' = Visible(i[s])
    <3> DEFINE v == i[s]
    <3> HIDE DEF v
    <3>1. v \in Begun BY <2>1 DEF v
    <3>2. kind'[v] = kind[v] \/ v = None BY <3>1 DEF Begun, Sound, StoreTyped, StoreTypeOK
    <3> QED BY <3>2 DEF Visible, v
  <2>3. Visible(disk.index[s])' = Visible(disk.index[s])
    <3>2. kind'[disk.index[s]] = kind[disk.index[s]] \/ disk.index[s] = None
      BY <2>1 DEF Begun, Sound, StoreTyped, StoreTypeOK
    <3> QED BY <3>2 DEF Visible
  <2> QED BY <2>2, <2>3
<1>11. pc'[c] = "opening" => \A s \in Touched(c, k) : Visible(index[s])' = Written(c, k)
  <2> SUFFICES ASSUME pc'[c] = "opening", NEW s \in Touched(c, k)
               PROVE  Visible(index[s])' = Written(c, k)
    OBVIOUS
  <2>1. index' = Changed /\ k # "load" BY <1>1 DEF Sound, StoreTyped, StoreTypeOK
  <2>2. index'[s] = IF k \in {"save", "forget"} THEN c ELSE None BY <1>2, <2>1
  <2>3. kind'[c] = k BY DEF Sound, StoreTyped, StoreTypeOK
  <2> QED BY <2>2, <2>3 DEF Visible, Written
<1>12. WriterHasIndex'
  <2> SUFFICES ASSUME NEW d \in Call, pc'[d] \in Writing
               PROVE  /\ loaded' /\ dirty' /\ snapshot'[d] = index' /\ kind'[d] \in Kind
                      /\ \A s \in Touched(d, kind'[d]) : Visible(index[s])' = Written(d, kind'[d])
    BY DEF WriterHasIndex, Touched, Written
  <2>1. d = c /\ pc'[c] = "opening" BY <1>5, <1>6 DEF Writing, Waiting
  <2>2. kind'[c] = k BY DEF Sound, StoreTyped, StoreTypeOK
  <2>3. index' = Changed /\ dirty' /\ snapshot'[c] = Changed BY <1>1, <2>1 DEF Sound, StoreTyped, StoreTypeOK
  <2> QED BY <1>1, <1>11, <2>1, <2>2, <2>3
<1>13. FillerTearsFile'
  BY <1>5, <1>6 DEF FillerTearsFile, Waiting
<1>14. \A s \in Session : promised[s] \subseteq promised'[s]
  BY <1>1
<1>15. MemoryIsPromised'
  <2> SUFFICES ASSUME NEW s \in Session PROVE Visible(index[s])' \in promised'[s]
    BY DEF MemoryIsPromised
  <2>1. CASE Nothing
    <3>1. index'[s] = i[s] /\ promised'[s] = before[s] /\ k # "clear" BY <1>1, <2>1
    <3>2. Visible(index[s])' = Visible(i[s])' BY <3>1 DEF Visible
    <3> QED BY <3>1, <3>2, <1>10
  <2>2. CASE ~Nothing /\ s \in Touched(c, k)
    <3>1. pc'[c] = "opening" BY <1>1, <2>2 DEF Sound, StoreTyped, StoreTypeOK
    <3>2. Written(c, k) \in promised'[s] BY <1>1, <2>2
    <3> QED BY <1>11, <2>2, <3>1, <3>2
  <2>3. CASE ~Nothing /\ s \notin Touched(c, k)
    <3>1. index'[s] = i[s] /\ promised'[s] = before[s] /\ k # "clear"
      BY <1>1, <2>3 DEF Touched
    <3>2. Visible(index[s])' = Visible(i[s])' BY <3>1 DEF Visible
    <3> QED BY <3>1, <3>2, <1>10
  <2> QED BY <2>1, <2>2, <2>3
<1>16. FileIsPromised'
  BY <1>10, <1>14 DEF Sound, FileIsPromised
<1>17. CleanInFile'
  <2> SUFFICES ASSUME ~dirty', NEW s \in Session, Visible(index[s])' # None
               PROVE  disk.state = "whole" /\ disk.index[s] = index'[s]
    BY DEF CleanInFile
  <2>1. index' = i /\ UNCHANGED dirty BY <1>1
  <2>2. Visible(index[s])' = Visible(i[s])' BY <2>1 DEF Visible
  <2> QED BY <1>10, <2>1, <2>2
<1> QED BY <1>7, <1>9, <1>12, <1>13, <1>15, <1>16, <1>17 DEF Sound

LEMMA BeginKeeps ==
  ASSUME Sound, NEW c \in Call, Begin(c), InProgress = {} PROVE Sound'
<1>1. PICK k \in Kind :
        /\ kind' = [kind EXCEPT ![c] = k]
        /\ \/ /\ k = "clear" \/ (~loaded /\ disk.state = "missing")
              /\ Continue(c, k, Empty, promised)
           \/ /\ loaded
              /\ Continue(c, k, index, promised)
           \/ /\ pc' = [pc EXCEPT ![c] = "loading"]
              /\ UNCHANGED <<loaded, index, dirty, snapshot, promised>>
  BY DEF Begin
<1>2. pc[c] = "new" /\ pc[c] \notin Writing /\ UNCHANGED <<disk, crashes>>
  BY DEF Begin, Writing
<1>3. StoreTyped' BY BeginTyped DEF Sound
<1>4. promised \in [Session -> SUBSET (Call \cup {None})] /\ index \in Index
      /\ Empty \in Index
  BY DEF Sound, StoreTyped, StoreTypeOK, Empty, Index
<1>5. \A s \in Session : promised[s] \subseteq promised[s] OBVIOUS
<1>6. \A d \in InProgress : d = c OBVIOUS
<1>7. CASE /\ k = "clear" \/ (~loaded /\ disk.state = "missing")
           /\ Continue(c, k, Empty, promised)
  <2>1. \A s \in Session : Empty[s] \in Begun /\ Visible(Empty[s]) = None
    BY DEF Empty, Begun, Visible
  <2>2. \A s \in Session : Visible(Empty[s]) \in promised[s] \/ k = "clear"
    BY <1>7, <2>1 DEF Sound, FileIsPromised
  <2> QED BY <1>1, <1>2, <1>3, <1>4, <1>5, <1>6, <1>7, <2>1, <2>2, ContinueKeeps
<1>8. CASE loaded /\ Continue(c, k, index, promised)
  <2>1. \A s \in Session : index[s] \in Begun BY DEF Sound, EntriesBegun
  <2>2. \A s \in Session : Visible(index[s]) \in promised[s]
    BY <1>8 DEF Sound, MemoryIsPromised
  <2>3. ~dirty \/ ~loaded => \A s \in Session : Visible(index[s]) # None =>
          disk.state = "whole" /\ disk.index[s] = index[s]
    BY <1>8 DEF Sound, CleanInFile
  <2> QED BY <1>1, <1>2, <1>3, <1>4, <1>5, <1>6, <1>8, <2>1, <2>2, <2>3, ContinueKeeps
<1>9. CASE /\ pc' = [pc EXCEPT ![c] = "loading"]
           /\ UNCHANGED <<loaded, index, dirty, snapshot, promised>>
  <2>1. \A d \in Call : pc'[d] = IF d = c THEN "loading" ELSE pc[d]
    BY <1>9 DEF Sound, StoreTyped, StoreTypeOK
  <2>2. \A d \in Call : d # c => pc'[d] \notin Waiting
    BY <2>1 DEF InProgress
  <2>3. OneCall' BY <2>2 DEF OneCall, InProgress
  <2>4. EntriesBegun'
    BY <1>2, <1>9, <2>1 DEF Sound, EntriesBegun, Begun
  <2>5. WriterHasIndex' /\ FillerTearsFile'
    BY <2>1, <2>2 DEF WriterHasIndex, FillerTearsFile, Writing, Waiting
  <2>6. \A v \in Begun : v = None \/ kind'[v] = kind[v]
    BY <1>1, <1>2 DEF Begun, Sound, StoreTyped, StoreTypeOK
  <2>7. \A s \in Session : /\ Visible(index[s])' = Visible(index[s])
                          /\ Visible(disk.index[s])' = Visible(disk.index[s])
    <3> TAKE s \in Session
    <3>1. index[s] \in Begun /\ disk.index[s] \in Begun BY DEF Sound, EntriesBegun
    <3>2. kind'[index[s]] = kind[index[s]] \/ index[s] = None BY <2>6, <3>1
    <3>3. kind'[disk.index[s]] = kind[disk.index[s]] \/ disk.index[s] = None BY <2>6, <3>1
    <3> QED BY <1>2, <1>9, <3>2, <3>3 DEF Visible
  <2>8. MemoryIsPromised' /\ FileIsPromised' /\ CleanInFile'
    BY <1>2, <1>9, <2>7 DEF Sound, MemoryIsPromised, FileIsPromised, CleanInFile
  <2> QED BY <1>3, <2>3, <2>4, <2>5, <2>8 DEF Sound
<1> QED BY <1>1, <1>7, <1>8, <1>9

LEMMA EndLoadKeeps ==
  ASSUME Sound, NEW c \in Call, EndLoad(c) PROVE Sound'
<1> DEFINE Read == [s \in Session |-> Visible(disk.index[s])]
           Excused == [s \in Session |-> promised[s] \cup {None}]
           k == kind[c]
<1>1. /\ pc[c] = "loading" /\ UNCHANGED <<disk, kind, crashes>>
      /\ \/ disk.state = "whole" /\ Continue(c, k, Read, promised)
         \/ Continue(c, k, Empty, Excused)
  BY DEF EndLoad
<1>2. /\ pc[c] \notin Writing /\ k \in Kind
      /\ kind' = [kind EXCEPT ![c] = k]
  BY <1>1 DEF Writing, Sound, StoreTyped, StoreTypeOK, LoaderHasKind
<1>3. \A d \in InProgress : d = c
  BY <1>1 DEF Sound, OneCall, InProgress, Waiting
<1>4. StoreTyped' BY EndLoadTyped DEF Sound
<1>5. \A s \in Session : disk.index[s] \in Begun BY DEF Sound, EntriesBegun
<1>6. /\ promised \in [Session -> SUBSET (Call \cup {None})]
      /\ Excused \in [Session -> SUBSET (Call \cup {None})]
      /\ Empty \in Index /\ Read \in Index
  BY DEF Sound, StoreTyped, StoreTypeOK, Empty, Index, Visible
<1>7. CASE disk.state = "whole" /\ Continue(c, k, Read, promised)
  <2>1. \A s \in Session : LET v == disk.index[s]
                              r == Read[s]
                          IN  /\ r \in Begun /\ Visible(r) = Visible(v)
                              /\ Visible(r) # None => r = v
    BY <1>5 DEF Visible, Begun
  <2>2. \A s \in Session : Visible(Read[s]) \in promised[s]
    BY <1>7, <2>1 DEF Sound, FileIsPromised
  <2>3. \A s \in Session : promised[s] \subseteq promised[s] OBVIOUS
  <2>4. ~dirty \/ ~loaded => \A s \in Session : Visible(Read[s]) # None =>
          disk.state = "whole" /\ disk.index[s] = Read[s]
    BY <1>7, <2>1
  <2>5. \A s \in Session : Read[s] \in Begun BY <2>1
  <2> QED BY <1>1, <1>2, <1>3, <1>4, <1>6, <1>7, <2>2, <2>3, <2>4, <2>5, ContinueKeeps
<1>8. CASE Continue(c, k, Empty, Excused)
  <2>1. \A s \in Session : Empty[s] \in Begun /\ Visible(Empty[s]) = None
    BY DEF Empty, Begun, Visible
  <2>2. \A s \in Session : promised[s] \subseteq Excused[s] /\ Visible(Empty[s]) \in Excused[s]
    BY <2>1
  <2> HIDE DEF Excused
  <2> QED BY <1>1, <1>2, <1>3, <1>4, <1>6, <1>8, <2>1, <2>2, ContinueKeeps
<1> QED BY <1>1, <1>7, <1>8

\* The steps of a write: they change neither memory nor what calls are.
LEMMA WriteKeeps ==
  ASSUME Sound, NEW c \in Call, OpenFile(c) \/ FillFile(c) \/ WriteFails(c)
  PROVE  Sound'
<1>1. /\ loaded' = loaded /\ index' = index /\ kind' = kind
      /\ pc[c] \in Writing /\ c \in InProgress
  BY DEF OpenFile, FillFile, WriteFails, Writing, InProgress, Waiting
<1>2. \A d \in Call : d # c => pc'[d] = pc[d] /\ pc[d] \notin Waiting
  BY <1>1 DEF OpenFile, FillFile, WriteFails, Sound, OneCall, InProgress,
              StoreTyped, StoreTypeOK
<1>3. /\ loaded /\ dirty /\ snapshot[c] = index /\ kind[c] \in Kind
      /\ \A s \in Touched(c, kind[c]) : Visible(index[s]) = Written(c, kind[c])
  BY <1>1 DEF Sound, WriterHasIndex
<1>4. pc'[c] # "new" BY DEF OpenFile, FillFile, WriteFails, Sound, StoreTyped, StoreTypeOK
<1>5. Begun \subseteq Begun' /\ None \in Begun' BY <1>2, <1>4 DEF Begun
<1>6. StoreTyped' BY WriteTyped DEF Sound
<1>7. OneCall' BY <1>2 DEF OneCall, InProgress
<1>8. \A s \in Session : Visible(index[s])' = Visible(index[s]) BY <1>1 DEF Visible
<1>9. \A s \in Session : index[s] \in Begun BY DEF Sound, EntriesBegun
<1>10. CASE OpenFile(c)
  <2>1. /\ disk' = Torn /\ UNCHANGED <<dirty, promised, snapshot>> BY <1>10 DEF OpenFile
  <2>2. EntriesBegun' BY <1>1, <1>5, <1>9, <2>1 DEF EntriesBegun, Torn, Empty
  <2>3. WriterHasIndex'
    <3> SUFFICES ASSUME NEW d \in Call, pc'[d] \in Writing
                 PROVE  /\ loaded' /\ dirty' /\ snapshot'[d] = index' /\ kind'[d] \in Kind
                        /\ \A s \in Touched(d, kind'[d]) : Visible(index[s])' = Written(d, kind'[d])
      BY DEF WriterHasIndex, Touched, Written
    <3>1. d = c BY <1>2 DEF Writing, Waiting
    <3>2. \A s \in Touched(c, kind[c]) : s \in Session
      BY StoreAssumption DEF StoreAssumption, Touched
    <3> QED BY <1>1, <1>3, <1>8, <2>1, <3>1, <3>2
  <2>4. FillerTearsFile' BY <2>1 DEF FillerTearsFile, Torn
  <2>5. MemoryIsPromised' /\ FileIsPromised' /\ CleanInFile'
    BY <1>1, <1>3, <1>8, <2>1 DEF Sound, MemoryIsPromised, FileIsPromised, CleanInFile, Torn
  <2> QED BY <1>6, <1>7, <2>2, <2>3, <2>4, <2>5 DEF Sound
<1>11. CASE FillFile(c)
  <2>1. disk.state = "torn" BY <1>11 DEF FillFile, Sound, FillerTearsFile
  <2>2. /\ disk' = Whole(index) /\ dirty' = FALSE
        /\ pc'[c] = "resolved"
        /\ promised' = [s \in Session |->
             IF s \in Touched(c, kind[c]) THEN {Written(c, kind[c])} ELSE promised[s]]
    BY <1>3, <1>11, <2>1 DEF FillFile, Sound, StoreTyped, StoreTypeOK
  <2>3. disk'.state = "whole" /\ disk'.index = index BY <2>2 DEF Whole
  <2>4. EntriesBegun' BY <1>1, <1>5, <1>9, <2>3 DEF EntriesBegun
  <2>5. WriterHasIndex' /\ FillerTearsFile'
    BY <1>2, <2>2 DEF WriterHasIndex, FillerTearsFile, Writing, Waiting
  <2>6. \A s \in Session : Visible(index[s]) \in promised'[s]
    BY <1>3, <2>2 DEF Sound, MemoryIsPromised
  <2>7. MemoryIsPromised' BY <1>8, <2>6 DEF MemoryIsPromised
  <2>8. \A s \in Session : Visible(disk.index[s])' = Visible(index[s])
    BY <1>1, <2>3 DEF Visible
  <2>9. FileIsPromised' BY <2>3, <2>6, <2>8 DEF FileIsPromised
  <2>10. CleanInFile' BY <1>1, <2>3 DEF CleanInFile
  <2> QED BY <1>6, <1>7, <2>4, <2>5, <2>7, <2>9, <2>10 DEF Sound
<1>12. CASE WriteFails(c)
  <2>1. UNCHANGED <<disk, dirty, promised>> /\ pc'[c] = "rejected"
    BY <1>12 DEF WriteFails, Sound, StoreTyped, StoreTypeOK
  <2>2. EntriesBegun' BY <1>1, <1>5, <2>1 DEF Sound, EntriesBegun
  <2>3. WriterHasIndex' /\ FillerTearsFile'
    BY <1>2, <2>1 DEF WriterHasIndex, FillerTearsFile, Writing, Waiting
  <2>4. \A s \in Session : Visible(disk.index[s])' = Visible(disk.index[s])
    BY <1>1, <2>1 DEF Visible
  <2>5. MemoryIsPromised' /\ FileIsPromised' /\ CleanInFile'
    BY <1>1, <1>8, <2>1, <2>4 DEF Sound, MemoryIsPromised, FileIsPromised, CleanInFile
  <2> QED BY <1>6, <1>7, <2>2, <2>3, <2>5 DEF Sound
<1> QED BY <1>10, <1>11, <1>12

LEMMA CrashKeeps == ASSUME Sound, Crash PROVE Sound'
<1>1. /\ ~loaded' /\ index' = Empty /\ UNCHANGED <<disk, kind, promised>>
      /\ \A d \in Call : pc'[d] \notin Waiting /\ (pc'[d] = "new" => pc[d] = "new")
  BY DEF Crash, InProgress, Waiting
<1>2. StoreTyped' BY CrashTyped DEF Sound
<1>3. OneCall' /\ WriterHasIndex' /\ FillerTearsFile'
  BY <1>1 DEF OneCall, InProgress, WriterHasIndex, FillerTearsFile, Writing, Waiting
<1>4. EntriesBegun' BY <1>1 DEF Sound, EntriesBegun, Begun, Empty
<1>5. \A s \in Session : Visible(disk.index[s])' = Visible(disk.index[s])
  BY <1>1 DEF Visible
<1>6. MemoryIsPromised' /\ FileIsPromised' /\ CleanInFile'
  BY <1>1, <1>5 DEF Sound, MemoryIsPromised, FileIsPromised, CleanInFile
<1> QED BY <1>2, <1>3, <1>4, <1>6 DEF Sound

\* A call that returns at once, beside another in progress: it writes nothing,
\* and what it finds was in memory, or there is no file.
LEMMA BesideKeeps ==
  ASSUME Sound, NEW c \in Call, Begin(c), pc'[c] = "resolved" PROVE Sound'
<1>1. PICK k \in Kind :
        /\ kind' = [kind EXCEPT ![c] = k]
        /\ \/ /\ k = "clear" \/ (~loaded /\ disk.state = "missing")
              /\ Continue(c, k, Empty, promised)
           \/ loaded /\ Continue(c, k, index, promised)
           \/ pc' = [pc EXCEPT ![c] = "loading"]
  BY DEF Begin
<1>2. ASSUME NEW i, Continue(c, k, i, promised)
      PROVE  /\ loaded' /\ index' = i /\ k # "clear"
             /\ pc' = [pc EXCEPT ![c] = "resolved"]
             /\ UNCHANGED <<dirty, snapshot, promised>>
  <2>1. pc' # [pc EXCEPT ![c] = "opening"] BY DEF Sound, StoreTyped, StoreTypeOK
  <2> QED BY Zenon, <1>2, <2>1 DEF Continue
<1>3. pc' # [pc EXCEPT ![c] = "loading"] BY DEF Sound, StoreTyped, StoreTypeOK
<1>4. /\ \/ ~loaded /\ disk.state = "missing" /\ index' = Empty
         \/ loaded /\ index' = index
      /\ loaded' /\ pc' = [pc EXCEPT ![c] = "resolved"]
      /\ UNCHANGED <<dirty, snapshot, promised>>
  BY <1>1, <1>2, <1>3
<1>5. pc[c] = "new" /\ UNCHANGED <<disk, crashes>> BY DEF Begin
<1>6. StoreTyped' BY BeginTyped DEF Sound
<1>7. \A d \in Call : /\ pc'[d] \in Waiting <=> pc[d] \in Waiting
                      /\ pc'[d] \in Waiting => d # c /\ pc'[d] = pc[d] /\ kind'[d] = kind[d]
                      /\ pc'[d] = "new" => pc[d] = "new"
  BY <1>1, <1>4, <1>5 DEF Sound, StoreTyped, StoreTypeOK, Waiting
<1>8. OneCall' BY <1>7 DEF Sound, OneCall, InProgress
<1>9. Begun \subseteq Begun' /\ None \in Begun' BY <1>7 DEF Begun
<1>10. EntriesBegun' BY <1>4, <1>5, <1>9 DEF Sound, EntriesBegun, Empty
<1>11. \A v \in Begun : v = None \/ kind'[v] = kind[v]
  BY <1>1, <1>5 DEF Begun, Sound, StoreTyped, StoreTypeOK
<1>12. \A s \in Session : /\ loaded => Visible(index[s])' = Visible(index[s])
                          /\ ~loaded => Visible(index[s])' = None
                          /\ Visible(disk.index[s])' = Visible(disk.index[s])
  <2> TAKE s \in Session
  <2>1. index[s] \in Begun /\ disk.index[s] \in Begun BY DEF Sound, EntriesBegun
  <2>2. kind'[index[s]] = kind[index[s]] \/ index[s] = None BY <1>11, <2>1
  <2>3. kind'[disk.index[s]] = kind[disk.index[s]] \/ disk.index[s] = None BY <1>11, <2>1
  <2>4. ~loaded => index'[s] = None BY <1>4 DEF Empty
  <2> QED BY <1>4, <1>5, <2>2, <2>3, <2>4 DEF Visible
<1>13. WriterHasIndex'
  <2> SUFFICES ASSUME NEW d \in Call, pc'[d] \in Writing
               PROVE  /\ loaded' /\ dirty' /\ snapshot'[d] = index' /\ kind'[d] \in Kind
                      /\ \A s \in Touched(d, kind'[d]) : Visible(index[s])' = Written(d, kind'[d])
    BY DEF WriterHasIndex, Touched, Written
  <2>1. pc[d] \in Writing /\ kind'[d] = kind[d] BY <1>7 DEF Writing, Waiting
  <2>2. /\ loaded /\ dirty /\ snapshot[d] = index /\ kind[d] \in Kind
        /\ \A s \in Touched(d, kind[d]) : Visible(index[s]) = Written(d, kind[d])
    BY <2>1 DEF Sound, WriterHasIndex
  <2>3. \A s \in Touched(d, kind[d]) : s \in Session
    BY StoreAssumption DEF StoreAssumption, Touched
  <2> QED BY <1>4, <1>12, <2>1, <2>2, <2>3
<1>14. FillerTearsFile' BY <1>5, <1>7 DEF Sound, FillerTearsFile, Waiting
<1>15. MemoryIsPromised'
  BY <1>4, <1>12 DEF Sound, MemoryIsPromised, FileIsPromised
<1>16. FileIsPromised' BY <1>4, <1>5, <1>12 DEF Sound, FileIsPromised
<1>17. CleanInFile' BY <1>4, <1>5, <1>12 DEF Sound, CleanInFile
<1> QED BY <1>6, <1>8, <1>10, <1>13, <1>14, <1>15, <1>16, <1>17 DEF Sound

-----------------------------------------------------------------------------
LEMMA StoreStep == StoreIInv /\ [StoreNext]_storeVars => StoreIInv'
<1> SUFFICES ASSUME StoreIInv, [StoreNext]_storeVars PROVE StoreIInv' OBVIOUS
<1>1. StoreTyped' BY NextTyped DEF StoreIInv
<1> SUFFICES ASSUME ~overlapped' PROVE Sound' BY <1>1 DEF StoreIInv
<1>2. overlapped \in BOOLEAN BY DEF StoreIInv, StoreTyped, StoreTypeOK
<1>3. CASE UNCHANGED storeVars
  <2>1. Sound BY <1>3 DEF storeVars, StoreIInv
  <2>2. /\ OneCall' /\ EntriesBegun' /\ WriterHasIndex' /\ FillerTearsFile'
    BY <1>3, <2>1 DEF storeVars, Sound, OneCall, InProgress, EntriesBegun, Begun,
       WriterHasIndex, FillerTearsFile, Touched, Visible, Written
  <2>3. MemoryIsPromised' /\ FileIsPromised' /\ CleanInFile'
    BY <1>3, <2>1 DEF storeVars, Sound, MemoryIsPromised, FileIsPromised, CleanInFile, Visible
  <2> QED BY <1>1, <2>2, <2>3 DEF Sound
<1>4. CASE Crash
  <2>1. Sound BY <1>4 DEF Crash, StoreIInv
  <2> QED BY <1>4, <2>1, CrashKeeps
<1>5. ASSUME NEW c \in Call, Begin(c) PROVE Sound'
  <2>1. ~overlapped /\ (InProgress = {} \/ pc'[c] = "resolved") BY <1>2, <1>5 DEF Begin
  <2>2. Sound BY <2>1 DEF StoreIInv
  <2> QED BY <1>5, <2>1, <2>2, BeginKeeps, BesideKeeps
<1>6. ASSUME NEW c \in Call, EndLoad(c) PROVE Sound'
  <2>1. Sound BY <1>6 DEF EndLoad, StoreIInv
  <2> QED BY <1>6, <2>1, EndLoadKeeps
<1>7. ASSUME NEW c \in Call, OpenFile(c) \/ FillFile(c) \/ WriteFails(c) PROVE Sound'
  <2>1. Sound BY <1>7 DEF OpenFile, FillFile, WriteFails, StoreIInv
  <2> QED BY <1>7, <2>1, WriteKeeps
<1> QED BY <1>3, <1>4, <1>5, <1>6, <1>7 DEF StoreNext

\* The inductive invariant, whatever overlaps, crashes or fails.
THEOREM StoreInductive == StoreSpec => []StoreIInv
<1>1. StoreInit => StoreIInv BY StoreInitSound DEF StoreIInv, Sound
<1> QED BY <1>1, StoreStep, PTL DEF StoreSpec

\* No silent loss, over any number of sessions, calls in progress and crashes:
\* what a call has saved is found again, in memory, in the file and after a
\* restart, unless a load has warned that it starts fresh, and until two calls
\* have been at the file at once.
THEOREM NothingLostUntilOverlap == StoreSpec => []NoSilentLoss
<1>1. StoreIInv => NoSilentLoss
  BY DEF StoreIInv, Sound, MemoryIsPromised, FileIsPromised, NoSilentLoss
<1> QED BY <1>1, StoreInductive, PTL

\* Until then the dirty mark is never cleared too early: an index that is
\* clean is in the file.
THEOREM CleanMeansWritten == StoreSpec => []CleanIsWritten
<1>1. StoreIInv => CleanIsWritten BY DEF StoreIInv, Sound, CleanInFile, CleanIsWritten
<1> QED BY <1>1, StoreInductive, PTL

-----------------------------------------------------------------------------
(* The outbound path. *)

\* A list that holds no message twice.
OnceEach(s) == s \in Seq(Msg) /\ \A i, j \in DOMAIN s : s[i] = s[j] => i = j

BusTypes == /\ life \in {"down", "replay", "up", "stopping"} /\ lives \in 0..MaxLives
            /\ proc \in {"off", "waiting", "busy", "backoff"}
            /\ send \in [Msg -> Places]
            /\ OnceEach(queue) /\ OnceEach(toReplay) /\ OnceEach(published)
EntryTypes == /\ faults \in 0..MaxFaults /\ stored \subseteq Msg /\ settled \subseteq Msg
              /\ OnceEach(pending) /\ OnceEach(file)
OldTypes   == /\ again \in BOOLEAN /\ old \in [Msg -> Places] /\ exposed \subseteq Msg
              /\ OnceEach(oldPending)

\* Where the sending of m is past the writing of its entry, and before it.
Filed == {"hook", "deliver", "taken", "sent"}
Fresh(m) == send[m] \in {"new", "queued"} \/ (send[m] = "tts" /\ ~Replaying(m))

\* Nothing is being sent while no gateway runs; while it replays, only the
\* entry it has come to.  What is left to replay is not being sent.
SendsAreOwned ==
  /\ life = "down" => /\ queue = <<>> /\ toReplay = <<>> /\ published = <<>>
                      /\ \A m \in Msg : send[m] \in {"new", "over"}
  /\ life # "down" => lives >= 1
  /\ life = "replay" => \A m \in Msg : send[m] \in InFlight => Replaying(m)
  /\ life # "replay" => toReplay = <<>>
  /\ \A m \in Entries(toReplay) :
       send[m] = "over" \/ (m = Head(toReplay) /\ send[m] \in InFlight)

\* The entries in memory, in the file, and in the store of the earlier gateway.
Everywhere == Entries(pending) \cup Entries(file) \cup Entries(oldPending)

\* While a send of the earlier gateway is under way, it and all entries are
\* exposed; before its entry is written it is in no list.
OldIsExposed == \A m \in Msg :
  /\ old[m] \in InFlight => m \in exposed /\ Everywhere \subseteq exposed
  /\ old[m] = "tts" => m \notin Everywhere

\* An entry waits for its send, in memory and, unless exposed, in the file alike.
Lasting == Entries(pending) \cap (Entries(file) \cup exposed)
EntriesWait ==
  /\ \A m \in Msg : send[m] \in Filed => m \in Lasting
  /\ Entries(toReplay) \subseteq Lasting

\* Before its entry is written a message is in no list, and in no earlier send.
NewHasNoEntry == \A m \in Msg :
  Fresh(m) => m \notin Everywhere \cup stored /\ old[m] \notin InFlight

\* A send that has an outcome is settled.
OutcomeKnown == \A m \in Msg : send[m] \in {"taken", "sent"} => m \in settled

\* No entry is lost from the file, nor from the list that is written next.
Kept(s) == stored \ exposed \subseteq Entries(s) \cup settled
BothKeep == Kept(file) /\ (life # "down" => Kept(pending))

\* The bus: what it still holds is the rest of what was published, everything
\* before that is over but the one message the processor is busy with.
Done == Len(published) - Len(queue)
BusOrder ==
  /\ Done >= 0
  /\ \A i \in 1..Len(queue) : queue[i] = published[i + Done]
  /\ \A i \in 1..Len(published) : /\ published[i] \notin Direct
                                  /\ send[published[i]] # "new"
                                  /\ send[published[i]] = "queued" <=> i > Done
                                  /\ i < Done => send[published[i]] = "over"
                                  /\ i = Done /\ proc # "busy" => send[published[i]] = "over"
  /\ proc = "waiting" => queue = <<>>
  /\ life \in {"down", "replay"} => proc = "off" /\ Done = 0
  /\ \A m \in Msg \ Direct : send[m] \in InFlight =>
       Replaying(m) \/ (proc = "busy" /\ Done >= 1 /\ m = published[Done])

\* The inductive invariant, in its parts: the bus, the durable queue, what an
\* earlier gateway left, and what became of the messages.
BusInv   == BusTypes /\ SendsAreOwned /\ BusOrder
OldInv   == OldTypes /\ OldIsExposed
EntryInv == EntryTypes /\ EntriesWait /\ NewHasNoEntry
IInv     == BusInv /\ EntryInv /\ OldInv /\ OutcomeKnown /\ BothKeep

-----------------------------------------------------------------------------
\* Lists.
LEMMA NoEntry == OnceEach(<<>>) /\ Entries(<<>>) = {}
  BY DEF OnceEach, Entries

LEMMA AppendEntry ==
  ASSUME NEW s, OnceEach(s), NEW m \in Msg, m \notin Entries(s)
  PROVE  OnceEach(Append(s, m)) /\ Entries(Append(s, m)) = Entries(s) \cup {m}
<1>1. s \in Seq(Msg) /\ DOMAIN s = 1..Len(s) /\ Len(s) \in Nat BY DEF OnceEach
<1>2. /\ Append(s, m) \in Seq(Msg) /\ Len(Append(s, m)) = Len(s) + 1
      /\ DOMAIN Append(s, m) = 1..(Len(s) + 1)
      /\ \A i \in 1..Len(s) : Append(s, m)[i] = s[i]
      /\ Append(s, m)[Len(s) + 1] = m
  BY <1>1, AppendProperties
<1>3. OnceEach(Append(s, m)) BY <1>1, <1>2 DEF OnceEach, Entries
<1>4. Entries(Append(s, m)) = Entries(s) \cup {m} BY <1>1, <1>2 DEF Entries
<1> QED BY <1>3, <1>4

LEMMA TailEntry ==
  ASSUME NEW s, OnceEach(s), s # <<>>
  PROVE  /\ OnceEach(Tail(s)) /\ Entries(Tail(s)) = Entries(s) \ {Head(s)}
         /\ Head(s) \in Msg /\ Head(s) = s[1] /\ Head(s) \in Entries(s)
         /\ Len(Tail(s)) = Len(s) - 1 /\ \A i \in 1..Len(Tail(s)) : Tail(s)[i] = s[i + 1]
<1>1. s \in Seq(Msg) /\ DOMAIN s = 1..Len(s) /\ Len(s) \in Nat /\ Len(s) >= 1
  BY EmptySeq DEF OnceEach
<1>2. /\ Tail(s) \in Seq(Msg) /\ Len(Tail(s)) = Len(s) - 1
      /\ DOMAIN Tail(s) = 1..(Len(s) - 1)
      /\ \A i \in 1..(Len(s) - 1) : Tail(s)[i] = s[i + 1]
      /\ Head(s) = s[1] /\ Head(s) \in Msg
  BY <1>1, HeadTailProperties
<1>3. OnceEach(Tail(s)) BY <1>1, <1>2 DEF OnceEach
<1>4. Entries(Tail(s)) = Entries(s) \ {Head(s)}
  <2>1. ASSUME NEW x \in Entries(Tail(s)) PROVE x \in Entries(s) \ {Head(s)}
    <3>1. PICK i \in 1..(Len(s) - 1) : x = s[i + 1] BY <1>2 DEF Entries
    <3>2. i + 1 \in 1..Len(s) /\ 1 \in 1..Len(s) /\ i + 1 # 1 BY <1>1
    <3> QED BY <1>1, <1>2, <3>1, <3>2 DEF OnceEach, Entries
  <2>2. ASSUME NEW x \in Entries(s) \ {Head(s)} PROVE x \in Entries(Tail(s))
    <3>1. PICK i \in 1..Len(s) : x = s[i] /\ i # 1 BY <1>1, <1>2 DEF Entries
    <3>2. i - 1 \in 1..(Len(s) - 1) /\ Tail(s)[i - 1] = x BY <1>1, <1>2, <3>1
    <3> QED BY <1>2, <3>2 DEF Entries
  <2> QED BY <2>1, <2>2
<1>5. Head(s) \in Entries(s) BY <1>1, <1>2 DEF Entries
<1> QED BY <1>2, <1>3, <1>4, <1>5

LEMMA SpliceEntry ==
  ASSUME NEW s, OnceEach(s), NEW i \in DOMAIN s
  PROVE  OnceEach(Splice(s, i)) /\ Entries(Splice(s, i)) = Entries(s) \ {s[i]}
<1>1. s \in Seq(Msg) /\ DOMAIN s = 1..Len(s) /\ Len(s) \in Nat /\ Len(s) >= 1
  BY DEF OnceEach
<1> DEFINE r == Splice(s, i)
           at(j) == IF j < i THEN j ELSE j + 1
<1>2. r = [j \in 1..(Len(s) - 1) |-> s[at(j)]] BY DEF Splice
<1>3. \A j \in 1..(Len(s) - 1) : at(j) \in 1..Len(s) /\ at(j) # i BY <1>1
<1>4. DOMAIN r = 1..(Len(s) - 1) /\ \A j \in 1..(Len(s) - 1) : r[j] = s[at(j)] BY <1>2
<1>5. r \in Seq(Msg)
  <2>1. \A j \in 1..Len(s) : s[j] \in Msg BY <1>1
  <2>2. \A j \in 1..(Len(s) - 1) : s[at(j)] \in Msg BY <1>3, <2>1
  <2>3. Len(s) - 1 \in Nat BY <1>1
  <2> QED BY <1>2, <2>2, <2>3, IsASeq
<1>6. \A j, k \in 1..(Len(s) - 1) : at(j) = at(k) => j = k BY <1>1
<1>7. OnceEach(r)
  <2> SUFFICES ASSUME NEW j \in 1..(Len(s) - 1), NEW k \in 1..(Len(s) - 1), r[j] = r[k]
               PROVE  j = k
    BY <1>4, <1>5 DEF OnceEach
  <2>1. s[at(j)] = s[at(k)] BY <1>4
  <2>2. at(j) = at(k) BY <1>1, <1>3, <2>1 DEF OnceEach
  <2> QED BY <1>6, <2>2
<1>8. \A j \in 1..Len(s) : j # i => \E k \in 1..(Len(s) - 1) : at(k) = j
  <2> TAKE j \in 1..Len(s)
  <2> HAVE j # i
  <2>1. CASE j < i BY <1>1, <2>1
  <2>2. CASE j > i
    <3>1. j - 1 \in 1..(Len(s) - 1) /\ at(j - 1) = j BY <1>1, <2>2
    <3> QED BY <3>1
  <2> QED BY <1>1, <2>1, <2>2
<1>9. Entries(r) = Entries(s) \ {s[i]}
  <2>1. ASSUME NEW x \in Entries(r) PROVE x \in Entries(s) \ {s[i]}
    <3>1. PICK j \in 1..(Len(s) - 1) : x = s[at(j)] BY <1>4 DEF Entries
    <3> QED BY <1>1, <1>3, <3>1 DEF Entries, OnceEach
  <2>2. ASSUME NEW x \in Entries(s) \ {s[i]} PROVE x \in Entries(r)
    <3>1. PICK j \in 1..Len(s) : x = s[j] /\ j # i BY <1>1 DEF Entries
    <3>2. PICK k \in 1..(Len(s) - 1) : at(k) = j BY <1>8, <3>1
    <3> QED BY <1>4, <3>1, <3>2 DEF Entries
  <2> QED BY <2>1, <2>2
<1> QED BY <1>7, <1>9

LEMMA PrefixEntry ==
  ASSUME NEW s, OnceEach(s), NEW n \in 0..Len(s)
  PROVE  /\ OnceEach(SubSeq(s, 1, n)) /\ Len(SubSeq(s, 1, n)) = n
         /\ \A i \in 1..n : SubSeq(s, 1, n)[i] = s[i]
<1>1. s \in Seq(Msg) /\ DOMAIN s = 1..Len(s) /\ Len(s) \in Nat BY DEF OnceEach
<1>2. \A i \in 1..n : s[i] \in Msg BY <1>1
<1>3. /\ SubSeq(s, 1, n) \in Seq(Msg) /\ Len(SubSeq(s, 1, n)) = n
      /\ \A i \in 1..n : SubSeq(s, 1, n)[i] = s[i]
  BY <1>1, <1>2, SubSeqProperties
<1>4. DOMAIN SubSeq(s, 1, n) = 1..n BY <1>3
<1> QED BY <1>1, <1>3, <1>4 DEF OnceEach

-----------------------------------------------------------------------------
\* The durable queue.

\* A step of the gateway that adds no entry leaves the earlier sends as exposed
\* as they were.
LEMMA OldStays ==
  ASSUME IInv, UNCHANGED earlier,
         Entries(pending') \cup Entries(file') \subseteq Entries(pending) \cup Entries(file)
  PROVE  OldInv' /\ Everywhere' \subseteq Everywhere
<1>1. UNCHANGED <<again, old, oldPending, exposed>> BY DEF earlier
<1>2. OldTypes' BY <1>1 DEF IInv, OldInv, OldTypes, OnceEach
<1>3. Entries(oldPending') = Entries(oldPending) BY <1>1 DEF Entries
<1>4. Everywhere' \subseteq Everywhere BY <1>3 DEF Everywhere
<1>5. OldIsExposed' BY <1>1, <1>4 DEF IInv, OldInv, OldIsExposed
<1> QED BY <1>2, <1>4, <1>5 DEF OldInv

\* What a step may do to the sends without touching the store: none becomes
\* fresh, one that is past the writing of its entry was so before or has an
\* entry, and what has an outcome is settled.
LEMMA QuietKeepsEntries ==
  ASSUME IInv, UNCHANGED <<store, stored, earlier>>, settled \subseteq settled', settled' \subseteq Msg,
         life # "down", Entries(toReplay') \subseteq Entries(toReplay),
         \A x \in Msg : Fresh(x)' => Fresh(x),
         \A x \in Msg : send'[x] \in Filed => send[x] \in Filed \/ x \in Lasting,
         \A x \in Msg : send'[x] \in {"taken", "sent"} => send'[x] = send[x] \/ x \in settled'
  PROVE  EntryInv' /\ OldInv' /\ OutcomeKnown' /\ BothKeep'
<1>1. UNCHANGED <<pending, file, faults, stored, exposed, old>> BY DEF store, earlier
<1>2. EntryTypes' BY <1>1 DEF IInv, EntryInv, EntryTypes, OnceEach
<1>3. Entries(pending') = Entries(pending) /\ Entries(file') = Entries(file)
  BY <1>1 DEF Entries
<1>4. OldInv' /\ Everywhere' \subseteq Everywhere BY <1>3, OldStays
<1>5. EntriesWait' BY <1>1, <1>3 DEF IInv, EntryInv, EntriesWait, Lasting
<1>6. NewHasNoEntry' BY <1>1, <1>4 DEF IInv, EntryInv, NewHasNoEntry
<1>7. OutcomeKnown' BY DEF IInv, OutcomeKnown
<1>8. BothKeep' BY <1>1, <1>3 DEF IInv, BothKeep, Kept
<1> QED BY <1>2, <1>4, <1>5, <1>6, <1>7, <1>8 DEF EntryInv

\* The list without m: what an acknowledgement leaves in memory and in the file.
LEMMA AckLeaves ==
  ASSUME EntryTypes, NEW m \in Msg, Ack(m)
  PROVE  /\ OnceEach(pending') /\ Entries(pending') = Entries(pending) \ {m}
         /\ faults' \in 0..MaxFaults /\ (file' = pending' \/ file' = file)
<1>1. CASE m \notin Entries(pending) /\ UNCHANGED store
  BY <1>1 DEF store, EntryTypes
<1>2. CASE \E i \in DOMAIN pending :
             /\ pending[i] = m
             /\ Flushed(Splice(pending, i)) \/ FlushFails(Splice(pending, i))
  <2>1. PICK i \in DOMAIN pending :
          /\ pending[i] = m
          /\ Flushed(Splice(pending, i)) \/ FlushFails(Splice(pending, i))
    BY <1>2
  <2>2. pending' = Splice(pending, i) /\ (file' = pending' \/ file' = file)
    BY <2>1 DEF Flushed, FlushFails
  <2>3. faults' \in 0..MaxFaults
    BY <2>1, BoundsAssumption DEF Flushed, FlushFails, EntryTypes
  <2>4. OnceEach(Splice(pending, i)) /\ Entries(Splice(pending, i)) = Entries(pending) \ {m}
    BY <2>1, SpliceEntry DEF EntryTypes
  <2> QED BY <2>2, <2>3, <2>4
<1> QED BY <1>1, <1>2 DEF Ack

\* An acknowledgement of a message that is settled.
LEMMA AckKeepsEntries ==
  ASSUME IInv, NEW m \in Msg, Ack(m), UNCHANGED <<stored, earlier>>,
         settled \subseteq settled', settled' \subseteq Msg, m \in settled', ~Fresh(m),
         life # "down", send'[m] = "over",
         Entries(toReplay') \subseteq Entries(toReplay) \ {m},
         \A x \in Msg : Fresh(x)' => Fresh(x),
         \A x \in Msg : send'[x] \in Filed => send'[x] = send[x]
  PROVE  EntryInv' /\ OldInv' /\ OutcomeKnown' /\ BothKeep'
<1>1. /\ OnceEach(pending') /\ Entries(pending') = Entries(pending) \ {m}
      /\ faults' \in 0..MaxFaults /\ (file' = pending' \/ file' = file)
  BY AckLeaves DEF IInv, EntryInv
<1>2. Entries(file') \in {Entries(pending) \ {m}, Entries(file)} BY <1>1
<1>3. EntryTypes' BY <1>1 DEF IInv, EntryInv, EntryTypes, OnceEach
<1>4. UNCHANGED <<old, exposed>> BY DEF earlier
<1>5. OldInv' /\ Everywhere' \subseteq Everywhere BY <1>1, <1>2, OldStays
<1>6. "over" \notin Filed /\ {"taken", "sent"} \subseteq Filed BY DEF Filed
<1>7. EntriesWait' BY <1>1, <1>2, <1>4, <1>6 DEF IInv, EntryInv, EntriesWait, Lasting
<1>8. NewHasNoEntry' BY <1>4, <1>5 DEF IInv, EntryInv, NewHasNoEntry
<1>9. OutcomeKnown' BY <1>6 DEF IInv, OutcomeKnown
<1>10. Kept(pending)' /\ Kept(file)' BY <1>1, <1>2, <1>4 DEF IInv, BothKeep, Kept
<1> QED BY <1>3, <1>5, <1>7, <1>8, <1>9, <1>10 DEF EntryInv, BothKeep

-----------------------------------------------------------------------------
\* The bus.

LEMMA DoneIsInt ==
  ASSUME BusTypes
  PROVE  /\ Len(queue) \in Nat /\ Len(published) \in Nat /\ Done \in Int
         /\ DOMAIN queue = 1..Len(queue) /\ DOMAIN published = 1..Len(published)
         /\ \A i \in 1..Len(published) : published[i] \in Msg
         /\ \A i, j \in 1..Len(published) : published[i] = published[j] => i = j
  BY DEF BusTypes, OnceEach, Done

\* The processor takes the next message while no other of the bus is in flight.
LEMMA HeadIsTaken ==
  ASSUME BusTypes, BusOrder, NEW sends \in [Msg -> Places],
         \A x \in Msg \ Direct : sends[x] \notin InFlight,
         \A x \in Msg : sends[x] \in {"new", "queued"} \/ send[x] \in {"new", "queued"} =>
                       sends[x] = send[x],
         \A i \in 1..Len(published) : i <= Done => sends[published[i]] = "over",
         queue # <<>>, queue' = Tail(queue), proc' = "busy", published' = published,
         send' = [sends EXCEPT ![Head(queue)] = "tts"],
         toReplay' = <<>>, life' \in {"up", "stopping"}
  PROVE  /\ BusOrder' /\ send' \in [Msg -> Places] /\ OnceEach(queue')
         /\ Head(queue) \in Msg \ Direct /\ send[Head(queue)] = "queued"
<1>1. /\ Len(queue) \in Nat /\ Len(published) \in Nat /\ Done \in Int
      /\ \A i \in 1..Len(published) : published[i] \in Msg
      /\ \A i, j \in 1..Len(published) : published[i] = published[j] => i = j
  BY DoneIsInt
<1> DEFINE h == Head(queue)
<1>2. /\ OnceEach(queue') /\ h \in Msg /\ h = queue[1]
      /\ Len(queue') = Len(queue) - 1 /\ \A i \in 1..Len(queue') : queue'[i] = queue[i + 1]
  BY TailEntry DEF BusTypes
<1>3. Len(queue) >= 1 BY <1>1, <1>2 DEF OnceEach
<1>4. Done' = Done + 1 /\ Done + 1 <= Len(published) /\ Done >= 0
  BY <1>1, <1>2, <1>3 DEF Done, BusOrder
<1>5. h = published[Done + 1] BY <1>1, <1>2, <1>3 DEF BusOrder
<1>6. h \notin Direct /\ send[h] = "queued"
  BY <1>1, <1>4, <1>5 DEF BusOrder
<1> HIDE DEF h
<1>7. send' = [sends EXCEPT ![h] = "tts"] BY DEF h
<1>8. send' \in [Msg -> Places] BY <1>7 DEF Places
<1>9. \A x \in Msg : send'[x] = IF x = h THEN "tts" ELSE sends[x] BY <1>7
<1>10. \A i \in 1..Len(queue') : queue'[i] = published'[i + Done']
  BY <1>1, <1>2, <1>3, <1>4 DEF BusOrder
<1>11. ASSUME NEW i \in 1..Len(published')
       PROVE  /\ published'[i] \notin Direct
              /\ send'[published'[i]] # "new"
              /\ send'[published'[i]] = "queued" <=> i > Done'
              /\ i < Done' => send'[published'[i]] = "over"
              /\ i = Done' /\ proc' # "busy" => send'[published'[i]] = "over"
  <2>1. published'[i] = published[i] /\ published[i] \in Msg /\ i \in 1..Len(published)
    BY <1>1
  <2>2. published[i] = h <=> i = Done + 1 BY <1>1, <1>4, <1>5, <2>1
  <2>3. /\ published[i] \notin Direct /\ send[published[i]] # "new"
        /\ send[published[i]] = "queued" <=> i > Done
    BY <2>1 DEF BusOrder
  <2>4. CASE i = Done + 1
    BY <1>4, <1>9, <2>1, <2>2, <2>3, <2>4
  <2>5. CASE i > Done + 1
    <3>1. sends[published[i]] = "queued" BY <1>1, <2>1, <2>3, <2>5
    <3> QED BY <1>1, <1>4, <1>9, <2>1, <2>2, <2>3, <2>5, <3>1
  <2>6. CASE i <= Done
    <3>1. sends[published[i]] = "over" BY <2>1, <2>6
    <3> QED BY <1>1, <1>4, <1>9, <2>1, <2>2, <2>3, <2>6, <3>1
  <2> QED BY <1>1, <2>1, <2>4, <2>5, <2>6
<1>12. \A x \in Msg \ Direct : send'[x] \in InFlight =>
         proc' = "busy" /\ Done' >= 1 /\ x = published'[Done']
  BY <1>4, <1>5, <1>9, <1>1
<1>13. Done' >= 0 BY <1>1, <1>4
<1>14. BusOrder' BY <1>10, <1>11, <1>12, <1>13 DEF BusOrder, Replaying
<1> QED BY <1>2, <1>6, <1>8, <1>14 DEF h

LEMMA NextMessageKeeps ==
  ASSUME BusInv, NEW sends \in [Msg -> Places],
         \A x \in Msg \ Direct : sends[x] \notin InFlight,
         \A x \in Msg : sends[x] \in {"new", "queued"} \/ send[x] \in {"new", "queued"} =>
                       sends[x] = send[x],
         \A i \in 1..Len(published) : i <= Done => sends[published[i]] = "over",
         NextMessage(sends), UNCHANGED <<life, lives, toReplay, published>>
  PROVE  /\ BusInv' /\ life \notin {"down", "replay"}
         /\ \A x \in Msg : send'[x] = sends[x] \/ (send[x] = "queued" /\ send'[x] = "tts")
<1>1. life \in {"up", "stopping"} /\ toReplay = <<>>
  BY DEF NextMessage, BusInv, SendsAreOwned
<1>2. CASE /\ queue # <<>> /\ proc' = "busy" /\ queue' = Tail(queue)
           /\ send' = [sends EXCEPT ![Head(queue)] = "tts"]
  <2>1. /\ BusOrder' /\ send' \in [Msg -> Places] /\ OnceEach(queue')
        /\ Head(queue) \in Msg \ Direct /\ send[Head(queue)] = "queued"
    BY <1>1, <1>2, HeadIsTaken DEF BusInv
  <2>2. BusTypes' BY <1>2, <2>1 DEF BusInv, BusTypes, OnceEach
  <2>3. SendsAreOwned' BY <1>1, NoEntry DEF BusInv, SendsAreOwned
  <2> QED BY <1>1, <1>2, <2>1, <2>2, <2>3 DEF BusInv
<1>3. CASE /\ queue' = queue /\ send' = sends
           /\ (proc' = "waiting" /\ queue = <<>>) \/ proc' = "off"
  <2>1. BusTypes' BY <1>3 DEF BusInv, BusTypes, OnceEach
  <2>2. SendsAreOwned' BY <1>1, NoEntry DEF BusInv, SendsAreOwned
  <2>3. Done' = Done BY <1>3 DEF Done
  <2>4. \A i \in 1..Len(published) : published[i] \in Msg BY DoneIsInt DEF BusInv
  <2>5. ASSUME NEW i \in 1..Len(published)
        PROVE  /\ published[i] \notin Direct
               /\ send'[published[i]] # "new"
               /\ send'[published[i]] = "queued" <=> i > Done
               /\ i < Done => send'[published[i]] = "over"
               /\ i = Done => send'[published[i]] = "over"
    <3>1. /\ published[i] \notin Direct /\ send[published[i]] # "new"
          /\ send[published[i]] = "queued" <=> i > Done
      BY DEF BusInv, BusOrder
    <3>2. send'[published[i]] = "queued" <=> send[published[i]] = "queued"
      BY <1>3, <2>4
    <3>3. i <= Done => send'[published[i]] = "over" BY <1>3
    <3>4. Done \in Int BY DoneIsInt DEF BusInv
    <3>5. send'[published[i]] # "new" BY <1>3, <2>4, <3>1
    <3> QED BY <3>1, <3>2, <3>3, <3>4, <3>5
  <2>6. \A x \in Msg \ Direct : send'[x] \notin InFlight BY <1>3
  <2>7. /\ Done >= 0 /\ \A i \in 1..Len(queue) : queue[i] = published[i + Done]
    BY DEF BusInv, BusOrder
  <2>8. BusOrder' BY <1>1, <1>3, <2>3, <2>5, <2>6, <2>7 DEF BusOrder
  <2> QED BY <1>1, <1>3, <2>1, <2>2, <2>8 DEF BusInv
<1> QED BY <1>2, <1>3 DEF NextMessage

\* A step that leaves the bus alone and moves at most the message that the
\* processor is busy with.
LEMMA BusOrderStays ==
  ASSUME BusTypes, BusOrder, UNCHANGED <<queue, published>>,
         proc' = proc \/ proc' = "backoff",
         life' = life \/ life' \notin {"down", "replay"},
         proc' = proc \/ life' \notin {"down", "replay"},
         \A i \in 1..Len(published) :
           \/ send'[published[i]] = send[published[i]] /\ (i # Done \/ proc' = proc)
           \/ i = Done /\ send'[published[i]] = "over"
           \/ i = Done /\ send'[published[i]] \in InFlight /\ proc' = "busy",
         \A x \in Msg \ Direct : send'[x] \in InFlight =>
           Replaying(x)' \/ (proc' = "busy" /\ Done >= 1 /\ x = published[Done])
  PROVE  BusOrder'
<1>1. Done' = Done /\ Done \in Int BY DoneIsInt DEF Done
<1>2. ASSUME NEW i \in 1..Len(published)
      PROVE  /\ published[i] \notin Direct
             /\ send'[published[i]] # "new"
             /\ send'[published[i]] = "queued" <=> i > Done
             /\ i < Done => send'[published[i]] = "over"
             /\ i = Done /\ proc' # "busy" => send'[published[i]] = "over"
  <2>1. /\ published[i] \notin Direct /\ send[published[i]] # "new"
        /\ send[published[i]] = "queued" <=> i > Done
        /\ i < Done => send[published[i]] = "over"
        /\ i = Done /\ proc # "busy" => send[published[i]] = "over"
    BY DEF BusOrder
  <2>2. CASE send'[published[i]] = send[published[i]] /\ (i # Done \/ proc' = proc)
    BY <2>1, <2>2
  <2>3. CASE i = Done /\ send'[published[i]] = "over" BY <1>1, <2>1, <2>3
  <2>4. CASE i = Done /\ send'[published[i]] \in InFlight /\ proc' = "busy"
    BY <1>1, <2>1, <2>4 DEF InFlight
  <2> QED BY <2>2, <2>3, <2>4
<1>3. Done >= 0 /\ \A i \in 1..Len(queue) : queue[i] = published[i + Done]
  BY DEF BusOrder
<1>4. (proc' = "waiting" => queue = <<>>) /\ (life' \in {"down", "replay"} => proc' = "off" /\ Done = 0)
  BY DEF BusOrder
<1> QED BY <1>1, <1>2, <1>3, <1>4 DEF BusOrder

\* A send goes on from one of its awaits to the next.
LEMMA FlightMoves ==
  ASSUME BusInv, NEW m \in Msg, send[m] \in InFlight, NEW v \in InFlight,
         send' = [send EXCEPT ![m] = v], UNCHANGED <<life, lives, queue, proc, toReplay, published>>
  PROVE  BusInv' /\ life # "down" /\ \A x \in Msg : send'[x] = IF x = m THEN v ELSE send[x]
<1>1. \A x \in Msg : send'[x] = IF x = m THEN v ELSE send[x] BY DEF BusInv, BusTypes
<1>2. life # "down" BY DEF BusInv, SendsAreOwned, InFlight
<1>3. BusTypes' BY DEF BusInv, BusTypes, OnceEach, InFlight, Places
<1>4. Entries(toReplay) \subseteq Msg BY DEF BusInv, BusTypes, OnceEach, Entries
<1>5. SendsAreOwned'
  <2>1. life = "replay" => \A x \in Msg : send'[x] \in InFlight => Replaying(x)'
    BY <1>1 DEF BusInv, SendsAreOwned, Replaying
  <2>2. \A x \in Entries(toReplay) :
          send'[x] = "over" \/ (x = Head(toReplay) /\ send'[x] \in InFlight)
    <3>1. "over" \notin InFlight BY DEF InFlight
    <3> QED BY <1>1, <1>4, <3>1 DEF BusInv, SendsAreOwned
  <2> QED BY <1>2, <2>1, <2>2 DEF BusInv, SendsAreOwned
<1>6. ASSUME NEW i \in 1..Len(published)
      PROVE  \/ send'[published[i]] = send[published[i]]
             \/ i = Done /\ send'[published[i]] \in InFlight /\ proc = "busy"
  <2>1. CASE published[i] # m BY <1>1, <2>1, DoneIsInt DEF BusInv
  <2>2. CASE published[i] = m
    <3>1. /\ i < Done => send[m] = "over"
          /\ send[m] = "queued" <=> i > Done
          /\ i = Done /\ proc # "busy" => send[m] = "over"
      BY <2>2 DEF BusInv, BusOrder
    <3>2. i = Done /\ proc = "busy" BY <3>1, DoneIsInt DEF InFlight, BusInv
    <3> QED BY <1>1, <2>2, <3>2
  <2> QED BY <2>1, <2>2
<1>7. \A x \in Msg \ Direct : send'[x] \in InFlight =>
        Replaying(x)' \/ (proc = "busy" /\ Done >= 1 /\ x = published[Done])
  BY <1>1 DEF BusInv, BusOrder, Replaying
<1>8. BusOrder' BY <1>6, <1>7, BusOrderStays DEF BusInv
<1> QED BY <1>1, <1>2, <1>3, <1>5, <1>8 DEF BusInv

\* While a replay is on, the message in flight is the entry it has come to, and
\* it is not on the bus; otherwise one of the bus is what the processor has.
LEMMA FlightIsOwned ==
  ASSUME BusInv, NEW m \in Msg, send[m] \in InFlight
  PROVE  /\ life # "down" /\ (Replaying(m) <=> life = "replay")
         /\ \A x \in Msg : life = "replay" /\ send[x] \in InFlight => x = m
         /\ m \in Direct \/ Replaying(m) => \A i \in 1..Len(published) : published[i] # m
         /\ m \notin Direct /\ ~Replaying(m) =>
              /\ proc = "busy" /\ Done >= 1 /\ m = published[Done]
              /\ \A x \in Msg \ Direct : send[x] \in InFlight => x = m
<1>1. life # "down" /\ (Replaying(m) <=> life = "replay")
      /\ \A x \in Msg : life = "replay" /\ send[x] \in InFlight => x = m
  BY DEF BusInv, SendsAreOwned, Replaying, InFlight
<1>2. m \in Direct \/ Replaying(m) => \A i \in 1..Len(published) : published[i] # m
  <2> SUFFICES ASSUME m \in Direct \/ Replaying(m), NEW i \in 1..Len(published), published[i] = m
               PROVE  FALSE
    OBVIOUS
  <2>1. m \notin Direct BY DEF BusInv, BusOrder
  <2>2. Done = 0 BY <1>1, <2>1 DEF BusInv, BusOrder
  <2>3. send[m] = "queued" BY <2>2 DEF BusInv, BusOrder
  <2> QED BY <2>3 DEF InFlight
<1>3. m \notin Direct /\ ~Replaying(m) =>
        /\ proc = "busy" /\ Done >= 1 /\ m = published[Done]
        /\ \A x \in Msg \ Direct : send[x] \in InFlight => x = m
  BY <1>1 DEF BusInv, BusOrder, Replaying
<1> QED BY <1>1, <1>2, <1>3

\* What a return does to the bus, and all it does to the sends.
LEMMA ReturnKeeps ==
  ASSUME BusInv, NEW m \in Msg, send[m] \in InFlight, Return(m), published' = published
  PROVE  /\ BusInv' /\ life # "down" /\ lives' = lives /\ send'[m] = "over"
         /\ Entries(toReplay') \subseteq Entries(toReplay) \ {m}
         /\ \A x \in Msg : x # m =>
              send'[x] = send[x] \/ (send[x] = "queued" /\ send'[x] = "tts")
         /\ \A x \in Msg : Fresh(x)' => Fresh(x)
<1> DEFINE sends == [send EXCEPT ![m] = "over"]
<1>1. sends \in [Msg -> Places] /\ \A x \in Msg : sends[x] = IF x = m THEN "over" ELSE send[x]
  BY DEF BusInv, BusTypes, Places
<1> HIDE DEF sends
<1>2. UNCHANGED <<life, lives>> /\ life # "down" BY FlightIsOwned DEF Return
<1>3. \A i \in 1..Len(published) : published[i] \in Msg BY DoneIsInt DEF BusInv
<1>4. CASE Replaying(m) /\ toReplay' = Tail(toReplay) /\ send' = sends /\ UNCHANGED <<queue, proc>>
  <2>1. /\ OnceEach(toReplay') /\ Entries(toReplay') = Entries(toReplay) \ {m}
        /\ life = "replay" /\ Entries(toReplay) \subseteq Msg
    <3>1. OnceEach(toReplay) /\ toReplay # <<>> /\ m = Head(toReplay) /\ life = "replay"
      BY <1>4 DEF Replaying, BusInv, BusTypes
    <3>2. OnceEach(Tail(toReplay)) /\ Entries(Tail(toReplay)) = Entries(toReplay) \ {m}
      BY <3>1, TailEntry
    <3>3. Entries(toReplay) \subseteq Msg BY <3>1 DEF OnceEach, Entries
    <3> QED BY <1>4, <3>1, <3>2, <3>3
  <2>2. \A x \in Msg : send'[x] \notin InFlight
    BY <1>1, <1>4, <2>1, FlightIsOwned DEF InFlight
  <2>3. BusTypes' BY <1>1, <1>2, <1>4, <2>1 DEF BusInv, BusTypes, OnceEach
  <2>4. m = Head(toReplay) BY <1>4 DEF Replaying
  <2>5. \A x \in Entries(toReplay') : send'[x] = "over"
    BY <1>1, <1>4, <2>1, <2>4 DEF BusInv, SendsAreOwned
  <2>6. SendsAreOwned' BY <1>2, <2>1, <2>2, <2>5 DEF BusInv, SendsAreOwned
  <2>7. \A i \in 1..Len(published) : send'[published[i]] = send[published[i]]
    BY <1>1, <1>3, <1>4, FlightIsOwned
  <2>8. BusOrder' BY <1>2, <1>4, <2>2, <2>7, BusOrderStays DEF BusInv
  <2>9. \A x \in Msg : Fresh(x)' => Fresh(x)
    BY <1>1, <1>4, <2>2 DEF Fresh, InFlight
  <2> QED BY <1>1, <1>2, <1>4, <2>1, <2>3, <2>6, <2>8, <2>9 DEF BusInv
<1>5. CASE ~Replaying(m) /\ life # "replay" /\ m \in Direct /\ send' = sends
           /\ UNCHANGED <<queue, proc, toReplay>>
  <2>1. toReplay = <<>> BY <1>5 DEF BusInv, SendsAreOwned
  <2>2. BusTypes' BY <1>1, <1>2, <1>5 DEF BusInv, BusTypes, OnceEach
  <2>3. SendsAreOwned' BY <1>2, <1>5, <2>1, NoEntry DEF BusInv, SendsAreOwned
  <2>4. \A i \in 1..Len(published) : send'[published[i]] = send[published[i]]
    BY <1>1, <1>3, <1>5, FlightIsOwned
  <2>5. \A x \in Msg \ Direct : send'[x] \in InFlight =>
          Replaying(x)' \/ (proc = "busy" /\ Done >= 1 /\ x = published[Done])
    BY <1>1, <1>5 DEF BusInv, BusOrder, Replaying, InFlight
  <2>6. BusOrder' BY <1>2, <1>5, <2>4, <2>5, BusOrderStays DEF BusInv
  <2>7. \A x \in Msg : Fresh(x)' => Fresh(x)
    BY <1>1, <1>2, <1>5 DEF Fresh, Replaying
  <2> QED BY <1>1, <1>2, <1>5, <2>1, <2>2, <2>3, <2>6, <2>7, NoEntry DEF BusInv
<1>6. CASE ~Replaying(m) /\ life # "replay" /\ m \notin Direct /\ NextMessage(sends) /\ UNCHANGED toReplay
  <2>1. toReplay = <<>> BY <1>6 DEF BusInv, SendsAreOwned
  <2>2. /\ proc = "busy" /\ Done >= 1 /\ m = published[Done]
        /\ \A x \in Msg \ Direct : send[x] \in InFlight => x = m
    BY <1>6, FlightIsOwned
  <2>3. \A x \in Msg \ Direct : sends[x] \notin InFlight BY <1>1, <2>2 DEF InFlight
  <2>4. \A x \in Msg : sends[x] \in {"new", "queued"} \/ send[x] \in {"new", "queued"} =>
                      sends[x] = send[x]
    BY <1>1 DEF InFlight
  <2>5. \A i \in 1..Len(published) : i <= Done => sends[published[i]] = "over"
    <3> SUFFICES ASSUME NEW i \in 1..Len(published), i <= Done PROVE sends[published[i]] = "over"
      OBVIOUS
    <3>1. i < Done => send[published[i]] = "over" BY DEF BusInv, BusOrder
    <3>2. i < Done \/ i = Done BY DoneIsInt DEF BusInv
    <3> QED BY <1>1, <1>3, <2>2, <3>1, <3>2
  <2>6. /\ BusInv'
        /\ \A x \in Msg : send'[x] = sends[x] \/ (send[x] = "queued" /\ send'[x] = "tts")
    BY <1>1, <1>2, <1>6, <2>3, <2>4, <2>5, NextMessageKeeps
  <2>7. send'[m] = "over" BY <1>1, <2>6 DEF InFlight
  <2>8. \A x \in Msg : Fresh(x)' => Fresh(x)
    BY <1>1, <1>2, <1>6, <2>6, <2>7 DEF Fresh, Replaying
  <2> QED BY <1>1, <1>2, <1>6, <2>1, <2>6, <2>7, <2>8, NoEntry
<1>7. Replaying(m) <=> life = "replay" BY FlightIsOwned
<1> QED BY <1>4, <1>5, <1>6, <1>7 DEF Return, sends

\* A send that throws past its entry.
LEMMA RejectKeeps ==
  ASSUME BusInv, NEW m \in Msg, send[m] \in InFlight, ~Replaying(m), Reject(m),
         published' = published
  PROVE  /\ BusInv' /\ life # "down" /\ UNCHANGED <<lives, toReplay>>
         /\ \A x \in Msg : send'[x] = IF x = m THEN "over" ELSE send[x]
         /\ \A x \in Msg : Fresh(x)' => Fresh(x)
<1>1. /\ send' \in [Msg -> Places] /\ \A x \in Msg : send'[x] = IF x = m THEN "over" ELSE send[x]
      /\ UNCHANGED <<life, lives, queue, toReplay>>
      /\ proc' = IF m \in Direct THEN proc ELSE "backoff"
  BY DEF BusInv, BusTypes, Places, Reject
<1>2. life \notin {"down", "replay"} BY FlightIsOwned
<1>3. toReplay = <<>> BY <1>2 DEF BusInv, SendsAreOwned
<1>4. BusTypes' BY <1>1 DEF BusInv, BusTypes, OnceEach
<1>5. SendsAreOwned' BY <1>1, <1>2, <1>3, NoEntry DEF BusInv, SendsAreOwned
<1>6. \A i \in 1..Len(published) : published[i] \in Msg
      /\ \A j \in 1..Len(published) : published[i] = published[j] => i = j
  BY DoneIsInt DEF BusInv
<1>7. \A x \in Msg \ Direct : send'[x] \in InFlight =>
        proc' = "busy" /\ Done >= 1 /\ x = published[Done]
  BY <1>1, <1>3, FlightIsOwned DEF BusInv, BusOrder, Replaying, InFlight
<1>8. BusOrder'
  <2>1. CASE m \in Direct
    <3>1. \A i \in 1..Len(published) : send'[published[i]] = send[published[i]]
      BY <1>1, <1>6, <2>1, FlightIsOwned
    <3> QED BY <1>1, <1>2, <1>7, <2>1, <3>1, BusOrderStays DEF BusInv
  <2>2. CASE m \notin Direct
    <3>1. m = published[Done] /\ Done >= 1 BY <2>2, FlightIsOwned
    <3>2. Done \in 1..Len(published) BY <3>1, DoneIsInt DEF BusInv, Done
    <3>3. \A i \in 1..Len(published) : i = Done \/ send'[published[i]] = send[published[i]]
      BY <1>1, <1>6, <3>1, <3>2
    <3>4. send'[published[Done]] = "over" BY <1>1, <3>1
    <3> QED BY <1>1, <1>2, <1>7, <2>2, <3>3, <3>4, BusOrderStays DEF BusInv
  <2> QED BY <2>1, <2>2
<1>9. \A x \in Msg : Fresh(x)' => Fresh(x) BY <1>1, <1>3 DEF Fresh, Replaying
<1> QED BY <1>1, <1>2, <1>4, <1>5, <1>8, <1>9 DEF BusInv

-----------------------------------------------------------------------------
\* The steps of one send.

LEMMA PassKeeps == ASSUME IInv, NEW m \in Msg, Pass(m) PROVE IInv'
<1>1. /\ send[m] = "hook" /\ send' = [send EXCEPT ![m] = "deliver"]
      /\ UNCHANGED <<life, lives, queue, proc, toReplay, store, stored, settled, published, earlier>>
  BY DEF Pass, process, history
<1>2. BusInv' /\ life # "down" /\ \A x \in Msg : send'[x] = IF x = m THEN "deliver" ELSE send[x]
  BY <1>1, FlightMoves DEF IInv, InFlight
<1>3. \A x \in Msg : Fresh(x)' => Fresh(x) BY <1>1, <1>2 DEF Fresh, Replaying
<1>4. settled' \subseteq Msg BY <1>1 DEF IInv, EntryInv, EntryTypes
<1>5. EntryInv' /\ OldInv' /\ OutcomeKnown' /\ BothKeep'
  BY <1>1, <1>2, <1>3, <1>4, QuietKeepsEntries DEF Filed
<1> QED BY <1>2, <1>5 DEF IInv

\* The channel takes the message, or the adapter returns.
LEMMA TakeOrAnswerKeeps == ASSUME IInv, NEW m \in Msg, Take(m) \/ Answer(m) PROVE IInv'
<1>1. PICK v \in {"taken", "sent"} :
        /\ send[m] \in {"deliver", "taken"} /\ send' = [send EXCEPT ![m] = v]
        /\ settled' = settled \cup {m}
        /\ UNCHANGED <<life, lives, queue, proc, toReplay, store, stored, published, earlier>>
  BY DEF Take, Answer, process
<1>2. BusInv' /\ life # "down" /\ \A x \in Msg : send'[x] = IF x = m THEN v ELSE send[x]
  <2>1. v \in InFlight /\ send[m] \in InFlight BY <1>1 DEF InFlight
  <2>2. BusInv BY DEF IInv
  <2> QED BY <1>1, <2>1, <2>2, FlightMoves
<1>3. \A x \in Msg : Fresh(x)' => Fresh(x) BY <1>1, <1>2 DEF Fresh, Replaying
<1>4. settled' \subseteq Msg BY <1>1 DEF IInv, EntryInv, EntryTypes
<1>5. EntryInv' /\ OldInv' /\ OutcomeKnown' /\ BothKeep'
  BY <1>1, <1>2, <1>3, <1>4, QuietKeepsEntries DEF Filed
<1> QED BY <1>2, <1>5 DEF IInv

LEMMA ThrowKeeps == ASSUME IInv, NEW m \in Msg, Throw(m) PROVE IInv'
<1>1. /\ send[m] \in InFlight /\ Return(m) /\ published' = published
      /\ UNCHANGED <<store, stored, settled, earlier>>
  BY DEF Throw, history, InFlight
<1>2. /\ BusInv' /\ life # "down" /\ lives' = lives /\ send'[m] = "over"
      /\ Entries(toReplay') \subseteq Entries(toReplay) \ {m}
      /\ \A x \in Msg : x # m =>
           send'[x] = send[x] \/ (send[x] = "queued" /\ send'[x] = "tts")
      /\ \A x \in Msg : Fresh(x)' => Fresh(x)
  BY <1>1, ReturnKeeps DEF IInv
<1>3. settled' \subseteq Msg BY <1>1 DEF IInv, EntryInv, EntryTypes
<1>4. EntryInv' /\ OldInv' /\ OutcomeKnown' /\ BothKeep'
  BY <1>1, <1>2, <1>3, QuietKeepsEntries DEF Filed
<1> QED BY <1>2, <1>4 DEF IInv

\* A send that ends by removing its entry.
LEMMA DropOrFinishKeeps ==
  ASSUME IInv, NEW m \in Msg, Drop(m) \/ Finish(m) PROVE IInv'
<1>1. /\ send[m] \in {"hook", "sent"} /\ Ack(m) /\ Return(m) /\ published' = published
      /\ settled' = IF send[m] = "hook" THEN settled \cup {m} ELSE settled
      /\ UNCHANGED <<stored, earlier>>
  BY DEF Drop, Finish, history
<1>2. /\ BusInv' /\ life # "down" /\ lives' = lives /\ send'[m] = "over"
      /\ Entries(toReplay') \subseteq Entries(toReplay) \ {m}
      /\ \A x \in Msg : x # m =>
           send'[x] = send[x] \/ (send[x] = "queued" /\ send'[x] = "tts")
      /\ \A x \in Msg : Fresh(x)' => Fresh(x)
  BY <1>1, ReturnKeeps DEF IInv, InFlight
<1>3. m \in settled' /\ ~Fresh(m) /\ settled' \subseteq Msg
  BY <1>1 DEF IInv, OutcomeKnown, Fresh, EntryInv, EntryTypes
<1>4. EntryInv' /\ OldInv' /\ OutcomeKnown' /\ BothKeep'
  BY <1>1, <1>2, <1>3, AckKeepsEntries DEF Filed
<1> QED BY <1>2, <1>4 DEF IInv

LEMMA PersistKeeps == ASSUME IInv, NEW m \in Msg, Persist(m) PROVE IInv'
<1>1. /\ send[m] = "tts" /\ UNCHANGED <<settled, published, again, old, oldPending>>
      /\ exposed' = IF Under(old) = {} \/ Replaying(m) THEN exposed ELSE exposed \cup {m}
  BY DEF Persist
<1>2. CASE /\ Replaying(m) /\ send' = [send EXCEPT ![m] = "hook"]
           /\ UNCHANGED <<life, lives, queue, proc, toReplay, store, stored>>
  <2>1. BusInv' /\ life # "down" /\ \A x \in Msg : send'[x] = IF x = m THEN "hook" ELSE send[x]
    BY <1>1, <1>2, FlightMoves DEF IInv, InFlight
  <2>2. \A x \in Msg : Fresh(x)' => Fresh(x) BY <1>2, <2>1 DEF Fresh, Replaying
  <2>3. m \in Lasting
    <3>1. m = Head(toReplay) /\ toReplay # <<>> BY <1>2 DEF Replaying
    <3>2. m \in Entries(toReplay) BY <3>1, TailEntry DEF IInv, BusInv, BusTypes
    <3> QED BY <3>2 DEF IInv, EntryInv, EntriesWait
  <2>4. UNCHANGED earlier /\ settled' \subseteq Msg
    BY <1>1, <1>2 DEF earlier, IInv, EntryInv, EntryTypes
  <2>5. EntryInv' /\ OldInv' /\ OutcomeKnown' /\ BothKeep'
    BY <1>1, <1>2, <2>1, <2>2, <2>3, <2>4, QuietKeepsEntries
  <2> QED BY <2>1, <2>5 DEF IInv
<1> DEFINE list == Append(pending, m)
<1>3. ASSUME ~Replaying(m)
      PROVE  /\ m \notin Everywhere \cup stored /\ old[m] \notin InFlight
             /\ OnceEach(list) /\ Entries(list) = Entries(pending) \cup {m}
  <2>1. m \notin Everywhere \cup stored /\ old[m] \notin InFlight
    BY <1>1, <1>3 DEF IInv, EntryInv, NewHasNoEntry, Fresh
  <2>2. m \notin Entries(pending) BY <2>1 DEF Everywhere
  <2> QED BY <2>1, <2>2, AppendEntry DEF IInv, EntryInv, EntryTypes
<1> HIDE DEF list
<1>4. ASSUME ~Replaying(m), pending' = list, file' = list \/ file' = file
      PROVE  OldInv' /\ Everywhere' \subseteq Everywhere \cup {m} /\ exposed \subseteq exposed'
  <2>1. exposed \subseteq exposed' /\ exposed' \subseteq Msg
        /\ \A x \in Msg : old[x] \in InFlight => m \in exposed'
    BY <1>1, <1>4 DEF IInv, OldInv, OldTypes, Under
  <2>2. OldTypes' BY <1>1, <2>1 DEF IInv, OldInv, OldTypes, OnceEach
  <2>3. Everywhere' \subseteq Everywhere \cup {m}
    <3>1. Entries(file') \in {Entries(pending) \cup {m}, Entries(file)} BY <1>3, <1>4
    <3>2. Entries(oldPending') = Entries(oldPending) BY <1>1 DEF Entries
    <3> QED BY <1>3, <1>4, <3>1, <3>2 DEF Everywhere
  <2>4. old[m] # "tts" BY <1>3, <1>4 DEF InFlight
  <2>5. OldIsExposed' BY <1>1, <2>1, <2>3, <2>4 DEF IInv, OldInv, OldIsExposed
  <2> QED BY <2>1, <2>2, <2>3, <2>5 DEF OldInv
<1>5. CASE /\ ~Replaying(m) /\ Flushed(list) /\ stored' = stored \cup {m}
           /\ send' = [send EXCEPT ![m] = "hook"]
           /\ UNCHANGED <<life, lives, queue, proc, toReplay>>
  <2>1. BusInv' /\ life # "down" /\ \A x \in Msg : send'[x] = IF x = m THEN "hook" ELSE send[x]
    BY <1>1, <1>5, FlightMoves DEF IInv, InFlight
  <2>2. \A x \in Msg : Fresh(x)' => Fresh(x) /\ x # m BY <1>5, <2>1 DEF Fresh, Replaying
  <2>3. pending' = list /\ file' = list /\ faults' = faults BY <1>5 DEF Flushed
  <2>4. OldInv' /\ Everywhere' \subseteq Everywhere \cup {m} /\ exposed \subseteq exposed'
    BY <1>4, <1>5, <2>3
  <2>5. EntryTypes' BY <1>1, <1>3, <1>5, <2>3 DEF IInv, EntryInv, EntryTypes, OnceEach
  <2>6. EntriesWait'
    BY <1>3, <1>5, <2>1, <2>3 DEF IInv, EntryInv, EntriesWait, Lasting
  <2>7. NewHasNoEntry' BY <1>1, <1>5, <2>2, <2>4 DEF IInv, EntryInv, NewHasNoEntry
  <2>8. OutcomeKnown' BY <1>1, <2>1 DEF IInv, OutcomeKnown
  <2>9. BothKeep' BY <1>1, <1>3, <1>5, <2>1, <2>3, <2>4 DEF IInv, BothKeep, Kept
  <2> QED BY <2>1, <2>4, <2>5, <2>6, <2>7, <2>8, <2>9 DEF IInv, EntryInv
<1>6. CASE ~Replaying(m) /\ FlushFails(list) /\ Reject(m) /\ stored' = stored
  <2>1. /\ BusInv' /\ life # "down" /\ UNCHANGED <<lives, toReplay>>
        /\ \A x \in Msg : send'[x] = IF x = m THEN "over" ELSE send[x]
        /\ \A x \in Msg : Fresh(x)' => Fresh(x)
    BY <1>1, <1>6, RejectKeeps DEF IInv, InFlight
  <2>2. \A x \in Msg : Fresh(x)' => Fresh(x) /\ x # m BY <2>1 DEF Fresh
  <2>3. pending' = list /\ file' = file /\ faults' \in 0..MaxFaults
    BY <1>6, BoundsAssumption DEF FlushFails, IInv, EntryInv, EntryTypes
  <2>4. OldInv' /\ Everywhere' \subseteq Everywhere \cup {m} /\ exposed \subseteq exposed'
    BY <1>4, <1>6, <2>3
  <2>5. EntryTypes' BY <1>1, <1>3, <1>6, <2>3 DEF IInv, EntryInv, EntryTypes, OnceEach
  <2>6. Entries(file') = Entries(file) BY <2>3
  <2>7. EntriesWait'
    BY <1>3, <1>6, <2>1, <2>3, <2>4, <2>6 DEF IInv, EntryInv, EntriesWait, Lasting, Filed
  <2>8. NewHasNoEntry' BY <1>1, <1>6, <2>2, <2>4 DEF IInv, EntryInv, NewHasNoEntry
  <2>9. OutcomeKnown' BY <1>1, <2>1 DEF IInv, OutcomeKnown
  <2>10. BothKeep' BY <1>1, <1>3, <1>6, <2>1, <2>3, <2>4, <2>6 DEF IInv, BothKeep, Kept
  <2> QED BY <2>1, <2>4, <2>5, <2>7, <2>8, <2>9, <2>10 DEF IInv, EntryInv
<1> QED BY <1>2, <1>5, <1>6 DEF Persist, process, list

-----------------------------------------------------------------------------
\* The steps of the bus and of its processor.

\* A new message is not in any list, nor on the bus.
LEMMA NewIsNowhere ==
  ASSUME IInv, NEW m \in Msg, send[m] = "new"
  PROVE  /\ m \notin Entries(published) /\ m \notin Entries(queue) /\ m \notin Entries(toReplay)
<1>1. m \notin Entries(published)
  BY DoneIsInt DEF IInv, BusInv, BusOrder, Entries
<1>2. m \notin Entries(queue)
  <2> SUFFICES ASSUME NEW i \in 1..Len(queue), queue[i] = m PROVE FALSE
    BY DoneIsInt DEF IInv, BusInv, Entries
  <2>1. published[i + Done] = m /\ Done >= 0 BY DEF IInv, BusInv, BusOrder
  <2>2. Len(queue) \in Nat /\ Len(published) \in Nat /\ DOMAIN published = 1..Len(published)
    BY DoneIsInt DEF IInv, BusInv
  <2>3. i + Done \in 1..Len(published) BY <2>1, <2>2 DEF Done
  <2> QED BY <1>1, <2>1, <2>2, <2>3 DEF Entries
<1>3. m \notin Entries(toReplay) BY DEF IInv, BusInv, SendsAreOwned, InFlight
<1> QED BY <1>1, <1>2, <1>3

\* A step that starts nothing but a new message, and moves no list.
LEMMA NewMovesKeepRest ==
  ASSUME IInv, NEW m \in Msg, send[m] = "new", life # "down",
         \A x \in Msg : x # m => send'[x] = send[x],
         send'[m] \in {"queued", "tts", "over"},
         UNCHANGED <<life, lives, toReplay, store, history, earlier>>
  PROVE  EntryInv' /\ OldInv' /\ OutcomeKnown' /\ BothKeep'
<1>1. UNCHANGED <<stored, settled>> BY DEF history
<1>2. \A x \in Msg : Fresh(x)' => Fresh(x) BY DEF Fresh, Replaying
<1>3. settled' \subseteq Msg BY <1>1 DEF IInv, EntryInv, EntryTypes
<1> QED BY <1>1, <1>2, <1>3, QuietKeepsEntries DEF Filed

LEMMA PublishKeeps == ASSUME IInv, NEW m \in Msg, Publish(m) PROVE IInv'
<1>1. /\ m \notin Direct /\ send[m] = "new" /\ life # "down"
      /\ UNCHANGED <<life, lives, toReplay, store, history, earlier>>
  BY DEF Publish
<1>2. PICK v \in {"queued", "tts", "over"} : send' = [send EXCEPT ![m] = v]
  BY DEF Publish
<1>3. /\ \A x \in Msg : send'[x] = IF x = m THEN v ELSE send[x]
      /\ send' \in [Msg -> Places]
  BY <1>2 DEF IInv, BusInv, BusTypes, Places
<1>4. EntryInv' /\ OldInv' /\ OutcomeKnown' /\ BothKeep' BY <1>1, <1>3, NewMovesKeepRest
<1>5. /\ m \notin Entries(published) /\ m \notin Entries(queue) /\ m \notin Entries(toReplay)
      /\ OnceEach(published) /\ OnceEach(queue) /\ OnceEach(toReplay)
  BY <1>1, NewIsNowhere DEF IInv, BusInv, BusTypes
<1>6. /\ Len(queue) \in Nat /\ Len(published) \in Nat /\ Done \in Int /\ Done >= 0
      /\ \A i \in 1..Len(published) : published[i] \in Msg /\ published[i] # m
      /\ Entries(toReplay) \subseteq Msg
  <2>1. BusTypes /\ Done >= 0 BY DEF IInv, BusInv, BusOrder
  <2>2. \A i \in 1..Len(published) : published[i] \in Entries(published)
    BY <2>1, DoneIsInt DEF Entries
  <2>3. Entries(toReplay) \subseteq Msg BY <1>5 DEF Entries, OnceEach
  <2> QED BY <1>5, <2>1, <2>2, <2>3, DoneIsInt
<1> DEFINE later == Append(published, m)
<1>7. /\ OnceEach(later) /\ Len(later) = Len(published) + 1
      /\ \A i \in 1..Len(published) : later[i] = published[i]
      /\ later[Len(published) + 1] = m
  BY <1>5, AppendEntry, AppendProperties DEF OnceEach
<1> HIDE DEF later
<1>8. CASE /\ life \in {"replay", "up"} /\ proc # "waiting" /\ v = "queued"
           /\ queue' = Append(queue, m) /\ published' = later /\ proc' = proc
  <2>1. /\ OnceEach(queue') /\ Len(queue') = Len(queue) + 1
        /\ \A i \in 1..Len(queue) : queue'[i] = queue[i]
        /\ queue'[Len(queue) + 1] = m
    BY <1>5, <1>8, AppendEntry, AppendProperties DEF OnceEach
  <2>2. Done' = Done BY <1>6, <1>7, <1>8, <2>1 DEF Done
  <2>3. BusTypes' BY <1>1, <1>3, <1>5, <1>7, <1>8, <2>1 DEF IInv, BusInv, BusTypes
  <2>4. SendsAreOwned' BY <1>1, <1>3, <1>5, <1>6, <1>8 DEF IInv, BusInv, SendsAreOwned, Replaying, InFlight
  <2>5. \A i \in 1..Len(queue') : queue'[i] = published'[i + Done']
    <3> SUFFICES ASSUME NEW i \in 1..Len(queue') PROVE queue'[i] = published'[i + Done]
      BY <2>2
    <3>1. CASE i \in 1..Len(queue)
      <4>1. queue[i] = published[i + Done] /\ i + Done \in 1..Len(published)
        BY <1>6, <3>1 DEF IInv, BusInv, BusOrder, Done
      <4> QED BY <1>7, <1>8, <2>1, <3>1, <4>1
    <3>2. CASE i = Len(queue) + 1
      <4>1. i + Done = Len(published) + 1 BY <1>6, <3>2 DEF Done
      <4> QED BY <1>7, <1>8, <2>1, <3>2, <4>1
    <3> QED BY <1>6, <2>1, <3>1, <3>2
  <2>6. ASSUME NEW i \in 1..Len(published')
        PROVE  /\ published'[i] \notin Direct
               /\ send'[published'[i]] # "new"
               /\ send'[published'[i]] = "queued" <=> i > Done'
               /\ i < Done' => send'[published'[i]] = "over"
               /\ i = Done' /\ proc' # "busy" => send'[published'[i]] = "over"
    <3>1. CASE i = Len(published) + 1
      <4>1. published'[i] = m /\ send'[m] = "queued" /\ i > Done
        BY <1>3, <1>6, <1>7, <1>8, <3>1 DEF Done
      <4> QED BY <1>1, <1>6, <1>7, <1>8, <2>2, <3>1, <4>1
    <3>2. CASE i \in 1..Len(published)
      <4>1. published'[i] = published[i] /\ send'[published[i]] = send[published[i]]
        BY <1>3, <1>6, <1>7, <1>8, <3>2
      <4> QED BY <1>8, <2>2, <3>2, <4>1 DEF IInv, BusInv, BusOrder
    <3> QED BY <1>6, <1>7, <1>8, <3>1, <3>2
  <2>7. \A x \in Msg \ Direct : send'[x] \in InFlight =>
          Replaying(x)' \/ (proc' = "busy" /\ Done' >= 1 /\ x = published'[Done'])
    <3> SUFFICES ASSUME NEW x \in Msg \ Direct, send'[x] \in InFlight, ~Replaying(x)'
                 PROVE  proc' = "busy" /\ Done' >= 1 /\ x = published'[Done']
      OBVIOUS
    <3>1. send[x] \in InFlight /\ ~Replaying(x) BY <1>1, <1>3, <1>8 DEF Replaying, InFlight
    <3>2. proc = "busy" /\ Done >= 1 /\ x = published[Done] BY <3>1 DEF IInv, BusInv, BusOrder
    <3>3. Done \in 1..Len(published) BY <1>6, <3>2 DEF Done
    <3> QED BY <1>7, <1>8, <2>2, <3>2, <3>3
  <2>8. BusOrder' BY <1>1, <1>6, <1>8, <2>2, <2>5, <2>6, <2>7 DEF IInv, BusInv, BusOrder
  <2> QED BY <1>4, <2>3, <2>4, <2>8 DEF IInv, BusInv
<1>9. CASE /\ life \in {"replay", "up"} /\ proc = "waiting" /\ v = "tts"
           /\ queue' = queue /\ published' = later /\ proc' = "busy"
  <2>1. life = "up" /\ queue = <<>> /\ Len(queue) = 0 /\ toReplay = <<>>
    BY <1>9, EmptySeq DEF IInv, BusInv, BusOrder, SendsAreOwned
  <2>2. Done = Len(published) /\ Done' = Len(published) + 1
    BY <1>6, <1>7, <1>9, <2>1 DEF Done
  <2>3. BusTypes' BY <1>1, <1>3, <1>5, <1>7, <1>9 DEF IInv, BusInv, BusTypes
  <2>4. SendsAreOwned' BY <1>1, <2>1, NoEntry DEF IInv, BusInv, SendsAreOwned
  <2>5. ASSUME NEW i \in 1..Len(published')
        PROVE  /\ published'[i] \notin Direct
               /\ send'[published'[i]] # "new"
               /\ send'[published'[i]] = "queued" <=> i > Done'
               /\ i < Done' => send'[published'[i]] = "over"
               /\ i = Done' /\ proc' # "busy" => send'[published'[i]] = "over"
    <3>1. CASE i = Len(published) + 1
      <4>1. published'[i] = m /\ send'[m] = "tts" BY <1>3, <1>7, <1>9, <3>1
      <4> QED BY <1>1, <1>6, <1>9, <2>2, <3>1, <4>1
    <3>2. CASE i \in 1..Len(published)
      <4>1. published'[i] = published[i] /\ send'[published[i]] = send[published[i]]
        BY <1>3, <1>6, <1>7, <1>9, <3>2
      <4>2. send[published[i]] = "over" /\ published[i] \notin Direct
        BY <1>6, <1>9, <2>2, <3>2 DEF IInv, BusInv, BusOrder
      <4> QED BY <1>6, <1>9, <2>2, <3>2, <4>1, <4>2
    <3> QED BY <1>6, <1>7, <1>9, <3>1, <3>2
  <2>6. \A x \in Msg \ Direct : send'[x] \in InFlight => x = m
    BY <1>3, <1>9, <2>1 DEF IInv, BusInv, BusOrder, Replaying
  <2>7. m = published'[Done'] /\ Done' >= 1 BY <1>6, <1>7, <1>9, <2>2
  <2>8. BusOrder' BY <1>1, <1>6, <1>9, <2>1, <2>2, <2>5, <2>6, <2>7 DEF BusOrder
  <2> QED BY <1>4, <2>3, <2>4, <2>8 DEF IInv, BusInv
<1>10. CASE life = "stopping" /\ v = "over" /\ UNCHANGED <<queue, proc, published>>
  <2>1. toReplay = <<>> BY <1>10 DEF IInv, BusInv, SendsAreOwned
  <2>2. BusTypes' BY <1>1, <1>3, <1>10 DEF IInv, BusInv, BusTypes, OnceEach
  <2>3. SendsAreOwned' BY <1>1, <1>10, <2>1, NoEntry DEF IInv, BusInv, SendsAreOwned
  <2>4. \A i \in 1..Len(published) : send'[published[i]] = send[published[i]]
    BY <1>3, <1>6
  <2>5. \A x \in Msg \ Direct : send'[x] \in InFlight =>
          Replaying(x)' \/ (proc = "busy" /\ Done >= 1 /\ x = published[Done])
    BY <1>1, <1>3, <1>10 DEF IInv, BusInv, BusOrder, Replaying, InFlight
  <2>6. BusOrder' BY <1>1, <1>10, <2>4, <2>5, BusOrderStays DEF IInv, BusInv
  <2> QED BY <1>4, <2>2, <2>3, <2>6 DEF IInv, BusInv
<1>11. send'[m] = v BY <1>3
<1> QED BY <1>1, <1>2, <1>3, <1>8, <1>9, <1>10 DEF Publish, IInv, BusInv, BusTypes, later

LEMMA SendDirectKeeps == ASSUME IInv, NEW m \in Msg, SendDirect(m) PROVE IInv'
<1>1. /\ m \in Direct /\ send[m] = "new" /\ life = "up" /\ send' = [send EXCEPT ![m] = "tts"]
      /\ UNCHANGED <<life, lives, queue, proc, toReplay, store, history, published, earlier>>
  BY DEF SendDirect, process
<1>2. /\ \A x \in Msg : send'[x] = IF x = m THEN "tts" ELSE send[x]
      /\ send' \in [Msg -> Places]
  BY <1>1 DEF IInv, BusInv, BusTypes, Places
<1>3. EntryInv' /\ OldInv' /\ OutcomeKnown' /\ BothKeep' BY <1>1, <1>2, NewMovesKeepRest
<1>4. BusTypes' BY <1>1, <1>2 DEF IInv, BusInv, BusTypes, OnceEach
<1>5. toReplay = <<>> BY <1>1 DEF IInv, BusInv, SendsAreOwned
<1>6. SendsAreOwned' BY <1>1, <1>5, NoEntry DEF IInv, BusInv, SendsAreOwned
<1>7. \A i \in 1..Len(published) : send'[published[i]] = send[published[i]]
  BY <1>1, <1>2, DoneIsInt DEF IInv, BusInv, BusOrder
<1>8. \A x \in Msg \ Direct : send'[x] \in InFlight =>
        Replaying(x)' \/ (proc = "busy" /\ Done >= 1 /\ x = published[Done])
  BY <1>1, <1>2 DEF IInv, BusInv, BusOrder, Replaying
<1>9. BusOrder' BY <1>1, <1>7, <1>8, BusOrderStays DEF IInv, BusInv
<1> QED BY <1>3, <1>4, <1>6, <1>9 DEF IInv, BusInv

\* Sends of the bus that start, or are forgotten, beside which nothing moves.
LEMMA QueuedMovesKeepRest ==
  ASSUME IInv, life # "down", UNCHANGED <<lives, store, history, earlier>>,
         Entries(toReplay') \subseteq Entries(toReplay),
         \A x \in Msg : Replaying(x) => Replaying(x)' \/ send[x] \notin InFlight,
         \A x \in Msg : send'[x] = send[x] \/ (send[x] = "queued" /\ send'[x] \in {"tts", "over"})
  PROVE  EntryInv' /\ OldInv' /\ OutcomeKnown' /\ BothKeep'
<1>1. UNCHANGED <<stored, settled>> BY DEF history
<1>2. \A x \in Msg : Fresh(x)' => Fresh(x) BY DEF Fresh, InFlight
<1>3. settled' \subseteq Msg BY <1>1 DEF IInv, EntryInv, EntryTypes
<1> QED BY <1>1, <1>2, <1>3, QuietKeepsEntries DEF Filed

LEMMA ResumeKeeps == ASSUME IInv, Resume PROVE IInv'
<1>1. /\ proc = "backoff" /\ NextMessage(send)
      /\ UNCHANGED <<life, lives, toReplay, store, history, published, earlier>>
  BY DEF Resume
<1>2. life \in {"up", "stopping"} /\ toReplay = <<>>
  BY <1>1 DEF NextMessage, IInv, BusInv, SendsAreOwned
<1>3. \A x \in Msg \ Direct : send[x] \notin InFlight
  BY <1>1, <1>2 DEF IInv, BusInv, BusOrder, Replaying
<1>4. \A i \in 1..Len(published) : i <= Done => send[published[i]] = "over"
  BY <1>1, DoneIsInt DEF IInv, BusInv, BusOrder
<1>5. /\ BusInv'
      /\ \A x \in Msg : send'[x] = send[x] \/ (send[x] = "queued" /\ send'[x] = "tts")
  BY <1>1, <1>3, <1>4, NextMessageKeeps DEF IInv, BusInv, BusTypes
<1>6. EntryInv' /\ OldInv' /\ OutcomeKnown' /\ BothKeep'
  BY <1>1, <1>2, <1>5, QueuedMovesKeepRest DEF Replaying
<1> QED BY <1>5, <1>6 DEF IInv

LEMMA StartProcessorKeeps == ASSUME IInv, StartProcessor PROVE IInv'
<1>1. /\ life = "replay" /\ toReplay = <<>> /\ life' = "up"
      /\ UNCHANGED <<lives, toReplay, store, history, published, earlier>>
  BY DEF StartProcessor
<1>2. \A x \in Msg : send[x] \notin InFlight
  BY <1>1 DEF IInv, BusInv, SendsAreOwned, Replaying
<1>3. proc = "off" /\ Done = 0 BY <1>1 DEF IInv, BusInv, BusOrder
<1>4. CASE /\ queue # <<>> /\ proc' = "busy" /\ queue' = Tail(queue)
           /\ send' = [send EXCEPT ![Head(queue)] = "tts"]
  <2>1. \A i \in 1..Len(published) : i <= Done => send[published[i]] = "over"
    BY <1>3
  <2>2. /\ BusOrder' /\ send' \in [Msg -> Places] /\ OnceEach(queue')
        /\ Head(queue) \in Msg \ Direct /\ send[Head(queue)] = "queued"
    BY <1>1, <1>2, <1>4, <2>1, HeadIsTaken DEF IInv, BusInv, BusTypes
  <2>3. BusTypes' BY <1>1, <1>4, <2>2 DEF IInv, BusInv, BusTypes, OnceEach
  <2>4. SendsAreOwned' BY <1>1, NoEntry DEF IInv, BusInv, SendsAreOwned
  <2>5. \A x \in Msg : send'[x] = send[x] \/ (send[x] = "queued" /\ send'[x] = "tts")
    BY <1>4, <2>2 DEF IInv, BusInv, BusTypes
  <2>6. EntryInv' /\ OldInv' /\ OutcomeKnown' /\ BothKeep' BY <1>1, <1>2, <2>5, QueuedMovesKeepRest
  <2> QED BY <2>2, <2>3, <2>4, <2>6 DEF IInv, BusInv
<1>5. CASE queue = <<>> /\ proc' = "waiting" /\ UNCHANGED <<queue, send>>
  <2>1. BusTypes' BY <1>1, <1>5 DEF IInv, BusInv, BusTypes, OnceEach
  <2>2. SendsAreOwned' BY <1>1, <1>5, NoEntry DEF IInv, BusInv, SendsAreOwned
  <2>3. Done' = Done /\ Len(published) = 0
    BY <1>1, <1>3, <1>5, DoneIsInt, EmptySeq DEF IInv, BusInv, Done
  <2>4. BusOrder' BY <1>1, <1>2, <1>3, <1>5, <2>3 DEF IInv, BusInv, BusOrder
  <2>5. EntryInv' /\ OldInv' /\ OutcomeKnown' /\ BothKeep' BY <1>1, <1>2, <1>5, QueuedMovesKeepRest
  <2> QED BY <2>1, <2>2, <2>4, <2>5 DEF IInv, BusInv
<1> QED BY <1>4, <1>5 DEF StartProcessor

LEMMA StopKeeps == ASSUME IInv, Stop PROVE IInv'
<1>1. /\ life = "up" /\ life' = "stopping" /\ queue' = <<>>
      /\ proc' = IF proc = "waiting" THEN "off" ELSE proc
      /\ published' = SubSeq(published, 1, Done)
      /\ UNCHANGED <<lives, toReplay, store, history, earlier>>
  BY DEF Stop, Done
<1>2. /\ send' \in [Msg -> Places]
      /\ \A x \in Msg : send'[x] = IF send[x] = "queued" THEN "over" ELSE send[x]
  BY DEF Stop, IInv, BusInv, BusTypes, Places
<1>3. toReplay = <<>> BY <1>1 DEF IInv, BusInv, SendsAreOwned
<1>4. Done \in 0..Len(published) /\ \A i \in 1..Len(published) : published[i] \in Msg
  <2>1. Len(queue) \in Nat /\ Len(published) \in Nat
        /\ \A i \in 1..Len(published) : published[i] \in Msg
    BY DoneIsInt DEF IInv, BusInv
  <2>2. Done >= 0 BY DEF IInv, BusInv, BusOrder
  <2> QED BY <2>1, <2>2 DEF Done
<1>5. /\ OnceEach(published') /\ Len(published') = Done
      /\ \A i \in 1..Done : published'[i] = published[i]
  BY <1>1, <1>4, PrefixEntry DEF IInv, BusInv, BusTypes
<1>6. Done' = Done BY <1>1, <1>4, <1>5, EmptySeq DEF Done
<1>7. BusTypes' BY <1>1, <1>2, <1>5, NoEntry DEF IInv, BusInv, BusTypes
<1>8. SendsAreOwned' BY <1>1, <1>3, NoEntry DEF IInv, BusInv, SendsAreOwned
<1>9. ASSUME NEW i \in 1..Done
      PROVE  /\ published'[i] \notin Direct
             /\ send'[published'[i]] # "new" /\ send'[published'[i]] # "queued"
             /\ i < Done => send'[published'[i]] = "over"
             /\ i = Done /\ proc' # "busy" => send'[published'[i]] = "over"
  <2>1. i \in 1..Len(published) /\ ~(i > Done) BY <1>4
  <2>2. /\ published[i] \notin Direct /\ send[published[i]] # "new" /\ send[published[i]] # "queued"
        /\ i < Done => send[published[i]] = "over"
        /\ i = Done /\ proc # "busy" => send[published[i]] = "over"
    BY <2>1 DEF IInv, BusInv, BusOrder
  <2> QED BY <1>1, <1>2, <1>4, <1>5, <2>1, <2>2
<1>10. \A x \in Msg \ Direct : send'[x] \in InFlight =>
         proc' = "busy" /\ Done' >= 1 /\ x = published'[Done']
  <2> SUFFICES ASSUME NEW x \in Msg \ Direct, send'[x] \in InFlight
               PROVE  proc' = "busy" /\ Done' >= 1 /\ x = published'[Done']
    OBVIOUS
  <2>1. send[x] \in InFlight BY <1>2 DEF InFlight
  <2>2. ~Replaying(x) BY <1>1 DEF Replaying
  <2>3. proc = "busy" /\ Done >= 1 /\ x = published[Done]
    BY <2>1, <2>2 DEF IInv, BusInv, BusOrder
  <2> QED BY <1>1, <1>4, <1>5, <1>6, <2>3
<1>11. Len(queue') = 0 /\ ~(Len(queue') >= 1) BY <1>1, EmptySeq
<1>12. \A i \in 1..Len(published') : ~(i > Done') BY <1>4, <1>5, <1>6
<1>13. BusOrder' BY <1>1, <1>4, <1>5, <1>6, <1>9, <1>10, <1>11, <1>12 DEF BusOrder
<1>14. EntryInv' /\ OldInv' /\ OutcomeKnown' /\ BothKeep'
  BY <1>1, <1>2, <1>3, QueuedMovesKeepRest DEF Replaying
<1> QED BY <1>7, <1>8, <1>13, <1>14 DEF IInv, BusInv

-----------------------------------------------------------------------------
\* Lives: the start, its replay, and the end.

LEMMA StartKeeps == ASSUME IInv, Start PROVE IInv'
<1>1. /\ life = "down" /\ life' = "replay" /\ lives < MaxLives /\ lives' = lives + 1
      /\ pending' = file /\ toReplay' = file
      /\ UNCHANGED <<queue, proc, send, file, faults, stored, settled, published, earlier>>
  BY DEF Start, history
<1>2. lives \in Nat /\ lives' \in 0..MaxLives
  BY <1>1, BoundsAssumption DEF IInv, BusInv, BusTypes
<1>3. /\ \A x \in Msg : send[x] \in {"new", "over"}
      /\ OnceEach(file) /\ Entries(file) \subseteq Msg
  BY <1>1 DEF IInv, BusInv, SendsAreOwned, EntryInv, EntryTypes, OnceEach, Entries
<1>4. \A x \in Entries(file) : send[x] = "over"
  BY <1>3 DEF IInv, EntryInv, NewHasNoEntry, Fresh, Everywhere
<1>5. BusTypes' BY <1>1, <1>2, <1>3 DEF IInv, BusInv, BusTypes, OnceEach
<1>6. SendsAreOwned' BY <1>1, <1>2, <1>3, <1>4 DEF SendsAreOwned, InFlight
<1>7. proc = "off" /\ Done = 0 /\ Done' = Done /\ queue = <<>> /\ published = <<>>
      /\ Len(queue) = 0 /\ Len(published) = 0
  BY <1>1, EmptySeq DEF IInv, BusInv, BusOrder, SendsAreOwned, Done
<1>8. BusOrder' BY <1>1, <1>3, <1>7 DEF BusOrder, InFlight
<1>9. EntryTypes' BY <1>1, <1>3 DEF IInv, EntryInv, EntryTypes, OnceEach
<1>10. EntriesWait' BY <1>1, <1>3 DEF EntriesWait, Filed, Lasting
<1>11. Entries(pending') = Entries(file) /\ Entries(file') = Entries(file) BY <1>1
<1>12. OldInv' /\ Everywhere' \subseteq Everywhere BY <1>1, <1>11, OldStays
<1>13. NewHasNoEntry' BY <1>1, <1>3, <1>12 DEF IInv, EntryInv, NewHasNoEntry, Fresh, earlier
<1>14. OutcomeKnown' BY <1>1 DEF IInv, OutcomeKnown
<1>15. BothKeep' BY <1>1, <1>11 DEF IInv, BothKeep, Kept, earlier
<1> QED BY <1>5, <1>6, <1>8, <1>9, <1>10, <1>12, <1>13, <1>14, <1>15
        DEF IInv, BusInv, EntryInv

LEMMA ReplayNextKeeps == ASSUME IInv, ReplayNext PROVE IInv'
<1> DEFINE h == Head(toReplay)
<1>1. /\ life = "replay" /\ toReplay # <<>> /\ send[h] = "over"
      /\ send' = [send EXCEPT ![h] = "tts"]
      /\ UNCHANGED <<life, lives, queue, proc, toReplay, store, stored, settled, published, earlier>>
  BY DEF ReplayNext, process, history
<1>2. h \in Msg /\ h \in Entries(toReplay) BY <1>1, TailEntry DEF IInv, BusInv, BusTypes
<1> HIDE DEF h
<1>3. /\ send' \in [Msg -> Places]
      /\ \A x \in Msg : send'[x] = IF x = h THEN "tts" ELSE send[x]
  BY <1>1 DEF IInv, BusInv, BusTypes, Places
<1>4. \A x \in Msg : Replaying(x) <=> x = h BY <1>1 DEF Replaying, h
<1>5. \A x \in Msg : send[x] \notin InFlight
  BY <1>1, <1>4 DEF IInv, BusInv, SendsAreOwned, InFlight
<1>6. BusTypes' BY <1>1, <1>3 DEF IInv, BusInv, BusTypes, OnceEach
<1>7. Entries(toReplay) \subseteq Msg BY DEF IInv, BusInv, BusTypes, OnceEach, Entries
<1>8. SendsAreOwned'
  <2>1. \A x \in Entries(toReplay) : send'[x] = "over" \/ (x = h /\ send'[x] \in InFlight)
    BY <1>3, <1>5, <1>7 DEF IInv, BusInv, SendsAreOwned, InFlight
  <2>2. \A x \in Msg : send'[x] \in InFlight => Replaying(x)'
    BY <1>1, <1>3, <1>4, <1>5 DEF Replaying
  <2> QED BY <1>1, <2>1, <2>2 DEF IInv, BusInv, SendsAreOwned, h
<1>9. \A i \in 1..Len(published) : send'[published[i]] = send[published[i]]
  <2> TAKE i \in 1..Len(published)
  <2>1. send[published[i]] = "queued" /\ published[i] \in Msg
    BY <1>1, DoneIsInt DEF IInv, BusInv, BusOrder
  <2> QED BY <1>1, <1>3, <2>1
<1>10. \A x \in Msg \ Direct : send'[x] \in InFlight => Replaying(x)'
  BY <1>1, <1>3, <1>4, <1>5 DEF Replaying
<1>11. BusOrder' BY <1>1, <1>9, <1>10, BusOrderStays DEF IInv, BusInv
<1>12. \A x \in Msg : Fresh(x)' => Fresh(x) BY <1>1, <1>3, <1>4 DEF Fresh, Replaying
<1>13. settled' \subseteq Msg BY <1>1 DEF IInv, EntryInv, EntryTypes
<1>14. EntryInv' /\ OldInv' /\ OutcomeKnown' /\ BothKeep'
  BY <1>1, <1>3, <1>12, <1>13, QuietKeepsEntries DEF Filed
<1> QED BY <1>6, <1>8, <1>11, <1>14 DEF IInv, BusInv

\* What the ends of a gateway have in common.
LEMMA EndsKeeps ==
  ASSUME IInv, Ends, exposed \subseteq exposed'
  PROVE  /\ BusInv' /\ EntryTypes' /\ EntriesWait' /\ OutcomeKnown' /\ BothKeep'
         /\ pending' = <<>> /\ UNCHANGED <<file, stored>>
         /\ \A m \in Msg : Fresh(m)' => send[m] = "new"
<1>1. /\ life' = "down" /\ proc' = "off"
      /\ queue' = <<>> /\ toReplay' = <<>> /\ pending' = <<>> /\ published' = <<>>
      /\ UNCHANGED <<lives, file, faults, stored, settled>>
  BY DEF Ends, history
<1>2. /\ send' \in [Msg -> Places]
      /\ \A x \in Msg : send'[x] = IF send[x] = "new" THEN "new" ELSE "over"
  BY DEF Ends, Places
<1>3. BusTypes' BY <1>1, <1>2, NoEntry DEF IInv, BusInv, BusTypes
<1>4. SendsAreOwned' BY <1>1, <1>2, NoEntry DEF SendsAreOwned
<1>5. Done' = 0 /\ Len(queue') = 0 /\ Len(published') = 0 BY <1>1, EmptySeq DEF Done
<1>6. BusOrder' BY <1>1, <1>2, <1>5 DEF BusOrder, InFlight
<1>7. EntryTypes' BY <1>1, NoEntry DEF IInv, EntryInv, EntryTypes
<1>8. EntriesWait' BY <1>1, <1>2, NoEntry DEF EntriesWait, Filed
<1>9. OutcomeKnown' BY <1>2 DEF OutcomeKnown
<1>10. BothKeep' BY <1>1 DEF IInv, BothKeep, Kept
<1>11. \A m \in Msg : Fresh(m)' => send[m] = "new" BY <1>2 DEF Fresh
<1> QED BY <1>1, <1>3, <1>4, <1>6, <1>7, <1>8, <1>9, <1>10, <1>11 DEF BusInv

LEMMA DieKeeps == ASSUME IInv, Die PROVE IInv'
<1>1. /\ Ends /\ again' = FALSE /\ old' = [m \in Msg |-> "over"] /\ oldPending' = <<>>
      /\ exposed' = exposed
  BY DEF Die
<1>2. /\ BusInv' /\ EntryTypes' /\ EntriesWait' /\ OutcomeKnown' /\ BothKeep'
      /\ pending' = <<>> /\ UNCHANGED <<file, stored>>
      /\ \A m \in Msg : Fresh(m)' => send[m] = "new"
  BY <1>1, EndsKeeps
<1>3. Everywhere' = Entries(file) BY <1>1, <1>2, NoEntry DEF Everywhere
<1>4. \A m \in Msg : old'[m] \notin InFlight /\ old'[m] # "tts" BY <1>1 DEF InFlight
<1>5. OldTypes' BY <1>1, NoEntry DEF IInv, OldInv, OldTypes, Places
<1>6. OldInv' BY <1>4, <1>5 DEF OldInv, OldIsExposed
<1>7. NewHasNoEntry'
  BY <1>2, <1>3, <1>4 DEF IInv, EntryInv, NewHasNoEntry, Fresh, Everywhere
<1> QED BY <1>2, <1>6, <1>7 DEF IInv, EntryInv

LEMMA RestartKeeps == ASSUME IInv, Restart PROVE IInv'
<1> DEFINE all == exposed \cup Under(send) \cup Entries(pending) \cup Entries(file)
<1>1. /\ life = "stopping" /\ Ends /\ again' = TRUE
      /\ old' = [m \in Msg |-> IF m \in Under(send) THEN send[m] ELSE "over"]
      /\ oldPending' = IF Under(send) = {} THEN <<>> ELSE pending
      /\ exposed' = IF Under(send) = {} THEN exposed ELSE all
  BY DEF Restart
<1>2. /\ BusInv' /\ EntryTypes' /\ EntriesWait' /\ OutcomeKnown' /\ BothKeep'
      /\ pending' = <<>> /\ UNCHANGED <<file, stored>>
      /\ \A m \in Msg : Fresh(m)' => send[m] = "new"
  BY <1>1, EndsKeeps
<1>3. /\ \A m \in Msg : old'[m] \in InFlight => old'[m] = send[m] /\ Under(send) # {}
      /\ old' \in [Msg -> Places]
  BY <1>1 DEF IInv, BusInv, BusTypes, Places, InFlight, Under
<1>4. OnceEach(oldPending') /\ Entries(oldPending') \subseteq Entries(pending)
  BY <1>1, NoEntry DEF IInv, EntryInv, EntryTypes
<1>5. Everywhere' \subseteq Entries(pending) \cup Entries(file)
  BY <1>2, <1>4, NoEntry DEF Everywhere
<1>6. exposed' \subseteq Msg
  BY <1>1 DEF IInv, OldInv, OldTypes, EntryInv, EntryTypes, OnceEach, Entries, Under
<1>7. OldTypes' BY <1>1, <1>3, <1>4, <1>6 DEF OldTypes
<1>8. ASSUME NEW m \in Msg, old'[m] \in InFlight
      PROVE  m \in exposed' /\ Everywhere' \subseteq exposed'
  BY <1>1, <1>3, <1>5, <1>8 DEF Under
<1>9. ASSUME NEW m \in Msg, old'[m] = "tts" PROVE m \notin Everywhere'
  <2>1. send[m] = "tts" /\ ~Replaying(m) BY <1>1, <1>3, <1>9 DEF InFlight, Replaying
  <2> QED BY <1>5, <2>1 DEF IInv, EntryInv, NewHasNoEntry, Fresh, Everywhere
<1>10. OldInv' BY <1>7, <1>8, <1>9 DEF OldInv, OldIsExposed
<1>11. NewHasNoEntry'
  <2> SUFFICES ASSUME NEW m \in Msg, Fresh(m)'
               PROVE  m \notin Everywhere' \cup stored' /\ old'[m] \notin InFlight
    BY DEF NewHasNoEntry
  <2>1. send[m] = "new" BY <1>2
  <2> QED BY <1>2, <1>3, <1>5, <2>1
          DEF IInv, EntryInv, NewHasNoEntry, Fresh, Everywhere, InFlight
<1> QED BY <1>2, <1>10, <1>11 DEF IInv, EntryInv

-----------------------------------------------------------------------------
\* What an earlier gateway left.

\* A step of an earlier send, which may write: all entries are exposed.
LEMMA OldStepKeeps ==
  ASSUME IInv, NEW m \in Msg, old[m] \in InFlight, NEW v \in InFlight \cup {"over"}, v # "tts",
         old' = [old EXCEPT ![m] = v],
         UNCHANGED <<process, pending, published, send, again, exposed>>,
         stored \subseteq stored', stored' \subseteq stored \cup {m},
         settled \subseteq settled', settled' \subseteq Msg, faults' \in 0..MaxFaults,
         OnceEach(oldPending'), Entries(oldPending') \subseteq Entries(oldPending) \cup {m},
         file' \in {file, oldPending'}
  PROVE  IInv'
<1>1. UNCHANGED <<life, lives, queue, proc, toReplay>> BY DEF process
<1>2. m \in exposed /\ Everywhere \subseteq exposed BY DEF IInv, OldInv, OldIsExposed
<1>3. BusInv'
  <2>1. BusTypes' /\ SendsAreOwned'
    BY <1>1 DEF IInv, BusInv, BusTypes, OnceEach, SendsAreOwned, Replaying, Entries
  <2>2. Done' = Done BY <1>1 DEF Done
  <2>3. BusOrder' BY <1>1, <2>2 DEF IInv, BusInv, BusOrder, Replaying
  <2> QED BY <2>1, <2>3 DEF BusInv
<1>4. EntryTypes' BY DEF IInv, EntryInv, EntryTypes, OnceEach
<1>5. /\ Entries(pending') = Entries(pending) /\ Entries(file) \subseteq exposed
      /\ Entries(file') \subseteq Entries(file) \cup Entries(oldPending) \cup {m}
  BY <1>2 DEF Everywhere
<1>6. Everywhere' \subseteq Everywhere \cup {m} BY <1>5 DEF Everywhere
<1>7. EntriesWait' BY <1>1, <1>5 DEF IInv, EntryInv, EntriesWait, Lasting
<1>8. old' \in [Msg -> Places] /\ \A x \in Msg : old'[x] = IF x = m THEN v ELSE old[x]
  BY DEF IInv, OldInv, OldTypes, InFlight, Places
<1>9. OldTypes' BY <1>8 DEF IInv, OldInv, OldTypes
<1>10. OldIsExposed' BY <1>2, <1>6, <1>8 DEF IInv, OldInv, OldIsExposed
<1>11. NewHasNoEntry'
  <2>1. \A x \in Msg : Fresh(x)' => Fresh(x) BY <1>1 DEF Fresh, Replaying
  <2>2. ~Fresh(m) BY DEF IInv, EntryInv, NewHasNoEntry
  <2> QED BY <1>6, <1>8, <2>1, <2>2 DEF IInv, EntryInv, NewHasNoEntry
<1>12. OutcomeKnown' BY DEF IInv, OutcomeKnown
<1>13. BothKeep' BY <1>1, <1>2, <1>5 DEF IInv, BothKeep, Kept
<1> QED BY <1>3, <1>4, <1>7, <1>9, <1>10, <1>11, <1>12, <1>13 DEF IInv, EntryInv, OldInv

\* What its acknowledgement leaves, and what the writing of its entry.
LEMMA OldAckLeaves ==
  ASSUME IInv, NEW m \in Msg, OldAck(m)
  PROVE  /\ OnceEach(oldPending') /\ Entries(oldPending') \subseteq Entries(oldPending)
         /\ faults' \in 0..MaxFaults /\ file' \in {file, oldPending'}
<1>1. OnceEach(oldPending) /\ faults \in 0..MaxFaults
  BY DEF IInv, OldInv, OldTypes, EntryInv, EntryTypes
<1>2. CASE UNCHANGED <<oldPending, file, faults>> BY <1>1, <1>2
<1>3. CASE \E i \in DOMAIN oldPending :
             /\ oldPending[i] = m
             /\ OldFlushed(Splice(oldPending, i)) \/ OldFlushFails(Splice(oldPending, i))
  <2>1. PICK i \in DOMAIN oldPending :
          OldFlushed(Splice(oldPending, i)) \/ OldFlushFails(Splice(oldPending, i))
    BY <1>3
  <2>2. oldPending' = Splice(oldPending, i) /\ file' \in {file, oldPending'}
    BY <2>1 DEF OldFlushed, OldFlushFails
  <2>3. faults' \in 0..MaxFaults
    BY <1>1, <2>1, BoundsAssumption DEF OldFlushed, OldFlushFails
  <2>4. /\ OnceEach(Splice(oldPending, i))
        /\ Entries(Splice(oldPending, i)) = Entries(oldPending) \ {oldPending[i]}
    BY <1>1, SpliceEntry
  <2> QED BY <2>2, <2>3, <2>4
<1> QED BY <1>2, <1>3 DEF OldAck

LEMMA OldAppends ==
  ASSUME IInv, NEW m \in Msg, old[m] = "tts",
         OldFlushed(Append(oldPending, m)) \/ OldFlushFails(Append(oldPending, m))
  PROVE  /\ OnceEach(oldPending') /\ Entries(oldPending') \subseteq Entries(oldPending) \cup {m}
         /\ faults' \in 0..MaxFaults /\ file' \in {file, oldPending'}
<1>1. OnceEach(oldPending) /\ faults \in 0..MaxFaults /\ m \notin Entries(oldPending)
  BY DEF IInv, OldInv, OldTypes, OldIsExposed, Everywhere, EntryInv, EntryTypes
<1>2. oldPending' = Append(oldPending, m) /\ file' \in {file, oldPending'}
  BY DEF OldFlushed, OldFlushFails
<1>3. faults' \in 0..MaxFaults BY <1>1, BoundsAssumption DEF OldFlushed, OldFlushFails
<1>4. /\ OnceEach(Append(oldPending, m))
      /\ Entries(Append(oldPending, m)) = Entries(oldPending) \cup {m}
  BY <1>1, AppendEntry
<1> QED BY <1>2, <1>3, <1>4

LEMMA OldGoesOnKeeps == ASSUME IInv, NEW m \in Msg, OldGoesOn(m) PROVE IInv'
<1>1. UNCHANGED <<process, pending, published, send, again, exposed>> BY DEF OldGoesOn
<1>2. OnceEach(oldPending) /\ faults \in 0..MaxFaults /\ settled \cup {m} \subseteq Msg
  BY DEF IInv, OldInv, OldTypes, EntryInv, EntryTypes
<1>3. CASE /\ old[m] = "tts" /\ Goes(m, "hook") /\ OldFlushed(Append(oldPending, m))
           /\ stored' = stored \cup {m} /\ UNCHANGED settled
  BY <1>1, <1>2, <1>3, OldAppends, OldStepKeeps DEF Goes, InFlight
<1>4. CASE /\ old[m] = "hook" /\ Goes(m, "deliver")
           /\ UNCHANGED <<oldPending, file, faults, history>>
  BY <1>1, <1>2, <1>4, OldStepKeeps DEF Goes, InFlight, history
<1>5. CASE /\ old[m] = "deliver" /\ Goes(m, "taken") /\ settled' = settled \cup {m}
           /\ UNCHANGED <<oldPending, file, faults, stored>>
  BY <1>1, <1>2, <1>5, OldStepKeeps DEF Goes, InFlight
<1>6. CASE /\ old[m] \in {"deliver", "taken"} /\ Goes(m, "sent") /\ settled' = settled \cup {m}
           /\ UNCHANGED <<oldPending, file, faults, stored>>
  BY <1>1, <1>2, <1>6, OldStepKeeps DEF Goes, InFlight
<1> QED BY <1>3, <1>4, <1>5, <1>6 DEF OldGoesOn

LEMMA OldEndsKeeps == ASSUME IInv, NEW m \in Msg, OldEnds(m) PROVE IInv'
<1>1. UNCHANGED <<process, pending, published, send, again, exposed>> /\ Goes(m, "over")
  BY DEF OldEnds
<1>2. OnceEach(oldPending) /\ faults \in 0..MaxFaults /\ settled \cup {m} \subseteq Msg
  BY DEF IInv, OldInv, OldTypes, EntryInv, EntryTypes
<1>3. CASE old[m] = "tts" /\ OldFlushFails(Append(oldPending, m)) /\ UNCHANGED history
  BY <1>1, <1>2, <1>3, OldAppends, OldStepKeeps DEF Goes, InFlight, history
<1>4. CASE /\ old[m] = "hook" /\ OldAck(m)
           /\ settled' = settled \cup {m} /\ UNCHANGED stored
  BY <1>1, <1>2, <1>4, OldAckLeaves, OldStepKeeps DEF Goes, InFlight
<1>5. CASE old[m] \in {"deliver", "taken"} /\ UNCHANGED <<oldPending, file, faults, history>>
  BY <1>1, <1>2, <1>5, OldStepKeeps DEF Goes, InFlight, history
<1>6. CASE old[m] = "sent" /\ OldAck(m) /\ UNCHANGED history
  BY <1>1, <1>2, <1>6, OldAckLeaves, OldStepKeeps DEF Goes, InFlight, history
<1> QED BY <1>3, <1>4, <1>5, <1>6 DEF OldEnds

-----------------------------------------------------------------------------
LEMMA InitIInv == Init => IInv
<1> SUFFICES ASSUME Init PROVE IInv OBVIOUS
<1>1. BusTypes BY NoEntry, BoundsAssumption DEF Init, BusTypes, Places
<1>2. SendsAreOwned BY NoEntry DEF Init, SendsAreOwned
<1>3. Done = 0 /\ Len(queue) = 0 /\ Len(published) = 0 BY EmptySeq DEF Init, Done
<1>4. BusOrder BY <1>3 DEF Init, BusOrder, InFlight
<1>5. EntryTypes BY NoEntry, BoundsAssumption DEF Init, EntryTypes
<1>6. EntriesWait /\ NewHasNoEntry
  BY NoEntry DEF Init, EntriesWait, NewHasNoEntry, Filed, Everywhere, InFlight
<1>7. OldTypes BY NoEntry DEF Init, OldTypes, Places
<1>8. OldIsExposed BY DEF Init, OldIsExposed, InFlight
<1>9. OutcomeKnown BY DEF Init, OutcomeKnown
<1>10. BothKeep BY DEF Init, BothKeep, Kept
<1> QED BY <1>1, <1>2, <1>4, <1>5, <1>6, <1>7, <1>8, <1>9, <1>10
        DEF IInv, BusInv, EntryInv, OldInv

LEMMA NextKeeps == IInv /\ [Next]_vars => IInv'
<1> SUFFICES ASSUME IInv, [Next]_vars PROVE IInv' OBVIOUS
<1>1. ASSUME NEW m \in Msg, Publish(m) PROVE IInv' BY <1>1, PublishKeeps
<1>2. ASSUME NEW m \in Msg, SendDirect(m) PROVE IInv' BY <1>2, SendDirectKeeps
<1>3. ASSUME NEW m \in Msg, Step(m) PROVE IInv'
  BY <1>3, PersistKeeps, PassKeeps, DropOrFinishKeeps, TakeOrAnswerKeeps, ThrowKeeps DEF Step
<1>4. CASE Start BY <1>4, StartKeeps
<1>5. CASE ReplayNext BY <1>5, ReplayNextKeeps
<1>6. CASE StartProcessor BY <1>6, StartProcessorKeeps
<1>7. CASE Resume BY <1>7, ResumeKeeps
<1>8. CASE Stop BY <1>8, StopKeeps
<1>9. CASE Die BY <1>9, DieKeeps
<1>10. CASE Restart BY <1>10, RestartKeeps
<1>11. ASSUME NEW m \in Msg, OldGoesOn(m) PROVE IInv' BY <1>11, OldGoesOnKeeps
<1>12. ASSUME NEW m \in Msg, OldEnds(m) PROVE IInv' BY <1>12, OldEndsKeeps
<1>13. CASE UNCHANGED vars
  <2>1. UNCHANGED <<life, lives, queue, proc, toReplay, pending, file, faults,
                    stored, settled, published, send, again, old, oldPending, exposed>>
    BY <1>13 DEF vars, process, store, history, earlier
  <2>2. BusTypes' /\ SendsAreOwned'
    BY <2>1 DEF IInv, BusInv, BusTypes, OnceEach, SendsAreOwned, Replaying, Entries
  <2>3. Done' = Done BY <2>1 DEF Done
  <2>4. BusOrder' BY <2>1, <2>3 DEF IInv, BusInv, BusOrder, Replaying
  <2>5. EntryTypes' /\ EntriesWait' /\ NewHasNoEntry'
    <3>1. EntryTypes' BY <2>1 DEF IInv, EntryInv, EntryTypes, OnceEach
    <3>2. EntriesWait' BY <2>1 DEF IInv, EntryInv, EntriesWait, Lasting, Entries
    <3>3. NewHasNoEntry'
      BY <2>1 DEF IInv, EntryInv, NewHasNoEntry, Everywhere, Entries, Fresh, Replaying
    <3> QED BY <3>1, <3>2, <3>3
  <2>6. OldTypes' /\ OldIsExposed' /\ OutcomeKnown'
    <3>1. OldTypes' BY <2>1 DEF IInv, OldInv, OldTypes, OnceEach
    <3>2. OldIsExposed' BY <2>1 DEF IInv, OldInv, OldIsExposed, Everywhere, Entries
    <3>3. OutcomeKnown' BY <2>1 DEF IInv, OutcomeKnown
    <3> QED BY <3>1, <3>2, <3>3
  <2>7. BothKeep' BY <2>1 DEF IInv, BothKeep, Kept, Entries
  <2> QED BY <2>2, <2>4, <2>5, <2>6, <2>7 DEF IInv, BusInv, EntryInv, OldInv
<1> QED BY <1>1, <1>2, <1>3, <1>4, <1>5, <1>6, <1>7, <1>8, <1>9, <1>10, <1>11, <1>12, <1>13 DEF Next

\* The inductive invariant: who owns each send, what the lists hold, what an
\* earlier gateway of the process left, and the order of the bus.
THEOREM Inductive == Spec => []IInv
  BY InitIInv, NextKeeps, PTL DEF Spec

\* Every variable of the outbound path keeps its type, and no message is twice in
\* a list.
THEOREM TypeCorrect == Spec => []TypeOK
<1>1. IInv => TypeOK
  BY DEF IInv, BusInv, BusTypes, EntryInv, EntryTypes, OldInv, OldTypes, OnceEach, TypeOK
<1> QED BY <1>1, Inductive, PTL

\* Durability, for any number of messages, lives and failing writes: a message
\* whose entry was written stays in the file until the channel took it or
\* send() gave it up, unless a restart left sends of the gateway before to
\* write the same file.
THEOREM NoEntryForgotten == Spec => []KeptUntilDecided
<1>1. IInv => KeptUntilDecided BY DEF IInv, BothKeep, Kept, KeptUntilDecided
<1> QED BY <1>1, Inductive, PTL

\* The bus sends in the order of publication, one message after the other,
\* through errors, backoffs and replays.
THEOREM BusKeepsOrder == Spec => []SentInOrder
<1>1. IInv => SentInOrder
  <2> SUFFICES ASSUME IInv, NEW i \in DOMAIN published, NEW j \in DOMAIN published,
                      i < j, send[published[j]] # "queued"
               PROVE  send[published[i]] = "over"
    BY DEF SentInOrder
  <2>1. i \in 1..Len(published) /\ j \in 1..Len(published) /\ Done \in Int
    BY DoneIsInt DEF IInv, BusInv
  <2>2. ~(j > Done) BY <2>1 DEF IInv, BusInv, BusOrder
  <2>3. i < Done BY <2>1, <2>2
  <2> QED BY <2>1, <2>3 DEF IInv, BusInv, BusOrder
<1> QED BY <1>1, Inductive, PTL

\* An acknowledgement is final: what is being sent has its entry in the file or
\* never had one written, with the same exception.
THEOREM NothingSentAfterAck == Spec => []AckIsFinal
<1>1. IInv => AckIsFinal
  <2> SUFFICES ASSUME IInv, NEW m \in stored, m \notin Entries(file) \cup exposed, send[m] # "over"
               PROVE  FALSE
    BY DEF AckIsFinal
  <2>1. m \in Msg /\ send[m] \in Places
    BY DEF IInv, BusInv, BusTypes, EntryInv, EntryTypes
  <2>2. ~Fresh(m) BY <2>1 DEF IInv, EntryInv, NewHasNoEntry
  <2>3. m \notin Lasting BY DEF Lasting
  <2>4. send[m] \notin Filed BY <2>1, <2>3 DEF IInv, EntryInv, EntriesWait
  <2>5. Replaying(m) BY <2>1, <2>2, <2>4 DEF Fresh, Places, Filed
  <2>6. m \in Entries(toReplay) BY <2>5, TailEntry DEF Replaying, IInv, BusInv, BusTypes
  <2> QED BY <2>3, <2>6 DEF IInv, EntryInv, EntriesWait
<1> QED BY <1>1, Inductive, PTL
=============================================================================
