---------------------------- MODULE GatewayProofs ----------------------------
(***************************************************************************)
(* What the gateway's lock and its relay of agent runs promise.            *)
(*                                                                         *)
(* GatewayLock, for any number of gateways and commands: its types, and    *)
(* that nobody removes the lock of a gateway that has served since the     *)
(* contender found the file, in reach of the contender's probe.  A gateway *)
(* that holds the file has written its payload, so a contender that trusts *)
(* it reads its name; it listens where the contender probes, so an answer  *)
(* sends the contender on to its pid, and it is alive, so the contender    *)
(* waits.  When no answer comes in time, nobody is trusted any more.       *)
(*                                                                         *)
(* AgentRunRelay, for any number of subscribers, any limit of the buffer   *)
(* and any length of the stream: its types, that no wake-up is lost and    *)
(* that every subscriber is given the events from the first, in order and  *)
(* without a gap.  The buffer holds the first events of the run, numbered  *)
(* from one, up to its limit; what a subscriber was given is the beginning *)
(* of the buffer; and once the run is over the generator publishes no      *)
(* more.  A subscriber that ends has therefore read all there will be.     *)
(***************************************************************************)
EXTENDS GatewayLock, AgentRunRelay, TLAPS

(* GatewayLock. *)

\* What is trusted serves where the contender probes.
TrustedServe == \A p \in Process : trusted[p] \subseteq InReach(p)

\* The file of a gateway past acquireGatewayLock() has its payload.
HeldIsWritten == file.by # NoOne /\ pc[file.by] \in Holding => file.written

\* A contender that trusts the file's owner is on no way to remove it.
TrusterWaits == \A p \in Process :
  file.by \in trusted[p] =>
    /\ pc[p] \notin {"unknown", "remove"}
    /\ pc[p] \in {"probe", "pid"} => seen[p] = file.by

LockIInv == LockTypeOK /\ TrustedServe /\ HeldIsWritten /\ TrusterWaits

-----------------------------------------------------------------------------
LEMMA Labels ==
  /\ "serving" \in Holding /\ "serving" \notin Contending /\ "serving" \notin Ended
  /\ Contending \cap Holding = {} /\ Ended \cap Holding = {} /\ "off" \notin Holding
  /\ {"try", "retry", "write", "read", "probe", "pid", "unknown", "remove", "wait"} \subseteq Contending
  /\ {"starting", "serving", "stopping", "release", "exiting"} \subseteq Holding
  /\ {"failed", "gone"} \subseteq Ended
BY DEF Holding, Contending, Ended

LEMMA LockInitEstablishes == LockInit => LockIInv
BY ProcessAssumption, Labels
DEF LockInit, LockIInv, LockTypeOK, TrustedServe, InReach, HeldIsWritten, TrusterWaits, NoFile, Process

LEMMA LockTypeStep == LockTypeOK /\ [LockNext]_lockVars => LockTypeOK'
<1> SUFFICES ASSUME LockTypeOK, [LockNext]_lockVars PROVE LockTypeOK'
  OBVIOUS
<1>0. NoFile \in [by : Process \cup {NoOne}, written : BOOLEAN, aged : BOOLEAN]
      /\ \A p \in Process : p # NoOne
  BY ProcessAssumption DEF NoFile, Process
<1> USE <1>0, Labels DEF LockTypeOK, Goto
<1>1. ASSUME NEW p \in Process, Launch(p) \/ Wait(p) \/ GiveUp(p) \/ CheckPid(p) \/ CheckAge(p)
                                 \/ ProbePort(p)
      PROVE  LockTypeOK'
  BY <1>1 DEF Launch, Wait, GiveUp, CheckPid, CheckAge, ProbePort, Forget
<1>2. ASSUME NEW p \in Process, Create(p) PROVE LockTypeOK'
  BY <1>2 DEF Create
<1>3. ASSUME NEW p \in Process, FindFile(p) PROVE LockTypeOK'
  BY <1>3 DEF FindFile, Serving, InReach
<1>4. ASSUME NEW p \in Process, WritePayload(p) PROVE LockTypeOK'
  <2>1. signals' \in [Gateway -> {"new", "installed", "removed"}] BY <1>4 DEF WritePayload
  <2>2. /\ file' \in [by : Process \cup {NoOne}, written : BOOLEAN, aged : BOOLEAN]
        /\ file'.by = NoOne => file' = NoFile
    BY <1>4 DEF WritePayload
  <2>3. pc' \in [Process -> {"off"} \cup Contending \cup Holding \cup Ended]
    BY <1>4 DEF WritePayload
  <2> QED BY <1>4, <2>1, <2>2, <2>3 DEF WritePayload
<1>5. ASSUME NEW p \in Process, ReadPayload(p) PROVE LockTypeOK'
  BY <1>5 DEF ReadPayload
<1>6. ASSUME NEW p \in Process, Remove(p) PROVE LockTypeOK'
  BY <1>6 DEF Remove, Forget
<1>7. ASSUME NEW p \in Process, Release(p) PROVE LockTypeOK'
  BY <1>7 DEF Release
<1>8. ASSUME NEW p \in Process, Die(p) PROVE LockTypeOK'
  BY <1>8 DEF Die, Distrust
<1>9. ASSUME NEW p \in Gateway, Live(p) PROVE LockTypeOK'
  BY <1>9 DEF Live, Listen, StartEnds, Signal, Stopped, Distrust, Process
<1>10. CASE Age BY <1>10 DEF Age, NoFile
<1>11. CASE UNCHANGED lockVars BY <1>11 DEF lockVars
<1> QED
  BY <1>1, <1>2, <1>3, <1>4, <1>5, <1>6, <1>7, <1>8, <1>9, <1>10, <1>11 DEF LockNext, Acquire

-----------------------------------------------------------------------------
\* A gateway leaves "serving" by a signal or by dying, and is trusted no more.
LEMMA TrustedStep == LockTypeOK /\ TrustedServe /\ [LockNext]_lockVars => TrustedServe'
<1> SUFFICES ASSUME LockTypeOK, TrustedServe, [LockNext]_lockVars,
                    NEW q \in Process, NEW g \in trusted'[q]
             PROVE  g \in InReach(q)'
  BY DEF TrustedServe
<1>0. \A p \in Process : \A h \in trusted[p] : h \in Gateway /\ h \in Process /\ pc[h] = "serving"
  BY DEF TrustedServe, Serving, InReach, Process
<1>00. g \in trusted[q] \/ g \in InReach(q)
  BY DEF LockNext, Acquire, Live, Launch, Create, FindFile, WritePayload, ReadPayload, ProbePort,
         CheckPid, CheckAge, Remove, Wait, GiveUp, Forget, Release, Die, Distrust, Listen,
         StartEnds, Signal, Stopped, Age, lockVars, LockTypeOK
<1>01. g \in InReach(q)
  BY <1>00 DEF TrustedServe
<1>02. SUFFICES g \in Gateway /\ pc'[g] = "serving"
  BY <1>01 DEF InReach, Serving
<1>03. g \in Gateway /\ g \in Process /\ pc[g] = "serving"
  BY <1>01 DEF InReach, Serving, Process
<1> USE <1>0, <1>03 DEF LockTypeOK, Goto
<1>1. ASSUME NEW p \in Process, Launch(p) \/ Acquire(p)
      PROVE  g \in Gateway /\ pc'[g] = "serving"
  <2>1. CASE FindFile(p) BY <2>1 DEF FindFile
  <2> QED
    BY <1>1, <2>1 DEF Acquire, Launch, Create, WritePayload, ReadPayload, ProbePort,
                      CheckPid, CheckAge, Remove, Wait, GiveUp, Forget
<1>2. ASSUME NEW p \in Process, Release(p) PROVE g \in Gateway /\ pc'[g] = "serving"
  BY <1>2 DEF Release
<1>3. ASSUME NEW p \in Process, Die(p) PROVE g \in Gateway /\ pc'[g] = "serving"
  <2>1. CASE p \in Gateway BY <1>3, <2>1 DEF Die, Distrust
  <2>2. CASE p \notin Gateway BY <1>3, <2>2 DEF Die
  <2> QED BY <2>1, <2>2
<1>4. ASSUME NEW p \in Gateway, Live(p) PROVE g \in Gateway /\ pc'[g] = "serving"
  BY <1>4 DEF Live, Listen, StartEnds, Signal, Stopped, Distrust
<1>5. CASE Age \/ UNCHANGED lockVars BY <1>5 DEF Age, lockVars
<1> QED BY <1>1, <1>2, <1>3, <1>4, <1>5 DEF LockNext

LEMMA WrittenStep == LockTypeOK /\ HeldIsWritten /\ [LockNext]_lockVars => HeldIsWritten'
<1> SUFFICES ASSUME LockTypeOK, HeldIsWritten, [LockNext]_lockVars PROVE HeldIsWritten'
  OBVIOUS
<1> USE Labels DEF LockTypeOK, HeldIsWritten, Goto
<1>1. ASSUME NEW p \in Process, Launch(p) \/ FindFile(p) \/ ReadPayload(p) \/ ProbePort(p)
                                 \/ CheckPid(p) \/ CheckAge(p) \/ Wait(p) \/ GiveUp(p)
      PROVE  HeldIsWritten'
  BY <1>1 DEF Launch, FindFile, ReadPayload, ProbePort, CheckPid, CheckAge, Wait, GiveUp
<1>2. ASSUME NEW p \in Process, Create(p) PROVE HeldIsWritten'
  BY <1>2 DEF Create
<1>3. ASSUME NEW p \in Process, WritePayload(p) PROVE HeldIsWritten'
  BY <1>3 DEF WritePayload
<1>4. ASSUME NEW p \in Process, Remove(p) \/ Release(p) PROVE HeldIsWritten'
  BY <1>4 DEF Remove, Release, NoFile
<1>5. ASSUME NEW p \in Process, Die(p) PROVE HeldIsWritten'
  BY <1>5 DEF Die
<1>6. ASSUME NEW p \in Gateway, Live(p) PROVE HeldIsWritten'
  BY <1>6 DEF Live, Listen, StartEnds, Signal, Stopped, Process
<1>7. CASE Age BY <1>7 DEF Age
<1>8. CASE UNCHANGED lockVars BY <1>8 DEF lockVars
<1> QED BY <1>1, <1>2, <1>3, <1>4, <1>5, <1>6, <1>7, <1>8 DEF LockNext, Acquire

LEMMA WaitsStep ==
  LockTypeOK /\ TrustedServe /\ HeldIsWritten /\ TrusterWaits /\ [LockNext]_lockVars => TrusterWaits'
<1> SUFFICES ASSUME LockTypeOK, TrustedServe, HeldIsWritten, TrusterWaits, [LockNext]_lockVars,
                    NEW q \in Process, file'.by \in trusted'[q]
             PROVE  /\ pc'[q] \notin {"unknown", "remove"}
                    /\ pc'[q] \in {"probe", "pid"} => seen'[q] = file'.by
  BY DEF TrusterWaits
<1>0. \A p \in Process : NoOne \notin trusted[p]
  BY ProcessAssumption DEF LockTypeOK
<1>1. \A p \in Process : \A h \in trusted[p] :
        h \in Serving /\ h \in Alive /\ h \in Process /\ pc[h] = "serving" /\ pc[h] \in Holding
  BY Labels DEF TrustedServe, Serving, InReach, Alive, Process
<1>01. \A p \in Process : trusted[p] # {} => InReach(p) # {}
  BY DEF TrustedServe
<1> USE <1>0, <1>1 DEF LockTypeOK, TrusterWaits, Goto
<1>2. ASSUME NEW p \in Process, Create(p)
      PROVE  /\ pc'[q] \notin {"unknown", "remove"}
             /\ pc'[q] \in {"probe", "pid"} => seen'[q] = file'.by
  BY <1>2 DEF Create
<1>3. ASSUME NEW p \in Process, ReadPayload(p)
      PROVE  /\ pc'[q] \notin {"unknown", "remove"}
             /\ pc'[q] \in {"probe", "pid"} => seen'[q] = file'.by
  BY <1>3 DEF ReadPayload, HeldIsWritten
<1>4. ASSUME NEW p \in Process, ProbePort(p) \/ CheckPid(p) \/ CheckAge(p)
      PROVE  /\ pc'[q] \notin {"unknown", "remove"}
             /\ pc'[q] \in {"probe", "pid"} => seen'[q] = file'.by
  BY <1>01, <1>4 DEF ProbePort, CheckPid, CheckAge
<1>5. ASSUME NEW p \in Process,
             Launch(p) \/ FindFile(p) \/ WritePayload(p) \/ Wait(p) \/ GiveUp(p)
      PROVE  /\ pc'[q] \notin {"unknown", "remove"}
             /\ pc'[q] \in {"probe", "pid"} => seen'[q] = file'.by
  BY <1>5, Labels DEF Launch, FindFile, WritePayload, Wait, GiveUp, Forget
<1>6. ASSUME NEW p \in Process, Remove(p) \/ Release(p)
      PROVE  /\ pc'[q] \notin {"unknown", "remove"}
             /\ pc'[q] \in {"probe", "pid"} => seen'[q] = file'.by
  BY <1>6 DEF Remove, Release, NoFile, Forget
<1>7. ASSUME NEW p \in Process, Die(p)
      PROVE  /\ pc'[q] \notin {"unknown", "remove"}
             /\ pc'[q] \in {"probe", "pid"} => seen'[q] = file'.by
  <2>1. CASE p \in Gateway BY <1>7, <2>1 DEF Die, Distrust
  <2>2. CASE p \notin Gateway BY <1>7, <2>2 DEF Die
  <2> QED BY <2>1, <2>2
<1>8. ASSUME NEW p \in Gateway, Live(p)
      PROVE  /\ pc'[q] \notin {"unknown", "remove"}
             /\ pc'[q] \in {"probe", "pid"} => seen'[q] = file'.by
  BY <1>8 DEF Live, Listen, StartEnds, Signal, Stopped, Distrust, Process
<1>9. CASE Age BY <1>9 DEF Age
<1>10. CASE UNCHANGED lockVars BY <1>10 DEF lockVars
<1> QED BY <1>2, <1>3, <1>4, <1>5, <1>6, <1>7, <1>8, <1>9, <1>10 DEF LockNext, Acquire

-----------------------------------------------------------------------------
\* Whatever the processes do, the invariant above holds.
THEOREM LockInductive == LockSpec => []LockIInv
<1>1. LockIInv /\ [LockNext]_lockVars => LockIInv'
  BY LockTypeStep, TrustedStep, WrittenStep, WaitsStep DEF LockIInv
<1> QED BY LockInitEstablishes, <1>1, PTL DEF LockSpec

\* Every variable keeps its type: the file is whole or not there at all, for
\* any interleaving of contenders, gateways and deaths.
THEOREM LockTypeCorrect == LockSpec => []LockTypeOK
<1>1. LockIInv => LockTypeOK BY DEF LockIInv
<1> QED BY LockInductive, <1>1, PTL

\* A contender never removes the lock of a gateway that has been serving all
\* through its attempt on the port it probes, and answered the probe:
\* acquireGatewayLock()'s checks stand any number of contenders at any ports and
\* addresses, although it removes the file by path.
THEOREM ServingKeepsLock == LockSpec => RemoveSparesServing
<1>1. LockIInv /\ [LockNext]_lockVars =>
        \A p \in Process : pc[p] = "remove" /\ file # file' => file.by \notin trusted[p]
  BY DEF LockIInv, TrusterWaits
<1>2. [][LockNext]_lockVars /\ []LockIInv =>
        [][\A p \in Process : pc[p] = "remove" /\ file # file' => file.by \notin trusted[p]]_lockVars
  BY <1>1, PTL
<1> QED BY LockInductive, <1>2, PTL DEF LockSpec, RemoveSparesServing

-----------------------------------------------------------------------------
(* AgentRunRelay. *)

Over == run \in {"done", "gone"}

\* The events 1 to n.
Events(n) == [i \in 1 .. n |-> i]

BufferIsPrefix == events = Events(Lesser(sent, MaxEvents))

\* Nothing is published before the run is there or after it is over.
PumpMatchesRun == /\ pump = "idle" <=> run = "none"
                  /\ Over => pump \in {"failing", "over"}

ReaderHasPrefix(s) == /\ cursor[s] <= Lesser(sent, MaxEvents)
                      /\ got[s] = Events(cursor[s])

ReaderIsCurrent(s) ==
  /\ reader[s] = "wait"  => s \in waiters /\ cursor[s] = Lesser(sent, MaxEvents) /\ run = "live"
  /\ reader[s] = "ended" => cursor[s] = Lesser(sent, MaxEvents) /\ Over
  /\ s \in waiters => reader[s] = "wait"

IInv == /\ TypeOK
        /\ BufferIsPrefix
        /\ PumpMatchesRun
        /\ \A s \in Reader : ReaderHasPrefix(s) /\ ReaderIsCurrent(s)

-----------------------------------------------------------------------------
LEMMA LesserIsNat == ASSUME NEW n \in Nat
                     PROVE  /\ Lesser(n, MaxEvents) \in Nat
                            /\ Lesser(n, MaxEvents) <= n
                            /\ Lesser(n, MaxEvents) <= Lesser(n + 1, MaxEvents)
                            /\ n < MaxEvents => Lesser(n + 1, MaxEvents) = n + 1 /\ Lesser(n, MaxEvents) = n
                            /\ n >= MaxEvents => Lesser(n + 1, MaxEvents) = Lesser(n, MaxEvents)
BY LimitAssumption DEF Lesser

LEMMA EventsIsSeq == ASSUME NEW n \in Nat
                     PROVE  /\ Events(n) \in Seq(Nat)
                            /\ Len(Events(n)) = n
                            /\ \A i \in 1 .. n : Events(n)[i] = i
BY DEF Events

LEMMA AppendEvent == ASSUME NEW n \in Nat
                     PROVE  Append(Events(n), n + 1) = Events(n + 1)
BY DEF Events

-----------------------------------------------------------------------------
\* Waking everyone who waits keeps the readers' types and what they were given.
LEMMA WakeKeepsTypes ==
  ASSUME TypeOK, WakeAll
  PROVE  /\ waiters' \subseteq Reader
         /\ reader' \in [Reader -> {"idle", "refused", "read", "wait", "ended"}]
         /\ cursor' \in [Reader -> Nat]
         /\ got' \in [Reader -> Seq(Nat)]
BY DEF TypeOK, WakeAll

\* A published event continues the buffer, or finds it full.
LEMMA StoreKeepsPrefix ==
  ASSUME TypeOK, BufferIsPrefix, Store
  PROVE  /\ sent' = sent + 1 /\ sent' \in Nat
         /\ events' \in Seq(Nat)
         /\ BufferIsPrefix'
<1> sent \in Nat /\ MaxEvents \in Nat BY LimitAssumption DEF TypeOK
<1> DEFINE m == Lesser(sent, MaxEvents)
<1>1. m \in Nat /\ Len(events) = m /\ events = Events(m)
  BY LesserIsNat, EventsIsSeq DEF BufferIsPrefix
<1>2. sent' = sent + 1 /\ sent' \in Nat BY DEF Store
<1>3. CASE sent < MaxEvents
  <2>1. m = sent /\ Lesser(sent + 1, MaxEvents) = sent + 1 BY <1>3, LesserIsNat
  <2>2. events' = Append(Events(sent), sent + 1) BY <1>1, <1>3, <2>1 DEF Store
  <2>3. events' = Events(sent + 1) BY <2>2, AppendEvent
  <2> QED BY <1>2, <2>1, <2>3, EventsIsSeq DEF BufferIsPrefix
<1>4. CASE sent >= MaxEvents
  <2>1. m = MaxEvents /\ Lesser(sent + 1, MaxEvents) = m BY <1>4, LesserIsNat DEF Lesser
  <2>2. events' = events BY <1>1, <1>4, <2>1 DEF Store
  <2> QED BY <1>1, <1>2, <2>1, <2>2, EventsIsSeq DEF BufferIsPrefix
<1> QED BY <1>3, <1>4

\* Publishing keeps what the readers have and leaves no one asleep.
LEMMA PublishKeepsReaders ==
  ASSUME TypeOK, BufferIsPrefix, ~Over,
         \A s \in Reader : ReaderHasPrefix(s) /\ ReaderIsCurrent(s),
         Publish
  PROVE  \A s \in Reader : ReaderHasPrefix(s)' /\ ReaderIsCurrent(s)'
<1> SUFFICES ASSUME NEW s \in Reader
             PROVE  ReaderHasPrefix(s)' /\ ReaderIsCurrent(s)'
  OBVIOUS
<1> sent \in Nat /\ MaxEvents \in Nat /\ cursor[s] \in Nat BY LimitAssumption DEF TypeOK
<1>1. sent' = sent + 1 /\ waiters' = {} /\ cursor' = cursor /\ got' = got
  BY DEF Publish, Store, WakeAll
<1>2. reader'[s] \notin {"wait", "ended"}
  BY DEF Publish, WakeAll, ReaderIsCurrent, TypeOK
<1>3. Lesser(sent, MaxEvents) <= Lesser(sent', MaxEvents) /\ Lesser(sent', MaxEvents) \in Nat
      /\ Lesser(sent, MaxEvents) \in Nat
  BY <1>1, LesserIsNat
<1>4. ReaderHasPrefix(s)'
  <2>1. cursor[s] <= Lesser(sent, MaxEvents) /\ got[s] = Events(cursor[s]) BY DEF ReaderHasPrefix
  <2>2. cursor'[s] <= Lesser(sent', MaxEvents) BY <1>1, <1>3, <2>1
  <2>3. got'[s] = Events(cursor'[s]) BY <1>1, <2>1
  <2> QED BY <2>2, <2>3 DEF ReaderHasPrefix
<1>5. ReaderIsCurrent(s)' BY <1>1, <1>2 DEF ReaderIsCurrent
<1> QED BY <1>4, <1>5

-----------------------------------------------------------------------------
LEMMA InitEstablishes == Init => IInv
<1> SUFFICES ASSUME Init PROVE IInv
  OBVIOUS
<1>1. TypeOK BY DEF Init, TypeOK
<1>2. Lesser(0, MaxEvents) = 0 BY LimitAssumption DEF Lesser
<1>3. Events(0) = <<>> BY DEF Events
<1>4. BufferIsPrefix BY <1>2, <1>3 DEF Init, BufferIsPrefix
<1>5. PumpMatchesRun BY DEF Init, PumpMatchesRun, Over
<1>6. ASSUME NEW s \in Reader PROVE ReaderHasPrefix(s) /\ ReaderIsCurrent(s)
  BY <1>2, <1>3 DEF Init, ReaderHasPrefix, ReaderIsCurrent
<1> QED BY <1>1, <1>4, <1>5, <1>6 DEF IInv

\* A step that touches neither the buffer nor the readers keeps what they have.
LEMMA EntryStepKeepsReaders ==
  ASSUME IInv, UNCHANGED <<sent, events, readers>>,
         run' = run \/ (Over /\ Over')
  PROVE  BufferIsPrefix' /\ \A s \in Reader : ReaderHasPrefix(s)' /\ ReaderIsCurrent(s)'
<1>1. BufferIsPrefix' BY DEF IInv, BufferIsPrefix, readers
<1>2. ASSUME NEW s \in Reader PROVE ReaderHasPrefix(s)' /\ ReaderIsCurrent(s)'
  <2>1. sent' = sent /\ reader' = reader /\ waiters' = waiters /\ cursor' = cursor /\ got' = got
    BY DEF readers
  <2>2. ReaderHasPrefix(s) /\ ReaderIsCurrent(s) BY <1>2 DEF IInv
  <2>3. ReaderHasPrefix(s)' BY <2>1, <2>2 DEF ReaderHasPrefix
  <2>4. ReaderIsCurrent(s)' BY <2>1, <2>2 DEF ReaderIsCurrent, Over
  <2> QED BY <2>3, <2>4
<1> QED BY <1>1, <1>2

\* A subscriber's own step.
LEMMA FollowKeeps == ASSUME IInv, NEW s \in Reader, Follow(s) PROVE IInv'
<1> DEFINE m == Lesser(sent, MaxEvents)
<1>0. sent \in Nat /\ m \in Nat /\ cursor[s] \in Nat /\ cursor[s] <= m
      /\ events = Events(m) /\ Len(events) = m /\ got[s] = Events(cursor[s])
      /\ \A i \in 1 .. m : events[i] = i
  BY LesserIsNat, EventsIsSeq DEF IInv, TypeOK, BufferIsPrefix, ReaderHasPrefix
<1> HIDE DEF m
<1>1. UNCHANGED <<pump, run, sent, events>> BY DEF Follow, Take, Sleep, End, entry
<1>2. BufferIsPrefix' /\ PumpMatchesRun'
  BY <1>1 DEF IInv, BufferIsPrefix, PumpMatchesRun, Over
<1>3. CASE Take(s)
  <2>1. cursor[s] < m /\ cursor[s] + 1 \in 1 .. m /\ reader[s] = "read" BY <1>0, <1>3 DEF Take
  <2>2. cursor' = [cursor EXCEPT ![s] = @ + 1] BY <1>3 DEF Take
  <2>3. got' = [got EXCEPT ![s] = Append(@, cursor[s] + 1)] BY <1>0, <1>3, <2>1 DEF Take
  <2>4. waiters' = waiters /\ reader' = reader BY <1>3 DEF Take
  <2>5. TypeOK' BY <1>0, <1>1, <2>2, <2>3, <2>4 DEF IInv, TypeOK
  <2>6. ReaderHasPrefix(s)'
    <3>1. cursor'[s] = cursor[s] + 1 BY <2>2 DEF IInv, TypeOK
    <3>2. got'[s] = Append(Events(cursor[s]), cursor[s] + 1) BY <1>0, <2>3 DEF IInv, TypeOK
    <3>3. got'[s] = Events(cursor'[s]) BY <1>0, <3>1, <3>2, AppendEvent
    <3>4. cursor'[s] <= m BY <1>0, <2>1, <3>1
    <3> QED BY <1>1, <3>3, <3>4 DEF ReaderHasPrefix, m
  <2>7. ASSUME NEW t \in Reader PROVE ReaderHasPrefix(t)' /\ ReaderIsCurrent(t)'
    <3>1. CASE t = s
      <4>1. ReaderIsCurrent(s)' BY <1>1, <2>1, <2>4 DEF IInv, ReaderIsCurrent
      <4> QED BY <2>6, <3>1, <4>1
    <3>2. CASE t # s
      <4>1. cursor'[t] = cursor[t] /\ got'[t] = got[t] /\ reader'[t] = reader[t]
        BY <2>2, <2>3, <2>4, <3>2 DEF IInv, TypeOK
      <4>2. ReaderHasPrefix(t) /\ ReaderIsCurrent(t) BY DEF IInv
      <4>3. ReaderHasPrefix(t)' BY <1>1, <4>1, <4>2 DEF ReaderHasPrefix
      <4>4. ReaderIsCurrent(t)' BY <1>1, <2>4, <4>1, <4>2 DEF ReaderIsCurrent, Over
      <4> QED BY <4>3, <4>4
    <3> QED BY <3>1, <3>2
  <2> QED BY <1>2, <2>5, <2>7 DEF IInv
<1>4. CASE Sleep(s) \/ End(s)
  <2>1. cursor[s] = m /\ UNCHANGED <<cursor, got>> BY <1>0, <1>4 DEF Sleep, End
  <2>2. \/ run = "live" /\ waiters' = waiters \cup {s} /\ reader' = [reader EXCEPT ![s] = "wait"]
        \/ Over /\ waiters' = waiters /\ reader' = [reader EXCEPT ![s] = "ended"] /\ reader[s] = "read"
    BY <1>4 DEF Sleep, End, Over
  <2>3. TypeOK' BY <1>1, <2>1, <2>2 DEF IInv, TypeOK
  <2>4. ASSUME NEW t \in Reader PROVE ReaderHasPrefix(t)' /\ ReaderIsCurrent(t)'
    <3>1. ReaderHasPrefix(t) /\ ReaderIsCurrent(t) BY DEF IInv
    <3>2. ReaderHasPrefix(t)' BY <1>1, <2>1, <3>1 DEF ReaderHasPrefix
    <3>3. CASE t = s
      <4>1. reader'[s] = IF run = "live" THEN "wait" ELSE "ended" BY <2>2 DEF IInv, TypeOK, Over
      <4>2. s \in waiters => reader[s] = "wait" BY <3>1, <3>3 DEF ReaderIsCurrent
      <4>3. cursor'[s] = Lesser(sent', MaxEvents) /\ run' = run BY <1>1, <2>1 DEF m
      <4> QED BY <2>2, <3>2, <3>3, <4>1, <4>2, <4>3 DEF ReaderIsCurrent, Over
    <3>4. CASE t # s
      <4>1. reader'[t] = reader[t] /\ (t \in waiters' <=> t \in waiters) BY <2>2, <3>4 DEF IInv, TypeOK
      <4>2. ReaderIsCurrent(t)' BY <1>1, <2>1, <3>1, <4>1 DEF ReaderIsCurrent, Over
      <4> QED BY <3>2, <4>2
    <3> QED BY <3>3, <3>4
  <2> QED BY <1>2, <2>3, <2>4 DEF IInv
<1> QED BY <1>3, <1>4 DEF Follow

\* A publishing step: the generator's place and the entry change beside it.
LEMMA PublishKeeps ==
  ASSUME IInv, ~Over, Publish,
         pump' \in {"accepted", "writing", "failing"}, run' \in {"live", "done"},
         run' = "done" => pump' = "failing"
  PROVE  IInv'
<1>1. sent' \in Nat /\ events' \in Seq(Nat) /\ BufferIsPrefix'
  BY StoreKeepsPrefix DEF IInv, Publish
<1>2. TypeOK' BY <1>1, WakeKeepsTypes DEF IInv, TypeOK, Publish
<1>3. PumpMatchesRun' BY DEF PumpMatchesRun, Over
<1>4. \A s \in Reader : ReaderHasPrefix(s)' /\ ReaderIsCurrent(s)'
  BY PublishKeepsReaders DEF IInv
<1> QED BY <1>1, <1>2, <1>3, <1>4 DEF IInv

LEMMA StepKeeps == IInv /\ [Next]_vars => IInv'
<1> SUFFICES ASSUME IInv, [Next]_vars PROVE IInv'
  OBVIOUS
<1>1. CASE Accept
  <2>1. ~Over BY <1>1 DEF Accept, IInv, PumpMatchesRun, Over
  <2> QED BY <1>1, <2>1, PublishKeeps DEF Accept
<1>2. CASE Emit
  <2>1. ~Over /\ run = "live" BY <1>2 DEF Emit, IInv, TypeOK, PumpMatchesRun, Over
  <2> QED BY <1>2, <2>1, PublishKeeps DEF Emit
<1>3. CASE StreamFails
  <2>1. ~Over BY <1>3 DEF StreamFails, IInv, PumpMatchesRun, Over
  <2> QED BY <1>3, <2>1, PublishKeeps DEF StreamFails
<1>4. CASE StreamEnds
  <2>1. ~Over BY <1>4 DEF StreamEnds, IInv, PumpMatchesRun, Over
  <2>2. TypeOK' BY <1>4, WakeKeepsTypes DEF StreamEnds, IInv, TypeOK
  <2>3. BufferIsPrefix' /\ PumpMatchesRun'
    BY <1>4 DEF StreamEnds, IInv, BufferIsPrefix, PumpMatchesRun, Over
  <2>4. ASSUME NEW s \in Reader PROVE ReaderHasPrefix(s)' /\ ReaderIsCurrent(s)'
    <3>1. ReaderHasPrefix(s) /\ ReaderIsCurrent(s) BY DEF IInv
    <3>2. cursor' = cursor /\ got' = got /\ sent' = sent /\ waiters' = {}
      BY <1>4 DEF StreamEnds, WakeAll
    <3>3. reader'[s] \notin {"wait", "ended"}
      BY <1>4, <2>1, <3>1 DEF StreamEnds, WakeAll, ReaderIsCurrent, IInv, TypeOK
    <3>4. ReaderHasPrefix(s)' BY <3>1, <3>2 DEF ReaderHasPrefix
    <3>5. ReaderIsCurrent(s)' BY <3>2, <3>3 DEF ReaderIsCurrent
    <3> QED BY <3>4, <3>5
  <2> QED BY <2>2, <2>3, <2>4 DEF IInv
<1>5. CASE Written \/ Prepared \/ PrepareFails \/ Expire \/ UNCHANGED vars
  <2>1. UNCHANGED <<sent, events, readers>> /\ (run' = run \/ (Over /\ Over'))
    BY <1>5 DEF Written, Prepared, PrepareFails, Expire, vars, entry, readers, Over
  <2>2. TypeOK'
    BY <1>5 DEF Written, Prepared, PrepareFails, Expire, vars, entry, readers, IInv, TypeOK
  <2>3. PumpMatchesRun'
    BY <1>5 DEF Written, Prepared, PrepareFails, Expire, vars, entry, IInv, PumpMatchesRun, Over
  <2> QED BY <2>1, <2>2, <2>3, EntryStepKeepsReaders DEF IInv
<1>6. ASSUME NEW s \in Reader, Resume(s) PROVE IInv'
  <2>1. UNCHANGED <<pump, run, sent, events, waiters, cursor, got>> BY <1>6 DEF Resume, entry
  <2>2. reader[s] = "idle"
        /\ \E w \in {"read", "refused"} : reader' = [reader EXCEPT ![s] = w]
    BY <1>6 DEF Resume
  <2>3. TypeOK' BY <2>1, <2>2 DEF IInv, TypeOK
  <2>4. BufferIsPrefix' /\ PumpMatchesRun'
    BY <2>1 DEF IInv, BufferIsPrefix, PumpMatchesRun, Over
  <2>5. ASSUME NEW t \in Reader PROVE ReaderHasPrefix(t)' /\ ReaderIsCurrent(t)'
    <3>1. ReaderHasPrefix(t) /\ ReaderIsCurrent(t) BY DEF IInv
    <3>2. ReaderHasPrefix(t)' BY <2>1, <3>1 DEF ReaderHasPrefix
    <3>3. ReaderIsCurrent(t)' BY <2>1, <2>2, <3>1 DEF IInv, TypeOK, ReaderIsCurrent, Over
    <3> QED BY <3>2, <3>3
  <2> QED BY <2>3, <2>4, <2>5 DEF IInv
<1>7. ASSUME NEW s \in Reader, Follow(s) PROVE IInv'
  BY <1>7, FollowKeeps
<1> QED BY <1>1, <1>2, <1>3, <1>4, <1>5, <1>6, <1>7 DEF Next

-----------------------------------------------------------------------------
(***************************************************************************)
(* The strengthened invariant holds in every behaviour of the relay: the   *)
(* buffer is the beginning of what was published, every subscriber has the *)
(* beginning of the buffer.                                                *)
(***************************************************************************)
THEOREM Inductive == Spec => []IInv
<1>1. Init => IInv BY InitEstablishes
<1>2. IInv /\ [Next]_vars => IInv' BY StepKeeps
<1> QED BY <1>1, <1>2, PTL DEF Spec

\* The relay's state keeps its type: a subscription never meets a forgotten run.
THEOREM TypeCorrect == Spec => []TypeOK
<1>1. IInv => TypeOK BY DEF IInv
<1> QED BY <1>1, Inductive, PTL

(***************************************************************************)
(* No wake-up of publish or complete is lost: who sleeps is among the      *)
(* waiters, has read all there is, and the run is not over.                *)
(***************************************************************************)
THEOREM NoLostWakeup == Spec => []SleepersAreUpToDate
<1>1. IInv => SleepersAreUpToDate
  <2> SUFFICES ASSUME IInv, NEW s \in Reader, reader[s] = "wait"
               PROVE  s \in waiters /\ cursor[s] = Len(events) /\ run = "live"
    BY DEF SleepersAreUpToDate
  <2>1. sent \in Nat /\ Len(events) = Lesser(sent, MaxEvents)
    BY LesserIsNat, EventsIsSeq DEF IInv, TypeOK, BufferIsPrefix
  <2> QED BY <2>1 DEF IInv, ReaderIsCurrent
<1> QED BY <1>1, Inductive, PTL

(***************************************************************************)
(* Every subscriber of subscribe is given the run's events from the first, *)
(* in order and without a gap, and all that the buffer holds when it ends. *)
(***************************************************************************)
THEOREM CompleteStream == Spec => []StreamIsComplete
<1>1. IInv => StreamIsComplete
  <2> SUFFICES ASSUME IInv, NEW s \in Reader
               PROVE  /\ got[s] = [i \in 1 .. cursor[s] |-> i]
                      /\ cursor[s] <= sent
                      /\ reader[s] = "ended" => cursor[s] = Lesser(sent, MaxEvents)
    BY DEF StreamIsComplete
  <2>1. sent \in Nat /\ cursor[s] \in Nat BY DEF IInv, TypeOK
  <2>2. ReaderHasPrefix(s) /\ ReaderIsCurrent(s) BY DEF IInv
  <2>3. Lesser(sent, MaxEvents) \in Nat /\ Lesser(sent, MaxEvents) <= sent BY <2>1, LesserIsNat
  <2>4. cursor[s] <= sent BY <2>1, <2>2, <2>3 DEF ReaderHasPrefix
  <2> QED BY <2>2, <2>4 DEF ReaderHasPrefix, ReaderIsCurrent, Events
<1> QED BY <1>1, Inductive, PTL
=============================================================================
