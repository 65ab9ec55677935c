----------------------------- MODULE TurnProofs -----------------------------
(***************************************************************************)
(* The two ways in which the gateway has the agent take a turn.            *)
(*                                                                         *)
(* The safety of HeartbeatWake, for any requests, configurations and texts *)
(* and any number of handler calls.  That no heartbeat repeats the last    *)
(* needs Memory, which says what stands for the text published but not yet *)
(* recorded.                                                               *)
(*                                                                         *)
(* The safety of AgentTurn, for any number of runs, models, retries and    *)
(* faults and any history that sanitizeMessages would let through.  That  *)
(* a run keeps the history and adds one turn to it needs TurnHeld, which   *)
(* says what the Agent holds at each place of the turn, also while an      *)
(* attempt that was too late still streams, ends or retries; and FileHeld, *)
(* which says the same of the file.  What the code computes from messages  *)
(* is proved of sequences of any length.                                   *)
(***************************************************************************)
EXTENDS HeartbeatWake, AgentTurn, FiniteSetTheorems, SequenceTheorems,
        WellFoundedInduction, TLAPS

-----------------------------------------------------------------------------
(* The heartbeat.                                                          *)

\* A text that was let through is remembered: by the call that is publishing
\* it, and afterwards in last.
Memory ==
  /\ \A h \in Handler : at[h] = "publish" => text[h] = saidText
  /\ saidTimes = 1 => \/ \E h \in Handler : at[h] = "publish"
                      \/ last = saidText /\ recent

IInv == TypeOK /\ OneAtATime /\ PendingHasTimer /\ Memory /\ NoRepeat

\* Init: nothing runs, nothing is pending and nothing was said.
LEMMA InitEstablishes == Init => IInv
<1> SUFFICES ASSUME Init PROVE IInv
  OBVIOUS
<1>1. TypeOK
  BY DEF Init, TypeOK
<1>2. OneAtATime
  BY DEF Init, OneAtATime, Active
<1>3. PendingHasTimer
  BY DEF Init, PendingHasTimer
<1>4. Memory /\ NoRepeat
  BY DEF Init, Memory, NoRepeat
<1> QED BY <1>1, <1>2, <1>3, <1>4 DEF IInv

\* The steps of the service and of the timer leave the calls' texts alone.
LEMMA ServiceStep ==
  ASSUME IInv,
         \/ \E c \in Config \cup {Off} : Start(c) \/ UpdateConfig(c)
         \/ \E q \in Request : MakeRequest(q)
         \/ Retry
  PROVE  IInv'
<1> USE DEF IInv
<1>1. UNCHANGED <<running, calls, memo>>
  BY DEF Start, UpdateConfig, MakeRequest, Retry, wake, calls, memo
<1>2. TypeOK'
  BY <1>1 DEF Start, UpdateConfig, MakeRequest, Retry, TypeOK, wake, calls, memo
<1>3. PendingHasTimer'
  BY DEF Start, UpdateConfig, MakeRequest, Retry, TypeOK, PendingHasTimer, wake
<1>4. OneAtATime' /\ Memory' /\ NoRepeat'
  BY <1>1 DEF OneAtATime, Active, Memory, NoRepeat, calls, memo
<1> QED BY <1>2, <1>3, <1>4

\* A call begins only while none is active, and becomes the only one.
LEMMA WakeStep ==
  ASSUME IInv, NEW h \in Handler, Wake(h)
  PROVE  IInv'
<1> USE DEF IInv
<1>1. \A i \in Handler : at[i] = "none"
  BY DEF Wake, OneAtATime, Active
<1>2. /\ at' = [at EXCEPT ![h] = IF config = Off THEN "end" ELSE "check"]
      /\ cfg' = [cfg EXCEPT ![h] = config]
      /\ timer' = FALSE /\ pending' = {} /\ running' = TRUE
      /\ UNCHANGED <<started, config, text, memo>>
  BY DEF Wake, Call
<1>3. TypeOK'
  BY <1>1, <1>2 DEF TypeOK, memo
<1>4. OneAtATime' /\ PendingHasTimer'
  BY <1>1, <1>2 DEF TypeOK, OneAtATime, Active, PendingHasTimer
<1>5. Memory' /\ NoRepeat'
  BY <1>1, <1>2 DEF TypeOK, Memory, NoRepeat, memo
<1> QED BY <1>3, <1>4, <1>5

\* The active call goes on, from one await to another.
LEMMA WorkStep ==
  ASSUME IInv, NEW h \in Handler, Work(h)
  PROVE  IInv'
<1> USE DEF IInv
<1>1. at[h] # "none" /\ running /\ \A i \in Handler : i # h => at[i] = "none"
  BY DEF Work, Check, Silence, Speak, Record, End, OneAtATime, Active
<1>2. CASE \E goOn \in BOOLEAN : Check(h, goOn)
  <2>1. PICK next \in {"agent", "end"} : at' = [at EXCEPT ![h] = next]
    BY <1>2 DEF Check
  <2>2. UNCHANGED <<started, config, wake, cfg, text, memo>> /\ at[h] = "check"
    BY <1>2 DEF Check
  <2> QED BY <1>1, <2>1, <2>2 DEF TypeOK, OneAtATime, Active, PendingHasTimer,
                                  Memory, NoRepeat, wake, memo
<1>3. CASE Silence(h)
  BY <1>1, <1>3 DEF Silence, TypeOK, OneAtATime, Active, PendingHasTimer,
                    Memory, NoRepeat, wake, memo
<1>4. CASE \E t \in Text : Speak(h, t)
  <2>1. PICK t \in Text : Speak(h, t)
    BY <1>4
  <2>2. at[h] = "agent" /\ UNCHANGED <<started, config, wake, cfg>>
    BY <2>1 DEF Speak
  <2>3. PICK next \in {"publish", "end"} : at' = [at EXCEPT ![h] = next]
    BY <2>1 DEF Speak
  <2>4. OneAtATime' /\ PendingHasTimer'
    BY <1>1, <2>2, <2>3 DEF TypeOK, OneAtATime, Active, PendingHasTimer, wake
  <2>5. TypeOK'
    <3>1. saidText' \in Text \cup {NoText} /\ saidTimes' \in Nat
      BY <2>1 DEF Speak, Said, TypeOK, memo
    <3>2. UNCHANGED <<last, recent>> \/ (last' = t /\ recent' = TRUE)
      BY <2>1 DEF Speak, memo
    <3>3. last' \in Text \cup {NoText} /\ recent' \in BOOLEAN
      BY <3>2 DEF TypeOK
    <3>4. text' \in [Handler -> Text \cup {NoText}]
      BY <2>1 DEF Speak, TypeOK
    <3> QED BY <2>2, <2>3, <3>1, <3>3, <3>4 DEF TypeOK, wake
  <2>6. ~IsDuplicate(t) => (t = saidText => saidTimes = 0)
    BY <1>1, <2>2 DEF IsDuplicate, TypeOK, Memory, NoRepeat
  <2>7. CASE IsDuplicate(t)
    <3>1. at' = [at EXCEPT ![h] = "end"] /\ UNCHANGED <<text, memo>>
      BY <2>1, <2>7 DEF Speak
    <3>2. Memory' /\ NoRepeat'
      BY <1>1, <2>2, <3>1 DEF TypeOK, Memory, NoRepeat, memo
    <3> QED BY <2>4, <2>5, <3>2
  <2>8. CASE ~IsDuplicate(t)
    <3>1. saidText' = t /\ saidTimes' = 1
      BY <2>1, <2>6, <2>8 DEF Speak, Said, TypeOK
    <3>2. NoRepeat'
      BY <3>1 DEF NoRepeat
    <3>3. Memory'
      BY <1>1, <2>1, <2>2, <2>8, <3>1 DEF Speak, TypeOK, Memory
    <3> QED BY <2>4, <2>5, <3>2, <3>3
  <2> QED BY <2>7, <2>8
<1>5. CASE Record(h)
  BY <1>1, <1>5 DEF Record, TypeOK, OneAtATime, Active, PendingHasTimer,
                    Memory, NoRepeat, wake, memo
<1>6. CASE End(h)
  BY <1>1, <1>6 DEF End, TypeOK, OneAtATime, Active, PendingHasTimer,
                    Memory, NoRepeat, wake, memo
<1> QED BY <1>2, <1>3, <1>4, <1>5, <1>6 DEF Work

\* When the window of the last text closes, that text may be said again; one
\* that is being published now is another.
LEMMA ExpireStep ==
  ASSUME IInv, Expire
  PROVE  IInv'
<1> USE DEF IInv
<1>1. UNCHANGED <<started, config, wake, calls, last, saidText>> /\ recent' = FALSE
  BY DEF Expire
<1>2. saidTimes' = IF saidText = last THEN 0 ELSE saidTimes
  BY DEF Expire
<1>3. TypeOK'
  BY <1>1, <1>2 DEF TypeOK, wake, calls
<1>4. OneAtATime' /\ PendingHasTimer'
  BY <1>1 DEF OneAtATime, Active, PendingHasTimer, wake, calls
<1>5. Memory' /\ NoRepeat'
  BY <1>1, <1>2 DEF TypeOK, Memory, NoRepeat, calls
<1> QED BY <1>3, <1>4, <1>5

\* The strengthened invariant is inductive.
THEOREM Inductive == Safe => []IInv
<1>1. Init => IInv
  BY InitEstablishes
<1>2. IInv /\ [Next]_vars => IInv'
  <2> SUFFICES ASSUME IInv, [Next]_vars PROVE IInv'
    OBVIOUS
  <2>1. CASE UNCHANGED vars
    BY <2>1 DEF IInv, TypeOK, OneAtATime, Active, PendingHasTimer, Memory,
                NoRepeat, vars, wake, calls, memo
  <2>2. CASE Next
    BY <2>2, ServiceStep, WakeStep, WorkStep, ExpireStep DEF Next
  <2> QED BY <2>1, <2>2
<1> QED BY <1>1, <1>2, PTL DEF Safe

\* The state of the heartbeat keeps its type, and a call that got past its
\* first check has an enabled configuration.
THEOREM TypeCorrect == Safe => []TypeOK
  BY Inductive, PTL DEF IInv

\* Heartbeats never overlap, whatever is requested and reloaded meanwhile.
THEOREM SafeOneAtATime == Safe => []OneAtATime
  BY Inductive, PTL DEF IInv

\* While reasons are pending a timer is set: no request is forgotten.
THEOREM SafePendingHasTimer == Safe => []PendingHasTimer
  BY Inductive, PTL DEF IInv

\* No heartbeat repeats the one before it within 24 hours.
THEOREM SafeNoRepeat == Safe => []NoRepeat
  BY Inductive, PTL DEF IInv

-----------------------------------------------------------------------------
(* The turn of the web chat: the invariant.                                *)

\* How far a run has come, by its generator and its driver.
Phase(r) ==
  /\ r > latest => gen[r] = "idle"
  /\ gen[r] \in {"idle", "accepted", "append", "saving", "load", "replace", "ready"} => drv[r] = "off"
  /\ gen[r] = "stream" => drv[r] \in {"next", "race", "idle", "idled"}
  /\ gen[r] \in {"persist", "write", "writing", "ended"} /\ r \notin signal => drv[r] \in {"over", "failed"}

\* A turn that has not begun has no attempts, and one that has tries its models in order.
Untried(r) == \A i \in 1 .. Models :
  \/ drv[r] = "off"
  \/ drv[r] = "next" /\ i >= model[r]
  \/ drv[r] \in {"race", "idle", "idled"} /\ i > model[r]
  => attempt[<<r, i>>] = "off"

\* The attempt whose stream runs waits for it.
StreamOwned == Busy => attempt[<<stream.run, stream.model>>] = "stream"

Phases == (\A r \in Run : Phase(r) /\ Untried(r)) /\ StreamOwned

\* Nothing of another run is under way.
Lonely == /\ latest \in Run /\ gen[latest] # "idle"
          /\ \A r \in Run : r # latest => Settled(r)

\* What the turn starts from, what is added to it, and what there can be of a turn.
Loaded     == {base, WithoutEarly(base)}
Asked(h)   == Append(h, Msg(latest, "user"))
Then(s, k) == Append(s, Msg(latest, k))
Saying(s)  == {Then(s, k) : k \in AssistantKind}
Shapes(h)  == {h, Asked(h)} \cup Saying(h) \cup Saying(Asked(h))

Undisturbed == latest \notin signal /\ ~late

\* Before the turn is saved the Agent holds h and at most one question with one answer,
\* and what a rollback or a retry would leave of that begins with h again.  An answer
\* right after h comes only of a stale attempt that streams after a rollback, and no
\* attempt is rolled back under a stream unless h holds no answer to mistake for its own.
HoldsTurn(h) ==
  /\ agent \in Shapes(h)
  /\ Busy => agent \in {h, Asked(h)}
  /\ \/ Busy /\ agent = h
     \/ agent \in Saying(h)
     \/ drv[latest] = "race" /\ attempt[Current(latest)] = "threw"
     => LastAssistant(h) = "none"
  /\ drv[latest] \in {"off", "next"} => agent = h
  /\ drv[latest] \in {"race", "idle", "idled"} => before[latest] = Len(h)
  /\ drv[latest] = "idle" => Busy /\ stream.aborted
  /\ drv[latest] = "idled" =>
       ~Busy /\ (LastAssistant(agent) # "transient" \/ \A t \in Attempt : ~Due(t))

\* Without a timer or an abort there is one attempt at a time.
OneAttempt(h) ==
  /\ ~stream.aborted
  /\ drv[latest] \notin {"idle", "idled"}
  /\ \A i \in 1 .. Models :
       attempt[<<latest, i>>] # "off" => drv[latest] = "race" /\ model[latest] = i
  /\ drv[latest] = "race" =>
       LET a == attempt[Current(latest)]
       IN  \/ a = "stream" /\ agent = Asked(h)
           \/ /\ a \in {"ended", "retry", "finished"}
              /\ \E k \in {"answer", "error", "transient"} : agent = Then(Asked(h), k)
  /\ drv[latest] = "over" => agent = Then(Asked(h), "answer")

TurnHeld == gen[latest] \in {"ready", "stream", "persist"} =>
  \E h \in Loaded : HoldsTurn(h) /\ (Undisturbed => OneAttempt(h))

\* What is written in the end.
Ended(ms) == \E h \in Loaded :
  /\ ms \in {h, Asked(h)} \cup {Then(s, k) : s \in {h, Asked(h)}, k \in {"answer", "partial"}}
  /\ Undisturbed /\ drv[latest] = "over" => ms = Then(Asked(h), "answer")

EarlySaved == {base, Then(base, "early")}

FileHeld ==
  /\ gen[latest] \notin {"ended", "dead"} => saves = "whole"
  /\ gen[latest] \in {"accepted", "append"} => file = base
  /\ gen[latest] \in {"load", "replace", "ready", "stream", "persist", "write"} => file \in EarlySaved
  /\ gen[latest] = "append" => buf[latest] = base
  /\ gen[latest] = "saving" => buf[latest] \in EarlySaved
  /\ gen[latest] = "replace" => buf[latest] \in EarlySaved
  /\ gen[latest] \in {"write", "writing"} => Ended(buf[latest])
  /\ gen[latest] = "ended" => IF saves = "skipped" THEN file \in EarlySaved ELSE Ended(file)
  /\ gen[latest] = "dead" => IsPrefix(WithoutEarly(base), file)

\* A torn save leaves nothing to say of what the run then loads and saves.
TurnIInv ==
  /\ TurnTypeOK
  /\ Phases
  /\ alone => Lonely /\ (saves # "torn" => TurnHeld /\ FileHeld)

-----------------------------------------------------------------------------
(* Sequences of messages.                                                  *)

\* A set of numbers that is not empty has a least one.
LEMMA LeastNumber ==
  ASSUME NEW T, T \subseteq Nat, T # {}
  PROVE  \E n \in T : \A k \in T : n <= k
<1> DEFINE Less == {p \in Nat \X Nat : p[1] < p[2]}
<1>1. IsWellFoundedOn(Less, Nat)
  BY NatLessThanWellFounded DEF OpToRel
<1> HIDE DEF Less
<1>2. PICK n \in T : \A k \in T : <<k, n>> \notin Less
  BY <1>1, WFMin
<1>3. ASSUME NEW k \in T PROVE n <= k
  <2>1. k \in Nat /\ n \in Nat
    OBVIOUS
  <2>2. CASE k < n
    <3> DEFINE p == <<k, n>>
    <3>1. p \in Nat \X Nat /\ p[1] < p[2]
      BY <2>1, <2>2
    <3>2. p \in Less
      BY <3>1 DEF Less
    <3> QED BY <1>2, <3>2
  <2> QED BY <2>1, <2>2
<1> QED BY <1>3

\* Max, of the community modules, is the greatest element.
LEMMA MaxOfNumbers ==
  ASSUME NEW n \in Nat, NEW S, S \subseteq 1 .. n, S # {}
  PROVE  Max(S) \in S /\ \A k \in S : k <= Max(S)
<1> DEFINE Bounds == {b \in Nat : \A k \in S : k <= b}
<1>1. PICK b \in Bounds : \A c \in Bounds : b <= c
  <2>1. n \in Bounds /\ Bounds \subseteq Nat
    OBVIOUS
  <2> QED BY <2>1, LeastNumber
<1>2. b \in S
  <2> SUFFICES ASSUME b \notin S PROVE FALSE
    OBVIOUS
  <2>1. PICK k \in S : TRUE
    OBVIOUS
  <2>2. b - 1 \in Bounds
    BY <1>1, <2>1
  <2> QED BY <1>1, <2>2
<1>3. \E x \in S : \A y \in S : x >= y
  BY <1>1, <1>2
<1>4. Max(S) \in S /\ \A y \in S : Max(S) >= y
  BY <1>3 DEF Max
<1> QED BY <1>4

\* What the two kinds of messages have in common, and what Msg makes.
LEMMA Messages ==
  /\ Saveable \subseteq Message
  /\ \A r \in Run, k \in UserKind \cup AssistantKind :
       /\ Msg(r, k) \in Message /\ Msg(r, k).kind = k /\ Msg(r, k).by = r
       /\ k \in SavedKind => Msg(r, k) \in Saveable
  /\ \A m \in Message : m.kind \in UserKind \cup AssistantKind
  /\ \A m \in Saveable : m.kind \in SavedKind
  /\ \A m \in Message : m.kind \in SavedKind => m \in Saveable
  /\ \A s \in Seq(Saveable) : s \in Seq(Message)
<1>1. Saveable \subseteq Message
  BY DEF Saveable, Message, SavedKind, AssistantKind
<1>2. \A r \in Run, k \in UserKind \cup AssistantKind :
       /\ Msg(r, k) \in Message /\ Msg(r, k).kind = k /\ Msg(r, k).by = r
       /\ k \in SavedKind => Msg(r, k) \in Saveable
  BY DEF Saveable, Message, Msg
<1>3. /\ \A m \in Message : m.kind \in UserKind \cup AssistantKind
      /\ \A m \in Saveable : m.kind \in SavedKind
      /\ \A m \in Message : m.kind \in SavedKind => m \in Saveable
  BY DEF Saveable, Message
<1> QED BY <1>1, <1>2, <1>3, SeqMonotonic

\* The kinds of messages overlap in what an assistant's message may be saved as.
LEMMA Kinds ==
  /\ UserKind \cap AssistantKind = {}
  /\ SavedKind \cap AssistantKind = {"answer", "partial"}
  /\ SavedKind \cap {"error", "transient", "empty"} = {}
  /\ "none" \notin UserKind \cup AssistantKind
  /\ UserKind \subseteq SavedKind
BY DEF UserKind, AssistantKind, SavedKind

\* LastKind, of nothing, of something and of what was just appended.
LEMMA LastKindIs ==
  /\ LastKind(<<>>) = "none"
  /\ \A s \in Seq(Message) : s # <<>> => Len(s) \in 1 .. Len(s) /\ LastKind(s) = s[Len(s)].kind
  /\ \A s \in Seq(Message), m \in Message : LastKind(Append(s, m)) = m.kind
<1>1. LastKind(<<>>) = "none"
  BY DEF LastKind
<1>2. ASSUME NEW s \in Seq(Message), s # <<>>
      PROVE  Len(s) \in 1 .. Len(s) /\ LastKind(s) = s[Len(s)].kind
  BY <1>2, EmptySeq DEF LastKind, Last
<1>3. ASSUME NEW s \in Seq(Message), NEW m \in Message
      PROVE  LastKind(Append(s, m)) = m.kind
  BY AppendProperties DEF LastKind, Last
<1> QED BY <1>1, <1>2, <1>3

\* getLastAssistantMessage looks at the last message first.
LEMMA LastAssistantOfAppend ==
  ASSUME NEW s \in Seq(Message), NEW m \in Message
  PROVE  LastAssistant(Append(s, m)) =
           IF m.kind \in AssistantKind THEN m.kind ELSE LastAssistant(s)
<1> DEFINE t == Append(s, m)
           n == Len(s) + 1
           Of(q) == {i \in 1 .. Len(q) : q[i].kind \in AssistantKind}
<1>1. /\ Len(t) = n /\ n \in Nat /\ t[n] = m
      /\ \A i \in 1 .. Len(s) : t[i] = s[i]
  BY AppendProperties
<1>2. LastAssistant(t) = IF Of(t) = {} THEN "none" ELSE t[Max(Of(t))].kind
  BY DEF LastAssistant
<1>3. LastAssistant(s) = IF Of(s) = {} THEN "none" ELSE s[Max(Of(s))].kind
  BY DEF LastAssistant
<1> HIDE DEF t
<1>4. CASE m.kind \in AssistantKind
  <2>1. n \in Of(t) /\ Of(t) \subseteq 1 .. n
    BY <1>1, <1>4
  <2>2. Max(Of(t)) \in Of(t) /\ n <= Max(Of(t))
    BY <1>1, <2>1, MaxOfNumbers
  <2>3. Max(Of(t)) = n
    BY <1>1, <2>1, <2>2
  <2> QED BY <1>1, <1>2, <1>4, <2>1, <2>3 DEF t
<1>5. CASE m.kind \notin AssistantKind
  <2>1. Of(t) = Of(s)
    BY <1>1, <1>5
  <2>2. CASE Of(s) = {}
    BY <1>2, <1>3, <1>5, <2>1, <2>2 DEF t
  <2>3. CASE Of(s) # {}
    <3>1. Max(Of(s)) \in Of(s)
      <4>1. Len(s) \in Nat /\ Of(s) \subseteq 1 .. Len(s)
        OBVIOUS
      <4> HIDE DEF Of
      <4> QED BY <2>3, <4>1, MaxOfNumbers
    <3>2. t[Max(Of(s))] = s[Max(Of(s))]
      BY <1>1, <3>1
    <3> QED BY <1>2, <1>3, <1>5, <2>1, <2>3, <3>2 DEF t
  <2> QED BY <2>2, <2>3
<1> QED BY <1>4, <1>5

\* What getLastAssistantMessage can find, and in a transcript that was saved.
LEMMA LastAssistantIs ==
  ASSUME NEW s \in Seq(Message)
  PROVE  /\ LastAssistant(s) \in AssistantKind \cup {"none"}
         /\ s \in Seq(Saveable) => LastAssistant(s) \in {"none", "answer", "partial"}
         /\ LastAssistant(s) = "none" => LastKind(s) \notin AssistantKind
<1> DEFINE Theirs == {i \in 1 .. Len(s) : s[i].kind \in AssistantKind}
<1>1. LastAssistant(s) = IF Theirs = {} THEN "none" ELSE s[Max(Theirs)].kind
  BY DEF LastAssistant
<1>2. CASE Theirs = {}
  <2>1. LastKind(s) \notin AssistantKind
    BY <1>2, LastKindIs, Kinds
  <2> QED BY <1>1, <1>2, <2>1
<1>3. CASE Theirs # {}
  <2>1. Max(Theirs) \in Theirs
    BY <1>3, MaxOfNumbers
  <2>2. s[Max(Theirs)].kind \in AssistantKind
    BY <2>1
  <2>3. ASSUME s \in Seq(Saveable) PROVE s[Max(Theirs)].kind \in {"answer", "partial"}
    <3>1. s[Max(Theirs)] \in Saveable
      BY <2>1, <2>3, ElementOfSeq
    <3> QED BY <2>2, <3>1, Messages, Kinds
  <2> QED BY <1>1, <1>3, <2>2, <2>3, Kinds
<1> QED BY <1>2, <1>3

\* One bad message at the end of a transcript with none is dropped, and no more.
LEMMA TrimDrops ==
  ASSUME NEW s \in Seq(Message), NEW Bad, LastKind(s) \notin Bad
  PROVE  /\ Trim(s, Bad) = s
         /\ \A m \in Message : m.kind \in Bad => Trim(Append(s, m), Bad) = s
<1> DEFINE Good(q) == {i \in 1 .. Len(q) : q[i].kind \notin Bad}
<1>1. ASSUME NEW q \in Seq(Message), Len(s) <= Len(q),
             \A i \in 1 .. Len(s) : q[i] = s[i],
             \A i \in 1 .. Len(q) : i > Len(s) => q[i].kind \in Bad
      PROVE  Trim(q, Bad) = s
  <2>1. Good(q) \subseteq 1 .. Len(s)
    BY <1>1
  <2>2. Trim(q, Bad) = SubSeq(q, 1, IF Good(q) = {} THEN 0 ELSE Max(Good(q)))
    BY DEF Trim
  <2>3. CASE s = <<>>
    <3>1. Good(q) = {}
      BY <2>1, <2>3
    <3> QED BY <2>2, <2>3, <3>1, SubSeqEmpty
  <2>4. CASE s # <<>>
    <3>1. Len(s) \in Good(q)
      BY <1>1, <2>4, LastKindIs
    <3>2. Max(Good(q)) \in Good(q) /\ Len(s) <= Max(Good(q))
      <4>1. Len(s) \in Nat
        OBVIOUS
      <4> HIDE DEF Good
      <4> QED BY <2>1, <3>1, <4>1, MaxOfNumbers
    <3>3. Max(Good(q)) = Len(s)
      BY <2>1, <3>1, <3>2
    <3>4. Trim(q, Bad) = SubSeq(q, 1, Len(s))
      BY <2>2, <3>1, <3>3
    <3>5. \A i \in 1 .. Len(s) : q[i] \in Message
      BY <1>1
    <3>6. /\ SubSeq(q, 1, Len(s)) \in Seq(Message)
          /\ Len(SubSeq(q, 1, Len(s))) = Len(s)
          /\ \A i \in 1 .. Len(s) : SubSeq(q, 1, Len(s))[i] = q[i]
      BY <3>5, <2>4, EmptySeq, SubSeqProperties
    <3> QED BY <1>1, <3>4, <3>6, SeqEqual
  <2> QED BY <2>3, <2>4
<1>2. Trim(s, Bad) = s
  BY <1>1
<1>3. ASSUME NEW m \in Message, m.kind \in Bad PROVE Trim(Append(s, m), Bad) = s
  <2> DEFINE q == Append(s, m)
  <2>1. /\ q \in Seq(Message) /\ Len(q) = Len(s) + 1 /\ q[Len(s) + 1] = m
        /\ \A i \in 1 .. Len(s) : q[i] = s[i]
    BY AppendProperties
  <2> HIDE DEF q
  <2>2. \A i \in 1 .. Len(q) : i > Len(s) => q[i].kind \in Bad
    BY <1>3, <2>1
  <2>3. Trim(q, Bad) = s
    BY <1>1, <2>1, <2>2
  <2> QED BY <2>3 DEF q
<1> QED BY <1>2, <1>3

\* What is left of a transcript is one.
LEMMA TrimType ==
  ASSUME NEW s \in Seq(Message), NEW Bad
  PROVE  Trim(s, Bad) \in Seq(Message)
<1> DEFINE Good == {i \in 1 .. Len(s) : s[i].kind \notin Bad}
           n == IF Good = {} THEN 0 ELSE Max(Good)
<1>1. n \in 0 .. Len(s)
  <2>1. Len(s) \in Nat /\ Good \subseteq 1 .. Len(s)
    OBVIOUS
  <2> HIDE DEF Good
  <2>2. CASE Good = {}
    BY <2>1, <2>2
  <2>3. CASE Good # {}
    <3>1. Max(Good) \in 1 .. Len(s)
      BY <2>1, <2>3, MaxOfNumbers
    <3> QED BY <2>3, <3>1
  <2> QED BY <2>2, <2>3
<1>2. Trim(s, Bad) = SubSeq(s, 1, n)
  BY DEF Trim
<1> HIDE DEF n
<1>3. \A i \in 1 .. n : s[i] \in Message
  BY <1>1
<1> QED BY <1>1, <1>2, <1>3, SubSeqProperties

\* The first n numbers and their subsets are finite.
LEMMA FirstNumbers ==
  ASSUME NEW n \in Nat
  PROVE  /\ IsFiniteSet(1 .. n) /\ Cardinality(1 .. n) = n
         /\ \A K \in SUBSET (1 .. n) : IsFiniteSet(K) /\ Cardinality(K) \in Nat
<1>1. IsFiniteSet(1 .. n)
  BY FS_Interval
<1>2. Cardinality(1 .. n) = IF 1 > n THEN 0 ELSE n - 1 + 1
  BY FS_Interval
<1>3. ASSUME NEW K \in SUBSET (1 .. n) PROVE IsFiniteSet(K) /\ Cardinality(K) \in Nat
  BY <1>1, FS_Subset, FS_CardinalityType
<1> QED BY <1>1, <1>2, <1>3

\* In a finite set of numbers each rank is some element's.
LEMMA Ranks ==
  ASSUME NEW n \in Nat, NEW K, K \subseteq 1 .. n, NEW j \in 1 .. Cardinality(K)
  PROVE  \E i \in K : Rank(K, i) = j
<1> DEFINE UpTo(i) == {k \in K : k <= i}
           Reached == {i \in Nat : j <= Cardinality(UpTo(i))}
<1>0. \A k \in K : k \in Nat /\ 1 <= k /\ k <= n
  OBVIOUS
<1>1. IsFiniteSet(K) /\ Cardinality(K) \in Nat
  BY FirstNumbers
<1>2. ASSUME NEW i \in Nat
      PROVE  IsFiniteSet(UpTo(i)) /\ Cardinality(UpTo(i)) \in Nat
  <2>1. UpTo(i) \in SUBSET K
    OBVIOUS
  <2> QED BY <1>1, <2>1, FS_Subset, FS_CardinalityType
<1>3. UpTo(n) = K /\ UpTo(0) = {}
  <2> HIDE DEF Reached
  <2>1. \A k : k \in UpTo(n) <=> k \in K
    BY <1>0
  <2>2. ASSUME NEW k \in UpTo(0) PROVE FALSE
    <3>1. k \in K /\ k <= 0
      OBVIOUS
    <3> HIDE DEF UpTo
    <3> QED BY <1>0, <3>1
  <2> HIDE DEF UpTo
  <2> QED BY <2>1, <2>2
<1>4. ASSUME NEW i \in Nat
      PROVE  /\ i + 1 \in K => UpTo(i + 1) = UpTo(i) \cup {i + 1}
             /\ i + 1 \notin K => UpTo(i + 1) = UpTo(i)
  <2> HIDE DEF Reached
  <2>1. ASSUME NEW k PROVE k \in UpTo(i + 1) <=> k \in UpTo(i) \/ (k = i + 1 /\ k \in K)
    <3>1. CASE k \notin K
      BY <3>1
    <3>2. CASE k \in K
      <4>1. k \in Nat
        BY <1>0, <3>2
      <4>2. k <= i + 1 <=> k <= i \/ k = i + 1
        BY <1>4, <4>1
      <4> QED BY <3>2, <4>2
    <3> QED BY <3>1, <3>2
  <2> HIDE DEF UpTo
  <2> QED BY <2>1
<1>6. n \in Reached /\ Reached \subseteq Nat
  BY <1>3
<1> HIDE DEF UpTo
<1>7. PICK i \in Reached : \A k \in Reached : i <= k
  <2> HIDE DEF Reached
  <2> QED BY <1>6, LeastNumber
<1>8. i # 0
  BY <1>3, <1>7, FS_EmptySet
<1>9. i - 1 \in Nat /\ Cardinality(UpTo(i - 1)) < j
  BY <1>2, <1>7, <1>8
<1>10. i \in K /\ Cardinality(UpTo(i)) = j
  <2>0. i \in Nat /\ (i - 1) + 1 = i /\ j <= Cardinality(UpTo(i))
    BY <1>7
  <2>1. /\ i \in K => UpTo(i) = UpTo(i - 1) \cup {i}
        /\ i \notin K => UpTo(i) = UpTo(i - 1)
    BY <1>4, <1>9, <2>0
  <2>2. i \notin UpTo(i - 1)
    BY <2>0 DEF UpTo
  <2>3. Cardinality(UpTo(i - 1) \cup {i}) = Cardinality(UpTo(i - 1)) + 1
    BY <1>2, <1>9, <2>2, FS_AddElement
  <2>4. i \in K
    BY <1>9, <2>0, <2>1, <1>2
  <2>5. Cardinality(UpTo(i)) = Cardinality(UpTo(i - 1)) + 1
    BY <2>1, <2>3, <2>4
  <2>6. Cardinality(UpTo(i - 1)) \in Nat
    BY <1>2, <1>9
  <2> QED BY <1>9, <2>0, <2>4, <2>5, <2>6
<1> QED BY <1>10 DEF UpTo, Rank

\* sanitizeMessages leaves only what may be saved.
LEMMA SanitizeType ==
  ASSUME NEW s \in Seq(Message)
  PROVE  Sanitize(s) \in Seq(Saveable)
<1> DEFINE Kept   == {i \in 1 .. Len(s) : s[i].kind \in SavedKind}
           Nth(n) == CHOOSE i \in Kept : Rank(Kept, i) = n
<1>1. Sanitize(s) = [n \in 1 .. Cardinality(Kept) |-> s[Nth(n)]]
  BY DEF Sanitize
<1>2. Len(s) \in Nat /\ Kept \subseteq 1 .. Len(s)
  OBVIOUS
<1>3. \A i \in Kept : s[i] \in Saveable
  BY Messages
<1> HIDE DEF Kept
<1>4. Cardinality(Kept) \in Nat
  BY <1>2, FirstNumbers
<1>5. ASSUME NEW n \in 1 .. Cardinality(Kept) PROVE s[Nth(n)] \in Saveable
  <2>1. \E i \in Kept : Rank(Kept, i) = n
    <3> HIDE DEF Nth
    <3> QED BY <1>2, Ranks
  <2>2. Nth(n) \in Kept
    BY <2>1
  <2> QED BY <1>3, <2>2
<1> HIDE DEF Nth
<1>6. [n \in 1 .. Cardinality(Kept) |-> s[Nth(n)]] \in [1 .. Cardinality(Kept) -> Saveable]
  BY <1>5
<1> QED BY <1>1, <1>4, <1>6, SeqDef

\* sanitizeMessages keeps what was saved, and drops an error that follows it.
LEMMA SanitizeDrops ==
  ASSUME NEW s \in Seq(Saveable)
  PROVE  /\ Sanitize(s) = s
         /\ \A m \in Message : m.kind \notin SavedKind => Sanitize(Append(s, m)) = s
<1> DEFINE n == Len(s)
<1>0. n \in Nat /\ s \in Seq(Message)
  BY Messages
<1>1. ASSUME NEW q \in Seq(Message), n <= Len(q),
             \A i \in 1 .. n : q[i] = s[i],
             \A i \in 1 .. Len(q) : i > n => q[i].kind \notin SavedKind
      PROVE  Sanitize(q) = s
  <2> DEFINE Kept   == {i \in 1 .. Len(q) : q[i].kind \in SavedKind}
             Nth(j) == CHOOSE i \in Kept : Rank(Kept, i) = j
  <2>1. Sanitize(q) = [j \in 1 .. Cardinality(Kept) |-> q[Nth(j)]]
    BY DEF Sanitize
  <2>2. \A i \in 1 .. n : s[i] \in Saveable
    OBVIOUS
  <2>3. Kept = 1 .. n
    BY <1>0, <1>1, <2>2, Messages
  <2> HIDE DEF Kept
  <2>4. Cardinality(Kept) = n
    BY <1>0, <2>3, FirstNumbers
  <2>5. ASSUME NEW i \in 1 .. n PROVE Rank(Kept, i) = i
    <3>1. {k \in Kept : k <= i} = 1 .. i
      BY <1>0, <2>3
    <3>2. Cardinality(1 .. i) = i
      BY <1>0, FirstNumbers
    <3> QED BY <3>1, <3>2 DEF Rank
  <2>6. ASSUME NEW j \in 1 .. n PROVE Nth(j) = j
    BY <2>3, <2>5
  <2> HIDE DEF Nth
  <2>7. Sanitize(q) = [j \in 1 .. n |-> s[j]]
    BY <1>1, <2>1, <2>4, <2>6
  <2> QED BY <1>0, <2>7, LenProperties
<1>2. Sanitize(s) = s
  BY <1>0, <1>1
<1>3. ASSUME NEW m \in Message, m.kind \notin SavedKind PROVE Sanitize(Append(s, m)) = s
  <2> DEFINE q == Append(s, m)
  <2>1. /\ q \in Seq(Message) /\ Len(q) = n + 1 /\ q[n + 1] = m
        /\ \A i \in 1 .. n : q[i] = s[i]
    BY <1>0, AppendProperties
  <2> HIDE DEF q
  <2>2. \A i \in 1 .. Len(q) : i > n => q[i].kind \notin SavedKind
    BY <1>0, <1>3, <2>1
  <2>3. Sanitize(q) = s
    BY <1>0, <1>1, <2>1, <2>2
  <2> QED BY <2>3 DEF q
<1> QED BY <1>2, <1>3

\* Without its trailing early save a transcript is a prefix of itself.
LEMMA EarlyIs ==
  ASSUME NEW s \in Seq(Saveable)
  PROVE  /\ WithoutEarly(s) \in Seq(Saveable)
         /\ IsPrefix(WithoutEarly(s), s)
         /\ \A r \in Run : WithoutEarly(Append(s, Msg(r, "early"))) = s
<1>0. s \in Seq(Message) /\ Len(s) \in Nat
  BY Messages
<1>3. ASSUME NEW r \in Run PROVE WithoutEarly(Append(s, Msg(r, "early"))) = s
  <2> DEFINE m == Msg(r, "early")
             q == Append(s, m)
  <2>1. m \in Saveable /\ m.kind = "early" /\ m \in Message
    BY Messages DEF UserKind, SavedKind
  <2> HIDE DEF m
  <2>2. LastKind(q) = "early"
    BY <1>0, <2>1, LastKindIs
  <2>3. /\ q \in Seq(Saveable) /\ Len(q) = Len(s) + 1
        /\ \A i \in 1 .. Len(s) : q[i] = s[i]
    BY <2>1, AppendProperties
  <2> HIDE DEF q
  <2>4. WithoutEarly(q) = SubSeq(q, 1, Len(s))
    BY <1>0, <2>2, <2>3 DEF WithoutEarly, Front
  <2>5. \A i \in 1 .. Len(s) : q[i] \in Saveable
    BY <2>3
  <2>6. /\ SubSeq(q, 1, Len(s)) \in Seq(Saveable)
        /\ Len(SubSeq(q, 1, Len(s))) = Len(s)
        /\ \A i \in 1 .. Len(s) : SubSeq(q, 1, Len(s))[i] = q[i]
    BY <1>0, <2>5, SubSeqProperties
  <2>7. WithoutEarly(q) = s
    BY <2>3, <2>4, <2>6, SeqEqual
  <2> QED BY <2>7 DEF q, m
<1>1. CASE LastKind(s) # "early"
  <2>1. WithoutEarly(s) = s
    BY <1>1 DEF WithoutEarly
  <2>2. IsPrefix(s, s)
    BY <1>0 DEF IsPrefix
  <2> QED BY <2>1, <2>2, <1>3
<1>2. CASE LastKind(s) = "early"
  <2>1. s # <<>>
    BY <1>2, LastKindIs
  <2>2. Len(s) - 1 \in Nat
    BY <2>1, EmptySeq
  <2>3. WithoutEarly(s) = SubSeq(s, 1, Len(s) - 1)
    BY <1>2 DEF WithoutEarly, Front
  <2> DEFINE t == SubSeq(s, 1, Len(s) - 1)
  <2>4. \A i \in 1 .. Len(s) - 1 : s[i] \in Saveable
    BY <2>2
  <2>5. t \in Seq(Saveable) /\ Len(t) = Len(s) - 1
    <3>0. ASSUME NEW n \in Nat, n = Len(s) - 1 PROVE Len(t) = n
      <4>1. Len(SubSeq(s, 1, n)) = IF 1 <= n THEN n - 1 + 1 ELSE 0
        BY <2>4, <3>0, SubSeqProperties
      <4> QED BY <3>0, <4>1
    <3>1. Len(t) = Len(s) - 1
      BY <2>2, <3>0
    <3>2. t \in Seq(Saveable)
      BY <2>2, <2>4, SubSeqProperties
    <3> HIDE DEF t
    <3> QED BY <1>0, <2>2, <3>1, <3>2
  <2> HIDE DEF t
  <2>6. SubSeq(t, 1, Len(t)) = t
    BY <2>5, SubSeqFull
  <2>7. t = SubSeq(s, 1, Len(t)) /\ Len(t) <= Len(s)
    BY <1>0, <2>5 DEF t
  <2>8. IsPrefix(t, s)
    BY <2>6, <2>7 DEF IsPrefix
  <2>9. WithoutEarly(s) = t
    BY <2>3 DEF t
  <2> QED BY <1>3, <2>5, <2>8, <2>9
<1> QED BY <1>1, <1>2, <1>3

-----------------------------------------------------------------------------
(* What a turn can leave in the Agent.                                     *)

\* What a turn adds to h are messages; only errors among them may not be saved.
LEMMA ShapeTypes ==
  ASSUME latest \in Run, NEW h \in Seq(Saveable)
  PROVE  /\ h \in Seq(Message) /\ Asked(h) \in Seq(Saveable) /\ Asked(h) \in Seq(Message)
         /\ Shapes(h) \subseteq Seq(Message)
         /\ \A s \in {h, Asked(h)}, k \in AssistantKind :
              /\ Then(s, k) \in Seq(Message)
              /\ k \in SavedKind => Then(s, k) \in Seq(Saveable)
         /\ LastKind(Asked(h)) = "user"
<1>1. /\ \A k \in AssistantKind : Msg(latest, k) \in Message
      /\ \A k \in AssistantKind \cap SavedKind : Msg(latest, k) \in Saveable
      /\ Msg(latest, "user") \in Saveable /\ Msg(latest, "user") \in Message
      /\ Msg(latest, "user").kind = "user"
  BY Messages DEF UserKind, SavedKind
<1>2. h \in Seq(Message) /\ Asked(h) \in Seq(Saveable) /\ Asked(h) \in Seq(Message)
  BY <1>1, Messages, AppendProperties DEF Asked
<1>3. \A s \in {h, Asked(h)}, k \in AssistantKind :
        /\ Then(s, k) \in Seq(Message)
        /\ k \in SavedKind => Then(s, k) \in Seq(Saveable)
  BY <1>1, <1>2, AppendProperties DEF Then
<1>4. LastKind(Asked(h)) = "user"
  BY <1>1, <1>2, LastKindIs DEF Asked
<1> QED BY <1>2, <1>3, <1>4 DEF Shapes, Saying

\* The last answer after each addition: the question does not change it.
LEMMA ShapeAnswers ==
  ASSUME latest \in Run, NEW h \in Seq(Saveable)
  PROVE  /\ LastAssistant(h) \in {"none", "answer", "partial"}
         /\ LastAssistant(Asked(h)) = LastAssistant(h)
         /\ \A s \in {h, Asked(h)}, k \in AssistantKind : LastAssistant(Then(s, k)) = k
<1>1. h \in Seq(Message) /\ Asked(h) \in Seq(Message)
  BY ShapeTypes
<1>2. LastAssistant(h) \in {"none", "answer", "partial"}
  BY <1>1, LastAssistantIs
<1>3. LastAssistant(Asked(h)) = LastAssistant(h)
  <2>1. Msg(latest, "user") \in Message /\ Msg(latest, "user").kind \notin AssistantKind
    BY Messages, Kinds DEF UserKind
  <2> QED BY <1>1, <2>1, LastAssistantOfAppend DEF Asked
<1>4. ASSUME NEW s \in {h, Asked(h)}, NEW k \in AssistantKind
      PROVE  LastAssistant(Then(s, k)) = k
  <2>1. Msg(latest, k) \in Message /\ Msg(latest, k).kind = k
    BY Messages
  <2> QED BY <1>1, <2>1, LastAssistantOfAppend DEF Then
<1> QED BY <1>2, <1>3, <1>4

\* continue() takes back what an attempt ended with.
LEMMA ShapeStripped ==
  ASSUME latest \in Run, NEW h \in Seq(Saveable)
  PROVE  /\ CleanTrailingErrors(h) = h
         /\ StripTrailingErrors(Then(Asked(h), "transient")) = Asked(h)
         /\ LastAssistant(h) = "none" => StripTrailingErrors(Then(h, "transient")) = h
<1>1. h \in Seq(Message) /\ Asked(h) \in Seq(Message) /\ LastKind(Asked(h)) = "user"
  BY ShapeTypes
<1>2. Msg(latest, "transient") \in Message /\ Msg(latest, "transient").kind = "transient"
  BY Messages DEF AssistantKind
<1> DEFINE Bad == {"error", "transient", "partial", "empty"}
<1>3. ASSUME NEW s \in Seq(Message), LastKind(s) \notin Bad
      PROVE  StripTrailingErrors(Then(s, "transient")) = s
  BY <1>2, <1>3, TrimDrops DEF StripTrailingErrors, Then
<1>4. LastAssistant(h) = "none" => LastKind(h) \notin Bad
  BY <1>1, LastAssistantIs DEF AssistantKind
<1>5. LastKind(h) \notin {"error", "transient", "empty"}
  <2>1. CASE h = <<>>
    BY <2>1, LastKindIs
  <2>2. CASE h # <<>>
    <3>1. h[Len(h)] \in Saveable /\ LastKind(h) = h[Len(h)].kind
      BY <1>1, <2>2, LastKindIs, ElementOfSeq
    <3> QED BY <3>1, Messages, Kinds
  <2> QED BY <2>1, <2>2
<1>6. CleanTrailingErrors(h) = h
  BY <1>1, <1>5, TrimDrops DEF CleanTrailingErrors
<1>7. "user" \notin Bad
  OBVIOUS
<1> QED BY <1>1, <1>3, <1>4, <1>6, <1>7

\* The shapes are told apart by their lengths and their last messages.
LEMMA ShapesDiffer ==
  ASSUME latest \in Run, NEW h \in Seq(Saveable)
  PROVE  /\ Asked(h) # h
         /\ \A k \in AssistantKind : Then(h, k) \notin {h, Asked(h)}
         /\ \A k \in AssistantKind : Then(Asked(h), k) \notin {h, Asked(h)} \cup Saying(h)
<1>1. h \in Seq(Message) /\ Asked(h) \in Seq(Message) /\ Len(h) \in Nat
  BY ShapeTypes
<1>2. Len(Asked(h)) = Len(h) + 1
  BY <1>1, Messages, AppendProperties DEF Asked, UserKind
<1>3. ASSUME NEW k \in AssistantKind
      PROVE  Len(Then(h, k)) = Len(h) + 1 /\ Len(Then(Asked(h), k)) = Len(h) + 2
  <2>1. Msg(latest, k) \in Message
    BY Messages
  <2>2. Len(Then(h, k)) = Len(h) + 1
    BY <1>1, <2>1, AppendProperties DEF Then
  <2>3. Len(Then(Asked(h), k)) = Len(Asked(h)) + 1
    BY <1>1, <2>1, AppendProperties DEF Then
  <2> QED BY <1>1, <1>2, <2>2, <2>3
<1>4. ASSUME NEW k \in AssistantKind PROVE Then(h, k) # Asked(h)
  <2>1. LastKind(Asked(h)) = "user"
    BY ShapeTypes
  <2>2. LastKind(Then(h, k)) = k
    BY <1>1, Messages, LastKindIs DEF Then
  <2> QED BY <2>1, <2>2 DEF AssistantKind
<1> QED BY <1>1, <1>2, <1>3, <1>4 DEF Saying

\* messages.slice(0, beforeLen) leaves what was there before the turn.
LEMMA ShapeRolledBack ==
  ASSUME latest \in Run, NEW h \in Seq(Saveable), NEW a \in Shapes(h)
  PROVE  SubSeq(a, 1, IF Len(h) < Len(a) THEN Len(h) ELSE Len(a)) = h
<1>1. h \in Seq(Message) /\ Asked(h) \in Seq(Message) /\ a \in Seq(Message) /\ Len(h) \in Nat
  BY ShapeTypes
<1>2. Len(Asked(h)) = Len(h) + 1 /\ \A i \in 1 .. Len(h) : Asked(h)[i] = h[i]
  BY <1>1, Messages, AppendProperties DEF Asked, UserKind
<1>3. ASSUME NEW s \in {h, Asked(h)}, NEW k \in AssistantKind
      PROVE  Len(Then(s, k)) = Len(s) + 1 /\ \A i \in 1 .. Len(s) : Then(s, k)[i] = s[i]
  BY <1>1, Messages, AppendProperties DEF Then
<1>4. Len(a) \in Nat /\ Len(h) <= Len(a) /\ \A i \in 1 .. Len(h) : a[i] = h[i]
  BY <1>1, <1>2, <1>3 DEF Shapes, Saying
<1>5. SubSeq(a, 1, Len(h)) = h
  <2>1. \A i \in 1 .. Len(h) : a[i] \in Message
    BY <1>1, <1>4
  <2> DEFINE n == Len(h)
             t == SubSeq(a, 1, n)
  <2>2. /\ t \in Seq(Message) /\ Len(t) = IF 1 <= n THEN n - 1 + 1 ELSE 0
        /\ \A i \in 1 .. n - 1 + 1 : t[i] = a[1 + i - 1]
    BY <1>1, <2>1, SubSeqProperties
  <2>3. Len(t) = n /\ \A i \in 1 .. n : t[i] = h[i]
    <3> HIDE DEF t
    <3> QED BY <1>1, <1>4, <2>2
  <2> QED BY <1>1, <2>2, <2>3, SeqEqual
<1> QED BY <1>1, <1>4, <1>5

\* What is written of h and of each addition.
LEMMA ShapeSaved ==
  ASSUME latest \in Run, NEW h \in Seq(Saveable)
  PROVE  \A s \in {h, Asked(h)} :
           /\ Sanitize(s) = s
           /\ \A k \in AssistantKind :
                Sanitize(Then(s, k)) = IF k \in {"answer", "partial"} THEN Then(s, k) ELSE s
<1> SUFFICES ASSUME NEW s \in {h, Asked(h)}
             PROVE  /\ Sanitize(s) = s
                    /\ \A k \in AssistantKind :
                         Sanitize(Then(s, k)) = IF k \in {"answer", "partial"} THEN Then(s, k) ELSE s
  OBVIOUS
<1>1. s \in Seq(Saveable)
  BY ShapeTypes
<1>2. ASSUME NEW k \in AssistantKind
      PROVE  Sanitize(Then(s, k)) = IF k \in {"answer", "partial"} THEN Then(s, k) ELSE s
  <2>1. Msg(latest, k) \in Message /\ Msg(latest, k).kind = k
    BY Messages
  <2>2. k \in {"answer", "partial"} <=> k \in SavedKind
    BY Kinds
  <2>3. CASE k \in SavedKind
    BY <2>2, <2>3, ShapeTypes, SanitizeDrops
  <2>4. CASE k \notin SavedKind
    BY <1>1, <2>1, <2>2, <2>4, SanitizeDrops DEF Then
  <2> QED BY <2>3, <2>4
<1> QED BY <1>1, <1>2, SanitizeDrops

-----------------------------------------------------------------------------
(* Types, in the parts that change together.                               *)

Streams  == [run : Run \cup {Nobody}, model : 1 .. Models, aborted : BOOLEAN]
Places   == {"idle", "accepted", "append", "saving", "load", "replace", "ready",
             "stream", "persist", "write", "writing", "ended", "dead"}
Drives   == {"off", "next", "race", "idle", "idled", "over", "failed"}
Attempts == {"off", "stream", "ended", "idle", "retry", "finished", "threw"}

FileTypes == /\ file \in Seq(Saveable) /\ agent \in Seq(Message)
             /\ buf \in [Run -> Seq(Saveable)]
RunTypes  == /\ gen \in [Run -> Places] /\ signal \subseteq Run
             /\ latest \in Run \cup {Nobody} /\ base \in Seq(Saveable)
             /\ alone \in BOOLEAN /\ late \in BOOLEAN
SaveTypes == saves \in {"whole", "skipped", "torn"} /\ faults \in 0 .. MaxFaults
LoopTypes == /\ drv \in [Run -> Drives] /\ model \in [Run -> 1 .. Models + 1]
             /\ \A r \in Run : drv[r] \in {"race", "idle", "idled"} => model[r] <= Models
             /\ before \in [Run -> Nat]
StreamTypes == stream \in Streams /\ (stream.run = Nobody => stream = None)
TryTypes  == attempt \in [Attempt -> Attempts] /\ count \in [Attempt -> 0 .. MaxContinues]

\* The parts are the whole type invariant.
LEMMA TypeParts ==
  TurnTypeOK <=> FileTypes /\ RunTypes /\ SaveTypes /\ LoopTypes /\ StreamTypes /\ TryTypes
BY DEF TurnTypeOK, FileTypes, SaveTypes, RunTypes, LoopTypes, StreamTypes, TryTypes, Streams, Places, Drives,
       Attempts

\* The ranges of the runs' and of the models' numbers.
LEMMA Numbers ==
  /\ Runs \in Nat /\ Models \in Nat \ {0} /\ MaxContinues \in Nat /\ MaxFaults \in Nat
  /\ 1 \in 1 .. Models /\ 1 \in 1 .. Models + 1
  /\ \A i \in 1 .. Models : i \in 1 .. Models + 1 /\ i + 1 \in 1 .. Models + 1
  /\ \A i \in 1 .. Models + 1 : i <= Models => i \in 1 .. Models
  /\ Nobody \notin Run /\ Run \subseteq Nat
BY RunsAssumption, ModelsAssumption, BoundsAssumption DEF Nobody, Run

\* An attempt is a run and a model.
LEMMA Pairs ==
  /\ \A t \in Attempt : t = <<t[1], t[2]>> /\ t[1] \in Run /\ t[2] \in 1 .. Models
  /\ \A r \in Run, i \in 1 .. Models : <<r, i>> \in Attempt
BY DEF Attempt

StreamOf(r, i) == [run |-> r, model |-> i, aborted |-> FALSE]

\* The streams that begin, and what an abort changes of one.
LEMMA StreamFacts ==
  /\ None \in Streams /\ None.run = Nobody /\ ~None.aborted
  /\ \A r \in Run, i \in 1 .. Models :
       /\ StreamOf(r, i) \in Streams /\ StreamOf(r, i) # None
       /\ StreamOf(r, i).run = r /\ StreamOf(r, i).model = i /\ ~StreamOf(r, i).aborted
  /\ \A s \in Streams, b \in BOOLEAN :
       LET t == [s EXCEPT !.aborted = b]
       IN  t \in Streams /\ t.run = s.run /\ t.model = s.model /\ t.aborted = b
<1>1. None \in Streams /\ None.run = Nobody /\ ~None.aborted
  BY Numbers DEF None, Streams
<1>2. ASSUME NEW r \in Run, NEW i \in 1 .. Models
      PROVE  /\ StreamOf(r, i) \in Streams
             /\ StreamOf(r, i).run = r /\ StreamOf(r, i).model = i /\ ~StreamOf(r, i).aborted
  BY DEF StreamOf, Streams
<1>3. \A r \in Run, i \in 1 .. Models : StreamOf(r, i) # None
  BY <1>1, <1>2, Numbers
<1>4. ASSUME NEW s \in Streams, NEW b \in BOOLEAN
      PROVE  LET t == [s EXCEPT !.aborted = b]
             IN  t \in Streams /\ t.run = s.run /\ t.model = s.model /\ t.aborted = b
  BY DEF Streams
<1> QED BY <1>1, <1>2, <1>3, <1>4

\* Aborting marks the stream there is, if there is one.
LEMMA AbortStreamIs ==
  ASSUME stream \in Streams
  PROVE  /\ AbortStream \in Streams
         /\ AbortStream.run = stream.run /\ AbortStream.model = stream.model
         /\ AbortStream.aborted = Busy
         /\ ~Busy => AbortStream = None
         /\ Busy => AbortStream # None
<1>1. Busy \in BOOLEAN BY DEF Busy
<1>2. /\ AbortStream \in Streams
      /\ AbortStream.run = stream.run /\ AbortStream.model = stream.model
      /\ AbortStream.aborted = Busy
  BY <1>1, StreamFacts DEF AbortStream
<1>3. ~Busy => AbortStream = None
  <2> SUFFICES ASSUME stream = None PROVE AbortStream = None
    BY DEF Busy
  <2>1. Busy = FALSE BY <1>1 DEF Busy
  <2>2. \A s, t \in Streams :
          s.run = t.run /\ s.model = t.model /\ s.aborted = t.aborted => s = t
    BY DEF Streams
  <2>3. None.aborted = FALSE BY DEF None
  <2>4. AbortStream.aborted = FALSE
    <3>1. ~AbortStream.aborted BY <1>2, <2>1
    <3>2. AbortStream.aborted \in BOOLEAN BY <1>2 DEF Streams
    <3> QED BY <3>1, <3>2
  <2>5. AbortStream.run = None.run /\ AbortStream.model = None.model
    BY <1>2
  <2>6. AbortStream \in Streams /\ None \in Streams
    BY <1>2, StreamFacts
  <2> HIDE DEF AbortStream, None
  <2> QED BY <2>2, <2>3, <2>4, <2>5, <2>6
<1>4. Busy => AbortStream # None
  BY <1>2, StreamFacts
<1> QED BY <1>2, <1>3, <1>4

\* The initial state has its type.
LEMMA InitTypes == TurnInit => TurnTypeOK
<1> SUFFICES ASSUME TurnInit PROVE TurnTypeOK OBVIOUS
<1>1. FileTypes BY HistoriesAssumption, EmptySeq DEF TurnInit, FileTypes
<1>2. RunTypes BY EmptySeq DEF TurnInit, RunTypes, Places
<1>6. SaveTypes BY Numbers DEF TurnInit, SaveTypes
<1>3. LoopTypes BY Numbers DEF TurnInit, LoopTypes, Drives
<1>4. StreamTypes BY StreamFacts DEF TurnInit, StreamTypes
<1>5. TryTypes
  <2>1. 0 \in 0 .. MaxContinues BY Numbers
  <2> QED BY <2>1 DEF TurnInit, TryTypes, Attempts
<1> QED BY <1>1, <1>2, <1>3, <1>4, <1>5, <1>6, TypeParts

\* The file, the Agent's messages and what the generators hold.
LEMMA FileTypesStep == TurnTypeOK /\ [TurnNext]_turnVars => FileTypes'
<1> SUFFICES ASSUME TurnTypeOK, [TurnNext]_turnVars PROVE FileTypes'
  OBVIOUS
<1>0. FileTypes /\ LoopTypes /\ StreamTypes
  BY TypeParts
<1>1. CASE UNCHANGED <<file, agent, buf>>
  BY <1>0, <1>1 DEF FileTypes
<1>2. ASSUME NEW r \in Run, ReadForSave(r) \/ ReadSession(r) PROVE FileTypes'
  BY <1>0, <1>2 DEF ReadForSave, ReadSession, FileTypes
<1>3. ASSUME NEW r \in Run, SaveUserMessage(r) \/ EndSave(r) PROVE FileTypes'
  <2>1. buf[r] \in Seq(Saveable) /\ <<>> \in Seq(Saveable)
    BY <1>0, EmptySeq DEF FileTypes
  <2>2. Append(buf[r], Msg(r, "early")) \in Seq(Saveable)
    BY <2>1, Messages, AppendProperties DEF UserKind, SavedKind
  <2> QED BY <1>0, <1>3, <2>1, <2>2 DEF SaveUserMessage, EndSave, Truncate, FileTypes
<1>4. ASSUME NEW r \in Run, ReplaceMessages(r) PROVE FileTypes'
  <2>1. buf[r] \in Seq(Saveable) /\ <<>> \in Seq(Saveable)
    BY <1>0, EmptySeq DEF FileTypes
  <2>2. CleanTrailingErrors(WithoutEarly(buf[r])) \in Seq(Message)
    BY <2>1, EarlyIs, Messages, TrimType DEF CleanTrailingErrors
  <2> QED BY <1>0, <1>4, <2>1, <2>2 DEF ReplaceMessages, FileTypes
<1>5. ASSUME NEW r \in Run, Persist(r) PROVE FileTypes'
  <2>1. Sanitize(agent) \in Seq(Saveable)
    BY <1>0, SanitizeType DEF FileTypes
  <2> QED BY <1>0, <1>5, <2>1 DEF Persist, FileTypes
<1>6. ASSUME NEW r \in Run, Write(r) PROVE FileTypes'
  BY <1>0, <1>6, EmptySeq DEF Write, Truncate, FileTypes
<1>7. ASSUME NEW r \in Run, Prompt(r) PROVE FileTypes'
  <2>1. Append(agent, Msg(r, "user")) \in Seq(Message)
    BY <1>0, Messages, AppendProperties DEF FileTypes, UserKind
  <2> QED BY <1>0, <1>7, <2>1 DEF Prompt, FileTypes, disk
<1>8. ASSUME NEW r \in Run, Rollback(r) PROVE FileTypes'
  <2> DEFINE n == IF before[r] < Len(agent) THEN before[r] ELSE Len(agent)
  <2>1. agent \in Seq(Message) /\ before[r] \in Nat /\ Len(agent) \in Nat
    BY <1>0 DEF FileTypes, LoopTypes
  <2>2. n \in Nat /\ n <= Len(agent)
    BY <2>1
  <2>3. agent' = SubSeq(agent, 1, n) /\ UNCHANGED disk
    BY <1>8 DEF Rollback
  <2> HIDE DEF n
  <2>4. \A i \in 1 .. n : agent[i] \in Message
    BY <2>1, <2>2
  <2>5. agent' \in Seq(Message)
    BY <2>1, <2>2, <2>3, <2>4, SubSeqProperties
  <2> QED BY <1>0, <2>3, <2>5 DEF FileTypes, disk
<1>9. ASSUME NEW k \in AssistantKind, StreamEnd(k) PROVE FileTypes'
  <2>1. stream.run \in Run
    BY <1>0, <1>9 DEF StreamEnd, StreamTypes, Streams, Busy
  <2>2. Append(agent, Msg(stream.run, k)) \in Seq(Message)
    BY <1>0, <2>1, Messages, AppendProperties DEF FileTypes
  <2> QED BY <1>0, <1>9, <2>2 DEF StreamEnd, FileTypes, disk
<1>10. ASSUME NEW t \in Attempt, Continue(t) PROVE FileTypes'
  <2>1. StripTrailingErrors(agent) \in Seq(Message)
    BY <1>0, TrimType DEF FileTypes, StripTrailingErrors
  <2> QED BY <1>0, <1>10, <2>1 DEF Continue, FileTypes, disk
<1>11. CASE Crash
  BY <1>0, <1>11, EmptySeq DEF Crash, FileTypes
<1>12. ASSUME NEW r \in Run, Accept(r) \/ Abort(r) \/ Timeout(r) PROVE FileTypes'
  BY <1>1, <1>12 DEF Accept, Abort, Timeout, disk
<1>13. ASSUME NEW r \in Run, Generator(r) PROVE FileTypes'
  <2>1. CASE StartTurn(r) \/ AbortedBeforeTurn(r)
    BY <1>1, <2>1 DEF StartTurn, AbortedBeforeTurn, disk
  <2> QED BY <1>2, <1>3, <1>4, <1>5, <1>6, <1>13, <2>1 DEF Generator
<1>14. ASSUME NEW r \in Run, Drive(r) PROVE FileTypes'
  <2>1. CASE OutOfCandidates(r) \/ SkipCandidate(r) \/ AttemptWon(r)
    BY <1>1, <2>1 DEF OutOfCandidates, SkipCandidate, AttemptWon, disk
  <2>2. CASE AttemptLost(r) \/ TimedOut(r)
    BY <1>8, <2>2 DEF AttemptLost, TimedOut
  <2> QED BY <1>7, <1>14, <2>1, <2>2 DEF Drive
<1>15. ASSUME NEW t \in Attempt, RunTurn(t) PROVE FileTypes'
  <2>1. CASE WaitForIdle(t) \/ NothingToRetry(t)
    BY <1>1, <2>1 DEF WaitForIdle, NothingToRetry, disk
  <2> QED BY <1>10, <1>15, <2>1 DEF RunTurn
<1>16. CASE UNCHANGED turnVars
  BY <1>1, <1>16 DEF turnVars
<1> QED BY <1>9, <1>11, <1>12, <1>13, <1>14, <1>15, <1>16 DEF TurnNext

\* The generators, the signals and the history variables.
LEMMA RunTypesStep == TurnTypeOK /\ [TurnNext]_turnVars => RunTypes'
<1> SUFFICES ASSUME TurnTypeOK, [TurnNext]_turnVars PROVE RunTypes'
  OBVIOUS
<1>0. RunTypes /\ file \in Seq(Saveable) /\ Run \subseteq Nat
  BY TypeParts, Numbers DEF FileTypes
<1> USE <1>0 DEF RunTypes, history
<1>1. ASSUME UNCHANGED <<signal, history>>, gen' \in [Run -> Places] PROVE RunTypes'
  BY <1>1
<1>2. ASSUME NEW r \in Run, Accept(r) PROVE RunTypes'
  BY <1>2 DEF Accept, Places
<1>3. ASSUME NEW r \in Run, Abort(r) PROVE RunTypes'
  BY <1>3 DEF Abort, Places
<1>4. ASSUME NEW r \in Run, Timeout(r) PROVE RunTypes'
  BY <1>4 DEF Timeout
<1>5. ASSUME NEW r \in Run, Generator(r) PROVE RunTypes'
  BY <1>5 DEF Generator, ReadForSave, SaveUserMessage, EndSave, Truncate, ReadSession, ReplaceMessages, StartTurn,
              AbortedBeforeTurn, Persist, Write, Places
<1>6. ASSUME NEW r \in Run, Drive(r) PROVE RunTypes'
  <2>1. ASSUME NEW how, TurnEnds(r, how) PROVE gen' \in [Run -> Places]
    BY <2>1 DEF TurnEnds, Places
  <2>2. CASE OutOfCandidates(r) \/ AttemptWon(r)
    BY <1>1, <2>1, <2>2 DEF OutOfCandidates, AttemptWon
  <2>3. CASE SkipCandidate(r) \/ Prompt(r) \/ AttemptLost(r) \/ TimedOut(r)
    BY <1>1, <2>3 DEF SkipCandidate, Prompt, AttemptLost, TimedOut, Rollback
  <2> QED BY <1>6, <2>2, <2>3 DEF Drive
<1>7. ASSUME NEW t \in Attempt, RunTurn(t) PROVE RunTypes'
  BY <1>7 DEF RunTurn, WaitForIdle, NothingToRetry, Continue
<1>8. ASSUME NEW k \in AssistantKind, StreamEnd(k) PROVE RunTypes'
  BY <1>8 DEF StreamEnd
<1>9. CASE Crash
  <2>2. gen' \in [Run -> Places]
    BY <1>9 DEF Crash, Places
  <2> QED BY <1>9, <2>2 DEF Crash
<1>10. CASE UNCHANGED turnVars
  BY <1>10 DEF turnVars
<1> QED BY <1>2, <1>3, <1>4, <1>5, <1>6, <1>7, <1>8, <1>9, <1>10 DEF TurnNext

\* How saves went, and the faults.
LEMMA SaveTypesStep == TurnTypeOK /\ [TurnNext]_turnVars => SaveTypes'
<1> SUFFICES ASSUME TurnTypeOK, [TurnNext]_turnVars PROVE SaveTypes'
  OBVIOUS
<1>0. SaveTypes
  BY TypeParts
<1>1. CASE UNCHANGED <<saves, faults>>
  BY <1>0, <1>1 DEF SaveTypes
<1>2. Fault => faults' \in 0 .. MaxFaults
  BY <1>0, Numbers DEF Fault, SaveTypes
<1>3. ASSUME NEW r \in Run, Accept(r) \/ Abort(r) \/ Timeout(r) PROVE SaveTypes'
  BY <1>0, <1>3 DEF Accept, Abort, Timeout, disk, SaveTypes
<1>4. ASSUME NEW r \in Run, Generator(r) PROVE SaveTypes'
  BY <1>0, <1>2, <1>4 DEF Generator, ReadForSave, SaveUserMessage, EndSave, Truncate, ReadSession,
     ReplaceMessages, StartTurn, AbortedBeforeTurn, Persist, Write, disk, SaveTypes
<1>5. ASSUME NEW r \in Run, Drive(r) PROVE SaveTypes'
  BY <1>1, <1>5 DEF Drive, OutOfCandidates, SkipCandidate, Prompt, AttemptWon, AttemptLost,
     TimedOut, Rollback, disk
<1>6. ASSUME NEW t \in Attempt, RunTurn(t) PROVE SaveTypes'
  BY <1>1, <1>6 DEF RunTurn, WaitForIdle, NothingToRetry, Continue, disk
<1>7. ASSUME NEW k \in AssistantKind, StreamEnd(k) PROVE SaveTypes'
  BY <1>1, <1>7 DEF StreamEnd, disk
<1>8. CASE Crash
  BY <1>0, <1>2, <1>8 DEF Crash, SaveTypes
<1>9. CASE UNCHANGED turnVars
  BY <1>1, <1>9 DEF turnVars
<1> QED BY <1>3, <1>4, <1>5, <1>6, <1>7, <1>8, <1>9 DEF TurnNext

\* The drivers and their loops: a model is tried only if there is one.
LEMMA LoopTypesStep == TurnTypeOK /\ [TurnNext]_turnVars => LoopTypes'
<1> SUFFICES ASSUME TurnTypeOK, [TurnNext]_turnVars PROVE LoopTypes'
  OBVIOUS
<1>0. LoopTypes /\ agent \in Seq(Message)
  BY TypeParts DEF FileTypes
<1> USE <1>0 DEF LoopTypes
<1>1. ASSUME UNCHANGED driver PROVE LoopTypes'
  BY <1>1 DEF driver
<1>2. ASSUME NEW r \in Run, NEW how \in {"over", "failed"}, TurnEnds(r, how) PROVE LoopTypes'
  BY <1>2, Numbers DEF TurnEnds, Drives
<1>3. ASSUME NEW r \in Run, drv[r] \in {"race", "idled"}, Rollback(r) PROVE LoopTypes'
  <2>1. model[r] \in 1 .. Models
    BY <1>3, Numbers
  <2>2. model[r] + 1 \in 1 .. Models + 1
    BY <2>1, Numbers
  <2> QED BY <1>3, <2>2 DEF Rollback, Drives
<1>4. ASSUME NEW r \in Run, Accept(r) \/ Abort(r) PROVE LoopTypes'
  BY <1>1, <1>4 DEF Accept, Abort
<1>5. ASSUME NEW r \in Run, Timeout(r) PROVE LoopTypes'
  BY <1>5 DEF Timeout, Drives
<1>6. ASSUME NEW r \in Run, Generator(r) PROVE LoopTypes'
  <2>1. CASE StartTurn(r)
    BY <2>1 DEF StartTurn, Drives
  <2> QED BY <1>1, <1>6, <2>1 DEF Generator, ReadForSave, SaveUserMessage, EndSave, Truncate, ReadSession,
             ReplaceMessages, AbortedBeforeTurn, Persist, Write
<1>7. ASSUME NEW r \in Run, Drive(r) PROVE LoopTypes'
  <2>1. CASE OutOfCandidates(r) \/ AttemptWon(r)
    BY <1>2, <2>1 DEF OutOfCandidates, AttemptWon
  <2>2. CASE SkipCandidate(r)
    <3>1. model[r] + 1 \in 1 .. Models + 1
      BY <2>2, Numbers DEF SkipCandidate
    <3> QED BY <2>2, <3>1 DEF SkipCandidate
  <2>3. CASE Prompt(r)
    <3>1. Len(agent) \in Nat
      OBVIOUS
    <3> QED BY <2>3, <3>1 DEF Prompt, Drives
  <2>4. CASE AttemptLost(r) \/ TimedOut(r)
    BY <1>3, <2>4 DEF AttemptLost, TimedOut
  <2> QED BY <1>7, <2>1, <2>2, <2>3, <2>4 DEF Drive
<1>8. ASSUME NEW t \in Attempt, RunTurn(t) PROVE LoopTypes'
  BY <1>1, <1>8 DEF RunTurn, WaitForIdle, NothingToRetry, Continue
<1>9. ASSUME NEW k \in AssistantKind, StreamEnd(k) PROVE LoopTypes'
  BY <1>9 DEF StreamEnd, Drives
<1>10. CASE Crash
  BY <1>10, Numbers DEF Crash, Drives
<1>11. CASE UNCHANGED turnVars
  BY <1>1, <1>11 DEF turnVars, driver
<1> QED BY <1>4, <1>5, <1>6, <1>7, <1>8, <1>9, <1>10, <1>11 DEF TurnNext

\* The attempts: the retries are counted up to MaxContinues.
LEMMA TryTypesStep == TurnTypeOK /\ [TurnNext]_turnVars => TryTypes'
<1> SUFFICES ASSUME TurnTypeOK, [TurnNext]_turnVars PROVE TryTypes'
  OBVIOUS
<1>0. TryTypes /\ LoopTypes
  BY TypeParts
<1> USE <1>0 DEF TryTypes
<1>1. ASSUME UNCHANGED tries PROVE TryTypes'
  BY <1>1 DEF tries
<1>2. 0 \in 0 .. MaxContinues
  BY Numbers
<1>3. ASSUME NEW r \in Run, Generator(r) \/ Accept(r) \/ Abort(r) \/ Timeout(r) PROVE TryTypes'
  BY <1>1, <1>3 DEF Generator, ReadForSave, SaveUserMessage, EndSave, Truncate, ReadSession, ReplaceMessages,
     StartTurn, AbortedBeforeTurn, Persist, Write, Accept, Abort, Timeout
<1>4. ASSUME NEW r \in Run, Drive(r) PROVE TryTypes'
  <2>1. ASSUME LeaveAttempt(r) PROVE TryTypes'
    BY <1>2, <2>1 DEF LeaveAttempt, Attempts
  <2>2. CASE OutOfCandidates(r) \/ SkipCandidate(r) \/ TimedOut(r)
    BY <1>1, <2>2 DEF OutOfCandidates, SkipCandidate, TimedOut
  <2>3. CASE Prompt(r)
    BY <2>3 DEF Prompt, Attempts
  <2>4. CASE AttemptWon(r) \/ AttemptLost(r)
    BY <2>1, <2>4 DEF AttemptWon, AttemptLost
  <2> QED BY <1>4, <2>2, <2>3, <2>4 DEF Drive
<1>5. ASSUME NEW t \in Attempt, RunTurn(t) PROVE TryTypes'
  <2>1. ASSUME NEW how \in {"finished", "threw"}, EndAttempt(t, how) PROVE TryTypes'
    BY <1>2, <2>1 DEF EndAttempt, Attempts
  <2>2. CASE WaitForIdle(t)
    BY <2>2 DEF WaitForIdle, Attempts
  <2>3. CASE NothingToRetry(t)
    BY <2>1, <2>3 DEF NothingToRetry
  <2>4. ASSUME count[t] < MaxContinues, attempt' = [attempt EXCEPT ![t] = "stream"],
               count' = [count EXCEPT ![t] = @ + 1]
        PROVE  TryTypes'
    <3>1. count[t] + 1 \in 0 .. MaxContinues
      BY <2>4, Numbers
    <3> QED BY <2>4, <3>1 DEF Attempts
  <2>5. CASE Continue(t)
    BY <2>1, <2>4, <2>5 DEF Continue
  <2> QED BY <1>5, <2>2, <2>3, <2>5 DEF RunTurn
<1>6. ASSUME NEW k \in AssistantKind, StreamEnd(k) PROVE TryTypes'
  BY <1>6 DEF StreamEnd, Attempts
<1>7. CASE Crash
  BY <1>2, <1>7 DEF Crash, Attempts
<1>8. CASE UNCHANGED turnVars
  BY <1>1, <1>8 DEF turnVars, tries
<1> QED BY <1>3, <1>4, <1>5, <1>6, <1>7, <1>8 DEF TurnNext

\* The stream: an attempt that is one of a run and a model.
LEMMA StreamTypesStep == TurnTypeOK /\ [TurnNext]_turnVars => StreamTypes'
<1> SUFFICES ASSUME TurnTypeOK, [TurnNext]_turnVars PROVE StreamTypes'
  OBVIOUS
<1>0. LoopTypes /\ StreamTypes
  BY TypeParts
<1>1. ASSUME UNCHANGED stream PROVE StreamTypes'
  BY <1>0, <1>1 DEF StreamTypes
<1>2. ASSUME stream' = AbortStream PROVE StreamTypes'
  BY <1>0, <1>2, AbortStreamIs DEF StreamTypes, Busy
<1>3. ASSUME NEW r \in Run, NEW i \in 1 .. Models, stream' = StreamOf(r, i)
      PROVE  StreamTypes'
  BY <1>3, StreamFacts, Numbers DEF StreamTypes
<1>4. ASSUME stream' = None PROVE StreamTypes'
  BY <1>4, StreamFacts DEF StreamTypes
<1>5. ASSUME NEW r \in Run, Accept(r) \/ Abort(r) \/ Timeout(r) \/ Generator(r) PROVE StreamTypes'
  BY <1>1, <1>2, <1>5 DEF Accept, Abort, Timeout, Generator, ReadForSave, SaveUserMessage, EndSave, Truncate,
     ReadSession, ReplaceMessages, StartTurn, AbortedBeforeTurn, Persist, Write
<1>6. ASSUME NEW r \in Run, Drive(r) PROVE StreamTypes'
  <2>1. CASE Prompt(r)
    <3>1. model[r] \in 1 .. Models
      BY <1>0, <2>1, Numbers DEF Prompt, LoopTypes
    <3>2. UNCHANGED stream \/ stream' = StreamOf(r, model[r])
      BY <2>1 DEF Prompt, StreamOf
    <3> QED BY <1>1, <1>3, <3>1, <3>2
  <2> QED BY <1>1, <1>6, <2>1 DEF Drive, OutOfCandidates, SkipCandidate, AttemptWon, AttemptLost,
             TimedOut, Rollback
<1>7. ASSUME NEW t \in Attempt, RunTurn(t) PROVE StreamTypes'
  <2>1. UNCHANGED stream \/ stream' = StreamOf(t[1], t[2])
    BY <1>7 DEF RunTurn, WaitForIdle, NothingToRetry, Continue, StreamOf
  <2> QED BY <1>1, <1>3, <2>1, Pairs
<1>8. ASSUME NEW k \in AssistantKind, StreamEnd(k) PROVE StreamTypes'
  BY <1>4, <1>8 DEF StreamEnd
<1>9. CASE Crash
  BY <1>4, <1>9 DEF Crash
<1>10. CASE UNCHANGED turnVars
  BY <1>1, <1>10 DEF turnVars
<1> QED BY <1>5, <1>6, <1>7, <1>8, <1>9, <1>10 DEF TurnNext

\* Every step keeps the types.
LEMMA TypeStep == TurnTypeOK /\ [TurnNext]_turnVars => TurnTypeOK'
<1> SUFFICES ASSUME TurnTypeOK, [TurnNext]_turnVars PROVE TurnTypeOK'
  OBVIOUS
<1>1. FileTypes' /\ RunTypes' /\ SaveTypes' /\ LoopTypes' /\ StreamTypes' /\ TryTypes'
  BY FileTypesStep, RunTypesStep, SaveTypesStep, LoopTypesStep, StreamTypesStep, TryTypesStep
<1> QED BY <1>1 DEF TurnTypeOK, FileTypes, RunTypes, SaveTypes, LoopTypes, StreamTypes, TryTypes, Streams,
             Places, Drives, Attempts

-----------------------------------------------------------------------------
(* The phases of a run.                                                    *)

\* Only prompt() begins an attempt.
LEMMA OffStays ==
  ASSUME TurnTypeOK, [TurnNext]_turnVars, NEW t \in Attempt, attempt[t] = "off", attempt'[t] # "off"
  PROVE  Prompt(t[1]) /\ model[t[1]] = t[2]
<1>0. TryTypes /\ LoopTypes
  BY TypeParts
<1>1. ~UNCHANGED attempt
  OBVIOUS
<1>2. ASSUME NEW r \in Run PROVE ~(Accept(r) \/ Abort(r) \/ Timeout(r) \/ Generator(r))
  BY <1>1 DEF Accept, Abort, Timeout, Generator, ReadForSave, SaveUserMessage, EndSave, Truncate, ReadSession,
     ReplaceMessages, StartTurn, AbortedBeforeTurn, Persist, Write, tries
<1>3. ASSUME NEW r \in Run, Drive(r) PROVE Prompt(r) /\ t = Current(r)
  <2>1. ~LeaveAttempt(r)
    BY <1>0 DEF LeaveAttempt, TryTypes
  <2>2. Prompt(r)
    BY <1>1, <1>3, <2>1 DEF Drive, OutOfCandidates, SkipCandidate, AttemptWon, AttemptLost,
       TimedOut, tries
  <2> QED BY <1>0, <2>2 DEF Prompt, TryTypes
<1>4. ASSUME NEW u \in Attempt PROVE ~RunTurn(u)
  BY <1>0, <1>1 DEF RunTurn, WaitForIdle, NothingToRetry, Continue, EndAttempt, TryTypes
<1>5. ASSUME NEW k \in AssistantKind PROVE ~StreamEnd(k)
  BY <1>0 DEF StreamEnd
<1>6. ~Crash
  BY DEF Crash
<1>7. ~UNCHANGED turnVars
  BY <1>1 DEF turnVars
<1>8. PICK r \in Run : Drive(r)
  BY <1>2, <1>4, <1>5, <1>6, <1>7 DEF TurnNext
<1>9. Prompt(r) /\ t = <<r, model[r]>>
  BY <1>3, <1>8 DEF Current
<1> QED BY <1>9

\* No step starts an attempt before the driver has come to its model.
LEMMA UntriedStep ==
  ASSUME TurnTypeOK, [TurnNext]_turnVars, NEW r \in Run, Untried(r), Phase(r)
  PROVE  Untried(r)'
<1>0. LoopTypes /\ TryTypes /\ (\A i \in 1 .. Models : i \in Nat) /\ model[r] \in Nat
  BY TypeParts, Numbers DEF LoopTypes
<1>1. ASSUME \A i \in 1 .. Models : attempt[<<r, i>>] = "off" => attempt'[<<r, i>>] = "off",
             \/ drv'[r] = drv[r] /\ model'[r] >= model[r] /\ model'[r] \in Nat
             \/ drv'[r] \in {"over", "failed"}
             \/ drv[r] = "off"
             \/ /\ drv[r] \in {"race", "idle", "idled"}
                /\ \/ drv'[r] \in {"race", "idle", "idled"} /\ model'[r] = model[r]
                   \/ drv'[r] = "next" /\ model'[r] = model[r] + 1
      PROVE  Untried(r)'
  BY <1>0, <1>1 DEF Untried
<1>2. CASE Prompt(r)
  <2>1. \A i \in 1 .. Models : i # model[r] => attempt'[<<r, i>>] = attempt[<<r, i>>]
    <3>1. \E a : attempt' = [attempt EXCEPT ![Current(r)] = a]
      BY <1>2 DEF Prompt
    <3> QED BY <1>0, <3>1, Pairs DEF Current, TryTypes
  <2>2. drv[r] = "next" /\ drv'[r] = "race" /\ model'[r] = model[r]
    BY <1>0, <1>2 DEF Prompt, LoopTypes
  <2> QED BY <1>0, <2>1, <2>2 DEF Untried
<1>3. CASE ~Prompt(r)
  <2>1. \A i \in 1 .. Models : attempt[<<r, i>>] = "off" => attempt'[<<r, i>>] = "off"
    BY <1>3, OffStays, Pairs
  <2>2. ASSUME UNCHANGED <<drv, model>> PROVE Untried(r)'
    BY <1>0, <1>1, <2>1, <2>2
  <2>3. ASSUME NEW q \in Run, Accept(q) \/ Abort(q) PROVE Untried(r)'
    BY <2>2, <2>3 DEF Accept, Abort, driver
  <2>4. ASSUME NEW q \in Run, Timeout(q) PROVE Untried(r)'
    BY <1>0, <1>1, <2>1, <2>4 DEF Timeout, LoopTypes
  <2>5. ASSUME NEW q \in Run, Generator(q) PROVE Untried(r)'
    <3>1. CASE StartTurn(q)
      <4>1. q = r => drv[r] = "off"
        BY <3>1 DEF StartTurn, Phase
      <4> QED BY <1>0, <1>1, <2>1, <3>1, <4>1 DEF StartTurn, LoopTypes
    <3> QED BY <2>2, <2>5, <3>1 DEF Generator, ReadForSave, SaveUserMessage, EndSave, Truncate, ReadSession,
               ReplaceMessages, AbortedBeforeTurn, Persist, Write, driver
  <2>6. ASSUME NEW q \in Run, Drive(q) PROVE Untried(r)'
    <3>1. CASE q # r
      <4>1. drv'[r] = drv[r] /\ model'[r] = model[r]
        BY <1>0, <2>6, <3>1 DEF Drive, OutOfCandidates, SkipCandidate, Prompt, AttemptWon,
           AttemptLost, TimedOut, TurnEnds, Rollback, LoopTypes
      <4> QED BY <1>0, <1>1, <2>1, <4>1
    <3>2. CASE q = r
      <4>1. CASE OutOfCandidates(r) \/ AttemptWon(r)
        BY <1>0, <1>1, <2>1, <4>1 DEF OutOfCandidates, AttemptWon, TurnEnds, LoopTypes
      <4>2. CASE SkipCandidate(r)
        BY <1>0, <1>1, <2>1, <4>2 DEF SkipCandidate, LoopTypes
      <4>3. CASE AttemptLost(r) \/ TimedOut(r)
        BY <1>0, <1>1, <2>1, <4>3 DEF AttemptLost, TimedOut, Rollback, LoopTypes
      <4> QED BY <1>3, <2>6, <3>2, <4>1, <4>2, <4>3 DEF Drive
    <3> QED BY <3>1, <3>2
  <2>7. ASSUME NEW t \in Attempt, RunTurn(t) PROVE Untried(r)'
    BY <2>2, <2>7 DEF RunTurn, WaitForIdle, NothingToRetry, Continue, driver
  <2>8. ASSUME NEW k \in AssistantKind, StreamEnd(k) PROVE Untried(r)'
    <3>1. drv'[r] = drv[r] \/ (drv[r] = "idle" /\ drv'[r] = "idled")
      BY <2>8 DEF StreamEnd
    <3> QED BY <1>0, <1>1, <2>1, <2>8, <3>1 DEF StreamEnd
  <2>9. CASE Crash
    BY <2>9, Pairs DEF Crash, Untried
  <2>10. CASE UNCHANGED turnVars
    BY <2>2, <2>10 DEF turnVars
  <2> QED BY <2>3, <2>4, <2>5, <2>6, <2>7, <2>8, <2>9, <2>10 DEF TurnNext
<1> QED BY <1>2, <1>3

\* The generator and the driver of a run keep step.
LEMMA PhaseStep ==
  ASSUME TurnTypeOK, [TurnNext]_turnVars, NEW r \in Run, Phase(r)
  PROVE  Phase(r)'
<1>0. LoopTypes /\ RunTypes /\ Run \subseteq Nat /\ latest \in Nat
  <2>1. LoopTypes /\ RunTypes BY TypeParts
  <2>2. Run \subseteq Nat /\ latest \in Nat BY <2>1, Numbers DEF RunTypes, Nobody
  <2> QED BY <2>1, <2>2
<1> USE <1>0 DEF Phase
<1>1. ASSUME gen'[r] = gen[r], drv'[r] = drv[r], UNCHANGED <<signal, latest>> PROVE Phase(r)'
  BY <1>1
<1>2. ASSUME NEW q \in Run, Accept(q) PROVE Phase(r)'
  BY <1>2 DEF Accept, RunTypes, driver
<1>3. ASSUME NEW q \in Run, Abort(q) PROVE Phase(r)'
  BY <1>3 DEF Abort, RunTypes, driver, history
<1>4. ASSUME NEW q \in Run, Timeout(q) PROVE Phase(r)'
  BY <1>4 DEF Timeout, LoopTypes
<1>5. ASSUME NEW q \in Run, Generator(q) PROVE Phase(r)'
  <2>1. CASE q # r
    BY <1>1, <1>5, <2>1 DEF Generator, ReadForSave, SaveUserMessage, EndSave, Truncate, ReadSession,
       ReplaceMessages, StartTurn, AbortedBeforeTurn, Persist, Write, driver, history,
       RunTypes, LoopTypes
  <2>2. CASE q = r
    BY <1>5, <2>2 DEF Generator, ReadForSave, SaveUserMessage, EndSave, Truncate, ReadSession, ReplaceMessages,
       StartTurn, AbortedBeforeTurn, Persist, Write, driver, history, RunTypes, LoopTypes
  <2> QED BY <2>1, <2>2
<1>6. ASSUME NEW q \in Run, Drive(q) PROVE Phase(r)'
  <2>1. CASE q # r
    BY <1>1, <1>6, <2>1 DEF Drive, OutOfCandidates, SkipCandidate, Prompt, AttemptWon,
       AttemptLost, TimedOut, TurnEnds, Rollback, history, RunTypes, LoopTypes
  <2>2. CASE q = r
    <3>1. CASE OutOfCandidates(r) \/ AttemptWon(r)
      BY <3>1 DEF OutOfCandidates, AttemptWon, TurnEnds, history, RunTypes, LoopTypes
    <3>2. CASE SkipCandidate(r)
      BY <1>1, <3>2 DEF SkipCandidate, history
    <3>3. CASE Prompt(r) \/ AttemptLost(r) \/ TimedOut(r)
      BY <3>3 DEF Prompt, AttemptLost, TimedOut, Rollback, history, LoopTypes
    <3> QED BY <1>6, <2>2, <3>1, <3>2, <3>3 DEF Drive
  <2> QED BY <2>1, <2>2
<1>7. ASSUME NEW t \in Attempt, RunTurn(t) PROVE Phase(r)'
  BY <1>1, <1>7 DEF RunTurn, WaitForIdle, NothingToRetry, Continue, driver, history
<1>8. ASSUME NEW k \in AssistantKind, StreamEnd(k) PROVE Phase(r)'
  BY <1>8 DEF StreamEnd, history
<1>9. CASE Crash
  BY <1>9 DEF Crash
<1>10. CASE UNCHANGED turnVars
  BY <1>1, <1>10 DEF turnVars
<1> QED BY <1>2, <1>3, <1>4, <1>5, <1>6, <1>7, <1>8, <1>9, <1>10 DEF TurnNext

\* No attempt leaves its place while its stream runs.
LEMMA StreamOwnedStep ==
  ASSUME TurnTypeOK, [TurnNext]_turnVars, Phases
  PROVE  StreamOwned'
<1>0. TryTypes /\ LoopTypes /\ StreamTypes
  BY TypeParts
<1> DEFINE own == <<stream.run, stream.model>>
<1>1. Busy => own \in Attempt /\ attempt[own] = "stream"
  BY <1>0, Pairs DEF StreamTypes, Streams, Busy, Phases, StreamOwned
<1>2. ASSUME UNCHANGED stream, Busy => attempt'[own] = "stream" PROVE StreamOwned'
  BY <1>2 DEF StreamOwned, Busy
<1>3. ASSUME stream' = AbortStream, UNCHANGED attempt PROVE StreamOwned'
  BY <1>0, <1>1, <1>3, AbortStreamIs DEF StreamOwned, StreamTypes, Busy
<1>4. ASSUME NEW r \in Run, NEW i \in 1 .. Models,
             stream' = StreamOf(r, i), attempt'[<<r, i>>] = "stream"
      PROVE  StreamOwned'
  BY <1>4, StreamFacts DEF StreamOwned
<1>5. ASSUME stream' = None PROVE StreamOwned'
  BY <1>5 DEF StreamOwned, Busy
<1>6. ASSUME NEW r \in Run, Accept(r) \/ Abort(r) \/ Timeout(r) \/ Generator(r) PROVE StreamOwned'
  BY <1>1, <1>2, <1>3, <1>6 DEF Accept, Abort, Timeout, Generator, ReadForSave, SaveUserMessage, EndSave, Truncate,
     ReadSession, ReplaceMessages, StartTurn, AbortedBeforeTurn, Persist, Write, tries
<1>7. ASSUME NEW r \in Run, Drive(r) PROVE StreamOwned'
  <2>1. CASE OutOfCandidates(r) \/ SkipCandidate(r) \/ TimedOut(r)
    BY <1>1, <1>2, <2>1 DEF OutOfCandidates, SkipCandidate, TimedOut, Rollback, tries
  <2>2. ASSUME attempt[Current(r)] # "stream", NEW a,
               attempt' = [attempt EXCEPT ![Current(r)] = a], UNCHANGED stream
        PROVE  StreamOwned'
    BY <1>0, <1>1, <1>2, <2>2 DEF TryTypes
  <2>3. CASE AttemptWon(r) \/ AttemptLost(r)
    BY <2>2, <2>3 DEF AttemptWon, AttemptLost, Rollback, LeaveAttempt
  <2>4. CASE Prompt(r)
    <3>1. model[r] \in 1 .. Models
      BY <1>0, <2>4, Numbers DEF Prompt, LoopTypes
    <3>2. Current(r) = <<r, model[r]>> /\ Current(r) \in Attempt
      BY <3>1, Pairs DEF Current
    <3>3. CASE Busy
      <4>1. attempt[Current(r)] = "off"
        BY <2>4, <3>1, <3>2 DEF Prompt, Phases, Untried
      <4> QED BY <2>2, <2>4, <3>3, <4>1 DEF Prompt
    <3>4. CASE ~Busy
      <4>1. /\ attempt' = [attempt EXCEPT ![Current(r)] = "stream"]
            /\ stream' = StreamOf(r, model[r])
        BY <2>4, <3>4 DEF Prompt, StreamOf
      <4>2. attempt'[<<r, model[r]>>] = "stream"
        BY <1>0, <3>2, <4>1 DEF TryTypes
      <4> QED BY <1>4, <3>1, <4>1, <4>2
    <3> QED BY <3>3, <3>4
  <2> QED BY <1>7, <2>1, <2>3, <2>4 DEF Drive
<1>8. ASSUME NEW t \in Attempt, RunTurn(t) PROVE StreamOwned'
  <2>1. ASSUME attempt[t] # "stream", NEW a, attempt' = [attempt EXCEPT ![t] = a], UNCHANGED stream
        PROVE  StreamOwned'
    BY <1>0, <1>1, <1>2, <2>1 DEF TryTypes
  <2>2. CASE WaitForIdle(t) \/ NothingToRetry(t)
    BY <2>1, <2>2 DEF WaitForIdle, NothingToRetry, EndAttempt
  <2>3. CASE Continue(t) /\ UNCHANGED stream
    <3>1. \E a : attempt' = [attempt EXCEPT ![t] = a]
      BY <2>3 DEF Continue, EndAttempt
    <3> QED BY <2>1, <2>3, <3>1 DEF Continue
  <2>4. CASE Continue(t) /\ ~UNCHANGED stream
    <3>1. attempt' = [attempt EXCEPT ![t] = "stream"] /\ stream' = StreamOf(t[1], t[2])
      BY <2>4 DEF Continue, StreamOf
    <3>2. t[1] \in Run /\ t[2] \in 1 .. Models /\ t = <<t[1], t[2]>>
      BY Pairs
    <3>3. attempt'[t] = "stream"
      BY <1>0, <3>1 DEF TryTypes
    <3>4. attempt'[<<t[1], t[2]>>] = "stream"
      BY <3>2, <3>3
    <3> QED BY <1>4, <3>1, <3>2, <3>4
  <2> QED BY <1>8, <2>2, <2>3, <2>4 DEF RunTurn
<1>9. ASSUME NEW k \in AssistantKind, StreamEnd(k) PROVE StreamOwned'
  BY <1>5, <1>9 DEF StreamEnd
<1>10. CASE Crash
  BY <1>5, <1>10 DEF Crash
<1>11. CASE UNCHANGED turnVars
  BY <1>1, <1>2, <1>11 DEF turnVars
<1> QED BY <1>6, <1>7, <1>8, <1>9, <1>10, <1>11 DEF TurnNext

\* Every step keeps the phases.
LEMMA PhasesStep == TurnTypeOK /\ Phases /\ [TurnNext]_turnVars => Phases'
BY PhaseStep, UntriedStep, StreamOwnedStep DEF Phases

\* No run has begun.
LEMMA InitPhases == TurnInit => Phases
<1> SUFFICES ASSUME TurnInit PROVE Phases OBVIOUS
<1>1. \A r \in Run : Phase(r) BY DEF TurnInit, Phase
<1>2. \A r \in Run : Untried(r) BY Pairs DEF TurnInit, Untried
<1>3. StreamOwned BY DEF TurnInit, StreamOwned, Busy
<1> QED BY <1>1, <1>2, <1>3 DEF Phases

-----------------------------------------------------------------------------
(* A run that is alone.                                                    *)

Holding(h) == /\ TurnTypeOK /\ Phases /\ Lonely /\ h \in Seq(Saveable)
              /\ HoldsTurn(h) /\ (Undisturbed => OneAttempt(h))

\* Of a run that is settled nothing is under way again, unless it is accepted.
LEMMA SettledStays ==
  ASSUME TurnTypeOK, [TurnNext]_turnVars, NEW r \in Run, Settled(r)
  PROVE  Settled(r)' \/ Accept(r)
<1>0. RunTypes /\ LoopTypes /\ TryTypes
  BY TypeParts
<1>1. ~Prompt(r)
  BY DEF Settled, Prompt
<1>2. \A i \in 1 .. Models : attempt'[<<r, i>>] = "off"
  BY <1>1, OffStays, Pairs DEF Settled
<1>3. ASSUME gen'[r] = gen[r], drv'[r] = drv[r] PROVE Settled(r)'
  BY <1>2, <1>3 DEF Settled
<1>4. ASSUME NEW q \in Run, Accept(q) PROVE Settled(r)' \/ Accept(r)
  BY <1>0, <1>3, <1>4 DEF Accept, RunTypes, driver
<1>5. ASSUME NEW q \in Run, Abort(q) PROVE Settled(r)'
  <2>1. q # r BY <1>5 DEF Abort, Settled
  <2> QED BY <1>0, <1>3, <1>5, <2>1 DEF Abort, RunTypes, driver
<1>6. ASSUME NEW q \in Run, Timeout(q) PROVE Settled(r)'
  <2>1. q # r BY <1>6 DEF Timeout, Settled
  <2> QED BY <1>0, <1>3, <1>6, <2>1 DEF Timeout, LoopTypes
<1>7. ASSUME NEW q \in Run, Generator(q) PROVE Settled(r)'
  <2>1. q # r
    BY <1>7 DEF Generator, ReadForSave, SaveUserMessage, EndSave, Truncate, ReadSession, ReplaceMessages,
       StartTurn, AbortedBeforeTurn, Persist, Write, Settled
  <2>2. drv'[r] = drv[r] /\ gen'[r] = gen[r]
    BY <1>0, <1>7, <2>1 DEF Generator, ReadForSave, SaveUserMessage, EndSave, Truncate, ReadSession,
       ReplaceMessages, StartTurn, AbortedBeforeTurn, Persist, Write, driver, RunTypes, LoopTypes
  <2> QED BY <1>3, <2>2
<1>8. ASSUME NEW q \in Run, Drive(q) PROVE Settled(r)'
  <2>1. q # r
    BY <1>8 DEF Drive, OutOfCandidates, SkipCandidate, Prompt, AttemptWon, AttemptLost,
       TimedOut, Settled
  <2>2. drv'[r] = drv[r] /\ gen'[r] = gen[r]
    BY <1>0, <1>8, <2>1 DEF Drive, OutOfCandidates, SkipCandidate, Prompt, AttemptWon,
       AttemptLost, TimedOut, TurnEnds, Rollback, RunTypes, LoopTypes
  <2> QED BY <1>3, <2>2
<1>9. ASSUME NEW t \in Attempt, RunTurn(t) PROVE Settled(r)'
  BY <1>3, <1>9 DEF RunTurn, WaitForIdle, NothingToRetry, Continue, driver
<1>10. ASSUME NEW k \in AssistantKind, StreamEnd(k) PROVE Settled(r)'
  <2>1. gen'[r] = gen[r] /\ drv'[r] = drv[r]
    BY <1>10 DEF StreamEnd, Settled
  <2> QED BY <1>3, <2>1
<1>11. CASE Crash
  BY <1>2, <1>11 DEF Crash, Settled
<1>12. CASE UNCHANGED turnVars
  BY <1>3, <1>12 DEF turnVars
<1> QED BY <1>4, <1>5, <1>6, <1>7, <1>8, <1>9, <1>10, <1>11, <1>12 DEF TurnNext

\* So only the one run moves.
LEMMA OneMoves ==
  ASSUME TurnTypeOK, [TurnNext]_turnVars, Lonely, ~\E q \in Run : Accept(q)
  PROVE  \/ Abort(latest) \/ Timeout(latest) \/ Generator(latest) \/ Drive(latest)
         \/ \E t \in Attempt : t[1] = latest /\ RunTurn(t)
         \/ \E k \in AssistantKind : StreamEnd(k)
         \/ Crash
         \/ UNCHANGED turnVars
<1>1. ASSUME NEW q \in Run, q # latest
      PROVE  ~(Abort(q) \/ Timeout(q) \/ Generator(q) \/ Drive(q))
  <2>1. Settled(q)
    BY <1>1 DEF Lonely
  <2> QED BY <2>1 DEF Settled, Abort, Timeout, Generator, ReadForSave, SaveUserMessage, EndSave, Truncate,
     ReadSession, ReplaceMessages, StartTurn, AbortedBeforeTurn, Persist, Write, Drive,
     OutOfCandidates, SkipCandidate, Prompt, AttemptWon, AttemptLost, TimedOut
<1>2. ASSUME NEW t \in Attempt, RunTurn(t) PROVE t[1] = latest
  <2>1. attempt[t] # "off" /\ t = <<t[1], t[2]>> /\ t[1] \in Run /\ t[2] \in 1 .. Models
    BY <1>2, Pairs DEF RunTurn, WaitForIdle, NothingToRetry, Continue
  <2> QED BY <2>1 DEF Lonely, Settled
<1> QED BY <1>1, <1>2 DEF TurnNext

\* Only the acceptance of a run changes which run is the latest.
LEMMA LatestStays ==
  ASSUME [TurnNext]_turnVars, ~\E q \in Run : Accept(q)
  PROVE  latest' = latest /\ base' = base /\ alone' = alone
<1>1. ASSUME NEW q \in Run, Abort(q) \/ Timeout(q) \/ Generator(q) \/ Drive(q)
      PROVE  latest' = latest /\ base' = base /\ alone' = alone
  BY <1>1 DEF Abort, Timeout, Generator, ReadForSave, SaveUserMessage, EndSave, Truncate,
     ReadSession, ReplaceMessages, StartTurn, AbortedBeforeTurn, Persist, Write, Drive,
     OutOfCandidates, SkipCandidate, Prompt, AttemptWon, AttemptLost, TimedOut, Rollback, history
<1>2. ASSUME NEW t \in Attempt, RunTurn(t)
      PROVE  latest' = latest /\ base' = base /\ alone' = alone
  BY <1>2 DEF RunTurn, WaitForIdle, NothingToRetry, Continue, history
<1>3. ASSUME NEW k \in AssistantKind, StreamEnd(k)
      PROVE  latest' = latest /\ base' = base /\ alone' = alone
  BY <1>3 DEF StreamEnd, history
<1>4. Crash \/ UNCHANGED turnVars => latest' = latest /\ base' = base /\ alone' = alone
  BY DEF Crash, turnVars
<1> QED BY <1>1, <1>2, <1>3, <1>4 DEF TurnNext

\* A run that is alone stays alone until the next is accepted.
LEMMA LonelyStep ==
  ASSUME TurnTypeOK, [TurnNext]_turnVars, Lonely, ~\E q \in Run : Accept(q)
  PROVE  Lonely'
<1>0. RunTypes /\ latest' = latest
  BY TypeParts, LatestStays
<1>1. \A r \in Run : r # latest => Settled(r)'
  BY SettledStays DEF Lonely
<1>2. gen[latest] # "idle" /\ latest \in Run
  BY DEF Lonely
<1>3. gen'[latest] # "idle"
  <2>1. ASSUME NEW q \in Run, Abort(q) \/ Timeout(q) \/ Generator(q) \/ Drive(q)
        PROVE  gen'[latest] # "idle"
    BY <1>0, <1>2, <2>1 DEF Abort, Timeout, Generator, ReadForSave, SaveUserMessage, EndSave, Truncate,
       ReadSession, ReplaceMessages, StartTurn, AbortedBeforeTurn, Persist, Write, Drive,
       OutOfCandidates, SkipCandidate, Prompt, AttemptWon, AttemptLost, TimedOut, TurnEnds,
       Rollback, RunTypes
  <2>2. ASSUME NEW t \in Attempt, RunTurn(t) PROVE gen'[latest] # "idle"
    BY <1>2, <2>2 DEF RunTurn, WaitForIdle, NothingToRetry, Continue
  <2>3. ASSUME NEW k \in AssistantKind, StreamEnd(k) PROVE gen'[latest] # "idle"
    BY <1>2, <2>3 DEF StreamEnd
  <2>4. Crash \/ UNCHANGED turnVars => gen'[latest] # "idle"
    BY <1>2 DEF Crash, turnVars
  <2> QED BY <2>1, <2>2, <2>3, <2>4 DEF TurnNext
<1> QED BY <1>0, <1>1, <1>2, <1>3 DEF Lonely

\* All attempts, and the stream, are the latest run's.
LEMMA HoldingFacts ==
  ASSUME NEW h, Holding(h)
  PROVE  /\ TurnTypeOK /\ latest \in Run /\ h \in Seq(Saveable)
         /\ \A t \in Attempt : attempt[t] # "off" =>
              t[1] = latest /\ t = <<latest, t[2]>> /\ t[2] \in 1 .. Models
         /\ Busy => /\ stream.run = latest /\ stream.model \in 1 .. Models
                    /\ attempt[<<latest, stream.model>>] = "stream"
         /\ drv[latest] = "off" => ~Busy /\ \A t \in Attempt : attempt[t] = "off"
<1>0. /\ TryTypes /\ StreamTypes /\ TurnTypeOK /\ latest \in Run /\ h \in Seq(Saveable)
      /\ Untried(latest) /\ StreamOwned /\ \A r \in Run : r # latest => Settled(r)
  BY TypeParts DEF Holding, Lonely, Phases
<1>1. ASSUME NEW t \in Attempt, attempt[t] # "off"
      PROVE  t[1] = latest /\ t = <<latest, t[2]>> /\ t[2] \in 1 .. Models
  <2>1. t = <<t[1], t[2]>> /\ t[1] \in Run /\ t[2] \in 1 .. Models
    BY Pairs
  <2>2. t[1] = latest
    BY <1>0, <1>1, <2>1 DEF Settled
  <2> QED BY <2>1, <2>2
<1>2. ASSUME Busy
      PROVE  /\ stream.run = latest /\ stream.model \in 1 .. Models
             /\ attempt[<<latest, stream.model>>] = "stream"
  <2>1. stream.run \in Run /\ stream.model \in 1 .. Models
    BY <1>0, <1>2 DEF StreamTypes, Streams, Busy
  <2>2. attempt[<<stream.run, stream.model>>] = "stream"
    BY <1>0, <1>2 DEF StreamOwned
  <2>3. stream.run = latest
    BY <1>0, <2>1, <2>2 DEF Settled
  <2> QED BY <2>1, <2>2, <2>3
<1>3. ASSUME drv[latest] = "off" PROVE ~Busy /\ \A t \in Attempt : attempt[t] = "off"
  <2>1. \A i \in 1 .. Models : attempt[<<latest, i>>] = "off"
    BY <1>0, <1>3 DEF Untried
  <2>2. \A t \in Attempt : attempt[t] = "off"
    BY <1>1, <2>1
  <2> QED BY <1>2, <2>1, <2>2
<1> QED BY <1>0, <1>1, <1>2, <1>3

\* What the shapes are is the same before and after a step of the run.
LEMMA SameShapes ==
  ASSUME latest' = latest, NEW h
  PROVE  /\ Shapes(h)' = Shapes(h) /\ Asked(h)' = Asked(h) /\ Saying(h)' = Saying(h)
         /\ \A k : Then(Asked(h), k)' = Then(Asked(h), k) /\ Then(h, k)' = Then(h, k)
BY DEF Shapes, Asked, Saying, Then

\* The additions to h differ from each other, and what each ends with.
LEMMA ShapeFacts ==
  ASSUME latest \in Run, NEW h \in Seq(Saveable)
  PROVE  /\ h # Asked(h) /\ h \notin Saying(h) /\ Asked(h) \notin Saying(h)
         /\ h \notin Saying(Asked(h)) /\ Asked(h) \notin Saying(Asked(h))
         /\ \A k \in AssistantKind :
              /\ Then(h, k) \in Saying(h) /\ Then(h, k) \in Shapes(h)
              /\ Then(Asked(h), k) \notin Saying(h) /\ Then(Asked(h), k) \in Shapes(h)
              /\ LastAssistant(Then(h, k)) = k /\ LastAssistant(Then(Asked(h), k)) = k
         /\ LastAssistant(h) \in {"none", "answer", "partial"}
         /\ LastAssistant(Asked(h)) = LastAssistant(h)
         /\ h \in Shapes(h) /\ Asked(h) \in Shapes(h)
BY ShapesDiffer, ShapeAnswers DEF Saying, Shapes

-----------------------------------------------------------------------------
(* One step of the run that is alone, while its turn is not written.       *)

\* What the run keeps of a turn, it keeps through a step that leaves the Agent alone.
LEMMA AgentKept ==
  ASSUME NEW h, Holding(h), latest' = latest, UNCHANGED agent,
         Busy' = Busy,
         drv'[latest] = "race" /\ attempt'[Current(latest)'] = "threw" =>
           \/ drv[latest] = "race" /\ attempt[Current(latest)] = "threw"
           \/ LastAssistant(h) = "none",
         drv'[latest] \in {"off", "next"} => drv[latest] \in {"off", "next"},
         drv'[latest] \in {"race", "idle", "idled"} => before'[latest] = Len(h),
         drv'[latest] = "idle" => Busy /\ stream'.aborted,
         drv'[latest] = "idled" =>
           ~Busy /\ (LastAssistant(agent) # "transient" \/ \A t \in Attempt : ~Due(t)')
  PROVE  HoldsTurn(h)'
<1>1. Shapes(h)' = Shapes(h) /\ Asked(h)' = Asked(h) /\ Saying(h)' = Saying(h)
  BY SameShapes
<1>2. HoldsTurn(h)
  BY DEF Holding
<1> QED BY <1>1, <1>2 DEF HoldsTurn

\* The turn begins with what was loaded.
LEMMA StartTurnHolds ==
  ASSUME NEW h, Holding(h), latest' = latest, StartTurn(latest)
  PROVE  HoldsTurn(h)' /\ (Undisturbed' => OneAttempt(h)')
<1>0. /\ latest \in Run /\ drv[latest] = "off" /\ LoopTypes
      /\ ~Busy /\ \A t \in Attempt : attempt[t] = "off"
  BY HoldingFacts, TypeParts DEF Holding, Phases, Phase, StartTurn
<1>1. drv'[latest] = "next" /\ UNCHANGED <<agent, stream, attempt, late, signal>>
  BY <1>0 DEF StartTurn, LoopTypes, tries, history
<1>2. Busy' = Busy
  BY <1>1 DEF Busy
<1>3. HoldsTurn(h)'
  BY <1>0, <1>1, <1>2, AgentKept
<1>4. OneAttempt(h)'
  <2>1. \A i \in 1 .. Models : attempt'[<<latest, i>>] = "off"
    BY <1>0, <1>1, Pairs
  <2>2. stream = None
    BY <1>0 DEF Busy
  <2> QED BY <1>1, <2>1, <2>2, StreamFacts DEF OneAttempt
<1> QED BY <1>3, <1>4

\* An abort touches only the stream and the generator.
LEMMA AbortHolds ==
  ASSUME NEW h, Holding(h), latest' = latest, Abort(latest) \/ AbortedBeforeTurn(latest)
  PROVE  HoldsTurn(h)' /\ (Undisturbed' => OneAttempt(h)')
<1>0. stream \in Streams /\ HoldsTurn(h)
  BY TypeParts DEF Holding, StreamTypes
<1>1. /\ latest \in signal' /\ (stream' = stream \/ stream' = AbortStream)
      /\ UNCHANGED <<agent, drv, model, before, attempt>>
  BY DEF Abort, AbortedBeforeTurn, driver, tries
<1>2. Busy' = Busy
  BY <1>0, <1>1, AbortStreamIs DEF Busy
<1>3. Busy /\ stream.aborted => stream'.aborted
  BY <1>0, <1>1, AbortStreamIs
<1>4. Current(latest)' = Current(latest) /\ \A t \in Attempt : Due(t)' <=> Due(t)
  BY <1>1 DEF Current, Due
<1>5. HoldsTurn(h)'
  BY <1>0, <1>1, <1>2, <1>3, <1>4, AgentKept DEF HoldsTurn
<1> QED BY <1>1, <1>5 DEF Undisturbed

\* The attempt that is too late streams on, aborted, while the driver waits.
LEMMA TimeoutHolds ==
  ASSUME NEW h, Holding(h), latest' = latest, Timeout(latest)
  PROVE  HoldsTurn(h)' /\ (Undisturbed' => OneAttempt(h)')
<1>0. stream \in Streams /\ LoopTypes /\ latest \in Run /\ HoldsTurn(h)
  BY TypeParts DEF Holding, StreamTypes, Lonely
<1>1. /\ stream' = AbortStream /\ late' /\ UNCHANGED <<agent, before, attempt>>
      /\ drv[latest] = "race" /\ drv'[latest] = IF Busy THEN "idle" ELSE "idled"
      /\ \A t \in Attempt : ~Due(t)
  BY <1>0 DEF Timeout, Quiet, tries, LoopTypes
<1>2. Busy' = Busy /\ stream'.aborted = Busy
  BY <1>0, <1>1, AbortStreamIs DEF Busy
<1>3. \A t \in Attempt : ~Due(t)'
  BY <1>1 DEF Due
<1>4. before'[latest] = Len(h)
  BY <1>0, <1>1 DEF HoldsTurn
<1>5. HoldsTurn(h)'
  BY <1>1, <1>2, <1>3, <1>4, AgentKept
<1> QED BY <1>1, <1>5 DEF Undisturbed

\* The loop goes on, or ends without a candidate: the Agent holds what was loaded.
LEMMA SkipHolds ==
  ASSUME NEW h, Holding(h), latest' = latest, OutOfCandidates(latest) \/ SkipCandidate(latest)
  PROVE  HoldsTurn(h)' /\ (Undisturbed' => OneAttempt(h)')
<1>0. LoopTypes /\ latest \in Run /\ (Undisturbed => OneAttempt(h))
  BY TypeParts DEF Holding, Lonely
<1>1. /\ drv[latest] = "next" /\ drv'[latest] \in {"next", "failed"}
      /\ UNCHANGED <<agent, stream, attempt, late, signal>>
  BY <1>0 DEF OutOfCandidates, SkipCandidate, TurnEnds, tries, history, LoopTypes
<1>2. Busy' = Busy
  BY <1>1 DEF Busy
<1>3. HoldsTurn(h)'
  BY <1>1, <1>2, AgentKept
<1>4. ASSUME Undisturbed' PROVE OneAttempt(h)'
  <2>1. Undisturbed
    BY <1>1, <1>4 DEF Undisturbed
  <2> QED BY <1>0, <1>1, <2>1 DEF OneAttempt
<1> QED BY <1>3, <1>4

\* prompt adds the question, or throws under the stream of a stale attempt.
LEMMA PromptHolds ==
  ASSUME NEW h, Holding(h), latest' = latest, Prompt(latest)
  PROVE  HoldsTurn(h)' /\ (Undisturbed' => OneAttempt(h)')
<1>0. /\ LoopTypes /\ TryTypes /\ latest \in Run /\ h \in Seq(Saveable)
      /\ HoldsTurn(h) /\ (Undisturbed => OneAttempt(h))
  BY TypeParts DEF Holding, Lonely
<1>1. /\ drv[latest] = "next" /\ drv'[latest] = "race" /\ model[latest] \in 1 .. Models
      /\ before'[latest] = Len(agent) /\ UNCHANGED <<model, late, signal>>
      /\ model'[latest] = model[latest]
  BY <1>0, Numbers DEF Prompt, LoopTypes, history
<1>2. agent = h
  BY <1>0, <1>1 DEF HoldsTurn
<1>3. Current(latest)' = Current(latest) /\ Current(latest) \in Attempt
      /\ Current(latest) = <<latest, model[latest]>>
  BY <1>0, <1>1, Pairs DEF Current
<1>4. CASE Busy
  <2>1. /\ UNCHANGED <<agent, stream>> /\ attempt'[Current(latest)] = "threw"
    BY <1>0, <1>3, <1>4 DEF Prompt, TryTypes
  <2>2. Busy' = Busy
    BY <2>1 DEF Busy
  <2>3. LastAssistant(h) = "none"
    BY <1>0, <1>2, <1>4 DEF HoldsTurn
  <2>4. HoldsTurn(h)'
    BY <1>1, <1>2, <2>1, <2>2, <2>3, AgentKept
  <2>5. ~Undisturbed
    <3>1. stream.model \in 1 .. Models /\ attempt[<<latest, stream.model>>] = "stream"
      BY <1>4, HoldingFacts
    <3> QED BY <1>0, <1>1, <3>1 DEF OneAttempt
  <2> QED BY <1>1, <2>4, <2>5 DEF Undisturbed
<1>5. CASE ~Busy
  <2>1. /\ agent' = Asked(h) /\ stream' = StreamOf(latest, model[latest])
        /\ attempt' = [attempt EXCEPT ![Current(latest)] = "stream"]
    BY <1>2, <1>5 DEF Prompt, Asked, StreamOf
  <2>2. Busy' /\ ~stream'.aborted
    BY <1>0, <1>1, <2>1, StreamFacts DEF Busy
  <2>3. attempt'[Current(latest)] = "stream"
    BY <1>0, <1>3, <2>1 DEF TryTypes
  <2>4. Shapes(h)' = Shapes(h) /\ Asked(h)' = Asked(h) /\ Saying(h)' = Saying(h)
    BY SameShapes
  <2>5. HoldsTurn(h)'
    BY <1>0, <1>1, <1>2, <1>3, <2>1, <2>2, <2>3, <2>4, ShapeFacts DEF HoldsTurn
  <2>6. ASSUME Undisturbed' PROVE OneAttempt(h)'
    <3>1. OneAttempt(h)
      BY <1>0, <1>1, <2>6 DEF Undisturbed
    <3>2. \A i \in 1 .. Models : attempt'[<<latest, i>>] # "off" => i = model[latest]
      <4>1. \A i \in 1 .. Models : attempt[<<latest, i>>] = "off"
        BY <1>1, <3>1 DEF OneAttempt
      <4>2. ASSUME NEW i \in 1 .. Models, i # model[latest]
            PROVE  attempt'[<<latest, i>>] = "off"
        BY <1>0, <1>3, <2>1, <4>1, <4>2, Pairs DEF TryTypes
      <4> QED BY <4>2
    <3> QED BY <1>1, <1>3, <2>1, <2>2, <2>3, <2>4, <3>2 DEF OneAttempt
  <2> QED BY <2>5, <2>6
<1> QED BY <1>4, <1>5

\* The turn ends with what the attempt left; undisturbed, that is an answer.
LEMMA WonHolds ==
  ASSUME NEW h, Holding(h), latest' = latest, AttemptWon(latest)
  PROVE  HoldsTurn(h)' /\ (Undisturbed' => OneAttempt(h)')
<1>0. /\ LoopTypes /\ TryTypes /\ latest \in Run /\ h \in Seq(Saveable)
      /\ HoldsTurn(h) /\ (Undisturbed => OneAttempt(h))
  BY TypeParts DEF Holding, Lonely
<1>1. /\ drv[latest] = "race" /\ drv'[latest] = "over" /\ model[latest] \in 1 .. Models
      /\ attempt[Current(latest)] = "finished"
      /\ attempt' = [attempt EXCEPT ![Current(latest)] = "off"]
      /\ TurnAborted(agent) \/ ~TurnFailed(agent)
      /\ UNCHANGED <<agent, stream, late, signal>>
  BY <1>0, Numbers DEF AttemptWon, TurnEnds, LeaveAttempt, LoopTypes, history
<1>2. Busy' = Busy
  BY <1>1 DEF Busy
<1>3. HoldsTurn(h)'
  BY <1>1, <1>2, AgentKept
<1>4. ASSUME Undisturbed' PROVE OneAttempt(h)'
  <2>1. OneAttempt(h)
    BY <1>0, <1>1, <1>4 DEF Undisturbed
  <2>2. Current(latest) = <<latest, model[latest]>> /\ Current(latest) \in Attempt
    BY <1>0, <1>1, Pairs DEF Current
  <2>3. ASSUME NEW i \in 1 .. Models PROVE attempt'[<<latest, i>>] = "off"
    <3>1. CASE i = model[latest]
      BY <1>0, <1>1, <2>2, <3>1 DEF TryTypes
    <3>2. CASE i # model[latest]
      BY <1>0, <1>1, <2>1, <2>2, <3>2, Pairs DEF OneAttempt, TryTypes
    <3> QED BY <3>1, <3>2
  <2>4. PICK k \in {"answer", "error", "transient"} : agent = Then(Asked(h), k)
    BY <1>1, <2>1 DEF OneAttempt
  <2>5. LastAssistant(agent) = k
    BY <1>0, <2>4, ShapeFacts DEF AssistantKind
  <2>6. agent = Then(Asked(h), "answer")
    BY <1>1, <2>4, <2>5 DEF TurnAborted, TurnFailed
  <2>7. ~stream'.aborted
    BY <1>1, <2>1 DEF OneAttempt
  <2>8. Then(Asked(h), "answer")' = Then(Asked(h), "answer")
    BY SameShapes
  <2> QED BY <1>1, <2>3, <2>6, <2>7, <2>8 DEF OneAttempt
<1> QED BY <1>3, <1>4

\* A rollback leaves h, whatever the attempt has added.
LEMMA RollbackHolds ==
  ASSUME NEW h, Holding(h), latest' = latest, Rollback(latest),
         drv[latest] \in {"race", "idled"}, Busy => LastAssistant(h) = "none"
  PROVE  HoldsTurn(h)' /\ agent' = h /\ drv'[latest] = "next" /\ UNCHANGED <<stream, late, signal>>
<1>0. LoopTypes /\ latest \in Run /\ h \in Seq(Saveable) /\ HoldsTurn(h)
  BY TypeParts DEF Holding, Lonely
<1>1. /\ drv'[latest] = "next" /\ UNCHANGED <<stream, late, signal>>
      /\ agent' = SubSeq(agent, 1, IF before[latest] < Len(agent) THEN before[latest] ELSE Len(agent))
  BY <1>0 DEF Rollback, LoopTypes, history
<1>2. before[latest] = Len(h) /\ agent \in Shapes(h)
  BY <1>0 DEF HoldsTurn
<1>3. agent' = h
  BY <1>0, <1>1, <1>2, ShapeRolledBack
<1>4. Busy' = Busy
  BY <1>1 DEF Busy
<1>5. Shapes(h)' = Shapes(h) /\ Asked(h)' = Asked(h) /\ Saying(h)' = Saying(h)
  BY SameShapes
<1>6. h \in Shapes(h) /\ h \notin Saying(h)
  BY <1>0, ShapeFacts
<1>7. agent' \in Shapes(h)' /\ agent' \notin Saying(h)' /\ agent' \in {h, Asked(h)'}
  BY <1>3, <1>5, <1>6
<1>8. Busy' => LastAssistant(h) = "none"
  BY <1>4
<1>9. HoldsTurn(h)'
  BY <1>1, <1>3, <1>7, <1>8 DEF HoldsTurn
<1> QED BY <1>1, <1>3, <1>9

\* The next model starts from what was loaded, when an attempt has failed.
LEMMA LostHolds ==
  ASSUME NEW h, Holding(h), latest' = latest, AttemptLost(latest)
  PROVE  HoldsTurn(h)' /\ (Undisturbed' => OneAttempt(h)')
<1>0. /\ LoopTypes /\ TryTypes /\ latest \in Run /\ h \in Seq(Saveable)
      /\ HoldsTurn(h) /\ (Undisturbed => OneAttempt(h))
  BY TypeParts DEF Holding, Lonely
<1>1. /\ drv[latest] = "race" /\ model[latest] \in 1 .. Models /\ Rollback(latest)
      /\ attempt' = [attempt EXCEPT ![Current(latest)] = "off"]
      /\ \/ attempt[Current(latest)] = "threw"
         \/ TurnFailed(agent)
  BY <1>0, Numbers DEF AttemptLost, LeaveAttempt, LoopTypes
<1>2. ASSUME Busy PROVE LastAssistant(h) = "none"
  <2>1. CASE attempt[Current(latest)] = "threw"
    BY <1>0, <1>1, <2>1 DEF HoldsTurn
  <2>2. CASE TurnFailed(agent)
    <3>1. agent \in {h, Asked(h)}
      BY <1>0, <1>2 DEF HoldsTurn
    <3>2. LastAssistant(agent) = LastAssistant(h)
          /\ LastAssistant(h) \in {"none", "answer", "partial"}
      BY <1>0, <3>1, ShapeFacts
    <3> QED BY <2>2, <3>2 DEF TurnFailed
  <2> QED BY <1>1, <2>1, <2>2
<1>3. HoldsTurn(h)' /\ drv'[latest] = "next" /\ UNCHANGED <<stream, late, signal>>
  BY <1>1, <1>2, RollbackHolds
<1>4. ASSUME Undisturbed' PROVE OneAttempt(h)'
  <2>1. OneAttempt(h)
    BY <1>0, <1>3, <1>4 DEF Undisturbed
  <2>2. Current(latest) = <<latest, model[latest]>> /\ Current(latest) \in Attempt
    BY <1>0, <1>1, Pairs DEF Current
  <2>3. ASSUME NEW i \in 1 .. Models PROVE attempt'[<<latest, i>>] = "off"
    <3>1. CASE i = model[latest]
      BY <1>0, <1>1, <2>2, <3>1 DEF TryTypes
    <3>2. CASE i # model[latest]
      BY <1>0, <1>1, <2>1, <2>2, <3>2, Pairs DEF OneAttempt, TryTypes
    <3> QED BY <3>1, <3>2
  <2>4. ~stream'.aborted
    BY <1>3, <2>1 DEF OneAttempt
  <2> QED BY <1>3, <2>3, <2>4 DEF OneAttempt
<1> QED BY <1>3, <1>4

\* The next model starts from what was loaded, when the driver has seen the Agent idle.
LEMMA TimedOutHolds ==
  ASSUME NEW h, Holding(h), latest' = latest, TimedOut(latest)
  PROVE  HoldsTurn(h)' /\ (Undisturbed' => OneAttempt(h)')
<1>0. HoldsTurn(h) /\ (Undisturbed => OneAttempt(h)) /\ drv[latest] = "idled" /\ Rollback(latest)
  BY DEF Holding, TimedOut
<1>1. ~Busy
  BY <1>0 DEF HoldsTurn
<1>2. HoldsTurn(h)' /\ UNCHANGED <<stream, late, signal>>
  BY <1>0, <1>1, RollbackHolds
<1>3. ~Undisturbed
  BY <1>0 DEF OneAttempt
<1> QED BY <1>2, <1>3 DEF Undisturbed

\* An undisturbed turn has its one attempt under way, or none.
LEMMA TheAttempt ==
  ASSUME NEW h, Holding(h), Undisturbed, NEW t \in Attempt, attempt[t] # "off"
  PROVE  /\ OneAttempt(h) /\ drv[latest] = "race" /\ t = Current(latest)
         /\ t[1] = latest /\ t[2] = model[latest]
         /\ Busy => attempt[t] = "stream"
<1>0. OneAttempt(h) /\ latest \in Run
  BY DEF Holding, Lonely
<1>1. t[1] = latest /\ t = <<latest, t[2]>> /\ t[2] \in 1 .. Models
  BY HoldingFacts
<1>2. drv[latest] = "race" /\ t[2] = model[latest]
  BY <1>0, <1>1 DEF OneAttempt
<1>3. t = Current(latest)
  BY <1>1, <1>2 DEF Current
<1>4. ASSUME Busy PROVE attempt[t] = "stream"
  <2>1. stream.model \in 1 .. Models /\ attempt[<<latest, stream.model>>] = "stream"
    BY <1>4, HoldingFacts
  <2>2. stream.model = model[latest]
    BY <1>0, <2>1 DEF OneAttempt
  <2> QED BY <1>3, <2>1, <2>2 DEF Current
<1> QED BY <1>0, <1>1, <1>2, <1>3, <1>4

\* An attempt that goes on without touching the Agent.
LEMMA AttemptMoves ==
  ASSUME NEW h, Holding(h), latest' = latest, NEW t \in Attempt, NEW a,
         UNCHANGED <<agent, stream, drv, model, before, late, signal>>,
         Due(t), a # "threw", attempt' = [attempt EXCEPT ![t] = a],
         Undisturbed => a \in {"retry", "finished"}
  PROVE  HoldsTurn(h)' /\ (Undisturbed' => OneAttempt(h)')
<1>0. HoldsTurn(h) /\ TryTypes /\ latest \in Run /\ LoopTypes /\ attempt[t] \in {"ended", "retry"}
  BY TypeParts DEF Holding, Lonely, Due
<1>1. Busy' = Busy /\ Current(latest)' = Current(latest)
  BY DEF Busy, Current
<1>2. attempt'[t] = a /\ \A u \in Attempt : u # t => attempt'[u] = attempt[u]
  BY <1>0 DEF TryTypes
<1>3. drv[latest] = "race" => Current(latest) \in Attempt
  BY <1>0, Numbers, Pairs DEF Current, LoopTypes
<1>4. HoldsTurn(h)'
  <2>1. drv[latest] = "idled" => LastAssistant(agent) # "transient"
    BY <1>0 DEF HoldsTurn
  <2> QED BY <1>0, <1>1, <1>2, <1>3, <2>1, AgentKept DEF HoldsTurn
<1>5. ASSUME Undisturbed' PROVE OneAttempt(h)'
  <2>0. Undisturbed
    BY <1>5 DEF Undisturbed
  <2>1. /\ OneAttempt(h) /\ drv[latest] = "race" /\ t = Current(latest)
        /\ t[1] = latest /\ t[2] = model[latest]
    BY <1>0, <2>0, TheAttempt
  <2>2. \A i \in 1 .. Models : attempt'[<<latest, i>>] # "off" => i = model[latest]
    <3>1. ASSUME NEW i \in 1 .. Models, i # model[latest] PROVE attempt'[<<latest, i>>] = "off"
      <4>1. <<latest, i>> \in Attempt /\ <<latest, i>> # t
        BY <1>0, <2>1, <3>1, Pairs
      <4>2. attempt[<<latest, i>>] = "off"
        BY <2>1, <3>1 DEF OneAttempt
      <4> QED BY <1>2, <4>1, <4>2
    <3> QED BY <3>1
  <2>3. PICK k \in {"answer", "error", "transient"} : agent = Then(Asked(h), k)
    BY <1>0, <2>1 DEF OneAttempt
  <2>4. Then(Asked(h), k)' = Then(Asked(h), k)
    BY SameShapes
  <2>5. a \in {"retry", "finished"}
    BY <2>0
  <2> QED BY <1>1, <1>2, <2>1, <2>2, <2>3, <2>4, <2>5 DEF OneAttempt
<1> QED BY <1>4, <1>5

\* An attempt that waits, or has nothing to retry, leaves the Agent alone.
LEMMA WaitHolds ==
  ASSUME NEW h, Holding(h), latest' = latest, NEW t \in Attempt, WaitForIdle(t) \/ NothingToRetry(t)
  PROVE  HoldsTurn(h)' /\ (Undisturbed' => OneAttempt(h)')
<1>1. UNCHANGED <<agent, stream, drv, model, before, late, signal>>
      /\ attempt[t] \in {"ended", "retry"}
  BY DEF WaitForIdle, NothingToRetry, driver, history
<1>2. CASE WaitForIdle(t)
  <2>1. attempt' = [attempt EXCEPT ![t] = IF Busy THEN "idle" ELSE "retry"]
    BY <1>2 DEF WaitForIdle
  <2>2. Undisturbed => ~Busy
    BY <1>1, TheAttempt
  <2> DEFINE a == IF Busy THEN "idle" ELSE "retry"
  <2>3. a # "threw" /\ (Undisturbed => a \in {"retry", "finished"})
    BY <2>2
  <2> HIDE DEF a
  <2>4. attempt' = [attempt EXCEPT ![t] = a]
    BY <2>1 DEF a
  <2> QED BY <1>1, <2>3, <2>4, AttemptMoves DEF Due
<1>3. CASE NothingToRetry(t)
  <2> DEFINE a == IF Stale(t) THEN "off" ELSE "finished"
  <2>1. attempt' = [attempt EXCEPT ![t] = a]
    BY <1>3 DEF NothingToRetry, EndAttempt
  <2>2. Undisturbed => ~Stale(t)
    BY <1>1, TheAttempt DEF Stale
  <2>3. a # "threw" /\ (Undisturbed => a \in {"retry", "finished"})
    BY <2>2
  <2> HIDE DEF a
  <2> QED BY <1>1, <2>1, <2>3, AttemptMoves DEF Due
<1> QED BY <1>2, <1>3

\* A retry drops the transient error, and only that: it streams again, or throws.
LEMMA ContinueHolds ==
  ASSUME NEW h, Holding(h), latest' = latest, NEW t \in Attempt, Continue(t)
  PROVE  HoldsTurn(h)' /\ (Undisturbed' => OneAttempt(h)')
<1>0. /\ HoldsTurn(h) /\ TryTypes /\ latest \in Run /\ LoopTypes /\ h \in Seq(Saveable)
  BY TypeParts DEF Holding, Lonely
<1>1. /\ attempt[t] = "retry" /\ LastAssistant(agent) = "transient"
      /\ agent' = StripTrailingErrors(agent)
      /\ UNCHANGED <<drv, model, before, late, signal>>
  BY DEF Continue, driver, history
<1>2. PICK s \in {h, Asked(h)} : agent = Then(s, "transient") /\ (s = h => LastAssistant(h) = "none")
  <2>1. agent \notin {h, Asked(h)}
    BY <1>0, <1>1, ShapeFacts
  <2>2. PICK s \in {h, Asked(h)}, k \in AssistantKind : agent = Then(s, k)
    BY <1>0, <2>1 DEF HoldsTurn, Shapes, Saying
  <2>3. k = "transient"
    BY <1>0, <1>1, <2>2, ShapeFacts
  <2>4. s = h => agent \in Saying(h)
    BY <1>0, <2>2, ShapeFacts
  <2> QED BY <1>0, <2>2, <2>3, <2>4 DEF HoldsTurn
<1>3. ~Busy /\ drv[latest] \in {"race", "over", "failed"}
  <2>1. agent \notin {h, Asked(h)}
    BY <1>0, <1>1, ShapeFacts
  <2>2. ~Busy /\ drv[latest] # "idle"
    BY <1>0, <2>1 DEF HoldsTurn
  <2>3. drv[latest] # "idled"
    BY <1>0, <1>1 DEF HoldsTurn, Due
  <2>4. drv[latest] \notin {"off", "next"}
    BY <1>0, <2>1 DEF HoldsTurn
  <2> QED BY <1>0, <2>2, <2>3, <2>4 DEF LoopTypes, Drives
<1>4. agent' = s
  BY <1>0, <1>1, <1>2, ShapeStripped
<1>5. Shapes(h)' = Shapes(h) /\ Asked(h)' = Asked(h) /\ Saying(h)' = Saying(h)
      /\ \A k : Then(Asked(h), k)' = Then(Asked(h), k)
  BY SameShapes
<1>6. s \in Shapes(h) /\ s \notin Saying(h)
  BY <1>0, ShapeFacts
<1>7. Current(latest)' = Current(latest) /\ (drv[latest] = "race" => Current(latest) \in Attempt)
  BY <1>0, <1>1, Numbers, Pairs DEF Current, LoopTypes
<1>8. drv'[latest] \in {"race", "over", "failed"}
      /\ (drv'[latest] = "race" => before'[latest] = Len(h))
  BY <1>0, <1>1, <1>3 DEF HoldsTurn
<1>9. CASE LastKind(agent') \notin UserKind
  <2>1. s = h
    BY <1>0, <1>4, <1>9, ShapeTypes DEF UserKind
  <2>2. EndAttempt(t, "threw") /\ UNCHANGED stream
    BY <1>9 DEF Continue
  <2>3. ~Busy'
    BY <1>3, <2>2 DEF Busy
  <2>4. LastAssistant(h) = "none" /\ agent' = h
    BY <1>2, <1>4, <2>1
  <2>5. HoldsTurn(h)'
    BY <1>4, <1>5, <1>6, <1>8, <2>3, <2>4 DEF HoldsTurn
  <2>6. ~Undisturbed
    <3> SUFFICES ASSUME Undisturbed PROVE FALSE
      OBVIOUS
    <3>1. OneAttempt(h) /\ drv[latest] = "race" /\ t = Current(latest)
      BY <1>1, TheAttempt
    <3>2. PICK k \in {"answer", "error", "transient"} : agent = Then(Asked(h), k)
      BY <1>1, <3>1 DEF OneAttempt
    <3> QED BY <1>0, <1>2, <2>1, <3>2, ShapeFacts DEF AssistantKind
  <2> QED BY <1>1, <2>5, <2>6 DEF Undisturbed
<1>10. CASE LastKind(agent') \in UserKind
  <2>1. /\ attempt' = [attempt EXCEPT ![t] = "stream"]
        /\ stream' = StreamOf(t[1], t[2])
    BY <1>3, <1>10 DEF Continue, StreamOf
  <2>2. ~stream'.aborted
    BY <2>1, Pairs, StreamFacts
  <2>3. attempt'[t] = "stream" /\ \A u \in Attempt : u # t => attempt'[u] = attempt[u]
    BY <1>0, <2>1 DEF TryTypes
  <2>4. LastAssistant(h) = "none" \/ (agent' # h /\ agent' = Asked(h))
    BY <1>0, <1>2, <1>4, ShapeFacts
  <2>5. drv'[latest] = "race" /\ attempt'[Current(latest)'] = "threw" => LastAssistant(h) = "none"
    BY <1>0, <1>1, <1>7, <2>3 DEF HoldsTurn
  <2>6. agent' \in {h, Asked(h)'} /\ agent' \in Shapes(h)' /\ agent' \notin Saying(h)'
    BY <1>4, <1>5, <1>6
  <2>7. HoldsTurn(h)'
    BY <1>8, <2>4, <2>5, <2>6 DEF HoldsTurn
  <2>8. ASSUME Undisturbed' PROVE OneAttempt(h)'
    <3>1. Undisturbed
      BY <1>1, <2>8 DEF Undisturbed
    <3>2. /\ OneAttempt(h) /\ drv[latest] = "race" /\ t = Current(latest)
          /\ t[1] = latest /\ t[2] = model[latest]
      BY <1>1, <3>1, TheAttempt
    <3>3. agent = Then(Asked(h), "transient")
      BY <1>0, <1>1, <3>2, ShapeFacts DEF OneAttempt, AssistantKind
    <3>4. agent' = Asked(h)
      <4>1. s = Asked(h)
        BY <1>0, <1>2, <3>3, ShapeFacts DEF AssistantKind
      <4> QED BY <1>4, <4>1
    <3>5. \A i \in 1 .. Models : attempt'[<<latest, i>>] # "off" => i = model[latest]
      <4>1. ASSUME NEW i \in 1 .. Models, i # model[latest] PROVE attempt'[<<latest, i>>] = "off"
        <5>1. <<latest, i>> \in Attempt /\ <<latest, i>> # t
          BY <1>0, <3>2, <4>1, Pairs
        <5>2. attempt[<<latest, i>>] = "off"
          BY <3>2, <4>1 DEF OneAttempt
        <5> QED BY <2>3, <5>1, <5>2
      <4> QED BY <4>1
    <3> QED BY <1>1, <1>5, <1>7, <2>2, <2>3, <3>2, <3>4, <3>5 DEF OneAttempt
  <2> QED BY <2>7, <2>8
<1> QED BY <1>9, <1>10

\* One answer, of whichever attempt, follows what the Agent held under the stream.
LEMMA StreamEndHolds ==
  ASSUME NEW h, Holding(h), latest' = latest, NEW k \in AssistantKind, StreamEnd(k)
  PROVE  HoldsTurn(h)' /\ (Undisturbed' => OneAttempt(h)')
<1>0. /\ HoldsTurn(h) /\ TryTypes /\ latest \in Run /\ LoopTypes /\ h \in Seq(Saveable)
      /\ (Undisturbed => OneAttempt(h))
  BY TypeParts DEF Holding, Lonely
<1>1. /\ Busy /\ stream.run = latest /\ stream.model \in 1 .. Models
      /\ attempt[<<latest, stream.model>>] = "stream"
  BY HoldingFacts DEF StreamEnd
<1>2. /\ agent' = Then(agent, k) /\ stream' = None /\ ~Busy' /\ ~stream'.aborted
      /\ stream.aborted => k \in {"partial", "empty"}
      /\ ~stream.aborted => k \in {"answer", "error", "transient"}
      /\ UNCHANGED <<model, before, late, signal>>
      /\ drv'[latest] = IF drv[latest] = "idle" THEN "idled" ELSE drv[latest]
  BY <1>0, <1>1, StreamFacts DEF StreamEnd, Busy, Then, history
<1>3. \A t \in Attempt :
        /\ attempt'[t] = "threw" => attempt[t] = "threw"
        /\ attempt[t] = "off" => attempt'[t] = "off"
        /\ attempt[t] = "stream" => attempt'[t] = "ended"
  BY DEF StreamEnd
<1>4. agent \in {h, Asked(h)} /\ (agent = h => LastAssistant(h) = "none")
  BY <1>0, <1>1 DEF HoldsTurn
<1>5. drv[latest] \in {"race", "idle", "over", "failed"}
  <2>1. drv[latest] # "next"
    BY <1>0 DEF StreamEnd, Quiet, Looping
  <2>2. drv[latest] # "off"
    BY <1>1, HoldingFacts
  <2>3. drv[latest] # "idled"
    BY <1>0, <1>1 DEF HoldsTurn
  <2> QED BY <1>0, <2>1, <2>2, <2>3 DEF LoopTypes, Drives
<1>6. Shapes(h)' = Shapes(h) /\ Asked(h)' = Asked(h) /\ Saying(h)' = Saying(h)
      /\ \A x : Then(Asked(h), x)' = Then(Asked(h), x)
  BY SameShapes
<1>7. Current(latest)' = Current(latest) /\ (drv[latest] = "race" => Current(latest) \in Attempt)
  BY <1>0, <1>2, Numbers, Pairs DEF Current, LoopTypes
<1>8. agent' \in Shapes(h)' /\ (agent' \in Saying(h)' => LastAssistant(h) = "none")
  BY <1>0, <1>2, <1>4, <1>6, ShapeFacts
<1>9. LastAssistant(agent') = k
  BY <1>0, <1>2, <1>4, ShapeFacts
<1>10. drv'[latest] = "idled" => LastAssistant(agent') # "transient"
  <2> SUFFICES ASSUME drv'[latest] = "idled" PROVE LastAssistant(agent') # "transient"
    OBVIOUS
  <2>1. drv[latest] = "idle"
    BY <1>2, <1>5
  <2>2. stream.aborted
    BY <1>0, <2>1 DEF HoldsTurn
  <2> QED BY <1>2, <1>9, <2>2
<1>11. drv'[latest] \in {"race", "idled", "over", "failed"}
       /\ (drv'[latest] = "race" => drv[latest] = "race")
       /\ (drv'[latest] \in {"race", "idled"} => before'[latest] = Len(h))
  BY <1>0, <1>2, <1>5 DEF HoldsTurn
<1>12. drv'[latest] = "race" /\ attempt'[Current(latest)'] = "threw" => LastAssistant(h) = "none"
  BY <1>0, <1>3, <1>7, <1>11 DEF HoldsTurn
<1>13. HoldsTurn(h)'
  BY <1>2, <1>8, <1>10, <1>11, <1>12 DEF HoldsTurn
<1>14. ASSUME Undisturbed' PROVE OneAttempt(h)'
  <2>1. Undisturbed
    BY <1>2, <1>14 DEF Undisturbed
  <2> DEFINE t == <<latest, stream.model>>
  <2>2. t \in Attempt /\ attempt[t] = "stream"
    BY <1>0, <1>1, Pairs
  <2>3. OneAttempt(h) /\ drv[latest] = "race" /\ t = Current(latest)
    BY <2>1, <2>2, TheAttempt
  <2> HIDE DEF t
  <2>4. agent = Asked(h) /\ ~stream.aborted
    BY <2>2, <2>3 DEF OneAttempt
  <2>5. agent' = Then(Asked(h), k) /\ k \in {"answer", "error", "transient"}
    BY <1>2, <2>4
  <2>6. attempt'[Current(latest)'] = "ended"
    BY <1>3, <1>7, <2>2, <2>3
  <2>7. ASSUME NEW i \in 1 .. Models, attempt'[<<latest, i>>] # "off" PROVE model'[latest] = i
    <3>1. attempt[<<latest, i>>] # "off"
      BY <1>0, <1>3, <2>7, Pairs
    <3> QED BY <1>2, <2>3, <3>1 DEF OneAttempt
  <2>8. drv'[latest] = "race"
    BY <1>2, <2>3
  <2> QED BY <1>2, <1>6, <2>5, <2>6, <2>7, <2>8 DEF OneAttempt
<1> QED BY <1>13, <1>14

-----------------------------------------------------------------------------
(* The turn and the file of a run that is alone.                           *)

Live == {"ready", "stream", "persist"}

\* What is loaded was saved.
LEMMA LoadedIs == TurnTypeOK => base \in Seq(Saveable) /\ Loaded \subseteq Seq(Saveable)
BY TypeParts, EarlyIs DEF RunTypes, Loaded

\* The turn begins with what the file held, without the early save.
LEMMA ReplaceHolds ==
  ASSUME TurnIInv, alone, saves # "torn", latest' = latest, base' = base,
         ReplaceMessages(latest)
  PROVE  \E h \in Loaded : HoldsTurn(h)' /\ OneAttempt(h)'
<1>0. /\ TurnTypeOK /\ Lonely /\ FileHeld /\ RunTypes /\ StreamTypes /\ latest \in Run
      /\ Phase(latest) /\ Untried(latest) /\ StreamOwned /\ base \in Seq(Saveable)
  BY TypeParts DEF TurnIInv, Lonely, Phases, RunTypes
<1>1. /\ agent' = CleanTrailingErrors(WithoutEarly(buf[latest]))
      /\ UNCHANGED <<stream, drv, model, attempt>> /\ gen[latest] = "replace"
  BY DEF ReplaceMessages, driver, tries
<1>2. drv[latest] = "off" /\ \A i \in 1 .. Models : attempt[<<latest, i>>] = "off"
  BY <1>0, <1>1 DEF Phase, Untried
<1>3. ~Busy
  <2> SUFFICES ASSUME Busy PROVE FALSE
    OBVIOUS
  <2>1. stream.run \in Run /\ stream.model \in 1 .. Models
        /\ attempt[<<stream.run, stream.model>>] = "stream"
    BY <1>0 DEF StreamTypes, Streams, StreamOwned, Busy
  <2> QED BY <1>0, <1>2, <2>1 DEF Lonely, Settled
<1>4. buf[latest] \in {base, Append(base, Msg(latest, "early"))}
  BY <1>0, <1>1 DEF FileHeld, EarlySaved, Then
<1>5. PICK h \in Loaded : h = WithoutEarly(buf[latest]) /\ h \in Seq(Saveable)
  BY <1>0, <1>4, EarlyIs DEF Loaded
<1>6. agent' = h
  BY <1>0, <1>1, <1>5, ShapeStripped
<1>7. Shapes(h)' = Shapes(h) /\ Asked(h)' = Asked(h) /\ Saying(h)' = Saying(h)
  BY SameShapes
<1>8. h \in Shapes(h) /\ h \notin Saying(h)
  BY <1>0, <1>5, ShapeFacts
<1>9. ~Busy' /\ ~stream'.aborted
  BY <1>1, <1>3, StreamFacts DEF Busy
<1>10. HoldsTurn(h)'
  BY <1>1, <1>2, <1>6, <1>7, <1>8, <1>9 DEF HoldsTurn
<1>11. OneAttempt(h)'
  BY <1>1, <1>2, <1>9 DEF OneAttempt
<1> QED BY <1>10, <1>11

\* Every step of the run that is alone keeps what the Agent may hold.
LEMMA TurnHeldStep ==
  ASSUME TurnIInv, alone, saves # "torn", [TurnNext]_turnVars, ~\E q \in Run : Accept(q)
  PROVE  TurnHeld'
<1>0. /\ TurnTypeOK /\ Phases /\ Lonely /\ TurnHeld /\ RunTypes /\ LoopTypes /\ latest \in Run
      /\ latest' = latest /\ base' = base /\ Loaded' = Loaded
  BY TypeParts, LatestStays DEF TurnIInv, Lonely, Loaded
<1> SUFFICES ASSUME gen'[latest] \in Live
             PROVE  \E h \in Loaded : HoldsTurn(h)' /\ (Undisturbed' => OneAttempt(h)')
  BY <1>0 DEF TurnHeld, Live
<1>1. CASE gen[latest] \in Live
  <2>1. PICK h \in Loaded : HoldsTurn(h) /\ (Undisturbed => OneAttempt(h))
    BY <1>0, <1>1 DEF TurnHeld, Live
  <2>2. Holding(h)
    BY <1>0, <2>1, LoadedIs DEF Holding
  <2>3. CASE Abort(latest) \/ Timeout(latest)
    BY <1>0, <2>2, <2>3, AbortHolds, TimeoutHolds
  <2>4. CASE Generator(latest)
    <3>1. ~Persist(latest)
      BY <1>0 DEF Persist, Live, RunTypes
    <3>2. StartTurn(latest) \/ AbortedBeforeTurn(latest)
      BY <1>1, <2>4, <3>1 DEF Generator, ReadForSave, SaveUserMessage, EndSave, Truncate, ReadSession,
         ReplaceMessages, Write, Live
    <3> QED BY <1>0, <2>2, <3>2, StartTurnHolds, AbortHolds
  <2>5. CASE Drive(latest)
    BY <1>0, <2>2, <2>5, SkipHolds, PromptHolds, WonHolds, LostHolds, TimedOutHolds DEF Drive
  <2>6. ASSUME NEW t \in Attempt, RunTurn(t)
        PROVE  HoldsTurn(h)' /\ (Undisturbed' => OneAttempt(h)')
    BY <1>0, <2>2, <2>6, WaitHolds, ContinueHolds DEF RunTurn
  <2>7. ASSUME NEW k \in AssistantKind, StreamEnd(k)
        PROVE  HoldsTurn(h)' /\ (Undisturbed' => OneAttempt(h)')
    BY <1>0, <2>2, <2>7, StreamEndHolds
  <2>8. ~Crash
    BY <1>0 DEF Crash, Live
  <2>9. CASE UNCHANGED turnVars
    <3>1. HoldsTurn(h)' <=> HoldsTurn(h)
      BY <2>9 DEF turnVars, HoldsTurn, Busy, Shapes, Asked, Saying, Then, Current, Due
    <3>2. (Undisturbed' <=> Undisturbed) /\ (OneAttempt(h)' <=> OneAttempt(h))
      BY <2>9 DEF turnVars, OneAttempt, Undisturbed, Asked, Then, Current
    <3> QED BY <2>1, <3>1, <3>2
  <2> QED BY <1>0, <2>3, <2>4, <2>5, <2>6, <2>7, <2>8, <2>9, OneMoves
<1>2. CASE gen[latest] \notin Live
  <2>1. ReplaceMessages(latest)
    <3>1. gen'[latest] # gen[latest]
      BY <1>2
    <3>2. ~(Abort(latest) \/ Timeout(latest))
      BY <1>0, <1>2, <3>1 DEF Abort, Timeout, RunTypes, Live
    <3>3. ~Drive(latest)
      BY <1>0, <1>2, <3>1 DEF Drive, OutOfCandidates, SkipCandidate, Prompt, AttemptWon,
         AttemptLost, TimedOut, TurnEnds, Rollback, RunTypes, Live
    <3>4. \A t \in Attempt : ~RunTurn(t)
      BY <3>1 DEF RunTurn, WaitForIdle, NothingToRetry, Continue
    <3>5. \A k \in AssistantKind : ~StreamEnd(k)
      BY <3>1 DEF StreamEnd
    <3>6. ~Crash /\ ~UNCHANGED turnVars
      BY <1>0, <3>1 DEF Crash, turnVars, Live
    <3>7. Generator(latest)
      BY <1>0, <3>2, <3>3, <3>4, <3>5, <3>6, OneMoves
    <3> QED BY <1>0, <1>2, <3>7 DEF Generator, ReadForSave, SaveUserMessage, EndSave, Truncate, ReadSession,
               StartTurn, AbortedBeforeTurn, Persist, Write, RunTypes, Live
  <2> QED BY <1>0, <2>1, ReplaceHolds
<1> QED BY <1>1, <1>2

\* What is written back of the turn.
LEMMA SanitizedEnds ==
  ASSUME NEW h \in Loaded, TurnTypeOK, latest \in Run, HoldsTurn(h),
         Undisturbed => OneAttempt(h)
  PROVE  Ended(Sanitize(agent))
<1>0. h \in Seq(Saveable) /\ agent \in Shapes(h)
  BY LoadedIs DEF HoldsTurn
<1> DEFINE Ends == {h, Asked(h)} \cup {Then(s, k) : s \in {h, Asked(h)}, k \in {"answer", "partial"}}
<1>1. Sanitize(agent) \in Ends
  <2>1. CASE agent \in {h, Asked(h)}
    BY <1>0, <2>1, ShapeSaved
  <2>2. CASE agent \notin {h, Asked(h)}
    <3>1. PICK s \in {h, Asked(h)}, k \in AssistantKind : agent = Then(s, k)
      BY <1>0, <2>2 DEF Shapes, Saying
    <3>2. Sanitize(agent) = IF k \in {"answer", "partial"} THEN Then(s, k) ELSE s
      BY <1>0, <3>1, ShapeSaved
    <3> QED BY <3>2
  <2> QED BY <2>1, <2>2
<1>2. ASSUME Undisturbed, drv[latest] = "over" PROVE Sanitize(agent) = Then(Asked(h), "answer")
  <2>1. agent = Then(Asked(h), "answer")
    BY <1>2 DEF OneAttempt
  <2> QED BY <1>0, <2>1, ShapeSaved DEF AssistantKind
<1> QED BY <1>1, <1>2 DEF Ended

\* A prefix stays one when something is appended.
LEMMA PrefixOfAppend ==
  ASSUME NEW s \in Seq(Saveable), NEW t \in Seq(Saveable), IsPrefix(s, t), NEW m \in Saveable
  PROVE  IsPrefix(s, Append(t, m))
<1> DEFINE q == Append(t, m)
           n == Len(s)
<1>1. n <= Len(t) /\ s = SubSeq(t, 1, n) /\ n \in Nat
  BY DEF IsPrefix
<1>2. q \in Seq(Saveable) /\ Len(q) = Len(t) + 1 /\ \A i \in 1 .. Len(t) : q[i] = t[i]
  BY AppendProperties
<1> HIDE DEF q
<1>3. SubSeq(q, 1, n) = SubSeq(t, 1, n)
  <2>1. \A i \in 1 .. n : i \in 1 .. Len(t) /\ t[i] \in Saveable /\ q[i] = t[i]
    BY <1>1, <1>2
  <2>2. \A u \in {t, q} : /\ SubSeq(u, 1, n) \in Seq(Saveable)
                         /\ Len(SubSeq(u, 1, n)) = n
                         /\ \A i \in 1 .. n : SubSeq(u, 1, n)[i] = u[i]
    BY <1>1, <1>2, <2>1, SubSeqProperties
  <2> QED BY <2>1, <2>2, SeqEqual
<1> QED BY <1>1, <1>2, <1>3 DEF IsPrefix, q

\* Whatever the run left, it kept the history.
LEMMA KeptIs ==
  ASSUME TurnTypeOK, latest \in Run
  PROVE  /\ IsPrefix(WithoutEarly(base), base)
         /\ \A ms \in EarlySaved : IsPrefix(WithoutEarly(base), ms)
         /\ \A ms : Ended(ms) => IsPrefix(WithoutEarly(base), ms)
<1> DEFINE w == WithoutEarly(base)
<1>0. base \in Seq(Saveable) /\ w \in Seq(Saveable) /\ IsPrefix(w, base)
  BY LoadedIs, EarlyIs
<1>1. IsPrefix(w, w)
  BY <1>0, EarlyIs DEF IsPrefix
<1>2. \A k \in {"answer", "partial", "user", "early"} : Msg(latest, k) \in Saveable
  BY Messages DEF UserKind, AssistantKind, SavedKind
<1> HIDE DEF w
<1>3. \A ms \in EarlySaved : IsPrefix(w, ms)
  BY <1>0, <1>2, PrefixOfAppend DEF EarlySaved, Then
<1>4. ASSUME NEW ms, Ended(ms) PROVE IsPrefix(w, ms)
  <2>1. PICK h \in {base, w} :
          ms \in {h, Asked(h)} \cup {Then(s, k) : s \in {h, Asked(h)}, k \in {"answer", "partial"}}
    BY <1>4 DEF Ended, Loaded, w
  <2>2. h \in Seq(Saveable) /\ IsPrefix(w, h)
    BY <1>0, <1>1
  <2>3. Asked(h) \in Seq(Saveable) /\ IsPrefix(w, Asked(h))
    BY <1>0, <1>2, <2>2, PrefixOfAppend, ShapeTypes DEF Asked
  <2>4. \A s \in {h, Asked(h)}, k \in {"answer", "partial"} : IsPrefix(w, Then(s, k))
    BY <1>0, <1>2, <2>2, <2>3, PrefixOfAppend DEF Then
  <2> QED BY <2>1, <2>2, <2>3, <2>4
<1> QED BY <1>0, <1>3, <1>4 DEF w

\* What is to be written stays right while the turn's end is not touched.
LEMMA EndedSame ==
  ASSUME NEW ms, Ended(ms), latest' = latest, base' = base,
         Undisturbed' /\ drv'[latest] = "over" => Undisturbed /\ drv[latest] = "over"
  PROVE  Ended(ms)'
<1>1. Loaded' = Loaded /\ \A h : Asked(h)' = Asked(h) /\ \A s, k : Then(s, k)' = Then(s, k)
  BY DEF Loaded, Asked, Then
<1>2. PICK h \in Loaded :
        /\ ms \in {h, Asked(h)} \cup {Then(s, k) : s \in {h, Asked(h)}, k \in {"answer", "partial"}}
        /\ Undisturbed /\ drv[latest] = "over" => ms = Then(Asked(h), "answer")
  BY DEF Ended
<1>3. ms \in {h, Asked(h)'} \cup {Then(s, k)' : s \in {h, Asked(h)'}, k \in {"answer", "partial"}}
  BY <1>1, <1>2
<1>4. Undisturbed' /\ drv'[latest] = "over" => ms = Then(Asked(h), "answer")'
  BY <1>1, <1>2
<1> QED BY <1>1, <1>3, <1>4 DEF Ended

\* What was written stays what the run may leave: its turn is over, or was disturbed.
LEMMA EndedStays ==
  ASSUME TurnTypeOK, Phases, [TurnNext]_turnVars, ~\E q \in Run : Accept(q), Lonely,
         gen[latest] \in {"write", "writing", "ended"}, NEW ms, Ended(ms), ~Crash
  PROVE  Ended(ms)'
<1>0. /\ RunTypes /\ LoopTypes /\ latest \in Run /\ Phase(latest)
      /\ latest' = latest /\ base' = base
  BY TypeParts, LatestStays DEF Lonely, Phases
<1>1. Undisturbed' => Undisturbed
  <2>1. ASSUME NEW q \in Run, Abort(q) \/ Timeout(q) \/ Generator(q) \/ Drive(q)
        PROVE  Undisturbed' => Undisturbed
    BY <1>0, <2>1 DEF Undisturbed, Abort, Timeout, Generator, ReadForSave, SaveUserMessage, EndSave, Truncate,
       ReadSession, ReplaceMessages, StartTurn, AbortedBeforeTurn, Persist, Write, Drive,
       OutOfCandidates, SkipCandidate, Prompt, AttemptWon, AttemptLost, TimedOut, Rollback,
       history, RunTypes
  <2>2. ASSUME NEW t \in Attempt, RunTurn(t) PROVE Undisturbed' => Undisturbed
    BY <2>2 DEF Undisturbed, RunTurn, WaitForIdle, NothingToRetry, Continue, history
  <2>3. ASSUME NEW k \in AssistantKind, StreamEnd(k) PROVE Undisturbed' => Undisturbed
    BY <2>3 DEF Undisturbed, StreamEnd, history
  <2>4. UNCHANGED turnVars => (Undisturbed' => Undisturbed)
    BY DEF Undisturbed, turnVars
  <2> QED BY <2>1, <2>2, <2>3, <2>4 DEF TurnNext
<1>2. Undisturbed => drv'[latest] = drv[latest]
  <2> SUFFICES ASSUME Undisturbed PROVE drv'[latest] = drv[latest]
    OBVIOUS
  <2>1. drv[latest] \in {"over", "failed"}
    BY <1>0 DEF Phase, Undisturbed
  <2>2. ASSUME NEW q \in Run, Abort(q) \/ Generator(q) PROVE drv'[latest] = drv[latest]
    BY <1>0, <2>2 DEF Abort, Generator, ReadForSave, SaveUserMessage, EndSave, Truncate, ReadSession,
       ReplaceMessages, StartTurn, AbortedBeforeTurn, Persist, Write, driver, LoopTypes
  <2>3. ASSUME NEW q \in Run, Timeout(q) \/ Drive(q) PROVE drv'[latest] = drv[latest]
    BY <1>0, <2>1, <2>3 DEF Timeout, Drive, OutOfCandidates, SkipCandidate, Prompt, AttemptWon,
       AttemptLost, TimedOut, TurnEnds, Rollback, LoopTypes
  <2>4. ASSUME NEW t \in Attempt, RunTurn(t) PROVE drv'[latest] = drv[latest]
    BY <2>4 DEF RunTurn, WaitForIdle, NothingToRetry, Continue, driver
  <2>5. ASSUME NEW k \in AssistantKind, StreamEnd(k) PROVE drv'[latest] = drv[latest]
    BY <1>0, <2>1, <2>5 DEF StreamEnd
  <2>6. UNCHANGED turnVars => drv'[latest] = drv[latest]
    BY DEF turnVars
  <2> QED BY <2>2, <2>3, <2>4, <2>5, <2>6 DEF TurnNext
<1> QED BY <1>0, <1>1, <1>2, EndedSame

\* A crash is counted, so that it is no stuttering step.
LEMMA CrashCounts == SaveTypes /\ Crash => faults' # faults
BY Numbers DEF SaveTypes, Crash, Fault

\* Every step of the run that is alone keeps what its file may hold.
LEMMA FileHeldStep ==
  ASSUME TurnIInv, alone, saves # "torn", saves' # "torn",
         [TurnNext]_turnVars, ~\E q \in Run : Accept(q)
  PROVE  FileHeld'
<1>0. /\ TurnTypeOK /\ Phases /\ Lonely /\ TurnHeld /\ FileHeld
      /\ RunTypes /\ FileTypes /\ SaveTypes
      /\ latest \in Run /\ latest' = latest /\ base' = base
      /\ EarlySaved' = EarlySaved /\ WithoutEarly(base)' = WithoutEarly(base)
  BY TypeParts, LatestStays DEF TurnIInv, Lonely, EarlySaved, Then
<1>1. CASE Crash
  <2>1. gen'[latest] = "dead" /\ file' = file
    BY <1>0, <1>1 DEF Crash, Lonely
  <2>2. gen[latest] \in Places \ {"idle", "saving", "writing"}
    BY <1>0, <1>1 DEF Crash, Lonely, RunTypes, Saving
  <2>3. IsPrefix(WithoutEarly(base), file)
    BY <1>0, <2>2, KeptIs DEF FileHeld, Places
  <2> QED BY <1>0, <2>1, <2>3 DEF FileHeld
<1>2. ASSUME UNCHANGED <<file, buf, saves>>, ~Crash,
             \/ gen'[latest] = gen[latest]
             \/ gen[latest] \in {"load", "replace", "ready", "stream", "persist", "write"}
                /\ gen'[latest] \in {"ready", "stream", "persist"}
      PROVE  FileHeld'
  <2>1. CASE gen'[latest] = gen[latest]
    <3>1. gen[latest] \in {"write", "writing"} => Ended(buf[latest])'
      BY <1>0, <1>2, EndedStays DEF FileHeld
    <3>2. gen[latest] = "ended" /\ saves # "skipped" => Ended(file)'
      BY <1>0, <1>2, EndedStays DEF FileHeld
    <3> QED BY <1>0, <1>2, <2>1, <3>1, <3>2 DEF FileHeld
  <2>2. CASE gen'[latest] # gen[latest]
    BY <1>0, <1>2, <2>2 DEF FileHeld
  <2> QED BY <2>1, <2>2
<1>3. CASE Generator(latest)
  <2>1. CASE ReadForSave(latest)
    BY <1>0, <2>1 DEF ReadForSave, FileHeld, RunTypes, FileTypes
  <2>2. CASE SaveUserMessage(latest)
    BY <1>0, <2>2 DEF SaveUserMessage, Truncate, FileHeld, RunTypes, FileTypes, EarlySaved, Then
  <2>3. CASE ReadSession(latest)
    BY <1>0, <2>3 DEF ReadSession, FileHeld, RunTypes, FileTypes
  <2>4. CASE ReplaceMessages(latest)
    BY <1>0, <2>4 DEF ReplaceMessages, FileHeld, RunTypes, FileTypes
  <2>5. CASE StartTurn(latest) \/ AbortedBeforeTurn(latest)
    BY <1>0, <2>5 DEF StartTurn, AbortedBeforeTurn, disk, FileHeld, RunTypes
  <2>6. CASE Persist(latest)
    <3>1. PICK h \in Loaded : HoldsTurn(h) /\ (Undisturbed => OneAttempt(h))
      BY <1>0, <2>6 DEF Persist, TurnHeld
    <3>2. Ended(Sanitize(agent))
      BY <1>0, <3>1, SanitizedEnds
    <3>3. buf'[latest] = Sanitize(agent) /\ file' = file /\ gen'[latest] = "write"
          /\ saves' = "whole"
      BY <1>0, <2>6 DEF Persist, FileTypes, RunTypes, FileHeld
    <3>4. PICK ms : ms = Sanitize(agent)
      OBVIOUS
    <3>6. Ended(ms)'
      BY <2>6, <3>2, <3>4, EndedSame DEF Persist, driver, history, Undisturbed
    <3>7. Ended(buf[latest])'
      BY <1>0, <3>3, <3>4, <3>6 DEF Ended
    <3>5. file \in EarlySaved
      BY <1>0, <2>6 DEF Persist, FileHeld
    <3> QED BY <1>0, <3>3, <3>5, <3>7 DEF FileHeld
  <2>7. CASE Write(latest) \/ (EndSave(latest) /\ gen[latest] = "writing")
    <3>1. Ended(buf[latest]) /\ saves = "whole" /\ (Write(latest) => file \in EarlySaved)
      BY <1>0, <2>7 DEF Write, FileHeld
    <3>2. PICK ms : ms = buf[latest]
      OBVIOUS
    <3>3. Ended(ms)'
      <4>1. UNCHANGED <<signal, driver, history>>
        BY <2>7 DEF Write, EndSave
      <4>2. Ended(ms)
        BY <3>1, <3>2
      <4> QED BY <4>1, <4>2, EndedSame DEF driver, history, Undisturbed
    <3>4. \/ buf'[latest] = ms /\ gen'[latest] = "writing" /\ saves' = "whole"
          \/ file' = file /\ Write(latest) /\ gen'[latest] = "ended" /\ saves' = "skipped"
          \/ file' = ms /\ gen'[latest] = "ended" /\ saves' = "whole"
      BY <1>0, <2>7, <3>1, <3>2 DEF Write, EndSave, Truncate, RunTypes
    <3>5. buf'[latest] = ms => Ended(buf[latest])'
      BY <1>0, <3>3 DEF Ended
    <3>6. file' = ms => Ended(file)'
      BY <3>3 DEF Ended
    <3> QED BY <1>0, <3>1, <3>4, <3>5, <3>6 DEF FileHeld
  <2>8. CASE EndSave(latest) /\ gen[latest] = "saving"
    <3>1. file' = buf[latest] /\ gen'[latest] = "load" /\ UNCHANGED saves
      BY <1>0, <2>8 DEF EndSave, RunTypes
    <3> QED BY <1>0, <2>8, <3>1 DEF FileHeld
  <2>9. EndSave(latest) => gen[latest] \in {"saving", "writing"}
    BY DEF EndSave
  <2> QED BY <1>3, <2>1, <2>2, <2>3, <2>4, <2>5, <2>6, <2>7, <2>8, <2>9 DEF Generator
<1>4. CASE Abort(latest)
  <2>1. ~Crash
    BY <1>0, <1>4 DEF Abort, Crash
  <2>2. UNCHANGED <<file, buf, saves>>
        /\ (gen'[latest] = gen[latest] \/ (gen[latest] = "stream" /\ gen'[latest] = "persist"))
    BY <1>0, <1>4 DEF Abort, disk, RunTypes
  <2> QED BY <1>2, <2>1, <2>2
<1>5. CASE Timeout(latest)
  <2>1. UNCHANGED <<file, buf, saves, faults, gen>>
    BY <1>5 DEF Timeout, disk
  <2>2. ~Crash
    BY <1>0, <2>1, CrashCounts
  <2> QED BY <1>2, <2>1, <2>2
<1>6. CASE Drive(latest)
  <2>1. UNCHANGED <<file, buf, saves, faults>>
        /\ (gen'[latest] = gen[latest] \/ (gen[latest] = "stream" /\ gen'[latest] = "persist"))
    BY <1>0, <1>6 DEF Drive, OutOfCandidates, SkipCandidate, Prompt, AttemptWon,
       AttemptLost, TimedOut, TurnEnds, Rollback, disk, history, RunTypes
  <2>2. ~Crash
    BY <1>0, <2>1, CrashCounts
  <2> QED BY <1>2, <2>1, <2>2
<1>7. ASSUME NEW t \in Attempt, RunTurn(t) PROVE FileHeld'
  <2>1. UNCHANGED <<file, buf, saves, faults, gen>>
    BY <1>7 DEF RunTurn, WaitForIdle, NothingToRetry, Continue, disk, history
  <2>2. ~Crash
    BY <1>0, <2>1, CrashCounts
  <2> QED BY <1>2, <2>1, <2>2
<1>8. ASSUME NEW k \in AssistantKind, StreamEnd(k) PROVE FileHeld'
  <2>1. UNCHANGED <<file, buf, saves, faults, gen>>
    BY <1>8 DEF StreamEnd, disk, history
  <2>2. ~Crash
    BY <1>0, <2>1, CrashCounts
  <2> QED BY <1>2, <2>1, <2>2
<1>9. CASE UNCHANGED turnVars
  <2>1. UNCHANGED <<file, buf, saves, faults, gen>>
    BY <1>9 DEF turnVars
  <2>2. ~Crash
    BY <1>0, <2>1, CrashCounts
  <2> QED BY <1>2, <2>1, <2>2
<1> QED BY <1>0, <1>1, <1>3, <1>4, <1>5, <1>6, <1>7, <1>8, <1>9, OneMoves

\* A save that was torn stays so until another run is accepted.
LEMMA TornStays ==
  ASSUME [TurnNext]_turnVars, ~\E q \in Run : Accept(q), saves = "torn" PROVE saves' = "torn"
<1>1. ASSUME NEW q \in Run, Abort(q) \/ Timeout(q) \/ Generator(q) \/ Drive(q)
      PROVE  saves' = "torn"
  BY <1>1 DEF Abort, Timeout, Generator, ReadForSave, SaveUserMessage, EndSave, Truncate,
     ReadSession, ReplaceMessages, StartTurn, AbortedBeforeTurn, Persist, Write, Drive,
     OutOfCandidates, SkipCandidate, Prompt, AttemptWon, AttemptLost, TimedOut, Rollback, disk
<1>2. ASSUME NEW t \in Attempt, RunTurn(t) PROVE saves' = "torn"
  BY <1>2 DEF RunTurn, WaitForIdle, NothingToRetry, Continue, disk
<1>3. ASSUME NEW k \in AssistantKind, StreamEnd(k) PROVE saves' = "torn"
  BY <1>3 DEF StreamEnd, disk
<1>4. Crash \/ UNCHANGED turnVars => saves' = "torn"
  BY DEF Crash, turnVars
<1> QED BY <1>1, <1>2, <1>3, <1>4 DEF TurnNext

\* A run that begins: it is alone if nothing else is under way.
LEMMA AcceptStep ==
  ASSUME TurnIInv, NEW q \in Run, Accept(q)
  PROVE  alone' => Lonely' /\ TurnHeld' /\ FileHeld'
<1>0. RunTypes /\ TurnTypeOK
  BY TypeParts DEF TurnIInv
<1>1. /\ latest' = q /\ gen'[q] = "accepted" /\ base' = file /\ file' = file
      /\ (alone' => \A x \in Run : Settled(x))
      /\ saves' = "whole"
      /\ UNCHANGED <<drv, attempt>> /\ \A x \in Run : x # q => gen'[x] = gen[x]
  BY <1>0 DEF Accept, RunTypes, driver, tries
<1> SUFFICES ASSUME alone' PROVE Lonely' /\ TurnHeld' /\ FileHeld'
  OBVIOUS
<1>2. Lonely'
  BY <1>1 DEF Lonely, Settled
<1>3. TurnHeld'
  BY <1>1 DEF TurnHeld
<1>4. FileHeld'
  BY <1>1 DEF FileHeld
<1> QED BY <1>2, <1>3, <1>4

\* Every step keeps the invariant.
LEMMA TurnStep == TurnIInv /\ [TurnNext]_turnVars => TurnIInv'
<1> SUFFICES ASSUME TurnIInv, [TurnNext]_turnVars PROVE TurnIInv'
  OBVIOUS
<1>1. TurnTypeOK' /\ Phases'
  BY TypeStep, PhasesStep DEF TurnIInv
<1>2. CASE \E q \in Run : Accept(q)
  BY <1>1, <1>2, AcceptStep DEF TurnIInv
<1>3. CASE ~\E q \in Run : Accept(q)
  <2>1. alone' = alone
    BY <1>3, LatestStays
  <2>2. alone => Lonely' /\ (saves' # "torn" => TurnHeld' /\ FileHeld')
    BY <1>3, LonelyStep, TornStays, TurnHeldStep, FileHeldStep DEF TurnIInv
  <2> QED BY <1>1, <2>1, <2>2 DEF TurnIInv
<1> QED BY <1>2, <1>3

\* The state of gateway/service.ts, agent/service.ts and the turn keeps its type.
THEOREM TurnTypeCorrect == TurnSpec => []TurnTypeOK
<1> QED BY InitTypes, TypeStep, PTL DEF TurnSpec

\* While a run is alone, what the file and the Agent hold is known at each place of it.
THEOREM TurnInductive == TurnSpec => []TurnIInv
<1>1. TurnInit => TurnIInv
  BY InitTypes, InitPhases DEF TurnInit, TurnIInv
<1> QED BY <1>1, TurnStep, PTL DEF TurnSpec

\* A run that is alone on its session never loses what the session held, but
\* by a save of its own that is torn.
THEOREM HistorySurvives == TurnSpec => []HistoryKept
<1>1. TurnIInv => HistoryKept
  <2> SUFFICES ASSUME TurnIInv, alone, saves # "torn", ~Saving(latest)
               PROVE  IsPrefix(WithoutEarly(base), file)
    BY DEF HistoryKept, BaseKept
  <2>1. /\ gen[latest] \in Places \ {"idle", "saving", "writing"}
        /\ latest \in Run /\ FileHeld /\ TurnTypeOK
    BY TypeParts DEF TurnIInv, Lonely, RunTypes, Saving
  <2> QED BY <2>1, KeptIs DEF FileHeld, Places
<1> QED BY <1>1, TurnInductive, PTL

\* What such a run leaves is the history, at most its message and at most one
\* answer; or the early save, when it could not write more.
THEOREM OneTurnIsSaved == TurnSpec => []OneTurnSaved
<1>1. TurnIInv => OneTurnSaved
  <2>0. ASSUME TurnIInv, alone, gen[latest] = "ended", saves = "skipped"
        PROVE  file = base \/ file = Append(base, Msg(latest, "early"))
    BY <2>0 DEF TurnIInv, FileHeld, EarlySaved, Then
  <2> SUFFICES ASSUME TurnIInv, alone, gen[latest] = "ended", saves = "whole" PROVE OneTurnSaved
    <3>1. TurnIInv => saves \in {"whole", "skipped", "torn"} BY DEF TurnIInv, TurnTypeOK
    <3> QED BY <2>0, <3>1 DEF OneTurnSaved
  <2>1. latest \in Run /\ Ended(file) /\ TurnTypeOK /\ base \in Seq(Saveable)
    BY TypeParts DEF TurnIInv, Lonely, FileHeld, RunTypes
  <2>2. PICK h \in Loaded :
          /\ file \in {h, Asked(h)} \cup {Then(s, k) : s \in {h, Asked(h)}, k \in {"answer", "partial"}}
          /\ Undisturbed /\ drv[latest] = "over" => file = Then(Asked(h), "answer")
    BY <2>1 DEF Ended
  <2> DEFINE u == <<Msg(latest, "user")>>
             a(k) == <<Msg(latest, k)>>
  <2>3. h \in {base, WithoutEarly(base)} /\ h \in Seq(Saveable)
    BY <2>1, <2>2, LoadedIs DEF Loaded
  <2>4. /\ \A k \in {"answer", "partial"} : Msg(latest, k) \in Saveable
        /\ Msg(latest, "user") \in Saveable
    BY <2>1, Messages DEF UserKind, AssistantKind, SavedKind
  <2>5. /\ h = h \o <<>> \o <<>>
        /\ Asked(h) = h \o u \o <<>>
        /\ \A k \in {"answer", "partial"} :
             Then(h, k) = h \o <<>> \o a(k) /\ Then(Asked(h), k) = h \o u \o a(k)
    <3>1. h \o <<>> = h
      BY <2>3, ConcatEmptySeq
    <3>2. Asked(h) = h \o u /\ Asked(h) \in Seq(Saveable)
      BY <2>1, <2>3, <2>4, AppendIsConcat, ShapeTypes DEF Asked
    <3>3. Asked(h) \o <<>> = Asked(h)
      BY <3>2, ConcatEmptySeq
    <3>4. \A k \in {"answer", "partial"} : Then(h, k) = h \o a(k) /\ Then(Asked(h), k) = Asked(h) \o a(k)
      BY <2>3, <2>4, <3>2, AppendIsConcat DEF Then
    <3> HIDE DEF u, a
    <3> QED BY <3>1, <3>2, <3>3, <3>4
  <2>6. /\ u \in One({"user"}) /\ a("answer") \in One({"answer"})
        /\ \A k \in {"answer", "partial"} : a(k) \in One({"answer", "partial"})
    BY DEF One
  <2> HIDE DEF u, a
  <2>7. CASE drv[latest] = "over" /\ ~late /\ latest \notin signal
    <3>1. file = h \o u \o a("answer")
      BY <2>2, <2>5, <2>7 DEF Undisturbed
    <3>2. Saved(One({"user"}), One({"answer"}))
      BY <2>3, <2>6, <3>1 DEF Saved
    <3> QED BY <2>7, <3>2 DEF OneTurnSaved
  <2>8. CASE ~(drv[latest] = "over" /\ ~late /\ latest \notin signal)
    <3>0. \/ file = h \o <<>> \o <<>> \/ file = h \o u \o <<>>
          \/ \E k \in {"answer", "partial"} : file = h \o <<>> \o a(k) \/ file = h \o u \o a(k)
      <4>1. file = h \/ file = Asked(h)
            \/ \E k \in {"answer", "partial"} : file = Then(h, k) \/ file = Then(Asked(h), k)
        BY <2>2
      <4> QED BY <2>5, <4>1
    <3>1. \E q \in {<<>>, u}, x \in {<<>>, a("answer"), a("partial")} : file = h \o q \o x
      BY <3>0
    <3>2. Saved({<<>>} \cup One({"user"}), {<<>>} \cup One({"answer", "partial"}))
      BY <2>3, <2>6, <3>1 DEF Saved
    <3> QED BY <2>8, <3>2 DEF OneTurnSaved
  <2> QED BY <2>7, <2>8
<1> QED BY <1>1, TurnInductive, PTL
=============================================================================
