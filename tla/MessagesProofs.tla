--------------------------- MODULE MessagesProofs ---------------------------
(***************************************************************************)
(* What becomes of what agents say: to their users (DraftStream) and to    *)
(* each other (AgentInbox).                                                *)
(*                                                                         *)
(* DraftStream, for any number of versions and any limits on their length: *)
(* its types, that no text is forgotten, that the user has the reply once, *)
(* and that the message never goes back.  The argument follows a text from *)
(* update to the chat.  The last text asked for is pending, or was the     *)
(* last one sent; the call in flight carries the last one sent, and when   *)
(* there is none the chat shows it.  Texts only grow on that way, so a     *)
(* late answer cannot bring back an old one; progress may wipe out the one *)
(* that waits, and the argument keeps account of it; and once end() has    *)
(* made the stream final nothing is pending.                               *)
(*                                                                         *)
(* AgentInbox, for any messages, requests, loops and crashes: its types,   *)
(* and that every message that has left the pending directory is in        *)
(* exactly one place.  The rename decides: of the loops that have read one *)
(* file, the first to rename it carries the message, and the others find   *)
(* it gone.  That this goes on being so needs that a carried message was   *)
(* not handed over or lost before, and that none of the two happens to a   *)
(* file still there.                                                       *)
(***************************************************************************)
EXTENDS DraftStream, AgentInbox, FiniteSetTheorems, TLAPS

(* DraftStream. *)

\* The loop: the call in flight carries the last text sent, what is pending is
\* no older, and a final stream that runs has nothing pending.
LoopInv == /\ calls = {draft.inFlight} \ {NoText}
           /\ draft.inFlight # NoText => draft.inFlight = draft.lastSent
           /\ draft.pending # NoText => draft.lastSent <= draft.pending
           /\ draft.final /\ ~draft.stopped => draft.pending = NoText

\* Versions are taken, sent and shown in the order they were produced.
OrderInv == /\ draft.pending <= said
            /\ draft.lastSent <= said
            /\ shown <= draft.lastSent

\* While the stream runs, the text asked for last waits or was sent last, if no
\* progress wiped it out, and the chat shows the last text sent unless its call
\* is still under way.
TextInv == ~draft.stopped =>
             /\ asked # NoText /\ ~wiped =>
                  asked = IF draft.pending # NoText THEN draft.pending ELSE draft.lastSent
             /\ draft.inFlight = NoText => shown = draft.lastSent

\* The chat has a message exactly if its id is known, but for the failures.
MessageInv == /\ draft.messageId => shown # NoText
              /\ shown # NoText => draft.messageId \/ unseen \/ clearing \in {"delete", "kept"}
              /\ unseen => draft.stopped

\* How far end and abort have come.
ClosingInv == /\ clearing # "no" => draft.stopped
              /\ clearing \notin {"no", "wait"} => draft.inFlight = NoText /\ ~draft.messageId
              /\ clearing = "deleted" => shown = NoText
              /\ ending # "no" => clearing \notin {"wait", "delete"}
              /\ ending \in {"stop", "done"} => draft.final \/ draft.stopped
              /\ ending = "done" => draft.inFlight = NoText
              /\ reply # "no" => ending = "done"
              /\ reply # "no" => (reply = "skipped" <=> SkipFinal)

IInv == /\ TypeOK
        /\ LoopInv
        /\ NothingForgotten
        /\ OrderInv
        /\ TextInv
        /\ MessageInv
        /\ ClosingInv

-----------------------------------------------------------------------------
\* What a run of the loop makes of the stream d: the pending text stays or is
\* sent, nothing older is, and what still waits has something to wait for.
Pumped(d, r) ==
  /\ r \in Draft
  /\ r.final = d.final
  /\ r.messageId = d.messageId
  /\ d.stopped => /\ r.stopped
                  /\ r.inFlight = d.inFlight
                  /\ r.lastSent = d.lastSent
  /\ d.inFlight # NoText => r.inFlight = d.inFlight /\ r.lastSent = d.lastSent
  /\ r.inFlight # NoText => r.inFlight = r.lastSent
  /\ r.inFlight = NoText => r.lastSent = d.lastSent
  /\ d.pending = NoText => r.inFlight = d.inFlight
  /\ r.pending \in {NoText, d.pending}
  /\ r.pending # NoText => r.lastSent <= r.pending
  /\ r.lastSent \in {d.lastSent, d.pending}
  /\ d.lastSent <= r.lastSent
  /\ ~r.stopped =>
       /\ r.pending # NoText => r.timer \/ r.inFlight # NoText \/ TooShort(r)
       /\ r.pending = NoText /\ d.pending # NoText => r.lastSent = d.pending
       /\ d.pending = NoText => r.lastSent = d.lastSent
       /\ r.final => r.pending = NoText

\* A stream whose loop may run: what is pending is no older than what was sent.
Runnable(d) == /\ d \in Draft
               /\ d.inFlight # NoText => d.inFlight = d.lastSent
               /\ d.pending # NoText => d.lastSent <= d.pending

LEMMA SendPendingPumps ==
  ASSUME NEW d, Runnable(d), d.inFlight = NoText
  PROVE  Pumped(d, SendPending(d))
<1> DEFINE r == SendPending(d)
<1>0. /\ Texts \in Nat /\ d \in Draft
      /\ d.pending \in Version \cup {NoText} /\ d.lastSent \in Version \cup {NoText}
  BY DraftAssumption DEF Runnable, Draft
<1>1. CASE d.stopped \/ d.pending = NoText
  <2>1. r = d BY <1>1 DEF SendPending
  <2> QED BY <1>0, <1>1, <2>1 DEF Pumped, Runnable, Version, NoText
<1>2. CASE ~d.stopped /\ d.pending # NoText /\ d.pending \in Long
  <2>1. r = [d EXCEPT !.stopped = TRUE] BY <1>2 DEF SendPending
  <2>2. /\ r \in Draft
        /\ r.final = d.final /\ r.messageId = d.messageId /\ r.stopped
        /\ r.pending = d.pending /\ r.inFlight = d.inFlight /\ r.lastSent = d.lastSent
    BY <1>0, <2>1 DEF Draft
  <2> QED BY <1>0, <1>2, <2>2 DEF Pumped, Runnable, Version, NoText
<1>3. CASE ~d.stopped /\ d.pending # NoText /\ d.pending \notin Long /\ d.pending = d.lastSent
  <2>1. r = [d EXCEPT !.pending = NoText] BY <1>3 DEF SendPending
  <2>2. /\ r \in Draft
        /\ r.final = d.final /\ r.messageId = d.messageId /\ r.stopped = d.stopped
        /\ r.pending = NoText /\ r.inFlight = d.inFlight /\ r.lastSent = d.lastSent
    BY <1>0, <2>1 DEF Draft
  <2> QED BY <1>0, <1>3, <2>2 DEF Pumped, Runnable, Version, NoText
<1>4. CASE /\ ~d.stopped /\ d.pending # NoText /\ d.pending \notin Long /\ d.pending # d.lastSent
           /\ TooShort(d)
  <2>1. r = d BY <1>4 DEF SendPending
  <2>2. ~r.final BY <1>4, <2>1 DEF TooShort
  <2> QED BY <1>0, <1>4, <2>1, <2>2 DEF Pumped, Runnable, Version, NoText
<1>5. CASE /\ ~d.stopped /\ d.pending # NoText /\ d.pending \notin Long /\ d.pending # d.lastSent
           /\ ~TooShort(d)
  <2>1. r = [d EXCEPT !.pending = NoText, !.inFlight = d.pending, !.lastSent = d.pending]
    BY <1>5 DEF SendPending
  <2>2. /\ r \in Draft
        /\ r.final = d.final /\ r.messageId = d.messageId /\ r.stopped = d.stopped
        /\ r.pending = NoText /\ r.inFlight = d.pending /\ r.lastSent = d.pending
    BY <1>0, <1>5, <2>1 DEF Draft, NoText
  <2> QED BY <1>0, <1>5, <2>2 DEF Pumped, Runnable, Version, NoText
<1> QED BY <1>1, <1>2, <1>3, <1>4, <1>5

LEMMA FlushPumps ==
  ASSUME NEW d, Runnable(d),
         d.inFlight # NoText => (d.final /\ ~d.stopped => d.pending = NoText)
  PROVE  Pumped(d, Flush(d))
<1> DEFINE c == [d EXCEPT !.timer = FALSE]
<1>1. /\ Runnable(c) /\ c.inFlight = d.inFlight /\ c.final = d.final /\ c.messageId = d.messageId
      /\ c.stopped = d.stopped /\ c.pending = d.pending /\ c.lastSent = d.lastSent
  BY DEF Runnable, Draft
<1>2. CASE d.inFlight = NoText
  <2>1. Pumped(c, SendPending(c)) BY <1>1, <1>2, SendPendingPumps
  <2>2. Flush(d) = SendPending(c) BY <1>2 DEF Flush
  <2> HIDE DEF c
  <2> QED BY <2>1, <2>2, <1>1 DEF Pumped
<1>3. CASE d.inFlight # NoText
  <2>1. Flush(d) = c BY <1>3 DEF Flush
  <2> Texts \in Nat BY DraftAssumption
  <2> QED BY <2>1, <1>1, <1>3 DEF Pumped, Runnable, Draft, Version, NoText
<1> QED BY <1>2, <1>3

LEMMA AcceptPumps ==
  ASSUME NEW d, Runnable(d), ~d.final,
         NEW text \in Version \cup {NoText}, text # NoText => d.lastSent <= text,
         NEW elapsed \in BOOLEAN
  PROVE  Pumped([d EXCEPT !.pending = text], Accept(d, text, elapsed))
<1> DEFINE new == [d EXCEPT !.pending = text]
<1>1. /\ Runnable(new) /\ ~new.final /\ new.pending = text
      /\ new.inFlight = d.inFlight /\ new.lastSent = d.lastSent
  BY DEF Runnable, Draft
<1>2. CASE d.inFlight = NoText /\ ~d.timer /\ elapsed
  BY <1>1, <1>2, FlushPumps DEF Accept
<1>3. CASE ~(d.inFlight = NoText /\ ~d.timer /\ elapsed)
  <2> DEFINE r == [new EXCEPT !.timer = TRUE]
  <2>1. Accept(d, text, elapsed) = r BY <1>3 DEF Accept
  <2>2. /\ r \in Draft /\ r.timer
        /\ r.final = new.final /\ r.messageId = new.messageId /\ r.stopped = new.stopped
        /\ r.pending = new.pending /\ r.inFlight = new.inFlight /\ r.lastSent = new.lastSent
    BY <1>1 DEF Runnable, Draft
  <2>3. new \in Draft /\ Runnable(new) /\ Texts \in Nat BY <1>1, DraftAssumption DEF Runnable
  <2>4. Pumped(new, r)
    <3> HIDE DEF r, new
    <3> QED BY <1>1, <2>2, <2>3 DEF Pumped, Runnable, Draft, Version, NoText
  <2> QED BY <2>1, <2>4
<1> QED BY <1>2, <1>3

-----------------------------------------------------------------------------
\* The loop runs on d, which differs from the stream only in what is pending,
\* in its timer, and in being final.
Runs(d) == /\ Pumped(d, draft')
           /\ Become(draft')
           /\ d.stopped = draft.stopped
           /\ d.messageId = draft.messageId
           /\ d.inFlight = draft.inFlight
           /\ d.lastSent = draft.lastSent
           /\ UNCHANGED <<shown, unseen, clearing>>

\* What d waits for is what was asked for last.
Follows(d) == /\ said \in Nat /\ said' \in Nat /\ said <= said'
              /\ asked' \in Version \cup {NoText} /\ wiped' \in BOOLEAN
              /\ d.pending \in Version \cup {NoText} /\ d.pending <= said'
              /\ ~draft.stopped /\ asked' # NoText /\ ~wiped' =>
                   asked' = IF d.pending # NoText THEN d.pending ELSE d.lastSent

\* A run of the loop keeps the invariants of the text.
LEMMA RunKeeps ==
  ASSUME IInv, NEW d, Runs(d), Follows(d)
  PROVE  /\ draft' \in Draft /\ calls' \subseteq Version
         /\ LoopInv' /\ NothingForgotten' /\ OrderInv' /\ TextInv' /\ MessageInv'
<1> Texts \in Nat BY DraftAssumption
<1>0. /\ draft \in Draft /\ draft' \in Draft /\ Pumped(d, draft')
      /\ shown \in Version \cup {NoText} /\ shown' = shown /\ unseen' = unseen /\ clearing' = clearing
  BY DEF IInv, TypeOK, Runs, Pumped
<1>1. calls' = {draft'.inFlight} \ {NoText}
  BY DEF IInv, LoopInv, Runs, Become, Pumped
<1>2. calls' \subseteq Version BY <1>0, <1>1 DEF Draft
<1>3. LoopInv' BY <1>0, <1>1 DEF LoopInv, Pumped
<1>4. NothingForgotten' BY <1>0 DEF NothingForgotten, Pumped, TooShort
<1>5. OrderInv'
  BY <1>0 DEF IInv, OrderInv, Runs, Follows, Pumped, Draft, Version, NoText
<1>6. TextInv'
  <2> SUFFICES ASSUME ~draft'.stopped
               PROVE  /\ asked' # NoText /\ ~wiped' =>
                           asked' = IF draft'.pending # NoText THEN draft'.pending ELSE draft'.lastSent
                      /\ draft'.inFlight = NoText => shown' = draft'.lastSent
    BY DEF TextInv
  <2>1. ~draft.stopped BY <1>0 DEF Runs, Pumped
  <2>2. draft'.inFlight = NoText => shown' = draft'.lastSent
    BY <1>0, <2>1 DEF IInv, TextInv, Runs, Pumped
  <2>3. asked' # NoText /\ ~wiped' =>
          asked' = IF draft'.pending # NoText THEN draft'.pending ELSE draft'.lastSent
    BY <1>0, <2>1 DEF Follows, Runs, Pumped
  <2> QED BY <2>2, <2>3
<1>7. MessageInv' BY <1>0 DEF IInv, MessageInv, Runs, Pumped
<1> QED BY <1>0, <1>2, <1>3, <1>4, <1>5, <1>6, <1>7

-----------------------------------------------------------------------------
THEOREM InitIInv == Init => IInv
<1> SUFFICES ASSUME Init PROVE IInv OBVIOUS
<1>1. Texts \in Nat BY DraftAssumption
<1>2. TypeOK BY DEF Init, TypeOK, Draft, NoText
<1> QED BY <1>1, <1>2 DEF Init, IInv, LoopInv, NothingForgotten, OrderInv, TextInv, MessageInv, ClosingInv,
                  SkipFinal, NoText

LEMMA IInvIsRunnable == IInv => Runnable(draft)
BY DEF IInv, TypeOK, LoopInv, Runnable

\* The loop takes a text that is empty or no older than what was asked for; if
\* it is empty, what waits is wiped out.
LEMMA TakeKeeps ==
  ASSUME IInv, Listens, NEW text \in Version \cup {NoText}, text = NoText \/ said <= text,
         Take(text), said' \in Version \cup {NoText}, said <= said', text <= said',
         \/ text # NoText /\ asked' = text /\ wiped' = FALSE
         \/ text = NoText /\ asked' = asked /\ wiped' = (wiped \/ draft.pending # NoText),
         UNCHANGED <<shown, unseen, ending, clearing, reply>>
  PROVE  IInv'
<1> Texts \in Nat /\ said \in Nat BY DraftAssumption DEF IInv, TypeOK, Version, NoText
<1>1. PICK elapsed \in BOOLEAN : Become(Accept(draft, text, elapsed)) BY DEF Take
<1> DEFINE d == [draft EXCEPT !.pending = text]
<1>2. draft' = Accept(draft, text, elapsed) BY <1>1 DEF Become
<1>3. /\ d.stopped = draft.stopped /\ d.messageId = draft.messageId /\ d.inFlight = draft.inFlight
      /\ d.lastSent = draft.lastSent /\ d.pending = text /\ d.final = draft.final
  BY DEF IInv, TypeOK, Draft
<1>4. text # NoText => draft.lastSent <= text
  BY DEF IInv, TypeOK, OrderInv, Draft, Version, NoText
<1>5. Pumped(d, draft') BY <1>2, <1>4, AcceptPumps, IInvIsRunnable DEF Listens
<1> HIDE DEF d
<1>6. Runs(d) BY <1>1, <1>2, <1>3, <1>5 DEF Runs
<1>7. asked' \in Version \cup {NoText} /\ wiped' \in BOOLEAN BY DEF IInv, TypeOK
<1>8. ASSUME ~draft.stopped, asked' # NoText, ~wiped'
      PROVE  asked' = IF d.pending # NoText THEN d.pending ELSE d.lastSent
  <2>1. CASE text # NoText BY <1>3, <2>1
  <2>2. CASE text = NoText
    <3>1. asked' = asked /\ ~wiped /\ draft.pending = NoText BY <1>8, <2>2
    <3> QED BY <1>3, <1>8, <2>2, <3>1 DEF IInv, TextInv
  <2> QED BY <2>1, <2>2
<1>9. Follows(d) BY <1>3, <1>7, <1>8 DEF Follows, Version, NoText
<1>10. /\ draft' \in Draft /\ calls' \subseteq Version
       /\ LoopInv' /\ NothingForgotten' /\ OrderInv' /\ TextInv' /\ MessageInv'
  BY <1>6, <1>9, RunKeeps
<1>11. TypeOK' BY <1>7, <1>10 DEF IInv, TypeOK
<1>12. draft'.final = draft.final /\ draft'.messageId = draft.messageId
       /\ ~draft.stopped /\ ~draft.final
  BY <1>3, <1>5 DEF Pumped, Listens
<1>13. ending \in {"no", "flush"} /\ ending' = ending /\ clearing' = clearing /\ clearing = "no"
  BY <1>12 DEF IInv, TypeOK, ClosingInv
<1>14. ClosingInv'
  BY <1>12, <1>13 DEF IInv, ClosingInv, SkipFinal
<1> QED BY <1>10, <1>11, <1>14 DEF IInv

\* A step that runs the loop on d and moves end, or only the loop.
LEMMA FlushKeeps ==
  ASSUME IInv, NEW d, Runnable(d),
         d.stopped = draft.stopped, d.messageId = draft.messageId, d.inFlight = draft.inFlight,
         d.lastSent = draft.lastSent, d.pending = draft.pending,
         draft.inFlight # NoText => d.final = draft.final,
         Become(Flush(d)), UNCHANGED <<shown, unseen, said, asked, wiped, clearing>>
  PROVE  /\ Pumped(d, draft')
         /\ draft' \in Draft /\ calls' \subseteq Version
         /\ LoopInv' /\ NothingForgotten' /\ OrderInv' /\ TextInv' /\ MessageInv'
<1> Texts \in Nat BY DraftAssumption
<1>1. draft' = Flush(d) BY DEF Become
<1>2. Pumped(d, draft') BY <1>1, FlushPumps DEF IInv, LoopInv
<1>3. Runs(d) BY <1>1, <1>2 DEF Runs
<1>4. Follows(d)
  BY DEF IInv, TypeOK, OrderInv, TextInv, Follows, Draft, Version, NoText
<1> QED BY <1>2, <1>3, <1>4, RunKeeps

LEMMA FireKeeps == IInv /\ Fire => IInv'
<1> SUFFICES ASSUME IInv, Fire PROVE IInv' OBVIOUS
<1> DEFINE d == [draft EXCEPT !.timer = FALSE]
<1>1. /\ Runnable(d)
      /\ d.stopped = draft.stopped /\ d.messageId = draft.messageId /\ d.inFlight = draft.inFlight
      /\ d.lastSent = draft.lastSent /\ d.pending = draft.pending /\ d.final = draft.final
  BY IInvIsRunnable DEF Runnable, Draft
<1> HIDE DEF d
<1>2. /\ Pumped(d, draft')
      /\ draft' \in Draft /\ calls' \subseteq Version
      /\ LoopInv' /\ NothingForgotten' /\ OrderInv' /\ TextInv' /\ MessageInv'
  <2>1. Become(Flush(d)) /\ UNCHANGED <<shown, unseen, said, asked, wiped, clearing>> BY DEF Fire, d
  <2> QED BY <1>1, <2>1, FlushKeeps
<1>3. TypeOK' BY <1>2 DEF IInv, TypeOK, Fire
<1>4. ClosingInv'
  BY <1>1, <1>2 DEF IInv, LoopInv, ClosingInv, SkipFinal, Pumped, Fire
<1> QED BY <1>2, <1>3, <1>4 DEF IInv

LEMMA EndKeeps == IInv /\ End => IInv'
<1> SUFFICES ASSUME IInv, End PROVE IInv' OBVIOUS
<1>1. CASE HasHandle
  <2>1. /\ Become(Flush(draft)) /\ ending = "no" /\ ending' = "flush"
        /\ UNCHANGED <<shown, unseen, said, asked, wiped, clearing, reply>>
    BY <1>1 DEF End
  <2>2. /\ Pumped(draft, draft')
        /\ draft' \in Draft /\ calls' \subseteq Version
        /\ LoopInv' /\ NothingForgotten' /\ OrderInv' /\ TextInv' /\ MessageInv'
    BY <2>1, FlushKeeps, IInvIsRunnable
  <2>3. TypeOK' BY <2>1, <2>2 DEF IInv, TypeOK
  <2>4. ClosingInv' BY <2>1, <2>2 DEF IInv, ClosingInv, SkipFinal, Pumped, End
  <2> QED BY <2>2, <2>3, <2>4 DEF IInv
<1>2. CASE ~HasHandle
  <2>1. /\ ending = "no" /\ ending' = "done" /\ clearing \notin {"no", "wait", "delete"}
        /\ UNCHANGED <<draft, calls, shown, unseen, said, asked, wiped, clearing, reply>>
    BY <1>2 DEF End, HasHandle
  <2>2. TypeOK' BY <2>1 DEF IInv, TypeOK
  <2>3. ClosingInv' BY <2>1 DEF IInv, ClosingInv, SkipFinal
  <2> QED BY <2>1, <2>2, <2>3 DEF IInv, LoopInv, NothingForgotten, TooShort, OrderInv, TextInv, MessageInv
<1> QED BY <1>1, <1>2

LEMMA EndStopKeeps == IInv /\ EndStop => IInv'
<1> SUFFICES ASSUME IInv, EndStop PROVE IInv' OBVIOUS
<1> DEFINE d == [draft EXCEPT !.final = TRUE]
<1>1. /\ Runnable(d) /\ d.final /\ draft.inFlight = NoText
      /\ d.stopped = draft.stopped /\ d.messageId = draft.messageId /\ d.inFlight = draft.inFlight
      /\ d.lastSent = draft.lastSent /\ d.pending = draft.pending
  BY IInvIsRunnable DEF Runnable, Draft, EndStop
<1>2. /\ ending = "flush" /\ ending' = "stop"
      /\ UNCHANGED <<shown, unseen, said, asked, wiped, clearing, reply>>
  BY DEF EndStop
<1>3. Become(Flush(d)) BY DEF EndStop
<1> HIDE DEF d
<1>4. /\ Pumped(d, draft')
      /\ draft' \in Draft /\ calls' \subseteq Version
      /\ LoopInv' /\ NothingForgotten' /\ OrderInv' /\ TextInv' /\ MessageInv'
  BY <1>1, <1>2, <1>3, FlushKeeps
<1>5. TypeOK' BY <1>2, <1>4 DEF IInv, TypeOK
<1>6. ClosingInv' BY <1>1, <1>2, <1>4 DEF IInv, ClosingInv, SkipFinal, Pumped
<1> QED BY <1>4, <1>5, <1>6 DEF IInv

\* The call in flight has sent its text: the chat shows it, and the loop goes on.
LEMMA SucceedsKeeps ==
  ASSUME IInv, NEW text \in calls, Succeeds(text), UNCHANGED <<said, asked, wiped, ending, clearing, reply>>
  PROVE  IInv'
<1> Texts \in Nat BY DraftAssumption
<1> DEFINE d == [draft EXCEPT !.messageId = TRUE, !.inFlight = NoText]
<1>1. /\ text = draft.inFlight /\ text = draft.lastSent /\ text \in Version /\ text # NoText
  BY DEF IInv, TypeOK, LoopInv
<1>2. /\ Runnable(d) /\ d.inFlight = NoText /\ d.messageId
      /\ d.stopped = draft.stopped /\ d.final = draft.final
      /\ d.lastSent = draft.lastSent /\ d.pending = draft.pending
  BY IInvIsRunnable DEF Runnable, Draft
<1>3. draft' = SendPending(d) /\ shown' = text /\ unseen' = unseen
  <2>1. [[draft EXCEPT !.messageId = TRUE] EXCEPT !.inFlight = NoText] = d
    BY DEF IInv, TypeOK, Draft
  <2> QED BY <2>1 DEF Succeeds, Settled
<1>4. calls' = {draft'.inFlight} \ {NoText}
  BY <1>1 DEF Succeeds, IInv, LoopInv
<1> HIDE DEF d
<1>5. Pumped(d, draft') BY <1>2, <1>3, SendPendingPumps
<1>6. draft' \in Draft /\ draft'.messageId BY <1>2, <1>5 DEF Pumped
<1>7. calls' \subseteq Version BY <1>4, <1>6 DEF Draft
<1>8. TypeOK' BY <1>1, <1>3, <1>6, <1>7 DEF IInv, TypeOK
<1>9. LoopInv' BY <1>4, <1>5 DEF LoopInv, Pumped
<1>10. NothingForgotten' BY <1>5 DEF NothingForgotten, Pumped
<1>11. OrderInv'
  BY <1>1, <1>2, <1>3, <1>5 DEF IInv, TypeOK, OrderInv, Pumped, Draft, Version, NoText
<1>12. TextInv'
  <2>1. /\ ~draft'.stopped => ~draft.stopped
        /\ ~draft'.stopped /\ asked # NoText /\ ~wiped =>
             asked = IF draft'.pending # NoText THEN draft'.pending ELSE draft'.lastSent
    BY <1>2, <1>5 DEF IInv, TextInv, Pumped
  <2> QED BY <1>1, <1>2, <1>3, <1>5, <2>1 DEF TextInv, Pumped
<1>13. MessageInv' BY <1>1, <1>2, <1>3, <1>5, <1>6 DEF IInv, MessageInv, Pumped
<1>14. ClosingInv'
  BY <1>1, <1>2, <1>3, <1>5 DEF IInv, ClosingInv, SkipFinal, Pumped
<1> QED BY <1>8, <1>9, <1>10, <1>11, <1>12, <1>13, <1>14 DEF IInv

\* The call in flight has failed: the stream stops for good.
LEMMA FailsKeeps ==
  ASSUME IInv, NEW text \in calls, Fails(text), UNCHANGED <<said, asked, wiped, ending, clearing, reply>>
  PROVE  IInv'
<1> Texts \in Nat BY DraftAssumption
<1>1. /\ text = draft.inFlight /\ text = draft.lastSent /\ text \in Version /\ text # NoText
      /\ draft \in Draft /\ calls = {text}
  BY DEF IInv, TypeOK, LoopInv
<1>2. draft' = [draft EXCEPT !.inFlight = NoText, !.pending = text, !.stopped = TRUE]
  BY <1>1 DEF Fails, Settled, Draft
<1>3. /\ draft' \in Draft
      /\ draft'.stopped /\ draft'.inFlight = NoText /\ draft'.pending = text
      /\ draft'.messageId = draft.messageId /\ draft'.final = draft.final
      /\ draft'.lastSent = draft.lastSent
  BY <1>1, <1>2 DEF Draft, NoText
<1>4. calls' = {} BY <1>1 DEF Fails
<1>5. \/ shown' = shown /\ unseen' = unseen
      \/ shown' = text /\ unseen' = (unseen \/ ~draft.messageId)
  BY DEF Fails
<1>6. TypeOK' BY <1>1, <1>3, <1>4, <1>5 DEF IInv, TypeOK
<1>7. LoopInv' /\ NothingForgotten' /\ TextInv'
  BY <1>1, <1>3, <1>4 DEF LoopInv, NothingForgotten, TextInv, Draft, Version, NoText
<1>8. OrderInv' BY <1>1, <1>3, <1>5 DEF IInv, TypeOK, OrderInv, Draft, Version, NoText
<1>9. MessageInv' BY <1>1, <1>3, <1>5 DEF IInv, MessageInv
<1>10. ClosingInv' BY <1>1, <1>3, <1>5 DEF IInv, ClosingInv, SkipFinal
<1> QED BY <1>6, <1>7, <1>8, <1>9, <1>10 DEF IInv

-----------------------------------------------------------------------------
LEMMA StepIInv == IInv /\ [Next]_vars => IInv'
<1> SUFFICES ASSUME IInv, [Next]_vars PROVE IInv' OBVIOUS
<1> Texts \in Nat BY DraftAssumption
<1>1. CASE Update
  <2>1. PICK text \in {said, said + 1} \cap Version :
           /\ said' = text
           /\ IF Listens
              THEN asked' = text /\ wiped' = FALSE /\ Take(text)
              ELSE UNCHANGED <<asked, wiped, draft, calls>>
    BY <1>1 DEF Update
  <2>2. said \in Nat /\ said <= text /\ text # NoText BY <2>1 DEF IInv, TypeOK, Version, NoText
  <2>3. UNCHANGED <<shown, unseen, ending, clearing, reply>> BY <1>1 DEF Update
  <2>4. text <= said' /\ said <= said' /\ said' \in Version \cup {NoText}
    BY <2>1, <2>2 DEF Version
  <2>5. CASE Listens BY <2>1, <2>2, <2>3, <2>4, <2>5, TakeKeeps
  <2>6. CASE ~Listens
    <3>1. UNCHANGED <<draft, calls, asked, wiped, shown, unseen, ending, clearing, reply>>
      BY <2>1, <2>3, <2>6
    <3>2. TypeOK' BY <2>4, <3>1 DEF IInv, TypeOK
    <3>3. OrderInv' BY <2>4, <3>1 DEF IInv, TypeOK, OrderInv, Draft, Version, NoText
    <3> QED BY <3>1, <3>2, <3>3
            DEF IInv, LoopInv, NothingForgotten, TooShort, TextInv, MessageInv, ClosingInv, SkipFinal
  <2> QED BY <2>5, <2>6
<1>2. CASE Progress
  <2>1. /\ Listens /\ Take(NoText) /\ said' = said /\ asked' = asked
        /\ wiped' = (wiped \/ draft.pending # NoText)
        /\ UNCHANGED <<shown, unseen, ending, clearing, reply>>
    BY <1>2 DEF Progress
  <2>2. said \in Version \cup {NoText} /\ said <= said /\ NoText <= said
    BY DEF IInv, TypeOK, Version, NoText
  <2> QED BY <2>1, <2>2, TakeKeeps
<1>3. CASE Answer
  <2>1. PICK text \in calls : Succeeds(text) \/ Fails(text) BY <1>3 DEF Answer
  <2>2. UNCHANGED <<said, asked, wiped, ending, clearing, reply>> BY <1>3 DEF Answer
  <2> QED BY <2>1, <2>2, SucceedsKeeps, FailsKeeps
<1>4. CASE EndDone
  BY <1>4 DEF EndDone, IInv, TypeOK, LoopInv, NothingForgotten, TooShort, OrderInv, TextInv, MessageInv,
             ClosingInv, SkipFinal
<1>5. CASE SendFinal
  <2>1. /\ ending = "done" /\ reply = "no" /\ reply' \in {"skipped", "sent", "empty"}
        /\ reply' = "skipped" <=> SkipFinal
        /\ UNCHANGED <<draft, calls, shown, unseen, said, asked, wiped, ending, clearing>>
    BY <1>5 DEF SendFinal
  <2> QED BY <2>1 DEF IInv, TypeOK, LoopInv, NothingForgotten, TooShort, OrderInv, TextInv, MessageInv,
                    ClosingInv, SkipFinal
<1>6. CASE Abort
  <2>1. /\ ending = "no" /\ clearing = "no" /\ clearing' = "wait"
        /\ draft' = [draft EXCEPT !.stopped = TRUE, !.pending = NoText, !.timer = FALSE]
        /\ UNCHANGED <<calls, shown, unseen, said, asked, wiped, ending, reply>>
    BY <1>6 DEF Abort
  <2>2. /\ draft' \in Draft /\ draft'.stopped /\ draft'.pending = NoText
        /\ draft'.inFlight = draft.inFlight /\ draft'.lastSent = draft.lastSent
        /\ draft'.messageId = draft.messageId
    BY <2>1 DEF IInv, TypeOK, Draft
  <2>3. TypeOK' BY <2>1, <2>2 DEF IInv, TypeOK
  <2>4. OrderInv' BY <2>1, <2>2 DEF IInv, TypeOK, OrderInv, Draft, Version, NoText
  <2>5. LoopInv' /\ NothingForgotten' /\ TextInv'
    BY <2>1, <2>2 DEF IInv, LoopInv, NothingForgotten, TextInv
  <2>6. MessageInv' /\ ClosingInv' BY <2>1, <2>2 DEF IInv, MessageInv, ClosingInv
  <2> QED BY <2>3, <2>4, <2>5, <2>6 DEF IInv
<1>7. CASE Delete
  <2>1. /\ clearing = "wait" /\ draft.inFlight = NoText
        /\ draft' = [draft EXCEPT !.messageId = FALSE]
        /\ clearing' = IF draft.messageId THEN "delete" ELSE "nothing"
        /\ UNCHANGED <<calls, shown, unseen, said, asked, wiped, ending, reply>>
    BY <1>7 DEF Delete
  <2>2. /\ draft' \in Draft /\ ~draft'.messageId
        /\ draft'.inFlight = draft.inFlight /\ draft'.lastSent = draft.lastSent
        /\ draft'.pending = draft.pending /\ draft'.stopped = draft.stopped /\ draft'.final = draft.final
    BY <2>1 DEF IInv, TypeOK, Draft
  <2>3. draft.stopped /\ ending = "no" /\ reply = "no"
    BY <2>1 DEF IInv, TypeOK, ClosingInv
  <2>4. TypeOK' BY <2>1, <2>2 DEF IInv, TypeOK
  <2>5. LoopInv' /\ NothingForgotten' /\ OrderInv' /\ TextInv'
    BY <2>1, <2>2, <2>3 DEF IInv, LoopInv, NothingForgotten, OrderInv, TextInv
  <2>6. MessageInv' BY <2>1, <2>2, <2>3 DEF IInv, MessageInv
  <2>7. ClosingInv' BY <2>1, <2>2, <2>3 DEF IInv, ClosingInv
  <2> QED BY <2>4, <2>5, <2>6, <2>7 DEF IInv
<1>8. CASE DeleteAnswered
  <2>1. /\ clearing = "delete" /\ draft.inFlight = NoText /\ ~draft.messageId /\ draft.stopped
        /\ \/ clearing' = "deleted" /\ shown' = NoText
           \/ clearing' = "kept" /\ shown' = shown
        /\ UNCHANGED <<draft, calls, unseen, said, asked, wiped, ending, reply>>
    BY <1>8 DEF DeleteAnswered, IInv, ClosingInv
  <2>2. TypeOK' BY <2>1 DEF IInv, TypeOK
  <2>3. OrderInv' BY <2>1 DEF IInv, TypeOK, OrderInv, Draft, Version, NoText
  <2>4. ClosingInv' BY <2>1 DEF IInv, TypeOK, ClosingInv, SkipFinal
  <2> QED BY <2>1, <2>2, <2>3, <2>4
          DEF IInv, LoopInv, NothingForgotten, TooShort, TextInv, MessageInv
<1>9. CASE UNCHANGED vars
  BY <1>9 DEF vars, IInv, TypeOK, LoopInv, NothingForgotten, TooShort, OrderInv, TextInv, MessageInv,
             ClosingInv, SkipFinal
<1> QED BY <1>1, <1>2, <1>3, <1>4, <1>5, <1>6, <1>7, <1>8, <1>9, FireKeeps, EndKeeps, EndStopKeeps
        DEF Next

\* The inductive invariant of the draft stream holds in every behaviour.
THEOREM Inductive == Spec => []IInv
<1> QED BY InitIInv, StepIInv, PTL DEF Spec

\* The stream's state keeps its type.
THEOREM TypeCorrect == Spec => []TypeOK
<1>1. IInv => TypeOK BY DEF IInv
<1> QED BY <1>1, Inductive, PTL

\* No text that waits is forgotten by the throttled loop.
THEOREM NoTextForgotten == Spec => []NothingForgotten
<1>1. IInv => NothingForgotten BY DEF IInv
<1> QED BY <1>1, Inductive, PTL

\* The user has the reply once, in the chat's message or as the final outbound
\* reply, and an abort leaves no message behind.
THEOREM OneReply == Spec => []ReplyOnce
<1>1. IInv => ReplyOnce
  <2> SUFFICES ASSUME IInv PROVE ReplyOnce OBVIOUS
  <2>1. reply = "skipped" => shown # NoText
    BY DEF IInv, ClosingInv, MessageInv, SkipFinal
  <2>2. ASSUME reply # "no", ~draft.stopped
        PROVE  /\ reply = "skipped" <=> shown # NoText
               /\ asked # NoText /\ ~wiped => shown = asked
    <3>1. clearing = "no" /\ ~unseen /\ draft.inFlight = NoText /\ draft.pending = NoText
      BY <2>2 DEF IInv, ClosingInv, MessageInv, LoopInv
    <3> QED BY <2>2, <3>1 DEF IInv, ClosingInv, MessageInv, TextInv, SkipFinal
  <2>3. clearing \in {"deleted", "nothing"} => shown = NoText \/ unseen
    BY DEF IInv, ClosingInv, MessageInv
  <2> QED BY <2>1, <2>2, <2>3 DEF ReplyOnce
<1> QED BY <1>1, Inductive, PTL

\* The message never goes back to an older version of the reply.
THEOREM NeverGoesBack == Spec => ShownInOrder
<1>1. IInv /\ [Next]_vars => [shown' # NoText => shown' >= shown]_vars
  <2> SUFFICES ASSUME IInv, Next, shown' # NoText PROVE shown' >= shown OBVIOUS
  <2> Texts \in Nat BY DraftAssumption
  <2> SUFFICES ASSUME shown' # shown PROVE shown' >= shown
    <3> shown \in Int BY DEF IInv, TypeOK, Version, NoText
    <3> QED OBVIOUS
  <2>1. PICK text \in calls : shown' = text
    BY DEF Next, Update, Progress, Fire, Answer, Succeeds, Fails, End, EndStop, EndDone, SendFinal, Abort,
           Delete, DeleteAnswered
  <2> QED BY <2>1 DEF IInv, TypeOK, LoopInv, OrderInv, Draft, Version, NoText
<1> QED BY <1>1, Inductive, PTL DEF Spec, ShownInOrder

-----------------------------------------------------------------------------
(* AgentInbox. *)

Carries(l, m) == pc[l] = "carrying" /\ target[l] = m

\* A loop beyond its listing has picked a file.
PickedMessage == \A l \in Loop :
  pc[l] \in {"reading", "renaming", "carrying", "handling"} => target[l] \in Message

\* At most one loop carries a message, which is neither handed over nor lost.
OneCarrier == \A m \in Message, l \in Loop : Carries(l, m) =>
  /\ file[m] = "moved" /\ handed[m] = 0 /\ m \notin lost
  /\ \A k \in Loop : Carries(k, m) => k = l

\* What was handed over was so once, and is not lost; both have been moved.
OneEnd == \A m \in Message :
  /\ handed[m] \in {0, 1}
  /\ handed[m] = 1 => file[m] = "moved" /\ m \notin lost
  /\ m \in lost => file[m] = "moved"

\* What was moved has not vanished.
MovedIsSomewhere == \A m \in Message :
  file[m] = "moved" => \/ handed[m] = 1
                       \/ m \in lost
                       \/ \E l \in Loop : Carries(l, m)

InboxIInv == InboxTypeOK /\ PickedMessage /\ OneCarrier /\ OneEnd /\ MovedIsSomewhere

-----------------------------------------------------------------------------
LEMMA IInvImpliesAccounted == InboxIInv => Accounted
<1> SUFFICES ASSUME InboxIInv, NEW m \in Message
             PROVE  Cardinality(Carriers(m)) + handed[m] + (IF m \in lost THEN 1 ELSE 0)
                      = IF file[m] = "moved" THEN 1 ELSE 0
  BY DEF Accounted
<1>1. CASE \E l \in Loop : Carries(l, m)
  <2> PICK l \in Loop : Carries(l, m) BY <1>1
  <2>1. Carriers(m) = {l} BY DEF Carriers, Carries, InboxIInv, OneCarrier
  <2>2. Cardinality(Carriers(m)) = 1 BY <2>1, FS_Singleton
  <2>3. file[m] = "moved" /\ handed[m] = 0 /\ m \notin lost BY DEF InboxIInv, OneCarrier
  <2> QED BY <2>2, <2>3
<1>2. CASE ~\E l \in Loop : Carries(l, m)
  <2>1. Carriers(m) = {} BY <1>2 DEF Carriers, Carries
  <2>2. Cardinality(Carriers(m)) = 0 BY <2>1, FS_EmptySet
  <2>3. handed[m] = 0 \/ handed[m] = 1 BY DEF InboxIInv, OneEnd
  <2>4. file[m] = "moved" <=> handed[m] = 1 \/ m \in lost
    BY <1>2 DEF InboxIInv, OneEnd, MovedIsSomewhere
  <2>5. ~(handed[m] = 1 /\ m \in lost) BY DEF InboxIInv, OneEnd
  <2> QED BY <2>2, <2>3, <2>4, <2>5
<1> QED BY <1>1, <1>2

-----------------------------------------------------------------------------
LEMMA InboxInitIInv == InboxInit => InboxIInv
<1> SUFFICES ASSUME InboxInit PROVE InboxIInv OBVIOUS
<1>1. InboxTypeOK BY InboxAssumption DEF InboxInit, InboxTypeOK, Active, Open
<1>2. PickedMessage /\ OneCarrier /\ OneEnd /\ MovedIsSomewhere
  BY DEF InboxInit, PickedMessage, OneCarrier, OneEnd, MovedIsSomewhere, Carries
<1> QED BY <1>1, <1>2 DEF InboxIInv

\* Sending, waiting and stopping have nothing to do with the files or the loops.
LEMMA SameFilesSameLoops ==
  ASSUME InboxIInv, UNCHANGED <<file, loops, handed, lost>>
  PROVE  PickedMessage' /\ OneCarrier' /\ OneEnd' /\ MovedIsSomewhere'
BY DEF InboxIInv, PickedMessage, OneCarrier, OneEnd, MovedIsSomewhere, Carries, loops

\* A loop that neither is, was nor becomes a carrier keeps what was so, as long
\* as it has picked a message where it needs one.
LEMMA LoopMoves ==
  ASSUME InboxIInv, NEW l \in Loop, UNCHANGED <<file, handed, lost>>,
         pc[l] # "carrying",
         pc' = [pc EXCEPT ![l] = pc'[l]], pc'[l] # "carrying",
         \A k \in Loop \ {l} : target'[k] = target[k],
         pc'[l] \in {"reading", "renaming", "handling"} => target'[l] \in Message
  PROVE  PickedMessage' /\ OneCarrier' /\ OneEnd' /\ MovedIsSomewhere'
<1>1. pc'[l] # "carrying" /\ \A k \in Loop \ {l} : pc'[k] = pc[k]
  BY DEF InboxIInv, InboxTypeOK
<1>2. \A k \in Loop, m \in Message : Carries(k, m)' <=> Carries(k, m)
  BY <1>1 DEF Carries
<1>3. PickedMessage' BY <1>1 DEF InboxIInv, PickedMessage
<1>4. OneCarrier' BY <1>2 DEF InboxIInv, OneCarrier
<1>5. OneEnd' BY DEF InboxIInv, OneEnd
<1>6. MovedIsSomewhere' BY <1>2 DEF InboxIInv, MovedIsSomewhere
<1> QED BY <1>3, <1>4, <1>5, <1>6

\* A file that was not moved and is not moved stays out of it.
LEMMA FileChanges ==
  ASSUME InboxIInv, NEW m \in Message, file[m] # "moved",
         NEW v \in {"empty", "whole"}, file' = [file EXCEPT ![m] = v],
         UNCHANGED <<loops, handed, lost>>
  PROVE  PickedMessage' /\ OneCarrier' /\ OneEnd' /\ MovedIsSomewhere'
<1>1. \A n \in Message : file'[n] = "moved" <=> file[n] = "moved"
  BY DEF InboxIInv, InboxTypeOK
<1>2. \A k \in Loop, n \in Message : Carries(k, n)' <=> Carries(k, n)
  BY DEF Carries, loops
<1>3. PickedMessage' BY DEF InboxIInv, PickedMessage, loops
<1>4. OneCarrier' BY <1>1, <1>2 DEF InboxIInv, OneCarrier
<1>5. OneEnd' BY <1>1 DEF InboxIInv, OneEnd
<1>6. MovedIsSomewhere' BY <1>1, <1>2 DEF InboxIInv, MovedIsSomewhere
<1> QED BY <1>3, <1>4, <1>5, <1>6

-----------------------------------------------------------------------------
\* Senders and requests.
LEMMA CreateKeeps == ASSUME InboxIInv, NEW m \in Message, Create(m) PROVE InboxIInv'
<1>1. InboxTypeOK' BY DEF InboxIInv, InboxTypeOK, Create, Notify, loops
<1>2. PickedMessage' /\ OneCarrier' /\ OneEnd' /\ MovedIsSomewhere'
  BY FileChanges DEF Create, loops
<1> QED BY <1>1, <1>2 DEF InboxIInv

LEMMA FillKeeps == ASSUME InboxIInv, NEW m \in Message, Fill(m) PROVE InboxIInv'
<1>1. InboxTypeOK' BY DEF InboxIInv, InboxTypeOK, Fill, loops, history
<1>2. PickedMessage' /\ OneCarrier' /\ OneEnd' /\ MovedIsSomewhere'
  BY FileChanges DEF Fill, loops, history
<1> QED BY <1>1, <1>2 DEF InboxIInv

LEMMA RequestKeeps ==
  ASSUME InboxIInv, NEW r \in Request, Send(r) \/ SendEnds(r) \/ Timeout(r)
  PROVE  InboxIInv'
<1>1. InboxTypeOK' BY DEF InboxIInv, InboxTypeOK, Send, SendEnds, Timeout, loops, history, Open
<1>2. UNCHANGED <<file, loops, handed, lost>>
  BY DEF Send, SendEnds, Timeout, loops, history
<1> QED BY <1>1, <1>2, SameFilesSameLoops DEF InboxIInv

\* The bus.
LEMMA StartKeeps == ASSUME InboxIInv, NEW l \in Loop, Start(l) PROVE InboxIInv'
<1>1. InboxTypeOK' BY DEF InboxIInv, InboxTypeOK, Start, Goto, Active
<1>2. PickedMessage' /\ OneCarrier' /\ OneEnd' /\ MovedIsSomewhere'
  <2>1. pc'[l] = "listing" BY DEF Start, Goto, InboxIInv, InboxTypeOK
  <2> QED BY <2>1, LoopMoves DEF Start, Goto
<1> QED BY <1>1, <1>2 DEF InboxIInv

LEMMA StopKeeps == ASSUME InboxIInv, Stop PROVE InboxIInv'
<1>1. InboxTypeOK' BY DEF InboxIInv, InboxTypeOK, Stop, loops, history
<1>2. UNCHANGED <<file, loops, handed, lost>> BY DEF Stop, loops, history
<1> QED BY <1>1, <1>2, SameFilesSameLoops DEF InboxIInv

LEMMA NoticeKeeps == ASSUME InboxIInv, NEW l \in Loop, Notice(l) PROVE InboxIInv'
<1>1. InboxTypeOK' BY DEF InboxIInv, InboxTypeOK, Notice, Goto, Active, history
<1>2. PickedMessage' /\ OneCarrier' /\ OneEnd' /\ MovedIsSomewhere'
  <2>1. pc'[l] = "listing" BY DEF Notice, Goto, InboxIInv, InboxTypeOK
  <2> QED BY <2>1, LoopMoves DEF Notice, Goto, history
<1> QED BY <1>1, <1>2 DEF InboxIInv

-----------------------------------------------------------------------------
\* A loop, step by step.
LEMMA ListKeeps == ASSUME InboxIInv, NEW l \in Loop, List(l) PROVE InboxIInv'
<1>1. target' \in [Loop -> Message \cup {NoRequest}]
  BY DEF InboxIInv, InboxTypeOK, List, Pending
<1>2. InboxTypeOK' BY <1>1 DEF InboxIInv, InboxTypeOK, List, Goto, Active, history
<1>3. PickedMessage' /\ OneCarrier' /\ OneEnd' /\ MovedIsSomewhere'
  <2>1. pc'[l] = "leaving" \/ (pc'[l] = "reading" /\ target'[l] \in Message)
    BY DEF List, Goto, InboxIInv, InboxTypeOK, Pending
  <2>2. \A k \in Loop \ {l} : target'[k] = target[k] BY DEF List, InboxIInv, InboxTypeOK
  <2>3. pc' = [pc EXCEPT ![l] = pc'[l]] BY DEF List, Goto, InboxIInv, InboxTypeOK
  <2> QED BY <2>1, <2>2, <2>3, LoopMoves DEF List, history
<1> QED BY <1>2, <1>3 DEF InboxIInv

LEMMA ReadKeeps == ASSUME InboxIInv, NEW l \in Loop, Read(l) PROVE InboxIInv'
<1>0. target[l] \in Message BY DEF Read, InboxIInv, PickedMessage
<1>1. InboxTypeOK' BY <1>0 DEF InboxIInv, InboxTypeOK, Read, Goto, Active
<1>2. PickedMessage' /\ OneCarrier' /\ OneEnd' /\ MovedIsSomewhere'
  <2>1. pc'[l] \in {"renaming", "leaving"} BY DEF Read, Goto, InboxIInv, InboxTypeOK
  <2>2. pc' = [pc EXCEPT ![l] = pc'[l]] BY DEF Read, Goto, InboxIInv, InboxTypeOK
  <2> QED BY <1>0, <2>1, <2>2, LoopMoves DEF Read
<1> QED BY <1>1, <1>2 DEF InboxIInv

\* The one step by which a loop begins to carry: the file was still there, so
\* nobody carries the message, and it was neither handed over nor lost.
LEMMA RenameKeeps == ASSUME InboxIInv, NEW l \in Loop, Rename(l) PROVE InboxIInv'
<1> DEFINE m == target[l]
<1>0. m \in Message BY DEF Rename, InboxIInv, PickedMessage
<1>1. InboxTypeOK' BY <1>0 DEF InboxIInv, InboxTypeOK, Rename, Notify, Goto, Active, history
<1>2. CASE file[m] # "whole"
  <2>1. pc'[l] = "leaving" /\ pc' = [pc EXCEPT ![l] = pc'[l]]
    BY <1>2 DEF Rename, Goto, InboxIInv, InboxTypeOK
  <2>2. UNCHANGED <<file, handed, lost, target>> BY <1>2 DEF Rename, history
  <2> QED BY <1>1, <2>1, <2>2, LoopMoves DEF InboxIInv, Rename
<1>3. CASE file[m] = "whole"
  <2>1. /\ file' = [file EXCEPT ![m] = "moved"]
        /\ pc' = [pc EXCEPT ![l] = "carrying"]
        /\ UNCHANGED <<target, handed, lost>>
    BY <1>3 DEF Rename, Goto, history
  <2>2. /\ file'[m] = "moved" /\ \A n \in Message \ {m} : file'[n] = file[n]
        /\ pc'[l] = "carrying" /\ \A k \in Loop \ {l} : pc'[k] = pc[k]
    BY <1>0, <2>1 DEF InboxIInv, InboxTypeOK
  <2>3. handed[m] = 0 /\ m \notin lost /\ \A k \in Loop : ~Carries(k, m)
    BY <1>0, <1>3 DEF InboxIInv, OneEnd, OneCarrier
  <2>4. \A k \in Loop, n \in Message : Carries(k, n)' <=> Carries(k, n) \/ (k = l /\ n = m)
    BY <1>0, <2>1, <2>2 DEF Carries, Rename
  <2>5. PickedMessage' BY <1>0, <2>1, <2>2 DEF InboxIInv, PickedMessage
  <2>6. OneCarrier'
    <3> SUFFICES ASSUME NEW n \in Message, NEW k \in Loop, Carries(k, n)'
                 PROVE  /\ file'[n] = "moved" /\ handed'[n] = 0 /\ n \notin lost'
                        /\ \A j \in Loop : Carries(j, n)' => j = k
      BY DEF OneCarrier
    <3>1. CASE n = m BY <3>1, <2>1, <2>2, <2>3, <2>4
    <3>2. CASE n # m
      <4>1. Carries(k, n) BY <3>2, <2>4
      <4>2. /\ file[n] = "moved" /\ handed[n] = 0 /\ n \notin lost
            /\ \A j \in Loop : Carries(j, n) => j = k
        BY <4>1 DEF InboxIInv, OneCarrier
      <4> QED BY <3>2, <4>2, <2>1, <2>2, <2>4
    <3> QED BY <3>1, <3>2
  <2>7. OneEnd' BY <2>1, <2>2 DEF InboxIInv, OneEnd
  <2>8. MovedIsSomewhere' BY <1>0, <2>1, <2>2, <2>4 DEF InboxIInv, MovedIsSomewhere
  <2> QED BY <1>1, <2>5, <2>6, <2>7, <2>8 DEF InboxIInv
<1> QED BY <1>2, <1>3

LEMMA HandOverKeeps == ASSUME InboxIInv, NEW l \in Loop, HandOver(l) PROVE InboxIInv'
<1> DEFINE m == target[l]
<1>0. m \in Message /\ Carries(l, m)
  BY DEF HandOver, InboxIInv, PickedMessage, Carries
<1>1. ReplyTo[m] \in Request \cup {NoRequest} BY <1>0, InboxAssumption
<1>2. InboxTypeOK'
  <2>1. handed' \in [Message -> Nat] BY <1>0 DEF HandOver, InboxIInv, InboxTypeOK
  <2>2. wait' \in [Request -> Open \cup {"new", "failed", "answered", "timedout",
                                         "stopped", "lost"}]
    BY <1>1 DEF HandOver, InboxIInv, InboxTypeOK
  <2>3. pc' \in [Loop -> Active \cup {"idle"}]
    BY DEF HandOver, Goto, Active, InboxIInv, InboxTypeOK
  <2> QED BY <2>1, <2>2, <2>3 DEF HandOver, InboxIInv, InboxTypeOK
<1>3. /\ handed' = [handed EXCEPT ![m] = @ + 1]
      /\ UNCHANGED <<file, target, lost>>
  BY DEF HandOver
<1>4. pc'[l] \in {"listing", "handling"} /\ \A k \in Loop \ {l} : pc'[k] = pc[k]
  BY DEF HandOver, Goto, InboxIInv, InboxTypeOK
<1>5. file[m] = "moved" /\ handed[m] = 0 /\ m \notin lost
      /\ \A k \in Loop : Carries(k, m) => k = l
  BY <1>0 DEF InboxIInv, OneCarrier
<1>6. handed'[m] = 1 /\ \A n \in Message \ {m} : handed'[n] = handed[n]
  BY <1>0, <1>3, <1>5 DEF InboxIInv, InboxTypeOK
<1>7. \A k \in Loop, n \in Message : Carries(k, n)' <=> Carries(k, n) /\ n # m
  BY <1>0, <1>3, <1>4, <1>5 DEF Carries
<1>8. PickedMessage' BY <1>0, <1>3, <1>4 DEF InboxIInv, PickedMessage
<1>9. OneCarrier' BY <1>3, <1>6, <1>7 DEF InboxIInv, OneCarrier
<1>10. OneEnd' BY <1>3, <1>5, <1>6 DEF InboxIInv, OneEnd
<1>11. MovedIsSomewhere' BY <1>3, <1>6, <1>7 DEF InboxIInv, MovedIsSomewhere
<1> QED BY <1>2, <1>8, <1>9, <1>10, <1>11 DEF InboxIInv

LEMMA HandlerEndsKeeps == ASSUME InboxIInv, NEW l \in Loop, HandlerEnds(l) PROVE InboxIInv'
<1>1. InboxTypeOK' BY DEF InboxIInv, InboxTypeOK, HandlerEnds, Goto, Active, history
<1>2. pc'[l] = "listing" BY DEF HandlerEnds, Goto, InboxIInv, InboxTypeOK
<1> QED BY <1>1, <1>2, LoopMoves DEF HandlerEnds, Goto, history, InboxIInv

LEMMA LeaveKeeps == ASSUME InboxIInv, NEW l \in Loop, Leave(l) PROVE InboxIInv'
<1>1. InboxTypeOK' BY DEF InboxIInv, InboxTypeOK, Leave, Goto, Active, history
<1>2. pc'[l] = "idle" /\ \A k \in Loop \ {l} : target'[k] = target[k]
  BY DEF Leave, Goto, InboxIInv, InboxTypeOK
<1> QED BY <1>1, <1>2, LoopMoves DEF Leave, Goto, history, InboxIInv

\* What was carried is lost, and nothing is carried any more.
LEMMA CrashKeeps == ASSUME InboxIInv, Crash PROVE InboxIInv'
<1>1. \A m \in Message : m \in lost' <=> m \in lost \/ \E l \in Loop : Carries(l, m)
  BY DEF Crash, Carries
<1>2. lost' \subseteq Message BY DEF Crash, InboxIInv, InboxTypeOK, PickedMessage
<1>3. InboxTypeOK'
  BY <1>2, InboxAssumption DEF InboxIInv, InboxTypeOK, Crash, Open
<1>4. \A l \in Loop : pc'[l] = "idle" BY DEF Crash
<1>5. UNCHANGED <<file, handed>> BY DEF Crash
<1>6. PickedMessage' BY <1>4 DEF PickedMessage
<1>7. OneCarrier' BY <1>4 DEF OneCarrier, Carries
<1>8. OneEnd' BY <1>1, <1>5 DEF InboxIInv, OneEnd, OneCarrier
<1>9. MovedIsSomewhere' BY <1>1, <1>5 DEF InboxIInv, MovedIsSomewhere
<1> QED BY <1>3, <1>6, <1>7, <1>8, <1>9 DEF InboxIInv

-----------------------------------------------------------------------------
THEOREM InboxInductive == InboxSpec => []InboxIInv
<1>1. InboxIInv /\ [InboxNext]_inboxVars => InboxIInv'
  <2> SUFFICES ASSUME InboxIInv, [InboxNext]_inboxVars PROVE InboxIInv' OBVIOUS
  <2>1. CASE UNCHANGED inboxVars
    <3>1. InboxTypeOK' BY <2>1 DEF inboxVars, loops, history, InboxIInv, InboxTypeOK
    <3>2. UNCHANGED <<file, loops, handed, lost>> BY <2>1 DEF inboxVars, history
    <3> QED BY <3>1, <3>2, SameFilesSameLoops DEF InboxIInv
  <2>2. ASSUME NEW m \in Message, Create(m) \/ Fill(m) PROVE InboxIInv'
    BY <2>2, CreateKeeps, FillKeeps
  <2>3. ASSUME NEW r \in Request, Send(r) \/ SendEnds(r) \/ Timeout(r) PROVE InboxIInv'
    BY <2>3, RequestKeeps
  <2>4. ASSUME NEW l \in Loop, Start(l) \/ Notice(l) PROVE InboxIInv'
    BY <2>4, StartKeeps, NoticeKeeps
  <2>5. ASSUME NEW l \in Loop, Proceed(l) PROVE InboxIInv'
    BY <2>5, ListKeeps, ReadKeeps, RenameKeeps, HandOverKeeps, HandlerEndsKeeps,
       LeaveKeeps DEF Proceed
  <2>6. CASE Stop BY <2>6, StopKeeps
  <2>7. CASE Crash BY <2>7, CrashKeeps
  <2> QED BY <2>1, <2>2, <2>3, <2>4, <2>5, <2>6, <2>7 DEF InboxNext
<1> QED BY <1>1, InboxInitIInv, PTL DEF InboxSpec

\* The types, for any number of messages, requests, loops and crashes.
THEOREM InboxTypeCorrect == InboxSpec => []InboxTypeOK
<1>1. InboxIInv => InboxTypeOK BY DEF InboxIInv
<1> QED BY <1>1, InboxInductive, PTL

\* Loops that overlap, the order in which files are read and renamed, and a
\* process that dies in between never hand a message over twice or drop it
\* unaccounted for.
THEOREM AllAccounted == InboxSpec => []Accounted
<1> QED BY InboxInductive, IInvImpliesAccounted, PTL
=============================================================================
