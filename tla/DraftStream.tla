----------------------------- MODULE DraftStream -----------------------------
(***************************************************************************)
(* One streamed reply on Telegram (extensions/telegram/src/draft-stream*,  *)
(* adapters/streaming-adapter, agent/messaging/stream-manager,             *)
(* AgentService.sendFinalResponse).                                        *)
(*                                                                         *)
(* While the agent produces its reply, every new version of the text is    *)
(* handed to the draft stream, which shows it in one chat message: the     *)
(* first version is sent, the later ones edit that message, at most one    *)
(* API call at a time and no more often than a throttle allows.  When the  *)
(* turn is over the stream is ended; if it has a message the final         *)
(* outbound reply is skipped, because the message is taken to show it.     *)
(*                                                                         *)
(* A version of the text is the number of its order; NoText is the empty   *)
(* one.  A step is one macrotask with the promise jobs it queues: flush    *)
(* runs to its next API call, or to its end, in the step that starts it.   *)
(* The adapter asks for the message transport in every chat it serves      *)
(* (streaming-adapter.ts:65-68), so the draft transport is not modelled.   *)
(***************************************************************************)
EXTENDS Integers, FiniteSets

CONSTANTS Texts,   \* how many versions the agent produces
          Short,   \* versions shorter than minInitialChars
          Long     \* versions longer than maxChars

ASSUME DraftAssumption ==
    /\ Texts \in Nat
    /\ Short \subseteq 1..Texts
    /\ Long \subseteq 1..Texts

VARIABLES
    draft,      \* the variables of the stream's closures (see Draft)
    calls,      \* texts of the sendMessage / editMessageText calls under way
    shown,      \* what the chat's preview message shows
    unseen,     \* a message was posted but its id never came back
    said,       \* the last version the agent produced
    asked,      \* the text update was last called with while it listened
    wiped,      \* history: a progress message has wiped that text out
    ending,     \* how far end() has come
    clearing,   \* how far abort() has come
    reply       \* what became of the final outbound reply

vars == <<draft, calls, shown, unseen, said, asked, wiped, ending, clearing, reply>>

NoText == 0
Version == 1..Texts

Draft == [stopped   : BOOLEAN,                \* streamState.stopped
          final     : BOOLEAN,                \* streamState.final
          pending   : Version \cup {NoText},  \* pendingText
          timer     : BOOLEAN,                \* timer is set
          inFlight  : Version \cup {NoText},  \* inFlightPromise, by its text
          messageId : BOOLEAN,                \* streamMessageId is known
          lastSent  : Version \cup {NoText}]  \* lastSentText

TypeOK ==
    /\ draft \in Draft
    /\ calls \subseteq Version
    /\ shown \in Version \cup {NoText}
    /\ unseen \in BOOLEAN
    /\ said \in Version \cup {NoText}
    /\ asked \in Version \cup {NoText}
    /\ wiped \in BOOLEAN
    /\ ending \in {"no", "flush", "stop", "done"}
    /\ clearing \in {"no", "wait", "delete", "deleted", "nothing", "kept"}
    /\ reply \in {"no", "skipped", "sent", "empty"}

Init ==
    /\ draft = [stopped |-> FALSE, final |-> FALSE, pending |-> NoText, timer |-> FALSE,
                inFlight |-> NoText, messageId |-> FALSE, lastSent |-> NoText]
    /\ calls = {}
    /\ shown = NoText
    /\ unseen = FALSE
    /\ said = NoText
    /\ asked = NoText
    /\ wiped = FALSE
    /\ ending = "no"
    /\ clearing = "no"
    /\ reply = "no"

-----------------------------------------------------------------------------
(* The loop that sends the pending text.                                   *)

TooShort(d) == d.pending \in Short /\ ~d.messageId /\ ~d.final

\* The loop with no call in flight: it ends, gives up, drops a repetition,
\* keeps a text that is too short to open with, or makes the next call.
SendPending(d) ==
    IF d.stopped \/ d.pending = NoText THEN d
    ELSE IF d.pending \in Long THEN [d EXCEPT !.stopped = TRUE]
    ELSE IF d.pending = d.lastSent THEN [d EXCEPT !.pending = NoText]
    ELSE IF TooShort(d) THEN d
    ELSE [d EXCEPT !.pending = NoText, !.inFlight = d.pending, !.lastSent = d.pending]

\* Faulty variant: the loop does not wait for the call in flight.
FlushAtOnce(d) == SendPending([d EXCEPT !.timer = FALSE])

\* flush(): with a call in flight it waits; the call's own loop goes on.
Flush(d) ==
    LET cleared == [d EXCEPT !.timer = FALSE]
    IN  IF d.inFlight # NoText THEN cleared ELSE SendPending(cleared)

\* Faulty variant: a text that comes within the throttle sets no timer.
AcceptUnscheduled(d, text, elapsed) ==
    LET new == [d EXCEPT !.pending = text]
    IN  IF d.inFlight = NoText /\ ~d.timer /\ elapsed THEN Flush(new) ELSE new

\* loop.update(): `elapsed` says whether the throttle has run out.
Accept(d, text, elapsed) ==
    LET new == [d EXCEPT !.pending = text]
    IN  IF d.inFlight = NoText /\ ~d.timer /\ elapsed
        THEN Flush(new)
        ELSE [new EXCEPT !.timer = TRUE]

\* The stream goes on as d; a call that the loop has just made is under way.
Become(d) ==
    /\ draft' = d
    /\ calls' = IF d.inFlight # draft.inFlight /\ d.inFlight # NoText
                THEN calls \cup {d.inFlight}
                ELSE calls

\* StreamManager.currentHandle: end and abort drop it when they have finished.
HasHandle == ending # "done" /\ clearing \in {"no", "wait", "delete"}

Listens == ~draft.stopped /\ ~draft.final

-----------------------------------------------------------------------------
(* The producer: the agent's message_update events and progress messages.  *)

\* The stream takes a text, the empty one too.
Take(text) == \E elapsed \in BOOLEAN : Become(Accept(draft, text, elapsed))

\* An event repeats the last version or carries the next one; a stream that is
\* stopped or final lets it pass.
Update ==
    /\ HasHandle
    /\ \E text \in {said, said + 1} \cap Version :
        /\ said' = text
        /\ IF Listens
           THEN asked' = text /\ wiped' = FALSE /\ Take(text)
           ELSE UNCHANGED <<asked, wiped, draft, calls>>
    /\ UNCHANGED <<shown, unseen, ending, clearing, reply>>

\* A tool's progress is passed on as an empty text, in place of what waits.  It
\* may be the tool of another session, so it comes at any time: the progress
\* manager is one for all sessions, and the coordinator drops its handle only
\* after the final reply.
Progress ==
    /\ Listens
    /\ Take(NoText)
    /\ wiped' = (wiped \/ draft.pending # NoText)
    /\ UNCHANGED <<shown, unseen, said, asked, ending, clearing, reply>>

\* The throttle's timer runs out.
Fire ==
    /\ draft.timer
    /\ Become(Flush([draft EXCEPT !.timer = FALSE]))
    /\ UNCHANGED <<shown, unseen, said, asked, wiped, ending, clearing, reply>>

-----------------------------------------------------------------------------
(* The API answers.                                                        *)

\* Faulty variant: the promise of the call is never cleared.
SettledStillInFlight(d, text, sent) ==
    IF sent THEN SendPending(d) ELSE [d EXCEPT !.pending = text, !.stopped = TRUE]

\* The call for `text` is over: its promise is cleared, and its loop goes on
\* with what is pending; on a failure the stream stops for good.
Settled(d, text, sent) ==
    LET free == [d EXCEPT !.inFlight = NoText]
    IN  IF sent THEN SendPending(free) ELSE [free EXCEPT !.pending = text, !.stopped = TRUE]

\* The message was sent, or edited.
Succeeds(text) ==
    LET d == Settled([draft EXCEPT !.messageId = TRUE], text, TRUE)
    IN  /\ draft' = d
        /\ calls' = (calls \ {text}) \cup ({d.inFlight} \ {NoText})
        /\ shown' = text
        /\ UNCHANGED unseen

\* The call threw, or the answer to a send had no id.  The text may be in the
\* chat all the same.
Fails(text) ==
    /\ draft' = Settled(draft, text, FALSE)
    /\ calls' = calls \ {text}
    /\ \/ UNCHANGED <<shown, unseen>>
       \/ /\ shown' = text
          /\ unseen' = (unseen \/ ~draft.messageId)

Answer ==
    /\ \E text \in calls : Succeeds(text) \/ Fails(text)
    /\ UNCHANGED <<said, asked, wiped, ending, clearing, reply>>

-----------------------------------------------------------------------------
(* The end of the turn.  AgentService handles one inbound message at a     *)
(* time, so end() and abort() do not overlap.                              *)

\* end() flushes; without a handle there is nothing to end.
End ==
    /\ ending = "no"
    /\ clearing \notin {"wait", "delete"}
    /\ IF HasHandle
       THEN /\ ending' = "flush"
            /\ Become(Flush(draft))
       ELSE /\ ending' = "done"
            /\ UNCHANGED <<draft, calls>>
    /\ UNCHANGED <<shown, unseen, said, asked, wiped, clearing, reply>>

\* The flush is over: stop() makes the stream final and flushes again.
EndStop ==
    /\ ending = "flush"
    /\ draft.inFlight = NoText
    /\ ending' = "stop"
    /\ Become(Flush([draft EXCEPT !.final = TRUE]))
    /\ UNCHANGED <<shown, unseen, said, asked, wiped, clearing, reply>>

\* Faulty variant: the manager does not wait for stop().
EndDoneAtOnce ==
    /\ ending = "stop"
    /\ ending' = "done"
    /\ UNCHANGED <<draft, calls, shown, unseen, said, asked, wiped, clearing, reply>>

\* stop() is over too, and the manager drops its handle.
EndDone ==
    /\ ending = "stop"
    /\ draft.inFlight = NoText
    /\ ending' = "done"
    /\ UNCHANGED <<draft, calls, shown, unseen, said, asked, wiped, clearing, reply>>

\* skipFinalOutbound: after end() only, when the stream has a message.
SkipFinal == clearing = "no" /\ draft.messageId

\* sendFinalResponse: the last text goes out unless the stream showed it.
SendFinal ==
    /\ ending = "done"
    /\ reply = "no"
    /\ reply' = IF SkipFinal THEN "skipped" ELSE IF said = NoText THEN "empty" ELSE "sent"
    /\ UNCHANGED <<draft, calls, shown, unseen, said, asked, wiped, ending, clearing>>

\* abort(): the stream stops, forgets what is pending and waits for the call
\* in flight.
Abort ==
    /\ ending = "no"
    /\ clearing = "no"
    /\ clearing' = "wait"
    /\ draft' = [draft EXCEPT !.stopped = TRUE, !.pending = NoText, !.timer = FALSE]
    /\ UNCHANGED <<calls, shown, unseen, said, asked, wiped, ending, reply>>

\* Then it takes the message's id and deletes the message, if there is one.
Delete ==
    /\ clearing = "wait"
    /\ draft.inFlight = NoText
    /\ draft' = [draft EXCEPT !.messageId = FALSE]
    /\ clearing' = IF draft.messageId THEN "delete" ELSE "nothing"
    /\ UNCHANGED <<calls, shown, unseen, said, asked, wiped, ending, reply>>

\* A deletion that fails is only logged.
DeleteAnswered ==
    /\ clearing = "delete"
    /\ \/ clearing' = "deleted" /\ shown' = NoText
       \/ clearing' = "kept" /\ UNCHANGED shown
    /\ UNCHANGED <<draft, calls, unseen, said, asked, wiped, ending, reply>>

Next ==
    \/ Update \/ Progress \/ Fire
    \/ Answer
    \/ End \/ EndStop \/ EndDone \/ SendFinal
    \/ Abort \/ Delete \/ DeleteAnswered

\* Every API call is answered or times out, and what awaits it then goes on.
Fairness == WF_vars(Answer) /\ WF_vars(EndStop) /\ WF_vars(EndDone) /\ WF_vars(SendFinal)

Spec == Init /\ [][Next]_vars /\ Fairness

-----------------------------------------------------------------------------
(* Properties.                                                             *)

\* A text that waits is not forgotten: a timer or a call in flight will take
\* it up, or it is too short to open the message with and the end will.
NothingForgotten ==
    draft.pending # NoText /\ ~draft.stopped =>
        draft.timer \/ draft.inFlight # NoText \/ TooShort(draft)

\* At the end the user has the reply once.  A skipped reply has a message in
\* the chat; unless the stream gave up, a reply is sent only if there is no
\* message, and the message shows the last text asked for, be it the last
\* version or not, unless progress wiped that text out before it was sent; and
\* after an abort no message is left behind, unless its id is not known.
ReplyOnce ==
    /\ reply = "skipped" => shown # NoText
    /\ reply # "no" /\ ~draft.stopped =>
        /\ reply = "skipped" <=> shown # NoText
        /\ asked # NoText /\ ~wiped => shown = asked
    /\ clearing \in {"deleted", "nothing"} => shown = NoText \/ unseen

\* The message never goes back to an older version, whatever order the calls
\* are made and answered in.
ShownInOrder == [][shown' # NoText => shown' >= shown]_vars

\* An end() once called lets the turn finish.
TurnEnds == ending # "no" ~> reply # "no"

\* What plugin-types.ts:376 says of skipFinalOutbound: the final text "was
\* already shown", here the last one the stream was given.  Stated without the
\* case that progress wiped it out, it fails once the stream has given up.
SkippedWasShown == reply = "skipped" /\ asked # NoText /\ ~wiped => shown = asked

\* The same of a stream that has not given up; it fails by the progress.
RunningSkippedWasShown ==
    reply = "skipped" /\ asked # NoText /\ ~draft.stopped => shown = asked
=============================================================================
