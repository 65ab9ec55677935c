----------------------------- MODULE AgentTurn -----------------------------
(***************************************************************************)
(* The web chat's runs on one session: src/gateway/service.ts (runAgent,   *)
(* _saveUserMessage, abortAgentRun), src/agent/service.ts                  *)
(* (processDirectStreaming) and the turn they drive, in                    *)
(* src/agent/orchestration: the fallback models, the time limit and the    *)
(* retry after a transient error.                                          *)
(*                                                                         *)
(* A run saves its user message, loads the transcript into the session's   *)
(* Agent and starts a turn.  The turn tries one model after the other; for *)
(* each it starts an attempt (runTurn) and races it against a timer.  The  *)
(* attempt that loses the race is not stopped: it waits for the Agent to   *)
(* be idle, as the driver does, and goes on from there.  When the turn is  *)
(* over, or as soon as the client aborts it, the run writes the Agent's    *)
(* messages back.  Both saves write the session file in place: it is cut   *)
(* to nothing first, and a file cut short loads as an empty session.  The  *)
(* Agent is shared by the runs of the session and does one stream at a     *)
(* time; it is external and modelled as it is used.                        *)
(*                                                                         *)
(* Continuations of promises run before any timer, file or network event:  *)
(* an event needs Quiet.  Between themselves their order is left open.     *)
(***************************************************************************)
EXTENDS Naturals, FiniteSets, SequencesExt

CONSTANTS Runs,         \* number of calls of runAgent, numbered as they come
          Models,       \* number of candidates of getFallbackCandidatesForSession
          MaxContinues, \* maxContinues
          Histories,    \* what the session file may hold at first
          MaxActive,    \* bound: how many runs have not ended at a time
          MaxFaults     \* bound: how often the process dies or a save fails

ASSUME RunsAssumption == Runs \in Nat
ASSUME ModelsAssumption == Models \in Nat \ {0} /\ MaxContinues \in Nat
ASSUME BoundsAssumption == MaxActive \in Nat \ {0} /\ MaxFaults \in Nat

Run    == 1 .. Runs
Nobody == 0    \* the writer of the history, the owner of no stream

\* "early" is the user message with the webchatEarlySave mark, "transient" an error
\* that isTransientLlmErrorMessage knows, "partial" and "empty" an aborted answer.
UserKind      == {"user", "early"}
AssistantKind == {"answer", "partial", "empty", "error", "transient"}
Message       == [by : Run \cup {Nobody}, kind : UserKind \cup AssistantKind]
Msg(r, k)     == [by |-> r, kind |-> k]

\* What sanitizeMessages lets through, and all a session file ever holds.
SavedKind == UserKind \cup {"answer", "partial"}
Saveable  == [by : Run \cup {Nobody}, kind : SavedKind]
ASSUME HistoriesAssumption == Histories \subseteq Seq(Saveable)

Attempt == Run \X (1 .. Models)

VARIABLES file,     \* the session file, as it loads: torn, it is empty
          agent,    \* the Agent's state.messages
          stream,   \* the attempt whose stream runs, and whether it was aborted
          gen,      \* where the generator of each run stands
          buf,      \* what it has read, or writes
          saves,    \* how the saves of the run accepted last went (history)
          faults,   \* how many saves have failed and how often the process died
          signal,   \* runs whose abort controller fired
          drv,      \* where the driver of each run's turn stands
          model,    \* its loop counter
          before,   \* beforeLen
          attempt,  \* where each attempt stands
          count,    \* continues, of each attempt
          latest,   \* the run accepted last (history)
          base,     \* the file when it was accepted (history)
          alone,    \* whether nothing of an earlier run was under way then (history)
          late      \* whether its timer ever fired (history)

disk    == <<file, buf, saves, faults>>
driver  == <<drv, model, before>>
tries   == <<attempt, count>>
history == <<latest, base, alone, late>>
turnVars == <<file, agent, stream, gen, buf, saves, faults, signal, drv, model, before,
              attempt, count, latest, base, alone, late>>

None == [run |-> Nobody, model |-> 1, aborted |-> FALSE]
Busy == stream # None

TurnTypeOK ==
  /\ file \in Seq(Saveable) /\ agent \in Seq(Message)
  /\ stream \in [run : Run \cup {Nobody}, model : 1 .. Models, aborted : BOOLEAN]
  /\ stream.run = Nobody => stream = None
  /\ gen \in [Run -> {"idle", "accepted", "append", "saving", "load", "replace", "ready",
                      "stream", "persist", "write", "writing", "ended", "dead"}]
  /\ buf \in [Run -> Seq(Saveable)] /\ saves \in {"whole", "skipped", "torn"}
  /\ signal \subseteq Run
  /\ drv \in [Run -> {"off", "next", "race", "idle", "idled", "over", "failed"}]
  /\ model \in [Run -> 1 .. Models + 1]
  /\ \A r \in Run : drv[r] \in {"race", "idle", "idled"} => model[r] <= Models
  /\ before \in [Run -> Nat]
  /\ attempt \in [Attempt -> {"off", "stream", "ended", "idle", "retry",
                              "finished", "threw"}]
  /\ count \in [Attempt -> 0 .. MaxContinues]
  /\ faults \in 0 .. MaxFaults
  /\ latest \in Run \cup {Nobody} /\ base \in Seq(Saveable) /\ alone \in BOOLEAN
  /\ late \in BOOLEAN

-----------------------------------------------------------------------------
\* What the code computes from messages.
LastKind(ms) == IF ms = <<>> THEN "none" ELSE Last(ms).kind

\* getLastAssistantMessage
LastAssistant(ms) ==
  LET Theirs == {i \in 1 .. Len(ms) : ms[i].kind \in AssistantKind}
  IN  IF Theirs = {} THEN "none" ELSE ms[Max(Theirs)].kind
TurnAborted(ms)   == LastAssistant(ms) \in {"partial", "empty"}
TurnFailed(ms)    == LastAssistant(ms) \in {"none", "error", "transient"}

\* The longest prefix that does not end in one of Bad.
Trim(ms, Bad) ==
  LET Good == {i \in 1 .. Len(ms) : ms[i].kind \notin Bad}
  IN  SubSeq(ms, 1, IF Good = {} THEN 0 ELSE Max(Good))

StripTrailingErrors(ms) == Trim(ms, {"error", "transient", "partial", "empty"})
CleanTrailingErrors(ms) == Trim(ms, {"error", "transient", "empty"})

\* The messages of a saved kind, in their order (SelectSeq, without its recursion).
Rank(S, i) == Cardinality({k \in S : k <= i})
Sanitize(ms) ==
  LET Kept   == {i \in 1 .. Len(ms) : ms[i].kind \in SavedKind}
      Nth(n) == CHOOSE i \in Kept : Rank(Kept, i) = n
  IN  [n \in 1 .. Cardinality(Kept) |-> ms[Nth(n)]]

WithoutEarly(ms) == IF LastKind(ms) = "early" THEN Front(ms) ELSE ms

-----------------------------------------------------------------------------
Settled(r) == /\ gen[r] \in {"idle", "ended", "dead"}
              /\ drv[r] \in {"off", "over", "failed"}
              /\ \A i \in 1 .. Models : attempt[<<r, i>>] = "off"

\* A driver in the middle of its loop runs before anything else does.
Looping == \E r \in Run : drv[r] = "next"

\* A continuation of a promise that is settled waits for its turn.
Due(t) == attempt[t] \in {"ended", "retry"}
Current(r) == <<r, model[r]>>
Decided(r) == drv[r] = "race" /\ attempt[Current(r)] \in {"finished", "threw"}
Quiet == /\ ~Looping
         /\ \A t \in Attempt : ~Due(t)
         /\ \A r \in Run : ~Decided(r) /\ drv[r] # "idled"

TurnInit ==
  /\ file \in Histories
  /\ agent = <<>> /\ stream = None
  /\ gen = [r \in Run |-> "idle"]
  /\ buf = [r \in Run |-> <<>>] /\ saves = "whole" /\ faults = 0
  /\ signal = {}
  /\ drv = [r \in Run |-> "off"]
  /\ model = [r \in Run |-> 1]
  /\ before = [r \in Run |-> 0]
  /\ attempt = [t \in Attempt |-> "off"]
  /\ count = [t \in Attempt |-> 0]
  /\ latest = Nobody /\ base = <<>> /\ alone = FALSE /\ late = FALSE

-----------------------------------------------------------------------------
\* The generator: what runAgent and processDirectStreaming do around the turn.
AbortStream == [stream EXCEPT !.aborted = Busy]

Over(r)   == gen[r] \in {"ended", "dead"}
Saving(r) == gen[r] \in {"saving", "writing"}

Accept(r) ==
  /\ Quiet /\ r = latest + 1
  /\ Cardinality({x \in Run : gen[x] # "idle" /\ ~Over(x)}) < MaxActive
  /\ gen' = [gen EXCEPT ![r] = "accepted"]
  /\ latest' = r /\ base' = file
  /\ alone' = \A x \in Run : Settled(x)
  /\ late' = FALSE /\ saves' = "whole"
  /\ UNCHANGED <<file, agent, stream, buf, faults, signal, driver, tries>>

\* _saveUserMessage: loadMessages, then saveMessages.
ReadForSave(r) ==
  /\ Quiet /\ gen[r] = "accepted"
  /\ gen' = [gen EXCEPT ![r] = "append"]
  /\ buf' = [buf EXCEPT ![r] = file]
  /\ UNCHANGED <<file, saves, faults, agent, stream, signal, driver, tries, history>>

Fault == faults < MaxFaults /\ faults' = faults + 1

\* writeFile() cuts the file to nothing as it opens it.
Truncate(r, to) == /\ gen' = [gen EXCEPT ![r] = to]
                   /\ file' = <<>>
                   /\ UNCHANGED <<saves, faults>>

\* It fails before that, and the run goes on.
SaveUserMessage(r) ==
  /\ Quiet /\ gen[r] = "append"
  /\ \/ /\ Truncate(r, "saving")
        /\ buf' = [buf EXCEPT ![r] = Append(@, Msg(r, "early"))]
     \/ /\ Fault
        /\ gen' = [gen EXCEPT ![r] = "load"]
        /\ buf' = [buf EXCEPT ![r] = <<>>]
        /\ UNCHANGED <<file, saves>>
  /\ UNCHANGED <<agent, stream, signal, driver, tries, history>>

\* Either save ends: all is written, or it fails, or leaves the tail of what
\* another run has written since.  A run whose save fails goes on too.
EndSave(r) ==
  /\ Quiet /\ gen[r] \in {"saving", "writing"}
  /\ gen' = [gen EXCEPT ![r] = IF @ = "saving" THEN "load" ELSE "ended"]
  /\ \/ file' = buf[r] /\ UNCHANGED <<saves, faults>>
     \/ Fault /\ file' \in {file, <<>>} /\ saves' = "torn"
  /\ buf' = [buf EXCEPT ![r] = <<>>]
  /\ UNCHANGED <<agent, stream, signal, driver, tries, history>>

ReadSession(r) ==
  /\ Quiet /\ gen[r] = "load"
  /\ gen' = [gen EXCEPT ![r] = "replace"]
  /\ buf' = [buf EXCEPT ![r] = file]
  /\ UNCHANGED <<file, saves, faults, agent, stream, signal, driver, tries, history>>

\* Faulty variant: the early save is loaded like any other message.
ReplaceMessagesWithEarly(r) ==
  /\ Quiet /\ gen[r] = "replace"
  /\ gen' = [gen EXCEPT ![r] = "ready"]
  /\ agent' = CleanTrailingErrors(buf[r])
  /\ buf' = [buf EXCEPT ![r] = <<>>]
  /\ UNCHANGED <<file, saves, faults, stream, signal, driver, tries, history>>

ReplaceMessages(r) ==
  /\ Quiet /\ gen[r] = "replace"
  /\ gen' = [gen EXCEPT ![r] = "ready"]
  /\ agent' = CleanTrailingErrors(WithoutEarly(buf[r]))
  /\ buf' = [buf EXCEPT ![r] = <<>>]
  /\ UNCHANGED <<file, saves, faults, stream, signal, driver, tries, history>>

\* Between the two the model, the thinking level and the voice are resolved.
StartTurn(r) ==
  /\ Quiet /\ gen[r] = "ready" /\ r \notin signal
  /\ gen' = [gen EXCEPT ![r] = "stream"]
  /\ drv' = [drv EXCEPT ![r] = "next"]
  /\ UNCHANGED <<disk, agent, stream, signal, model, before, tries, history>>

AbortedBeforeTurn(r) ==
  /\ Quiet /\ gen[r] = "ready" /\ r \in signal
  /\ gen' = [gen EXCEPT ![r] = "persist"]
  /\ stream' = AbortStream
  /\ UNCHANGED <<disk, agent, signal, driver, tries, history>>

\* abortAgentRun, and armAbort once it listens.
Abort(r) ==
  /\ Quiet /\ r \notin signal
  /\ gen[r] \in {"accepted", "append", "saving", "load", "replace", "ready", "stream"}
  /\ signal' = signal \cup {r}
  /\ IF gen[r] = "stream"
     THEN gen' = [gen EXCEPT ![r] = "persist"] /\ stream' = AbortStream
     ELSE UNCHANGED <<gen, stream>>
  /\ UNCHANGED <<disk, agent, driver, tries, history>>

\* persistAgentSessionMessages, once the consumer has taken the last event.
Persist(r) ==
  /\ ~Looping /\ gen[r] = "persist"
  /\ gen' = [gen EXCEPT ![r] = "write"]
  /\ buf' = [buf EXCEPT ![r] = Sanitize(agent)]
  /\ UNCHANGED <<file, saves, faults, agent, stream, signal, driver, tries, history>>

Write(r) ==
  /\ Quiet /\ gen[r] = "write"
  /\ \/ Truncate(r, "writing") /\ UNCHANGED buf
     \/ /\ Fault
        /\ gen' = [gen EXCEPT ![r] = "ended"]
        /\ buf' = [buf EXCEPT ![r] = <<>>]
        /\ saves' = IF saves = "torn" THEN "torn" ELSE "skipped"
        /\ UNCHANGED file
  /\ UNCHANGED <<agent, stream, signal, driver, tries, history>>

-----------------------------------------------------------------------------
\* The driver: runAgentTurnWithModelFallbacks and runAgentTurnWithTimeout.
TurnEnds(r, how) ==
  /\ drv' = [drv EXCEPT ![r] = how]
  /\ model' = [model EXCEPT ![r] = 1]
  /\ before' = [before EXCEPT ![r] = 0]
  /\ gen' = [gen EXCEPT ![r] = IF @ = "stream" THEN "persist" ELSE @]

OutOfCandidates(r) ==
  /\ drv[r] = "next" /\ model[r] > Models
  /\ TurnEnds(r, "failed")
  /\ UNCHANGED <<disk, agent, stream, signal, tries, history>>

SkipCandidate(r) ==
  /\ drv[r] = "next" /\ model[r] <= Models
  /\ model' = [model EXCEPT ![r] = @ + 1]
  /\ UNCHANGED <<disk, agent, stream, gen, signal, drv, before, tries, history>>

\* runTurn calls prompt, which throws when the Agent streams.
Prompt(r) ==
  /\ drv[r] = "next" /\ model[r] <= Models
  /\ drv' = [drv EXCEPT ![r] = "race"]
  /\ before' = [before EXCEPT ![r] = Len(agent)]
  /\ IF Busy
     THEN /\ attempt' = [attempt EXCEPT ![Current(r)] = "threw"]
          /\ UNCHANGED <<agent, stream>>
     ELSE /\ attempt' = [attempt EXCEPT ![Current(r)] = "stream"]
          /\ agent' = Append(agent, Msg(r, "user"))
          /\ stream' = [run |-> r, model |-> model[r], aborted |-> FALSE]
  /\ UNCHANGED <<disk, gen, signal, model, count, history>>

\* Faulty variant: the length is taken before the user message is known to be there.
RollbackTooFar(r) ==
  /\ agent' = SubSeq(agent, 1, IF before[r] = 0 THEN 0 ELSE before[r] - 1)
  /\ drv' = [drv EXCEPT ![r] = "next"]
  /\ model' = [model EXCEPT ![r] = @ + 1]
  /\ UNCHANGED <<disk, stream, gen, signal, before, history>>

\* replaceMessages(messages.slice(0, beforeLen)), on to the next candidate.
Rollback(r) ==
  /\ agent' = SubSeq(agent, 1, IF before[r] < Len(agent) THEN before[r] ELSE Len(agent))
  /\ drv' = [drv EXCEPT ![r] = "next"]
  /\ model' = [model EXCEPT ![r] = @ + 1]
  /\ UNCHANGED <<disk, stream, gen, signal, before, history>>

\* Nothing is left of an attempt that was won or lost before its time was up.
LeaveAttempt(r) == /\ attempt' = [attempt EXCEPT ![Current(r)] = "off"]
                   /\ count' = [count EXCEPT ![Current(r)] = 0]

AttemptWon(r) ==
  /\ ~Looping
  /\ drv[r] = "race" /\ attempt[Current(r)] = "finished"
  /\ TurnAborted(agent) \/ ~TurnFailed(agent)
  /\ TurnEnds(r, "over")
  /\ LeaveAttempt(r)
  /\ UNCHANGED <<disk, agent, stream, signal, history>>

AttemptLost(r) ==
  /\ ~Looping
  /\ drv[r] = "race"
  /\ \/ attempt[Current(r)] = "threw"
     \/ attempt[Current(r)] = "finished" /\ TurnFailed(agent) /\ ~TurnAborted(agent)
  /\ Rollback(r)
  /\ LeaveAttempt(r)

\* Faulty variant: the attempt that is too late is not aborted.
TimeoutNoAbort(r) ==
  /\ Quiet /\ drv[r] = "race"
  /\ drv' = [drv EXCEPT ![r] = IF Busy THEN "idle" ELSE "idled"]
  /\ late' = (late \/ r = latest)
  /\ UNCHANGED <<disk, agent, stream, gen, signal, model, before, tries,
                 latest, base, alone>>

Timeout(r) ==
  /\ Quiet /\ drv[r] = "race"
  /\ stream' = AbortStream
  /\ drv' = [drv EXCEPT ![r] = IF Busy THEN "idle" ELSE "idled"]
  /\ late' = (late \/ r = latest)
  /\ UNCHANGED <<disk, agent, gen, signal, model, before, tries,
                 latest, base, alone>>

TimedOut(r) ==
  /\ ~Looping /\ drv[r] = "idled"
  /\ Rollback(r)
  /\ UNCHANGED tries

-----------------------------------------------------------------------------
\* The Agent ends its stream, appends what came of it and wakes who waits.
StreamEnd(k) ==
  /\ Quiet /\ Busy
  /\ k \in IF stream.aborted THEN {"partial", "empty"} ELSE {"answer", "error", "transient"}
  /\ agent' = Append(agent, Msg(stream.run, k))
  /\ stream' = None
  /\ attempt' = [t \in Attempt |-> CASE attempt[t] = "stream" -> "ended"
                                    [] attempt[t] = "idle"   -> "retry"
                                    [] OTHER                 -> attempt[t]]
  /\ drv' = [r \in Run |-> IF drv[r] = "idle" THEN "idled" ELSE drv[r]]
  /\ UNCHANGED <<disk, gen, signal, model, before, count, history>>

-----------------------------------------------------------------------------
\* An attempt: runTurn after prompt, and maybeRetryTurnAfterTransientLlmFailure.
WaitForIdle(t) ==
  /\ ~Looping /\ attempt[t] = "ended"
  /\ attempt' = [attempt EXCEPT ![t] = IF Busy THEN "idle" ELSE "retry"]
  /\ UNCHANGED <<disk, agent, stream, gen, signal, driver, count, history>>

\* The timer won the race of the attempt: what becomes of it is nobody's concern.
Stale(t) == ~(drv[t[1]] = "race" /\ model[t[1]] = t[2])

EndAttempt(t, how) ==
  /\ attempt' = [attempt EXCEPT ![t] = IF Stale(t) THEN "off" ELSE how]
  /\ count' = [count EXCEPT ![t] = 0]

NothingToRetry(t) ==
  /\ ~Looping /\ attempt[t] = "retry"
  /\ LastAssistant(agent) # "transient" \/ count[t] = MaxContinues
  /\ EndAttempt(t, "finished")
  /\ UNCHANGED <<disk, agent, stream, gen, signal, driver, history>>

\* continue throws when the Agent streams or has nothing to answer.
Continue(t) ==
  /\ ~Looping /\ attempt[t] = "retry"
  /\ LastAssistant(agent) = "transient" /\ count[t] < MaxContinues
  /\ agent' = StripTrailingErrors(agent)
  /\ IF Busy \/ LastKind(agent') \notin UserKind
     THEN EndAttempt(t, "threw") /\ UNCHANGED stream
     ELSE /\ attempt' = [attempt EXCEPT ![t] = "stream"]
          /\ count' = [count EXCEPT ![t] = @ + 1]
          /\ stream' = [run |-> t[1], model |-> t[2], aborted |-> FALSE]
  /\ UNCHANGED <<disk, gen, signal, driver, history>>

-----------------------------------------------------------------------------
\* The process dies and starts again: only the file is left, torn in a save.
Crash ==
  /\ ~Looping /\ Fault
  /\ \E r \in Run : ~Settled(r)
  /\ agent' = <<>> /\ stream' = None
  /\ gen' = [r \in Run |-> IF gen[r] = "idle" THEN "idle" ELSE "dead"]
  /\ drv' = [r \in Run |-> "off"]
  /\ attempt' = [t \in Attempt |-> "off"]
  /\ buf' = [r \in Run |-> <<>>]
  /\ saves' = IF \E r \in Run : Saving(r) THEN "torn" ELSE saves
  /\ model' = [r \in Run |-> 1] /\ before' = [r \in Run |-> 0]
  /\ count' = [t \in Attempt |-> 0]
  /\ UNCHANGED <<file, signal, latest, base, alone, late>>

Generator(r) == \/ ReadForSave(r) \/ SaveUserMessage(r) \/ EndSave(r)
                \/ ReadSession(r) \/ ReplaceMessages(r)
                \/ StartTurn(r) \/ AbortedBeforeTurn(r)
                \/ Persist(r) \/ Write(r)

Drive(r) == \/ OutOfCandidates(r) \/ SkipCandidate(r) \/ Prompt(r)
            \/ AttemptWon(r) \/ AttemptLost(r) \/ TimedOut(r)

RunTurn(t) == WaitForIdle(t) \/ NothingToRetry(t) \/ Continue(t)

TurnNext ==
  \/ \E r \in Run : Accept(r) \/ Abort(r) \/ Timeout(r)
  \/ \E r \in Run : Generator(r) \/ Drive(r)
  \/ \E t \in Attempt : RunTurn(t)
  \/ \E k \in AssistantKind : StreamEnd(k)
  \/ Crash

\* Promises and files go on, timers fire and an aborted stream ends: as long as one
\* of them can, one of them does.  A model that never answers is allowed.
Progress == \/ \E r \in Run : Generator(r) \/ Drive(r) \/ Timeout(r)
            \/ \E t \in Attempt : RunTurn(t)
            \/ stream.aborted /\ \E k \in AssistantKind : StreamEnd(k)

TurnSpec == TurnInit /\ [][TurnNext]_turnVars /\ WF_turnVars(Progress)

-----------------------------------------------------------------------------
(***************************************************************************)
(* A run that is alone on its session never loses what the session held    *)
(* when it was accepted: not by the rollbacks of its models, not by a      *)
(* timeout, an abort or a crash between its saves.  What can lose it is a  *)
(* save that fails or dies half done, because it writes in place.  A       *)
(* trailing early save is not counted: when the save of this run's message *)
(* fails, it is an older one's.                                            *)
(***************************************************************************)
BaseKept == IsPrefix(WithoutEarly(base), file)
HistoryKept == alone /\ saves # "torn" /\ ~Saving(latest) => BaseKept

(***************************************************************************)
(* The session file keeps the history whatever fails.  Refuted in          *)
(* AgentTurnTorn.cfg: one save that fails or dies half done is enough.     *)
(***************************************************************************)
HistoryAlwaysKept == alone /\ ~Saving(latest) => BaseKept

(***************************************************************************)
(* What a run that was alone leaves behind is the history, at most one     *)
(* message of the user and at most one answer: no second copy of the early *)
(* save, nothing of the models that failed.  When its turn was won, no     *)
(* timer fired and nobody aborted it, that is the message and the answer.  *)
(* When its last save fails, and has not begun to write, the early save is *)
(* all there is; and what a torn save leaves is not said.                  *)
(***************************************************************************)
Saved(qs, as) == \E h \in {base, WithoutEarly(base)}, q \in qs, a \in as : file = h \o q \o a

One(ks) == {<<Msg(latest, k)>> : k \in ks}

OneTurnSaved ==
  alone /\ gen[latest] = "ended" =>
    CASE saves = "torn"    -> TRUE
      [] saves = "skipped" -> file = base \/ file = Append(base, Msg(latest, "early"))
      [] drv[latest] = "over" /\ ~late /\ latest \notin signal /\ saves = "whole" ->
           Saved(One({"user"}), One({"answer"}))
      [] OTHER -> Saved({<<>>} \cup One({"user"}), {<<>>} \cup One({"answer", "partial"}))

(***************************************************************************)
(* The message the user sent is in the file when its run has ended: "to    *)
(* ensure message survives page refresh" (src/gateway/service.ts:935).     *)
(* The code breaks this when every model fails and when the abort comes    *)
(* before the turn: the early save is stripped from what is loaded and the *)
(* message is not in the Agent when its messages are written back.         *)
(***************************************************************************)
MessageSurvives == alone /\ gen[latest] = "ended" => \E i \in 1 .. Len(file) : file[i].by = latest

\* Every accepted run ends, though a model may never answer.
RunsEnd == \A r \in Run : gen[r] = "accepted" ~> gen[r] \in {"ended", "dead"}

=============================================================================
