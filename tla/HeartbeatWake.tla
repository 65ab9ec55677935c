--------------------------- MODULE HeartbeatWake ---------------------------
(***************************************************************************)
(* The heartbeat: coalesced wake requests (src/heartbeat/wake.ts) and the  *)
(* run they lead to (src/gateway/heartbeat/service.ts).                    *)
(*                                                                         *)
(* A request makes its reason pending and sets the one timer.  When the    *)
(* timer fires the pending reasons go to one call of the handler, which    *)
(* asks the agent and publishes what it says, unless it says what the last *)
(* heartbeat said.  Reloading the configuration stops and starts the       *)
(* service at any time; a handler that is under way goes on with the       *)
(* configuration it began with.  The interval's ticks are requests like    *)
(* those of cron jobs and of the API, which come whether it ticks or not.  *)
(***************************************************************************)
EXTENDS Naturals

CONSTANTS Request,    \* wake requests; a name is used again once it is not pending
          Handler,    \* calls of the handler
          Config,     \* enabled configurations
          Targeted,   \* those with a delivery target
          Off,        \* runnerConfig is null: the heartbeat is disabled
          Text,       \* what the agent may say, its acknowledgements left out
          NoText      \* the initial lastHeartbeatText

ASSUME TargetedAssumption == Targeted \subseteq Config
ASSUME OffAssumption == Off \notin Config
ASSUME NoTextAssumption == NoText \notin Text

VARIABLES started,    \* start() was called
          config,     \* runnerConfig
          timer,      \* a timer is set
          pending,    \* pendingReasons
          running,    \* the flag of createHeartbeatWake
          at,         \* the await where each call of the handler stands
          cfg,        \* the configuration each began with
          text,       \* what each has published and not yet recorded
          last,       \* lastHeartbeatText
          recent,     \* lastHeartbeatAt is less than 24 hours ago
          saidText,   \* the text of the latest heartbeat that was let through
          saidTimes   \* how often in a row, within 24 hours (history)

wake  == <<timer, pending, running>>
calls == <<at, cfg, text>>
memo  == <<last, recent, saidText, saidTimes>>
vars  == <<started, config, wake, calls, memo>>

TypeOK == /\ started \in BOOLEAN
          /\ config \in Config \cup {Off}
          /\ timer \in BOOLEAN /\ pending \subseteq Request /\ running \in BOOLEAN
          /\ at \in [Handler -> {"none", "check", "agent", "publish", "end"}]
          /\ cfg \in [Handler -> Config \cup {Off}]
          /\ \A h \in Handler : at[h] \in {"check", "agent", "publish"} => cfg[h] # Off
          /\ text \in [Handler -> Text \cup {NoText}]
          /\ last \in Text \cup {NoText} /\ recent \in BOOLEAN
          /\ saidText \in Text \cup {NoText} /\ saidTimes \in Nat

-----------------------------------------------------------------------------
Init == /\ started = FALSE /\ config = Off
        /\ timer = FALSE /\ pending = {} /\ running = FALSE
        /\ at = [h \in Handler |-> "none"]
        /\ cfg = [h \in Handler |-> Off]
        /\ text = [h \in Handler |-> NoText]
        /\ last = NoText /\ recent = FALSE
        /\ saidText = NoText /\ saidTimes = 0

\* start(), once, by the gateway; c is Off when the heartbeat is disabled.
Start(c) == /\ ~started
            /\ started' = TRUE
            /\ config' = c
            /\ UNCHANGED <<wake, calls, memo>>

\* updateConfig(), or the gateway's stop(): stop() forgets what is pending.
UpdateConfig(c) == /\ started
                   /\ config' = c
                   /\ timer' = FALSE
                   /\ pending' = {}
                   /\ UNCHANGED <<started, running, calls, memo>>

\* request(): the timer starts anew.
MakeRequest(q) == /\ q \notin pending
                  /\ pending' = pending \cup {q}
                  /\ timer' = TRUE
                  /\ UNCHANGED <<started, config, running, calls, memo>>

\* Faulty variant: the timer that fires during a run is not set again.
RetryNot == /\ timer /\ running
            /\ timer' = FALSE
            /\ UNCHANGED <<started, config, pending, running, calls, memo>>

\* The timer fires while a handler runs: it is set again.
Retry == /\ timer /\ running
         /\ timer' = TRUE
         /\ UNCHANGED <<started, config, pending, running, calls, memo>>

\* The handler is called with the configuration that holds now.
Call(h) == /\ running' = TRUE
           /\ cfg' = [cfg EXCEPT ![h] = config]
           /\ at' = [at EXCEPT ![h] = IF config = Off THEN "end" ELSE "check"]
           /\ UNCHANGED <<started, config, text, memo>>

\* Faulty variant: the flag is not looked at.
WakeAlways(h) == /\ timer /\ at[h] = "none"
                 /\ timer' = FALSE /\ pending' = {}
                 /\ Call(h)

\* Faulty variant: the reasons are copied and stay pending.
WakeKeeping(h) == /\ timer /\ ~running /\ at[h] = "none"
                  /\ timer' = FALSE
                  /\ Call(h)
                  /\ UNCHANGED pending

\* The timer fires: the handler is called with all that is pending.
Wake(h) == /\ timer /\ ~running
           /\ at[h] = "none"
           /\ timer' = FALSE
           /\ pending' = {}
           /\ Call(h)

\* Cron's metrics and HEARTBEAT.md were read: go on, or skip the heartbeat
\* outside the active hours or with nothing in the file.
Check(h, goOn) == /\ at[h] = "check"
                  /\ at' = [at EXCEPT ![h] = IF goOn THEN "agent" ELSE "end"]
                  /\ UNCHANGED <<started, config, wake, cfg, text, memo>>

\* The agent fails, says nothing, or only acknowledges.
Silence(h) == /\ at[h] = "agent"
              /\ at' = [at EXCEPT ![h] = "end"]
              /\ UNCHANGED <<started, config, wake, cfg, text, memo>>

IsDuplicate(t) == t = last /\ recent

Said(t) == /\ saidText' = t
           /\ saidTimes' = IF t = saidText THEN saidTimes + 1 ELSE 1

\* The agent says t: a duplicate is not sent; otherwise t is published if there
\* is a target, and becomes the last text after publishing.
Speak(h, t) ==
  /\ at[h] = "agent"
  /\ \/ /\ IsDuplicate(t)
        /\ at' = [at EXCEPT ![h] = "end"]
        /\ UNCHANGED <<text, memo>>
     \/ /\ ~IsDuplicate(t) /\ cfg[h] \in Targeted
        /\ at' = [at EXCEPT ![h] = "publish"]
        /\ text' = [text EXCEPT ![h] = t]
        /\ Said(t)
        /\ UNCHANGED <<last, recent>>
     \/ /\ ~IsDuplicate(t) /\ cfg[h] \notin Targeted
        /\ at' = [at EXCEPT ![h] = "end"]
        /\ last' = t /\ recent' = TRUE
        /\ Said(t)
        /\ UNCHANGED text
  /\ UNCHANGED <<started, config, wake, cfg>>

\* Faulty variant: the text is recorded without its time.
RecordText(h) == /\ at[h] = "publish"
                 /\ at' = [at EXCEPT ![h] = "end"]
                 /\ last' = text[h]
                 /\ text' = [text EXCEPT ![h] = NoText]
                 /\ UNCHANGED <<started, config, wake, cfg, recent, saidText, saidTimes>>

\* publishOutbound has returned: the text is recorded.
Record(h) == /\ at[h] = "publish"
             /\ at' = [at EXCEPT ![h] = "end"]
             /\ last' = text[h] /\ recent' = TRUE
             /\ text' = [text EXCEPT ![h] = NoText]
             /\ UNCHANGED <<started, config, wake, cfg, saidText, saidTimes>>

\* The handler has returned: the finally block sets the timer for what came
\* meanwhile.
End(h) == /\ at[h] = "end"
          /\ running' = FALSE
          /\ timer' = (timer \/ pending # {})
          /\ at' = [at EXCEPT ![h] = "none"]
          /\ cfg' = [cfg EXCEPT ![h] = Off]
          /\ UNCHANGED <<started, config, pending, text, memo>>

\* The last text has grown 24 hours old.
Expire == /\ recent
          /\ recent' = FALSE
          /\ saidTimes' = IF saidText = last THEN 0 ELSE saidTimes
          /\ UNCHANGED <<started, config, wake, calls, last, saidText>>

Work(h) == \/ \E goOn \in BOOLEAN : Check(h, goOn)
           \/ Silence(h)
           \/ \E t \in Text : Speak(h, t)
           \/ Record(h)
           \/ End(h)

Next == \/ \E c \in Config \cup {Off} : Start(c) \/ UpdateConfig(c)
        \/ \E q \in Request : MakeRequest(q)
        \/ Retry
        \/ \E h \in Handler : Wake(h) \/ Work(h)
        \/ Expire

\* A handler's awaits return: reading, the agent, the bus.  The timer fires
\* again and again: requests do not for ever follow each other more closely
\* than the quarter of a second by which each puts the timer off.
Fairness == /\ \A h \in Handler : WF_vars(Work(h))
            /\ WF_vars(\E h \in Handler : Wake(h))

Safe == Init /\ [][Next]_vars
Spec == Safe /\ Fairness

-----------------------------------------------------------------------------
Active(h) == at[h] # "none"

\* Heartbeats do not overlap, through any reloading of the configuration and
\* any timing of requests, and the flag says whether one runs.
OneAtATime == /\ \A h, i \in Handler : Active(h) /\ Active(i) => h = i
              /\ running <=> (\E h \in Handler : Active(h))

\* No request is forgotten: while reasons are pending a timer is set, also when
\* it has just fired in the middle of a heartbeat.
PendingHasTimer == timer <=> pending # {}

\* No heartbeat repeats the one before it within 24 hours, although a text is
\* recorded only after it was published.
NoRepeat == saidTimes <= 1

\* Every request reaches a heartbeat, unless a reload forgets it.
RequestsAreTaken == \A q \in Request : q \in pending ~> q \notin pending
=============================================================================
