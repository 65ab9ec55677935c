-------------------------- MODULE ChannelLifecycle --------------------------
(***************************************************************************)
(* The channel manager's hold on its plugins, src/channels/manager.ts:     *)
(* initialize, start, stop, startChannel and stopChannel, the restarts of  *)
(* a plugin whose start failed, and the heartbeat that restarts one that   *)
(* is not well.                                                            *)
(*                                                                         *)
(* A plugin's own start and stop are awaited: between the call and its end *)
(* anything else may run, another start of the same plugin included.  A    *)
(* start that fails sets a timer; stop does not clear it and nothing       *)
(* bounds how many are set.  Delays are not modelled: a timer fires some   *)
(* time.  A channel has one account or none of it has a heartbeat.         *)
(***************************************************************************)
EXTENDS Naturals, FiniteSets

CONSTANTS Channel,      \* the plugins enabled in the configuration
          Monitored,    \* those with a heartbeat adapter
          MaxAttempts,  \* CHANNEL_RESTART_POLICY.maxAttempts
          MaxCalls      \* bound: calls of the manager's methods after initialize

ASSUME ChannelAssumption == /\ Monitored \subseteq Channel
                            /\ MaxAttempts \in Nat /\ MaxCalls \in Nat

VARIABLES
  manager,    \* initialized, running, and whether start or stop is under way
  inited,     \* initializedPluginIds
  stopped,    \* manuallyStopped
  attempts,   \* restartAttempts, 0 for none
  timers,     \* how many restarts of a channel are scheduled
  starts,     \* how many plugin.start are under way, by who called
  stops,      \* how many plugin.stop are under way, by who called
  beating,    \* the channels whose heartbeat timer is set
  checks,     \* the channels whose heartbeat check is under way
  recent,     \* _lastHeartbeatRestartAt is less than a minute ago
  up,         \* the plugins that do their work
  calls,      \* how many calls were made
  wanted,     \* those asked to run, with no stop under way, and not to stop since (history)
  held,       \* those whose stopChannel ended with no start under way (history)
  abandoned   \* those whose soft restart failed to stop them (history)

called == <<calls, wanted, held, abandoned>>
timing == <<timers, beating, checks, recent>>
vars   == <<manager, inited, stopped, attempts, timers, starts, stops, beating, checks,
            recent, up, calls, wanted, held, abandoned>>

StartCaller == {"start", "startChannel", "softRestart", "timer"}
StopCaller  == {"stop", "stopChannel", "softRestart"}

TypeOK ==
  /\ manager \in {"new", "initialized", "starting", "running", "stopping"}
  /\ inited \subseteq Channel /\ stopped \subseteq Channel
  /\ attempts \in [Channel -> Nat]
  /\ timers \in [Channel -> Nat]
  /\ starts \in [Channel -> [StartCaller -> Nat]]
  /\ stops \in [Channel -> [StopCaller -> Nat]]
  /\ beating \subseteq Monitored /\ checks \subseteq Monitored /\ recent \subseteq Monitored
  /\ up \subseteq Channel
  /\ calls \in 0 .. MaxCalls
  /\ wanted \subseteq Channel /\ held \subseteq stopped /\ abandoned \subseteq Channel

Init == /\ manager = "new"
        /\ inited = {} /\ stopped = {}
        /\ attempts = [c \in Channel |-> 0]
        /\ timers = [c \in Channel |-> 0]
        /\ starts = [c \in Channel |-> [k \in StartCaller |-> 0]]
        /\ stops = [c \in Channel |-> [k \in StopCaller |-> 0]]
        /\ beating = {} /\ checks = {} /\ recent = {} /\ up = {}
        /\ calls = 0 /\ wanted = {} /\ held = {} /\ abandoned = {}

\* A start is under way, or a soft restart that will start when its stop ends.
StartsUnderWay(c) == (\E k \in StartCaller : starts[c][k] > 0) \/ stops[c]["softRestart"] > 0

\* A stop that was asked for has not ended.
StopsUnderWay(c) == \E k \in {"stop", "stopChannel"} : stops[c][k] > 0

Call == calls < MaxCalls /\ calls' = calls + 1

-----------------------------------------------------------------------------
\* initialize: a plugin whose init throws is left out of initializedPluginIds.
Initialize == /\ manager = "new"
              /\ manager' = "initialized"
              /\ inited' \in SUBSET Channel
              /\ UNCHANGED <<stopped, attempts, starts, stops, up, timing, called>>

\* start asks neither whether a plugin was initialized nor whether it was stopped by hand.
Start == /\ manager = "initialized" /\ Call
         /\ manager' = "starting"
         /\ starts' = [c \in Channel |-> [starts[c] EXCEPT !["start"] = @ + 1]]
         /\ wanted' = wanted \cup {c \in Channel \ stopped : ~StopsUnderWay(c)}
         /\ held' = {}
         /\ UNCHANGED <<inited, stopped, attempts, stops, up, abandoned, timing>>

Started == /\ manager = "starting" /\ \A c \in Channel : starts[c]["start"] = 0
           /\ manager' = "running"
           /\ UNCHANGED <<inited, stopped, attempts, starts, stops, up, timing, called>>

\* stop leaves the plugins whose init failed and the restarts that are scheduled.
Stop == /\ manager = "running" /\ Call
        /\ manager' = "stopping"
        /\ stops' = [c \in Channel |-> IF c \in inited THEN [stops[c] EXCEPT !["stop"] = @ + 1]
                                       ELSE stops[c]]
        /\ beating' = beating \ inited
        /\ wanted' = {}
        /\ UNCHANGED <<inited, stopped, attempts, timers, starts, checks, recent, up, held, abandoned>>

Stopped == /\ manager = "stopping" /\ \A c \in Channel : stops[c]["stop"] = 0
           /\ manager' = "initialized"
           /\ UNCHANGED <<inited, stopped, attempts, starts, stops, up, timing, called>>

StopChannel(c) ==
  /\ Call
  /\ stopped' = stopped \cup {c}
  /\ wanted' = wanted \ {c}
  /\ IF c \in inited
     THEN /\ beating' = beating \ {c}
          /\ stops' = [stops EXCEPT ![c]["stopChannel"] = @ + 1]
     ELSE UNCHANGED <<beating, stops>>
  /\ UNCHANGED <<manager, inited, attempts, timers, starts, checks, recent, up, held, abandoned>>

StartChannel(c) ==
  /\ Call
  /\ stopped' = stopped \ {c}
  /\ held' = held \ {c}
  /\ IF manager # "new" /\ c \in inited
     THEN /\ starts' = [starts EXCEPT ![c]["startChannel"] = @ + 1]
          /\ wanted' = IF StopsUnderWay(c) THEN wanted ELSE wanted \cup {c}
     ELSE UNCHANGED <<starts, wanted>>
  /\ UNCHANGED <<manager, inited, attempts, stops, up, abandoned, timing>>

-----------------------------------------------------------------------------
\* The end of startPlugin, called by k.
StartSucceeds(c, k) ==
  /\ starts[c][k] > 0
  /\ starts' = [starts EXCEPT ![c][k] = @ - 1]
  /\ up' = up \cup {c}
  /\ attempts' = IF k = "timer" THEN attempts ELSE [attempts EXCEPT ![c] = 0]
  /\ beating' = beating \cup ({c} \cap Monitored)
  /\ UNCHANGED <<manager, inited, stopped, timers, stops, checks, recent, called>>

\* Faulty variant: only a first failure schedules a restart.
StartFailsOnce(c, k) ==
  /\ starts[c][k] > 0
  /\ starts' = [starts EXCEPT ![c][k] = @ - 1]
  /\ attempts' = [attempts EXCEPT ![c] = @ + 1]
  /\ timers' = IF attempts[c] = 0 THEN [timers EXCEPT ![c] = @ + 1] ELSE timers
  /\ UNCHANGED <<manager, inited, stopped, stops, beating, checks, recent, up, called>>

\* Faulty variant: a failed restart is not counted.
StartFailsUncounted(c, k) ==
  /\ starts[c][k] > 0
  /\ starts' = [starts EXCEPT ![c][k] = @ - 1]
  /\ attempts' = IF k = "timer" THEN attempts ELSE [attempts EXCEPT ![c] = @ + 1]
  /\ timers' = IF attempts[c] < MaxAttempts THEN [timers EXCEPT ![c] = @ + 1] ELSE timers
  /\ UNCHANGED <<manager, inited, stopped, stops, beating, checks, recent, up, called>>

StartFails(c, k) ==
  /\ starts[c][k] > 0
  /\ starts' = [starts EXCEPT ![c][k] = @ - 1]
  /\ attempts' = [attempts EXCEPT ![c] = @ + 1]
  /\ timers' = IF attempts[c] < MaxAttempts THEN [timers EXCEPT ![c] = @ + 1] ELSE timers
  /\ UNCHANGED <<manager, inited, stopped, stops, beating, checks, recent, up, called>>

\* Faulty variant: a scheduled restart does not ask whether the channel was stopped.
RestartRegardless(c) ==
  /\ timers[c] > 0
  /\ timers' = [timers EXCEPT ![c] = @ - 1]
  /\ starts' = [starts EXCEPT ![c]["timer"] = @ + 1]
  /\ UNCHANGED <<manager, inited, stopped, attempts, stops, beating, checks, recent, up, called>>

\* The timer of a scheduled restart.
Restart(c) ==
  /\ timers[c] > 0
  /\ timers' = [timers EXCEPT ![c] = @ - 1]
  /\ starts' = IF c \in stopped THEN starts ELSE [starts EXCEPT ![c]["timer"] = @ + 1]
  /\ UNCHANGED <<manager, inited, stopped, attempts, stops, beating, checks, recent, up, called>>

\* plugin.stop ends, well or not, for stop or stopChannel: an error is logged.
StopEnds(c, k) ==
  /\ k # "softRestart" /\ stops[c][k] > 0
  /\ stops' = [stops EXCEPT ![c][k] = @ - 1]
  /\ \/ /\ up' = up \ {c}
        /\ held' = IF k = "stopChannel" /\ c \in stopped /\ ~StartsUnderWay(c)
                   THEN held \cup {c} ELSE held
     \/ UNCHANGED <<up, held>>
  /\ UNCHANGED <<manager, inited, stopped, attempts, starts, timing, calls, wanted, abandoned>>

-----------------------------------------------------------------------------
Check(c) == /\ c \in beating \ checks
            /\ checks' = checks \cup {c}
            /\ UNCHANGED <<manager, inited, stopped, attempts, timers, starts, stops, beating,
                           recent, up, called>>

\* The check says that all is well, or throws, or restarted the channel a moment ago.
CheckPasses(c) == /\ c \in checks
                  /\ checks' = checks \ {c}
                  /\ UNCHANGED <<manager, inited, stopped, attempts, timers, starts, stops,
                                 beating, recent, up, called>>

\* The check says that the channel is not well, and _softRestartChannel begins.
SoftRestart(c) ==
  /\ c \in checks \ recent
  /\ checks' = checks \ {c}
  /\ recent' = recent \cup {c}
  /\ IF c \in inited \ stopped
     THEN /\ beating' = beating \ {c}
          /\ stops' = [stops EXCEPT ![c]["softRestart"] = @ + 1]
     ELSE UNCHANGED <<beating, stops>>
  /\ UNCHANGED <<manager, inited, stopped, attempts, timers, starts, up, called>>

\* It goes on to start the plugin, whatever was asked for in the meantime.
SoftRestartGoesOn(c) ==
  /\ stops[c]["softRestart"] > 0
  /\ stops' = [stops EXCEPT ![c]["softRestart"] = @ - 1]
  /\ starts' = [starts EXCEPT ![c]["softRestart"] = @ + 1]
  /\ up' = up \ {c}
  /\ UNCHANGED <<manager, inited, stopped, attempts, timing, called>>

\* plugin.stop throws: no start, and no heartbeat that would try again.
SoftRestartThrows(c) ==
  /\ stops[c]["softRestart"] > 0
  /\ stops' = [stops EXCEPT ![c]["softRestart"] = @ - 1]
  /\ abandoned' = abandoned \cup {c}
  /\ UNCHANGED <<manager, inited, stopped, attempts, starts, up, timing, calls, wanted, held>>

Calm(c) == /\ c \in recent
           /\ recent' = recent \ {c}
           /\ UNCHANGED <<manager, inited, stopped, attempts, timers, starts, stops, beating,
                          checks, up, called>>

\* A plugin stops working by itself (only one with a heartbeat would be noticed).
Break(c) == /\ c \in up \cap Monitored
            /\ up' = up \ {c}
            /\ UNCHANGED <<manager, inited, stopped, attempts, starts, stops, timing, called>>

-----------------------------------------------------------------------------
StartSettles(c, k) == StartSucceeds(c, k) \/ StartFails(c, k)

ChannelNext(c) ==
  \/ StopChannel(c) \/ StartChannel(c) \/ Restart(c)
  \/ \E k \in StartCaller : StartSettles(c, k)
  \/ \E k \in StopCaller : StopEnds(c, k)
  \/ Check(c) \/ CheckPasses(c) \/ SoftRestart(c) \/ SoftRestartGoesOn(c) \/ SoftRestartThrows(c)
  \/ Calm(c) \/ Break(c)

Next == \/ Initialize \/ Start \/ Started \/ Stop \/ Stopped
        \/ \E c \in Channel : ChannelNext(c)

\* Timers fire, and a plugin's start ends.
Fairness == \A c \in Channel : /\ WF_vars(Restart(c))
                               /\ \A k \in StartCaller : WF_vars(StartSettles(c, k))

Spec == Init /\ [][Next]_vars /\ Fairness

-----------------------------------------------------------------------------
(***************************************************************************)
(* A channel stopped by hand stays down until it is asked to start again,  *)
(* whatever restarts were scheduled and whatever checks were under way.    *)
(* (When stopChannel overlaps a start it does not: the start ends later.)  *)
(***************************************************************************)
HeldStaysDown == held \cap up = {}

(***************************************************************************)
(* A channel that is to run and is down is not forgotten: a start or a     *)
(* restart is on its way, its heartbeat will find it, or its restarts are  *)
(* used up.  The one way out is a soft restart whose stop threw.  (When a  *)
(* start overlaps a stop that was asked for earlier, the stop ends later.) *)
(***************************************************************************)
DownIsAttended ==
  \A c \in wanted \ (up \cup abandoned) :
    StartsUnderWay(c) \/ timers[c] > 0 \/ c \in beating \/ attempts[c] > MaxAttempts

\* A scheduled restart brings the channel up, uses up the attempts, or is overtaken by a stop.
RestartsDecide ==
  \A c \in Channel :
    c \in wanted /\ timers[c] > 0 ~> c \in up \/ attempts[c] > MaxAttempts \/ c \notin wanted
=============================================================================
