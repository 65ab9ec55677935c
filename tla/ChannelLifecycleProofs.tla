----------------------- MODULE ChannelLifecycleProofs -----------------------
(***************************************************************************)
(* What ChannelLifecycle promises, for any channels, any limit of restarts *)
(* and any number of calls: its types, that a channel stopped by hand      *)
(* stays down, and that one that is to run is not forgotten.               *)
(*                                                                         *)
(* A held channel has no start under way, and none begins: start and       *)
(* startChannel let go of it, a timer and a check ask manuallyStopped.  A  *)
(* wanted channel has no stop under way, so what brings it down is a soft  *)
(* restart or the plugin itself, which its heartbeat finds: one with a     *)
(* heartbeat must be attended even while it is up.                         *)
(***************************************************************************)
EXTENDS ChannelLifecycle, TLAPS

Attended(c) ==
  StartsUnderWay(c) \/ timers[c] > 0 \/ c \in beating \/ attempts[c] > MaxAttempts

HeldIsQuiet == \A c \in held : c \in stopped /\ c \notin up /\ ~StartsUnderWay(c)

WantedIsFree == \A c \in wanted : c \notin stopped /\ ~StopsUnderWay(c)

WantedIsAttended ==
  \A c \in wanted \ abandoned : c \in Monitored \/ c \notin up => Attended(c)

IInv == TypeOK /\ HeldIsQuiet /\ WantedIsFree /\ WantedIsAttended

-----------------------------------------------------------------------------
LEMMA InitEstablishes == Init => IInv
BY ChannelAssumption DEF Init, IInv, TypeOK, HeldIsQuiet, WantedIsFree, WantedIsAttended, StartCaller, StopCaller

\* One start or stop more, or one less, of c, called by k.
LEMMA StartBegins ==
  ASSUME starts \in [Channel -> [StartCaller -> Nat]], NEW c \in Channel, NEW k \in StartCaller,
         starts' = [starts EXCEPT ![c][k] = @ + 1]
  PROVE  /\ starts' \in [Channel -> [StartCaller -> Nat]]
         /\ \A d \in Channel, j \in StartCaller :
              starts'[d][j] = IF d = c /\ j = k THEN starts[c][k] + 1 ELSE starts[d][j]
<1>1. starts[c] \in [StartCaller -> Nat] /\ starts[c][k] + 1 \in Nat OBVIOUS
<1> DEFINE row == [starts[c] EXCEPT ![k] = starts[c][k] + 1]
<1>2. starts' = [starts EXCEPT ![c] = row] OBVIOUS
<1>3. row \in [StartCaller -> Nat]
      /\ \A j \in StartCaller : row[j] = IF j = k THEN starts[c][k] + 1 ELSE starts[c][j]
  BY <1>1
<1> HIDE DEF row
<1>4. starts' \in [Channel -> [StartCaller -> Nat]] BY <1>2, <1>3
<1>5. \A d \in Channel : starts'[d] = IF d = c THEN row ELSE starts[d] BY <1>2
<1> QED BY <1>3, <1>4, <1>5

LEMMA StartIsOver ==
  ASSUME starts \in [Channel -> [StartCaller -> Nat]], NEW c \in Channel, NEW k \in StartCaller, starts[c][k] > 0,
         starts' = [starts EXCEPT ![c][k] = @ - 1]
  PROVE  /\ starts' \in [Channel -> [StartCaller -> Nat]]
         /\ \A d \in Channel, j \in StartCaller :
              starts'[d][j] = IF d = c /\ j = k THEN starts[c][k] - 1 ELSE starts[d][j]
<1>1. starts[c] \in [StartCaller -> Nat] /\ starts[c][k] - 1 \in Nat OBVIOUS
<1> DEFINE row == [starts[c] EXCEPT ![k] = starts[c][k] - 1]
<1>2. starts' = [starts EXCEPT ![c] = row] OBVIOUS
<1>3. row \in [StartCaller -> Nat]
      /\ \A j \in StartCaller : row[j] = IF j = k THEN starts[c][k] - 1 ELSE starts[c][j]
  BY <1>1
<1> HIDE DEF row
<1>4. starts' \in [Channel -> [StartCaller -> Nat]] BY <1>2, <1>3
<1>5. \A d \in Channel : starts'[d] = IF d = c THEN row ELSE starts[d] BY <1>2
<1> QED BY <1>3, <1>4, <1>5

LEMMA StopBegins ==
  ASSUME stops \in [Channel -> [StopCaller -> Nat]], NEW c \in Channel, NEW k \in StopCaller,
         stops' = [stops EXCEPT ![c][k] = @ + 1]
  PROVE  /\ stops' \in [Channel -> [StopCaller -> Nat]]
         /\ \A d \in Channel, j \in StopCaller :
              stops'[d][j] = IF d = c /\ j = k THEN stops[c][k] + 1 ELSE stops[d][j]
<1>1. stops[c] \in [StopCaller -> Nat] /\ stops[c][k] + 1 \in Nat OBVIOUS
<1> DEFINE row == [stops[c] EXCEPT ![k] = stops[c][k] + 1]
<1>2. stops' = [stops EXCEPT ![c] = row] OBVIOUS
<1>3. row \in [StopCaller -> Nat]
      /\ \A j \in StopCaller : row[j] = IF j = k THEN stops[c][k] + 1 ELSE stops[c][j]
  BY <1>1
<1> HIDE DEF row
<1>4. stops' \in [Channel -> [StopCaller -> Nat]] BY <1>2, <1>3
<1>5. \A d \in Channel : stops'[d] = IF d = c THEN row ELSE stops[d] BY <1>2
<1> QED BY <1>3, <1>4, <1>5

LEMMA StopIsOver ==
  ASSUME stops \in [Channel -> [StopCaller -> Nat]], NEW c \in Channel, NEW k \in StopCaller, stops[c][k] > 0,
         stops' = [stops EXCEPT ![c][k] = @ - 1]
  PROVE  /\ stops' \in [Channel -> [StopCaller -> Nat]]
         /\ \A d \in Channel, j \in StopCaller :
              stops'[d][j] = IF d = c /\ j = k THEN stops[c][k] - 1 ELSE stops[d][j]
<1>1. stops[c] \in [StopCaller -> Nat] /\ stops[c][k] - 1 \in Nat OBVIOUS
<1> DEFINE row == [stops[c] EXCEPT ![k] = stops[c][k] - 1]
<1>2. stops' = [stops EXCEPT ![c] = row] OBVIOUS
<1>3. row \in [StopCaller -> Nat]
      /\ \A j \in StopCaller : row[j] = IF j = k THEN stops[c][k] - 1 ELSE stops[c][j]
  BY <1>1
<1> HIDE DEF row
<1>4. stops' \in [Channel -> [StopCaller -> Nat]] BY <1>2, <1>3
<1>5. \A d \in Channel : stops'[d] = IF d = c THEN row ELSE stops[d] BY <1>2
<1> QED BY <1>3, <1>4, <1>5

LEMMA Callers == /\ {"start", "startChannel", "softRestart", "timer"} \subseteq StartCaller
                 /\ {"stop", "stopChannel", "softRestart"} \subseteq StopCaller
BY DEF StartCaller, StopCaller

LEMMA TypeStep == TypeOK /\ HeldIsQuiet /\ [Next]_vars => TypeOK'
<1> SUFFICES ASSUME TypeOK, HeldIsQuiet, [Next]_vars PROVE TypeOK'
  OBVIOUS
<1> USE ChannelAssumption DEF TypeOK, timing, called, Call
<1>1. CASE Initialize BY <1>1 DEF Initialize
<1>2. CASE Start
  <2>1. starts' \in [Channel -> [StartCaller -> Nat]] BY <1>2, Callers, SMT DEF Start
  <2> QED BY <1>2, <2>1 DEF Start
<1>3. CASE Started BY <1>3 DEF Started
<1>4. CASE Stop
  <2>1. stops' \in [Channel -> [StopCaller -> Nat]] BY <1>4, Callers DEF Stop
  <2> QED BY <1>4, <2>1 DEF Stop
<1>5. CASE Stopped BY <1>5 DEF Stopped
<1>6. ASSUME NEW c \in Channel, StopChannel(c) PROVE TypeOK'
  <2>1. stops' \in [Channel -> [StopCaller -> Nat]] BY <1>6, Callers, StopBegins DEF StopChannel
  <2> QED BY <1>6, <2>1 DEF StopChannel
<1>7. ASSUME NEW c \in Channel, StartChannel(c) PROVE TypeOK'
  <2>1. starts' \in [Channel -> [StartCaller -> Nat]] BY <1>7, Callers, StartBegins DEF StartChannel
  <2> QED BY <1>7, <2>1 DEF StartChannel
<1>8. ASSUME NEW c \in Channel, Restart(c) PROVE TypeOK'
  <2>1. starts' \in [Channel -> [StartCaller -> Nat]] BY <1>8, Callers, StartBegins DEF Restart
  <2> QED BY <1>8, <2>1 DEF Restart
<1>9. ASSUME NEW c \in Channel, NEW k \in StartCaller, StartSettles(c, k) PROVE TypeOK'
  <2>1. starts' \in [Channel -> [StartCaller -> Nat]]
    BY <1>9, StartIsOver DEF StartSettles, StartSucceeds, StartFails
  <2>2. attempts' \in [Channel -> Nat] /\ timers' \in [Channel -> Nat]
    BY <1>9 DEF StartSettles, StartSucceeds, StartFails
  <2> QED BY <1>9, <2>1, <2>2 DEF StartSettles, StartSucceeds, StartFails
<1>10. ASSUME NEW c \in Channel, NEW k \in StopCaller, StopEnds(c, k) PROVE TypeOK'
  <2>1. stops' \in [Channel -> [StopCaller -> Nat]] BY <1>10, StopIsOver DEF StopEnds
  <2> QED BY <1>10, <2>1 DEF StopEnds
<1>11. ASSUME NEW c \in Channel,
              Check(c) \/ CheckPasses(c) \/ Calm(c) \/ Break(c) \/ SoftRestart(c)
       PROVE  TypeOK'
  <2>1. stops' \in [Channel -> [StopCaller -> Nat]]
    BY <1>11, Callers, StopBegins DEF Check, CheckPasses, Calm, Break, SoftRestart
  <2> QED BY <1>11, <2>1 DEF Check, CheckPasses, Calm, Break, SoftRestart
<1>12. ASSUME NEW c \in Channel, SoftRestartGoesOn(c) \/ SoftRestartThrows(c) PROVE TypeOK'
  <2>1. stops' \in [Channel -> [StopCaller -> Nat]] /\ starts' \in [Channel -> [StartCaller -> Nat]]
    BY <1>12, Callers, StartBegins, StopIsOver DEF SoftRestartGoesOn, SoftRestartThrows
  <2> QED BY <1>12, <2>1 DEF SoftRestartGoesOn, SoftRestartThrows
<1>13. CASE UNCHANGED vars BY <1>13 DEF vars
<1> QED
  BY <1>1, <1>2, <1>3, <1>4, <1>5, <1>6, <1>7, <1>8, <1>9, <1>10, <1>11, <1>12, <1>13
  DEF Next, ChannelNext

-----------------------------------------------------------------------------
\* Nothing begins on a held channel.
LEMMA HeldStep == TypeOK /\ HeldIsQuiet /\ [Next]_vars => HeldIsQuiet'
<1> SUFFICES ASSUME TypeOK, HeldIsQuiet, [Next]_vars, NEW h \in held'
             PROVE  (h \in stopped /\ h \notin up /\ ~StartsUnderWay(h))'
  BY DEF HeldIsQuiet
<1>0. h \in held => h \in Channel /\ h \in stopped /\ h \notin up /\ ~StartsUnderWay(h)
  BY DEF HeldIsQuiet, TypeOK
<1> USE DEF timing, called, Call
<1>1. CASE Initialize \/ Started \/ Stopped \/ UNCHANGED vars
  BY <1>0, <1>1 DEF Initialize, Started, Stopped, vars, StartsUnderWay
<1>2. CASE Start BY <1>2 DEF Start
<1>3. CASE Stop
  <2>1. h \in held /\ stopped' = stopped /\ up' = up /\ starts' = starts BY <1>3 DEF Stop
  <2>2. stops'[h]["softRestart"] = stops[h]["softRestart"]
    BY <1>0, <1>3, <2>1, Callers DEF Stop, TypeOK
  <2> QED BY <1>0, <2>1, <2>2 DEF StartsUnderWay
<1>4. ASSUME NEW c \in Channel, StopChannel(c)
      PROVE  (h \in stopped /\ h \notin up /\ ~StartsUnderWay(h))'
  <2>1. h \in held /\ stopped \subseteq stopped' /\ up' = up /\ starts' = starts
    BY <1>4 DEF StopChannel
  <2>2. stops'[h]["softRestart"] = stops[h]["softRestart"]
    BY <1>0, <1>4, <2>1, Callers, StopBegins DEF StopChannel, TypeOK
  <2> QED BY <1>0, <2>1, <2>2 DEF StartsUnderWay
<1>5. ASSUME NEW c \in Channel, StartChannel(c)
      PROVE  (h \in stopped /\ h \notin up /\ ~StartsUnderWay(h))'
  <2>1. h \in held /\ h # c /\ stopped' = stopped \ {c} /\ up' = up /\ stops' = stops
    BY <1>5 DEF StartChannel
  <2>2. \A k \in StartCaller : starts'[h][k] = starts[h][k]
    BY <1>0, <1>5, <2>1, Callers, StartBegins DEF StartChannel, TypeOK
  <2> QED BY <1>0, <2>1, <2>2 DEF StartsUnderWay
<1>6. ASSUME NEW c \in Channel, Restart(c)
      PROVE  (h \in stopped /\ h \notin up /\ ~StartsUnderWay(h))'
  <2>1. h \in held /\ stopped' = stopped /\ up' = up /\ stops' = stops BY <1>6 DEF Restart
  <2>2. \A k \in StartCaller : starts'[h][k] = starts[h][k]
    BY <1>0, <1>6, <2>1, Callers, StartBegins DEF Restart, TypeOK
  <2> QED BY <1>0, <2>1, <2>2 DEF StartsUnderWay
<1>7. ASSUME NEW c \in Channel, NEW k \in StartCaller, StartSettles(c, k)
      PROVE  (h \in stopped /\ h \notin up /\ ~StartsUnderWay(h))'
  <2>1. h \in held /\ stopped' = stopped /\ stops' = stops /\ starts[c][k] > 0
    BY <1>7 DEF StartSettles, StartSucceeds, StartFails
  <2>2. h # c BY <1>0, <2>1 DEF StartsUnderWay
  <2>3. \A j \in StartCaller : starts'[h][j] = starts[h][j]
    BY <1>0, <1>7, <2>1, <2>2, StartIsOver DEF StartSettles, StartSucceeds, StartFails, TypeOK
  <2>4. h \notin up' BY <1>0, <1>7, <2>1, <2>2 DEF StartSettles, StartSucceeds, StartFails
  <2> QED BY <1>0, <2>1, <2>3, <2>4 DEF StartsUnderWay
<1>8. ASSUME NEW c \in Channel, NEW k \in StopCaller, StopEnds(c, k)
      PROVE  (h \in stopped /\ h \notin up /\ ~StartsUnderWay(h))'
  <2>1. stopped' = stopped /\ starts' = starts BY <1>8 DEF StopEnds
  <2>2. h \in Channel /\ h \in stopped /\ h \notin up' /\ ~StartsUnderWay(h)
    BY <1>0, <1>8 DEF StopEnds
  <2>3. stops'[h]["softRestart"] = stops[h]["softRestart"]
    BY <1>8, <2>2, Callers, StopIsOver DEF StopEnds, TypeOK
  <2> QED BY <2>1, <2>2, <2>3 DEF StartsUnderWay
<1>9. ASSUME NEW c \in Channel, Check(c) \/ CheckPasses(c) \/ Calm(c) \/ Break(c)
      PROVE  (h \in stopped /\ h \notin up /\ ~StartsUnderWay(h))'
  BY <1>0, <1>9 DEF Check, CheckPasses, Calm, Break, StartsUnderWay
<1>10. ASSUME NEW c \in Channel, SoftRestart(c)
       PROVE  (h \in stopped /\ h \notin up /\ ~StartsUnderWay(h))'
  <2>1. h \in held /\ stopped' = stopped /\ starts' = starts /\ up' = up BY <1>10 DEF SoftRestart
  <2>2. stops'[h]["softRestart"] = stops[h]["softRestart"]
    BY <1>0, <1>10, <2>1, Callers, StopBegins DEF SoftRestart, TypeOK
  <2> QED BY <1>0, <2>1, <2>2 DEF StartsUnderWay
<1>11. ASSUME NEW c \in Channel, SoftRestartGoesOn(c) \/ SoftRestartThrows(c)
       PROVE  (h \in stopped /\ h \notin up /\ ~StartsUnderWay(h))'
  <2>1. h \in held /\ stopped' = stopped /\ up' \subseteq up /\ stops[c]["softRestart"] > 0
    BY <1>11 DEF SoftRestartGoesOn, SoftRestartThrows
  <2>2. h # c BY <1>0, <2>1 DEF StartsUnderWay
  <2>3. stops'[h]["softRestart"] = stops[h]["softRestart"]
    BY <1>0, <1>11, <2>1, <2>2, Callers, StopIsOver DEF SoftRestartGoesOn, SoftRestartThrows, TypeOK
  <2>4. \A k \in StartCaller : starts'[h][k] = starts[h][k]
    BY <1>0, <1>11, <2>1, <2>2, Callers, StartBegins DEF SoftRestartGoesOn, SoftRestartThrows, TypeOK
  <2> QED BY <1>0, <2>1, <2>3, <2>4 DEF StartsUnderWay
<1> QED BY <1>1, <1>2, <1>3, <1>4, <1>5, <1>6, <1>7, <1>8, <1>9, <1>10, <1>11 DEF Next, ChannelNext

\* No stop begins on a wanted channel.
LEMMA WantedStep == TypeOK /\ WantedIsFree /\ [Next]_vars => WantedIsFree'
<1> SUFFICES ASSUME TypeOK, WantedIsFree, [Next]_vars, NEW w \in wanted'
             PROVE  (w \notin stopped /\ ~StopsUnderWay(w))'
  BY DEF WantedIsFree
<1>0. w \in wanted => w \in Channel /\ w \notin stopped /\ ~StopsUnderWay(w)
  BY DEF WantedIsFree, TypeOK
<1> USE DEF timing, called, Call
<1>1. CASE Initialize \/ Started \/ Stopped \/ UNCHANGED vars
  BY <1>0, <1>1 DEF Initialize, Started, Stopped, vars, StopsUnderWay
<1>2. CASE Start
  <2>1. w \notin stopped /\ ~StopsUnderWay(w) BY <1>0, <1>2 DEF Start
  <2> QED BY <1>2, <2>1 DEF Start, StopsUnderWay
<1>3. CASE Stop BY <1>3 DEF Stop
<1>4. ASSUME NEW c \in Channel, StopChannel(c) PROVE (w \notin stopped /\ ~StopsUnderWay(w))'
  <2>1. w \in wanted /\ w # c /\ stopped' = stopped \cup {c} BY <1>4 DEF StopChannel
  <2>2. \A k \in StopCaller : stops'[w][k] = stops[w][k]
    BY <1>0, <1>4, <2>1, Callers, StopBegins DEF StopChannel, TypeOK
  <2> QED BY <1>0, <2>1, <2>2, Callers DEF StopsUnderWay
<1>5. ASSUME NEW c \in Channel, StartChannel(c) PROVE (w \notin stopped /\ ~StopsUnderWay(w))'
  <2>1. stopped' = stopped \ {c} /\ stops' = stops BY <1>5 DEF StartChannel
  <2>2. ~StopsUnderWay(w) /\ (w = c \/ w \notin stopped) BY <1>0, <1>5 DEF StartChannel
  <2> QED BY <2>1, <2>2 DEF StopsUnderWay
<1>6. ASSUME NEW c \in Channel, Restart(c) PROVE (w \notin stopped /\ ~StopsUnderWay(w))'
  BY <1>0, <1>6 DEF Restart, StopsUnderWay
<1>7. ASSUME NEW c \in Channel, NEW k \in StartCaller, StartSettles(c, k)
      PROVE  (w \notin stopped /\ ~StopsUnderWay(w))'
  BY <1>0, <1>7 DEF StartSettles, StartSucceeds, StartFails, StopsUnderWay
<1>8. ASSUME NEW c \in Channel, NEW k \in StopCaller, StopEnds(c, k)
      PROVE  (w \notin stopped /\ ~StopsUnderWay(w))'
  <2>1. w \in wanted /\ stopped' = stopped BY <1>8 DEF StopEnds
  <2>2. w \in Channel /\ ~StopsUnderWay(w) BY <1>0, <2>1
  <2>3. k \in {"stop", "stopChannel"} /\ stops[c][k] > 0 BY <1>8 DEF StopEnds, StopCaller
  <2>4. w # c BY <2>2, <2>3 DEF StopsUnderWay
  <2>5. \A j \in StopCaller : stops'[w][j] = stops[w][j]
    BY <1>8, <2>2, <2>4, StopIsOver DEF StopEnds, TypeOK
  <2> QED BY <1>0, <2>1, <2>5, Callers DEF StopsUnderWay
<1>9. ASSUME NEW c \in Channel, Check(c) \/ CheckPasses(c) \/ Calm(c) \/ Break(c)
      PROVE  (w \notin stopped /\ ~StopsUnderWay(w))'
  BY <1>0, <1>9 DEF Check, CheckPasses, Calm, Break, StopsUnderWay
<1>10. ASSUME NEW c \in Channel, SoftRestart(c) \/ SoftRestartGoesOn(c) \/ SoftRestartThrows(c)
       PROVE  (w \notin stopped /\ ~StopsUnderWay(w))'
  <2>1. w \in wanted /\ stopped' = stopped
    BY <1>10 DEF SoftRestart, SoftRestartGoesOn, SoftRestartThrows
  <2>2. \A k \in {"stop", "stopChannel"} : stops'[w][k] = stops[w][k]
    <3>1. w \in Channel /\ stops \in [Channel -> [StopCaller -> Nat]] BY <1>0, <2>1 DEF TypeOK
    <3>2. CASE SoftRestart(c) BY <3>1, <3>2, Callers, StopBegins DEF SoftRestart
    <3>3. CASE SoftRestartGoesOn(c) BY <3>1, <3>3, Callers, StopIsOver DEF SoftRestartGoesOn
    <3>4. CASE SoftRestartThrows(c) BY <3>1, <3>4, Callers, StopIsOver DEF SoftRestartThrows
    <3> QED BY <1>10, <3>2, <3>3, <3>4
  <2> QED BY <1>0, <2>1, <2>2 DEF StopsUnderWay
<1> QED BY <1>1, <1>2, <1>3, <1>4, <1>5, <1>6, <1>7, <1>8, <1>9, <1>10 DEF Next, ChannelNext

\* What attends to a wanted channel is followed by something that does, or brings it up.
LEMMA AttendedStep ==
  TypeOK /\ WantedIsFree /\ WantedIsAttended /\ [Next]_vars => WantedIsAttended'
<1> SUFFICES ASSUME TypeOK, WantedIsFree, WantedIsAttended, [Next]_vars,
                    NEW w \in wanted' \ abandoned', w \in Monitored \/ w \notin up'
             PROVE  Attended(w)'
  BY DEF WantedIsAttended
<1>0. w \in wanted /\ w \notin abandoned /\ (w \in Monitored \/ w \notin up)
      => w \in Channel /\ w \notin stopped /\ ~StopsUnderWay(w) /\ Attended(w)
  BY DEF WantedIsFree, WantedIsAttended, TypeOK
<1> USE DEF timing, called, Call
<1>1. CASE Initialize \/ Started \/ Stopped \/ UNCHANGED vars
  BY <1>0, <1>1 DEF Initialize, Started, Stopped, vars, Attended, StartsUnderWay
<1>2. CASE Start
  <2>1. w \in Channel BY <1>0, <1>2 DEF Start, TypeOK
  <2>2. starts'[w]["start"] > 0 BY <1>2, <2>1, Callers DEF Start, TypeOK
  <2> QED BY <2>2, Callers DEF Attended, StartsUnderWay
<1>3. CASE Stop BY <1>3 DEF Stop
<1>4. ASSUME NEW c \in Channel, StopChannel(c) PROVE Attended(w)'
  <2>1. w \in wanted /\ w # c /\ abandoned' = abandoned /\ up' = up BY <1>4 DEF StopChannel
  <2>2. w \in Channel /\ Attended(w) BY <1>0, <2>1
  <2>3. stops'[w]["softRestart"] = stops[w]["softRestart"]
    BY <1>4, <2>1, <2>2, Callers, StopBegins DEF StopChannel, TypeOK
  <2>4. w \in beating => w \in beating' BY <1>4, <2>1 DEF StopChannel
  <2>5. UNCHANGED <<starts, timers, attempts>> BY <1>4 DEF StopChannel
  <2> QED BY <2>2, <2>3, <2>4, <2>5 DEF Attended, StartsUnderWay
<1>5. ASSUME NEW c \in Channel, StartChannel(c) PROVE Attended(w)'
  <2>0. UNCHANGED <<attempts, timers, beating, stops, abandoned, up>> BY <1>5 DEF StartChannel
  <2>1. CASE w = c /\ manager # "new" /\ c \in inited
    <3>1. starts'[c]["startChannel"] = starts[c]["startChannel"] + 1
          /\ starts[c]["startChannel"] \in Nat
      BY <1>5, <2>1, Callers, StartBegins DEF StartChannel, TypeOK
    <3> QED BY <2>1, <3>1, Callers DEF Attended, StartsUnderWay
  <2>2. CASE ~(w = c /\ manager # "new" /\ c \in inited)
    <3>1. w \in wanted BY <1>5, <2>2 DEF StartChannel
    <3>2. w \in Channel /\ Attended(w) BY <1>0, <2>0, <3>1
    <3>3. \A k \in StartCaller : starts'[w][k] = starts[w][k]
      BY <1>5, <2>2, <3>2, Callers, StartBegins DEF StartChannel, TypeOK
    <3> QED BY <2>0, <3>2, <3>3 DEF Attended, StartsUnderWay
  <2> QED BY <2>1, <2>2
<1>6. ASSUME NEW c \in Channel, Restart(c) PROVE Attended(w)'
  <2>0. w \in wanted /\ UNCHANGED <<attempts, beating, stops, abandoned, up>> BY <1>6 DEF Restart
  <2>1. w \in Channel /\ w \notin stopped /\ Attended(w) BY <1>0, <2>0
  <2>2. CASE w = c
    <3>1. starts'[c]["timer"] = starts[c]["timer"] + 1 /\ starts[c]["timer"] \in Nat
      BY <1>6, <2>1, <2>2, Callers, StartBegins DEF Restart, TypeOK
    <3> QED BY <2>2, <3>1, Callers DEF Attended, StartsUnderWay
  <2>3. CASE w # c
    <3>1. \A k \in StartCaller : starts'[w][k] = starts[w][k]
      BY <1>6, <2>1, <2>3, Callers, StartBegins DEF Restart, TypeOK
    <3>2. timers'[w] = timers[w] BY <1>6, <2>1, <2>3 DEF Restart, TypeOK
    <3> QED BY <2>0, <2>1, <3>1, <3>2 DEF Attended, StartsUnderWay
  <2> QED BY <2>2, <2>3
<1>7. ASSUME NEW c \in Channel, NEW k \in StartCaller, StartSucceeds(c, k) PROVE Attended(w)'
  <2>0. w \in wanted /\ UNCHANGED <<timers, stops, abandoned>> /\ up' = up \cup {c}
    BY <1>7 DEF StartSucceeds
  <2>1. CASE w = c
    <3>1. w \in beating' BY <1>7, <2>0, <2>1 DEF StartSucceeds
    <3> QED BY <3>1 DEF Attended
  <2>2. CASE w # c
    <3>1. w \in Channel /\ Attended(w) BY <1>0, <2>0, <2>2
    <3>2. \A j \in StartCaller : starts'[w][j] = starts[w][j]
      BY <1>7, <2>2, <3>1, StartIsOver DEF StartSucceeds, TypeOK
    <3>3. attempts'[w] = attempts[w] /\ (w \in beating => w \in beating')
      BY <1>7, <2>2, <3>1 DEF StartSucceeds, TypeOK
    <3> QED BY <2>0, <3>1, <3>2, <3>3 DEF Attended, StartsUnderWay
  <2> QED BY <2>1, <2>2
<1>8. ASSUME NEW c \in Channel, NEW k \in StartCaller, StartFails(c, k) PROVE Attended(w)'
  <2>0. w \in wanted /\ UNCHANGED <<beating, stops, abandoned, up>> BY <1>8 DEF StartFails
  <2>1. w \in Channel /\ Attended(w) BY <1>0, <2>0
  <2>2. CASE w = c
    <3>1. attempts'[c] = attempts[c] + 1 /\ attempts[c] \in Nat /\ timers[c] \in Nat
      BY <1>8 DEF StartFails, TypeOK
    <3>2. attempts[c] < MaxAttempts => timers'[c] = timers[c] + 1
      BY <1>8 DEF StartFails, TypeOK
    <3>3. timers'[c] > 0 \/ attempts'[c] > MaxAttempts BY <3>1, <3>2, ChannelAssumption
    <3> QED BY <2>2, <3>3 DEF Attended
  <2>3. CASE w # c
    <3>1. \A j \in StartCaller : starts'[w][j] = starts[w][j]
      BY <1>8, <2>1, <2>3, StartIsOver DEF StartFails, TypeOK
    <3>2. attempts'[w] = attempts[w] /\ timers'[w] = timers[w]
      BY <1>8, <2>1, <2>3 DEF StartFails, TypeOK
    <3> QED BY <2>0, <2>1, <3>1, <3>2 DEF Attended, StartsUnderWay
  <2> QED BY <2>2, <2>3
<1>9. ASSUME NEW c \in Channel, NEW k \in StopCaller, StopEnds(c, k) PROVE Attended(w)'
  <2>0. w \in wanted /\ UNCHANGED <<attempts, timers, starts, beating, abandoned>>
    BY <1>9 DEF StopEnds
  <2>1. k \in {"stop", "stopChannel"} /\ stops[c][k] > 0 BY <1>9 DEF StopEnds, StopCaller
  <2>2. w # c BY <2>0, <2>1 DEF WantedIsFree, StopsUnderWay
  <2>3. w \in Channel /\ Attended(w) BY <1>0, <1>9, <2>0, <2>2 DEF StopEnds
  <2>4. stops'[w]["softRestart"] = stops[w]["softRestart"]
    BY <1>9, <2>2, <2>3, Callers, StopIsOver DEF StopEnds, TypeOK
  <2> QED BY <2>0, <2>3, <2>4 DEF Attended, StartsUnderWay
<1>10. ASSUME NEW c \in Channel, Check(c) \/ CheckPasses(c) \/ Calm(c) \/ Break(c)
       PROVE  Attended(w)'
  <2>0. w \in wanted /\ UNCHANGED <<attempts, timers, starts, stops, beating, abandoned>>
    BY <1>10 DEF Check, CheckPasses, Calm, Break
  <2>1. w \in Monitored \/ w \notin up BY <1>10 DEF Check, CheckPasses, Calm, Break
  <2>2. Attended(w) BY <1>0, <2>0, <2>1
  <2> QED BY <2>0, <2>2 DEF Attended, StartsUnderWay
<1>11. ASSUME NEW c \in Channel, SoftRestart(c) PROVE Attended(w)'
  <2>0. w \in wanted /\ UNCHANGED <<attempts, timers, starts, up, abandoned>>
    BY <1>11 DEF SoftRestart
  <2>1. w \in Channel /\ w \notin stopped /\ Attended(w) BY <1>0, <2>0
  <2>2. CASE w = c /\ c \in inited
    <3>1. stops'[c]["softRestart"] = stops[c]["softRestart"] + 1 /\ stops[c]["softRestart"] \in Nat
      BY <1>11, <2>1, <2>2, Callers, StopBegins DEF SoftRestart, TypeOK
    <3> QED BY <2>2, <3>1 DEF Attended, StartsUnderWay
  <2>3. CASE ~(w = c /\ c \in inited)
    <3>1. stops'[w]["softRestart"] = stops[w]["softRestart"]
      BY <1>11, <2>1, <2>3, Callers, StopBegins DEF SoftRestart, TypeOK
    <3>2. w \in beating => w \in beating' BY <1>11, <2>3 DEF SoftRestart
    <3> QED BY <2>0, <2>1, <3>1, <3>2 DEF Attended, StartsUnderWay
  <2> QED BY <2>2, <2>3
<1>12. ASSUME NEW c \in Channel, SoftRestartGoesOn(c) PROVE Attended(w)'
  <2>0. w \in wanted /\ UNCHANGED <<attempts, timers, beating, abandoned>> /\ up' = up \ {c}
    BY <1>12 DEF SoftRestartGoesOn
  <2>1. CASE w = c
    <3>1. starts'[c]["softRestart"] = starts[c]["softRestart"] + 1
          /\ starts[c]["softRestart"] \in Nat
      BY <1>12, Callers, StartBegins DEF SoftRestartGoesOn, TypeOK
    <3> QED BY <2>1, <3>1, Callers DEF Attended, StartsUnderWay
  <2>2. CASE w # c
    <3>1. w \in Channel /\ Attended(w) BY <1>0, <2>0, <2>2
    <3>2. \A k \in StartCaller : starts'[w][k] = starts[w][k]
      BY <1>12, <2>2, <3>1, Callers, StartBegins DEF SoftRestartGoesOn, TypeOK
    <3>3. stops'[w]["softRestart"] = stops[w]["softRestart"]
      BY <1>12, <2>2, <3>1, Callers, StopIsOver DEF SoftRestartGoesOn, TypeOK
    <3> QED BY <2>0, <3>1, <3>2, <3>3 DEF Attended, StartsUnderWay
  <2> QED BY <2>1, <2>2
<1>13. ASSUME NEW c \in Channel, SoftRestartThrows(c) PROVE Attended(w)'
  <2>0. w \in wanted /\ UNCHANGED <<attempts, timers, starts, beating, up>> /\ abandoned' = abandoned \cup {c}
    BY <1>13 DEF SoftRestartThrows
  <2>1. w # c /\ w \in Channel /\ Attended(w) BY <1>0, <2>0
  <2>2. stops'[w]["softRestart"] = stops[w]["softRestart"]
    BY <1>13, <2>1, Callers, StopIsOver DEF SoftRestartThrows, TypeOK
  <2> QED BY <2>0, <2>1, <2>2 DEF Attended, StartsUnderWay
<1> QED
  BY <1>1, <1>2, <1>3, <1>4, <1>5, <1>6, <1>7, <1>8, <1>9, <1>10, <1>11, <1>12, <1>13
  DEF Next, ChannelNext, StartSettles

-----------------------------------------------------------------------------
\* The strengthened invariant of the channel manager holds in every behaviour.
THEOREM Inductive == Spec => []IInv
<1>1. Init => IInv BY InitEstablishes
<1>2. IInv /\ [Next]_vars => IInv'
  BY TypeStep, HeldStep, WantedStep, AttendedStep DEF IInv
<1> QED BY <1>1, <1>2, PTL DEF Spec

\* The manager's state keeps its type: no count of starts, stops or timers goes below zero.
THEOREM TypeCorrect == Spec => []TypeOK
<1>1. IInv => TypeOK BY DEF IInv
<1> QED BY <1>1, Inductive, PTL

(***************************************************************************)
(* stopChannel is kept: what no start was under way for stays down until   *)
(* start or startChannel, whatever timers and checks were left.            *)
(***************************************************************************)
THEOREM StopIsKept == Spec => []HeldStaysDown
<1>1. IInv => HeldStaysDown BY DEF IInv, HeldIsQuiet, HeldStaysDown
<1> QED BY <1>1, Inductive, PTL

(***************************************************************************)
(* A channel that is to run and is down has a start or a restart on its    *)
(* way, a heartbeat that will find it, or no attempts left.                *)
(***************************************************************************)
THEOREM NoChannelForgotten == Spec => []DownIsAttended
<1>1. IInv => DownIsAttended
  BY DEF IInv, TypeOK, WantedIsAttended, Attended, DownIsAttended
<1> QED BY <1>1, Inductive, PTL
=============================================================================
