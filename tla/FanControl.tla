----------------------------- MODULE FanControl -----------------------------
(* The radiator fan: src/fan/control.ts puts commands on the bridge one at a   *)
(* time, src/fan/auto.ts decides them in automatic, manual or fun mode,        *)
(* src/fan/fun-runner.ts follows the throttle, src/fan/gesture-runner.ts steps *)
(* the fan round from the handlebar.  Every write to the bridge is a step of   *)
(* its own and may fail; everything else interleaves with them.                *)
EXTENDS Naturals, Sequences

CONSTANTS Floor, Full,      \* MIN_RUNNING_DUTY_PERCENT and MAX_DUTY_PERCENT
          SliderDuties,     \* the duties the slider is moved to
          Heats,            \* what the curve's inputs come to
          Bikes,            \* what speed, go and their freshness come to
          MaxQueue,         \* commands waiting at once (a bound of the model)
          MaxInputs,        \* taps, drags and holds (a bound of the model)
          MaxFaults         \* writes that fail (a bound of the model)

ASSUME FanDuties == /\ Floor \in Nat /\ Full \in Nat /\ 0 < Floor /\ Floor < Full
                    /\ SliderDuties \subseteq {0, Floor, Full}
                    /\ Heats \subseteq {"cold", "warm", "hot"}
                    /\ Bikes \subseteq {"parked", "creeping", "riding", "silent"} /\ "parked" \in Bikes
ASSUME FanBounds == MaxQueue \in Nat /\ MaxInputs \in Nat /\ MaxFaults \in Nat

Duties == {0, Floor, Full}
None == "none"
Forgotten == Full + 1       \* lastCommandedPercent null
Nobody == [duty |-> 0, by |-> "nobody"]
Modes == {"automatic", "manual", "fun"}
ENABLE_GPIOS == {17, 27}    \* the bridge is enabled by both of them HIGH

VARIABLES pins, output, pwmDuty, hung,            \* the enables that are HIGH, the PWM; a write that never returns
          phase, target, bridgeEnabled, kickTimer, stray, kick,  \* control.ts FanContext
          queue, step, failed,                    \* runExclusively's chain; its head's progress
          fanMode, lastCommanded, funInFlight, funPending, \* auto.ts AutoContext
          offTimer, movingSince, holding,         \* gesture-runner.ts, runner.ts inFlight
          fanBike, heat,                          \* what the signals say, while fresh
          service, inputs, faults,
          asked                                   \* history: the last manual command and its author

hardware == <<pins, output, pwmDuty, hung>>
context == <<phase, target, bridgeEnabled, kickTimer, stray, kick>>
chain == <<queue, step, failed>>
loop == <<fanMode, lastCommanded, funInFlight, funPending>>
gesture == <<offTimer, movingSince, holding>>
signals == <<fanBike, heat>>
budget == <<inputs, faults>>
fanVars == <<hardware, context, chain, loop, gesture, signals, service, budget, asked>>

Callers == {"curve", "handback", "fun", "slider", "gesture", "hold", "revert"}
Job(duty, by) == [kind |-> "duty", duty |-> duty, by |-> by]
KickJob == [kind |-> "kick", duty |-> 0, by |-> "curve"]
StopJob == [kind |-> "stop", duty |-> 0, by |-> "curve"]

FanTypeOK ==
  /\ pins \subseteq ENABLE_GPIOS /\ output \in {"off", "on"} /\ pwmDuty \in Duties /\ hung \in {"no", "yes"}
  /\ phase \in {"idle", "kick-start", "running"} /\ target \in Duties
  /\ bridgeEnabled \in {"no", "yes"} /\ kickTimer \in {None, "armed"} /\ stray \in {"no", "yes"} /\ kick \in {"short", "full"}
  /\ queue \in Seq([kind : {"duty", "kick", "stop"}, duty : Duties, by : Callers])
  /\ step \in {"ready", "kick duty", "kick output", "kick bridge", "apply",
               "idle bridge", "idle output", "idle duty"}
  /\ failed \in {"no", "yes"}
  /\ fanMode \in Modes /\ lastCommanded \in Duties \union {Forgotten}
  /\ funInFlight \in {"no", "yes"} /\ funPending \in {"no", "yes"}
  /\ offTimer \in {None, "armed"} /\ movingSince \in {None, "above"} /\ holding \in {"no", "yes"}
  /\ fanBike \in Bikes /\ heat \in Heats
  /\ service \in {"up", "stopping", "exited"}
  /\ inputs \in 0..MaxInputs /\ faults \in 0..MaxFaults
  /\ asked \in [duty : Duties, by : {"slider", "gesture", "nobody"}]

FanInit ==
  /\ pins = {} /\ output = "off" /\ pwmDuty = 0 /\ hung = "no"
  /\ phase = "idle" /\ target = 0 /\ bridgeEnabled = "no" /\ kickTimer = None /\ stray = "no" /\ kick = "short"
  /\ queue = <<>> /\ step = "ready" /\ failed = "no"
  /\ fanMode = "automatic" /\ lastCommanded = Forgotten /\ funInFlight = "no" /\ funPending = "no"
  /\ offTimer = None /\ movingSince = None /\ holding = "no"
  /\ fanBike = "parked" /\ heat \in Heats
  /\ service = "up" /\ inputs = 0 /\ faults = 0 /\ asked = Nobody

-----------------------------------------------------------------------------
(* What the loop decides.  The curve's inputs, pack temperature, road speed    *)
(* and charging session, come to one of three: off, on, or inside the          *)
(* hysteresis, where the answer is whether the bridge is enabled now.          *)
CurveDuty == CASE heat = "cold" -> 0
               [] heat = "warm" -> IF bridgeEnabled = "yes" THEN Floor ELSE 0
               [] heat = "hot" -> Full

(* funGate: go clear, speed 0 and a throttle, all fresh. *)
FunGateAllows == fanBike = "parked"

(* evaluate() below its mode check: command only what is not in force already. *)
CommandCurve(waiting, last) ==
  /\ lastCommanded' = last
  /\ queue' = IF CurveDuty = last THEN waiting ELSE Append(waiting, Job(CurveDuty, "curve"))

(* handBackToCurve: the mode moves before the first await, and the curve commands. *)
HandBack(waiting, by) ==
  /\ fanMode' = "automatic" /\ lastCommanded' = Forgotten
  /\ queue' = Append(waiting, Job(CurveDuty, by))

(* One turn of driveFun's loop, wherever the throttle is at that moment. *)
FunTurn(waiting, last) ==
  /\ funPending' = "no"
  /\ \/ /\ ~FunGateAllows
        /\ funInFlight' = "yes"
        /\ HandBack(waiting, "handback")
     \/ /\ FunGateAllows
        /\ fanMode' = "fun" /\ lastCommanded' = last
        /\ \E throttle \in {Floor, Full} :
             IF throttle = last THEN funInFlight' = "no" /\ queue' = waiting
             ELSE funInFlight' = "yes" /\ queue' = Append(waiting, Job(throttle, "fun"))

\* Mutant: a pass during a pass only marks the work.
DriveFunMarking(last) ==
  \/ funInFlight = "no" /\ FunTurn(queue, last)
  \/ /\ funInFlight = "yes"
     /\ funPending' = "yes" /\ fanMode' = "fun" /\ lastCommanded' = last /\ UNCHANGED <<funInFlight, queue>>

(* driveFun: a pass during a pass marks the work, but reads the gate itself. *)
DriveFun(last) ==
  \/ funInFlight = "no" /\ FunTurn(queue, last)
  \/ /\ funInFlight = "yes"
     /\ UNCHANGED funInFlight
     /\ IF FunGateAllows
        THEN funPending' = "yes" /\ fanMode' = "fun" /\ lastCommanded' = last /\ UNCHANGED queue
        ELSE UNCHANGED funPending /\ HandBack(queue, "curve")

RoomInQueue == Len(queue) < MaxQueue

(* The 2 s tick, 250 ms in fun mode. *)
Tick ==
  /\ service = "up"
  /\ CASE fanMode = "fun" -> DriveFun(lastCommanded)
       [] fanMode = "automatic" -> RoomInQueue /\ CommandCurve(queue, lastCommanded) /\ UNCHANGED <<fanMode, funInFlight, funPending>>
       [] fanMode = "manual" -> UNCHANGED <<loop, queue>>
  /\ UNCHANGED <<hardware, context, step, failed, gesture, signals, service, budget, asked>>

(* onSignalsChanged: the throttle, go or the speed moved, in fun mode. *)
SignalsChanged ==
  /\ service = "up" /\ fanMode = "fun"
  /\ DriveFun(lastCommanded)
  /\ UNCHANGED <<hardware, context, step, failed, gesture, signals, service, budget, asked>>

-----------------------------------------------------------------------------
(* What the rider does. *)
RoomForInput == inputs < MaxInputs /\ RoomInQueue /\ service = "up"
Counted == inputs' = inputs + 1 /\ UNCHANGED faults

\* Mutant: the slider's command leaves the curve in charge of the mode.
CommandInMode(duty, by) ==
  /\ lastCommanded' = Forgotten /\ UNCHANGED <<fanMode, funInFlight, funPending>>
  /\ queue' = Append(queue, Job(duty, by))
  /\ asked' = [duty |-> duty, by |-> by]

CommandManual(duty, by) ==
  /\ fanMode' = "manual" /\ lastCommanded' = Forgotten /\ UNCHANGED <<funInFlight, funPending>>
  /\ queue' = Append(queue, Job(duty, by))
  /\ asked' = [duty |-> duty, by |-> by]

SwitchToAutomatic(by) ==
  /\ HandBack(queue, by) /\ asked' = Nobody
  /\ UNCHANGED <<funInFlight, funPending>>

(* POST /fan?duty. *)
Slide(duty) ==
  /\ RoomForInput /\ Counted
  /\ CommandManual(duty, "slider")
  /\ UNCHANGED <<hardware, context, step, failed, gesture, signals, service>>

(* POST /fan?mode: switchMode, and enterFun, which a closed gate refuses. *)
TapMode(to) ==
  /\ RoomForInput /\ Counted
  /\ CASE to = "automatic" -> SwitchToAutomatic("curve")
       [] to = "manual" -> fanMode' = "manual" /\ asked' = Nobody /\ UNCHANGED <<queue, lastCommanded, funInFlight, funPending>>
       [] to = "fun" -> IF FunGateAllows THEN DriveFun(Forgotten) /\ asked' = Nobody ELSE UNCHANGED <<loop, queue, asked>>
  /\ UNCHANGED <<hardware, context, step, failed, gesture, signals, service>>

(* nextFanGestureAction *)
NextGesture == CASE fanMode = "fun" -> "automatic"
                 [] fanMode = "automatic" -> "full"
                 [] fanMode = "manual" -> IF target # 0 /\ fanBike \in {"parked", "creeping"} THEN "off" ELSE "automatic"

(* MODE ENTER held: stepTheFan.  A hold during the last one's command is ignored. *)
FireHold ==
  /\ RoomForInput /\ Counted /\ holding = "no"
  /\ offTimer' = None /\ movingSince' = None /\ holding' = "yes"
  /\ CASE NextGesture = "automatic" -> SwitchToAutomatic("hold")
       [] NextGesture = "full" -> CommandManual(Full, "gesture")
       [] NextGesture = "off" -> CommandManual(0, "gesture")
  /\ UNCHANGED <<hardware, context, step, failed, signals, service>>

(* checkForMovement: one beat of the watch over an off the gesture commanded. *)
Beat ==
  /\ service # "exited" /\ offTimer = "armed"
  /\ IF fanMode # "manual" \/ target # 0
     THEN offTimer' = None /\ movingSince' = None /\ UNCHANGED <<loop, queue, asked>>
     ELSE /\ UNCHANGED offTimer
          /\ IF fanBike = "riding" /\ movingSince = "above"
             THEN SwitchToAutomatic("revert") /\ UNCHANGED movingSince
             ELSE movingSince' = (IF fanBike = "riding" THEN "above" ELSE None) /\ UNCHANGED <<loop, queue, asked>>
  /\ UNCHANGED <<hardware, context, step, failed, holding, signals, service, budget>>

SignalsMove ==
  /\ \/ fanBike' \in Bikes /\ UNCHANGED heat
     \/ heat' \in Heats /\ UNCHANGED fanBike
  /\ service # "exited"
  /\ UNCHANGED <<hardware, context, chain, loop, gesture, service, budget, asked>>

-----------------------------------------------------------------------------
(* control.ts: the head of the chain, one write at a time. *)
Head1 == queue[1]
Working == service # "exited" /\ queue # <<>> /\ hung = "no"

(* The loop's half of a settled command: the code behind the await. *)
LoopSettles(ok) ==
  LET last == IF ok THEN Head1.duty ELSE Forgotten
      rest == Tail(queue)
  IN CASE Head1.kind # "duty" \/ Head1.by \in {"slider", "gesture"} -> queue' = rest /\ UNCHANGED loop
       [] Head1.by \in {"curve", "hold", "revert"} ->
            queue' = rest /\ lastCommanded' = last /\ UNCHANGED <<fanMode, funInFlight, funPending>>
       [] Head1.by = "handback" ->
            queue' = rest /\ lastCommanded' = last /\ funInFlight' = "no" /\ UNCHANGED <<fanMode, funPending>>
       [] Head1.by = "fun" ->
            IF funPending = "yes" /\ fanMode = "fun" THEN FunTurn(rest, last)
            ELSE queue' = rest /\ lastCommanded' = last /\ funInFlight' = "no" /\ UNCHANGED <<fanMode, funPending>>

\* Mutant: the watch is armed only when the command landed.
GestureSettlesIfDone ==
  LET disarmed == Head1.by = "revert" \/ target' # 0
      off == Head1.by = "gesture" /\ Head1.duty = 0 /\ pins' = {}
  IN /\ offTimer' = (IF off THEN "armed" ELSE IF disarmed THEN None ELSE offTimer)
     /\ movingSince' = (IF disarmed /\ ~off THEN None ELSE movingSince)
     /\ holding' = (IF Head1.by \in {"gesture", "hold"} THEN "no" ELSE holding)

(* The gesture's half.  disarmIfSomebodyElseHasTheFan hears of a target that is *)
(* no longer 0; armRevert comes after the await, whatever the command said.     *)
GestureSettles ==
  LET disarmed == Head1.by = "revert" \/ target' # 0
      off == Head1.by = "gesture" /\ Head1.duty = 0
  IN /\ offTimer' = (IF off THEN "armed" ELSE IF disarmed THEN None ELSE offTimer)
     /\ movingSince' = (IF disarmed /\ ~off THEN None ELSE movingSince)
     /\ holding' = (IF Head1.by \in {"gesture", "hold"} THEN "no" ELSE holding)

Settle(ok) ==
  /\ step' = "ready" /\ failed' = "no"
  /\ LoopSettles(ok) /\ GestureSettles

Goes(to) == step' = to /\ UNCHANGED <<queue, loop, gesture>>

(* The synchronous first part of commandDuty, finishKickStart and stop.  A kick *)
(* that waited behind a stop and a start forgets the new kick's timer, which     *)
(* goes on running unknown: a stray.                                            *)
Start ==
  /\ Working /\ step = "ready"
  /\ CASE Head1.kind = "stop" \/ (Head1.kind = "duty" /\ Head1.duty < Floor) ->
            kickTimer' = None /\ Goes("idle bridge") /\ UNCHANGED <<target, failed, stray>>
       [] Head1.kind = "duty" /\ Head1.duty >= Floor ->
            /\ target' = Head1.duty /\ UNCHANGED <<kickTimer, stray>>
            /\ IF phase = "kick-start" THEN Settle(TRUE)
               ELSE Goes(IF phase = "idle" THEN "kick duty" ELSE "apply") /\ UNCHANGED failed
       [] Head1.kind = "kick" ->
            /\ stray' = (IF kickTimer = "armed" THEN "yes" ELSE stray)
            /\ UNCHANGED target
            /\ IF phase = "kick-start" /\ kick = "full" THEN kickTimer' = None /\ Goes("apply") /\ UNCHANGED failed
               ELSE kickTimer' = (IF phase = "kick-start" THEN "armed" ELSE None) /\ Settle(TRUE)
  /\ UNCHANGED <<hardware, phase, bridgeEnabled, kick, signals, service, budget, asked>>

(* A write that succeeds. *)
Write ==
  /\ Working /\ step # "ready"
  /\ CASE step = "kick duty" -> pwmDuty' = Full /\ Goes("kick output") /\ UNCHANGED <<pins, output, context, failed>>
       [] step = "kick output" -> output' = "on" /\ Goes("kick bridge") /\ UNCHANGED <<pins, pwmDuty, context, failed>>
       [] step = "kick bridge" ->
            /\ pins' = ENABLE_GPIOS /\ bridgeEnabled' = "yes" /\ phase' = "kick-start" /\ kickTimer' = "armed" /\ kick' = "short"
            /\ UNCHANGED <<output, pwmDuty, target, stray>> /\ Settle(TRUE)
       [] step = "apply" ->
            /\ pwmDuty' = target /\ phase' = "running" /\ kick' = "short"
            /\ UNCHANGED <<pins, output, target, bridgeEnabled, kickTimer, stray>> /\ Settle(TRUE)
       [] step = "idle bridge" ->
            /\ pins' = {} /\ bridgeEnabled' = "no" /\ Goes("idle output")
            /\ UNCHANGED <<output, pwmDuty, phase, target, kickTimer, stray, kick, failed>>
       [] step = "idle output" -> output' = "off" /\ Goes("idle duty") /\ UNCHANGED <<pins, pwmDuty, context, failed>>
       [] step = "idle duty" ->
            /\ pwmDuty' = 0 /\ target' = 0 /\ phase' = "idle" /\ kick' = "short"
            /\ UNCHANGED <<pins, output, bridgeEnabled, kickTimer, stray>> /\ Settle(failed = "no")
  /\ UNCHANGED <<hung, signals, service, budget, asked>>

(* A write that fails changes nothing; setEnablePins drives 17 and then 27, and  *)
(* gives up at the one that refuses.  A start that fails goes idle; going idle    *)
(* goes on, except that the PWM is left driving a bridge that could not be        *)
(* switched off.                                                                  *)
PinsAfterFailure == CASE step = "kick bridge" -> {pins, pins \union {17}}
                      [] step = "idle bridge" -> {pins, pins \ {17}}
                      [] OTHER -> {pins}

\* Mutant: the PWM is switched off whatever the enables did.
LeftAlone == FALSE

(* "left the PWM driving on purpose": the bridge could not be switched off. *)
LeftDriving == step = "idle bridge" /\ bridgeEnabled = "yes"

WriteFails ==
  /\ Working /\ step # "ready" /\ faults < MaxFaults
  /\ faults' = faults + 1
  /\ pins' \in PinsAfterFailure
  /\ IF step \in {"idle output", "idle duty"} \/ LeftDriving
     THEN /\ target' = 0 /\ phase' = "idle" /\ kick' = "short" /\ Settle(FALSE)
          /\ UNCHANGED <<bridgeEnabled, kickTimer, stray>>
     ELSE /\ failed' = "yes"
          /\ Goes(IF step = "idle bridge" THEN "idle output" ELSE "idle bridge")
          /\ kickTimer' = (IF step = "idle bridge" THEN kickTimer ELSE None)
          /\ UNCHANGED <<phase, target, bridgeEnabled, stray, kick>>
  /\ UNCHANGED <<output, pwmDuty, hung, signals, service, inputs, asked>>

WriteHangs ==
  /\ Working /\ step # "ready" /\ faults < MaxFaults
  /\ faults' = faults + 1 /\ hung' = "yes"
  /\ UNCHANGED <<pins, output, pwmDuty, context, chain, loop, gesture, signals, service, inputs, asked>>

KickTimerFires ==
  /\ service # "exited"
  /\ \/ kickTimer = "armed" /\ kickTimer' = None /\ kick' = "full" /\ UNCHANGED stray
     \/ stray = "yes" /\ stray' = "no" /\ UNCHANGED <<kickTimer, kick>>
  /\ queue' = Append(queue, KickJob)
  /\ UNCHANGED <<hardware, phase, target, bridgeEnabled, step, failed, loop, gesture, signals, service, budget, asked>>

(* The fan's steps of the shutdown: gesture, loop, bridge. *)
Shutdown ==
  /\ service = "up" /\ RoomInQueue
  /\ service' = "stopping"
  /\ offTimer' = None /\ movingSince' = None
  /\ queue' = Append(queue, StopJob)
  /\ UNCHANGED <<hardware, context, step, failed, loop, holding, signals, budget, asked>>

(* The steps after "idle the fan bridge" take a while, and then the process goes. *)
Exit ==
  /\ service = "stopping" /\ \A i \in DOMAIN queue : queue[i].kind # "stop"
  /\ service' = "exited"
  /\ UNCHANGED <<hardware, context, chain, loop, gesture, signals, budget, asked>>

FanNext ==
  \/ Tick \/ SignalsChanged \/ SignalsMove
  \/ \E duty \in SliderDuties : Slide(duty)
  \/ \E to \in Modes : TapMode(to)
  \/ FireHold \/ Beat
  \/ Start \/ Write \/ WriteFails \/ WriteHangs \/ KickTimerFires
  \/ Shutdown \/ Exit

(* Node runs its timers, and the chain goes on unless a write hangs. *)
FanSpec == FanInit /\ [][FanNext]_fanVars /\ WF_fanVars(Tick) /\ WF_fanVars(Beat) /\ WF_fanVars(KickTimerFires)
             /\ WF_fanVars(Start \/ Write \/ WriteFails)

-----------------------------------------------------------------------------
(* The enables are never both HIGH over an output that is off or at duty 0: that *)
(* is the electrical brake goIdle's and beginKickStart's order exists to avoid,  *)
(* whatever write fails half-way.                                                *)
NeverBrakes == pins = ENABLE_GPIOS => output = "on" /\ pwmDuty # 0

(* Once the chain is idle in manual mode the fan has what was asked for by hand *)
(* last, or a write failed and it is stopped: no tick, fun pass or kick queued   *)
(* earlier overrides the slider (auto.ts:evaluate, commandManual).               *)
ManualHolds ==
  (service = "up" /\ asked # Nobody /\ queue = <<>>) =>
     \/ target = asked.duty /\ (phase = "running" => pwmDuty = target)
     \/ target = 0 /\ faults > 0

(* Fun mode never outlives its gate, even while a write hangs (driveFun reads   *)
(* the gate on the pass it does not run).                                       *)
FunEndsWithGate == (fanMode = "fun" /\ [](fanBike # "parked")) ~> (fanMode # "fun" \/ service # "up")

(* An off commanded from the handlebar never follows the rider onto a road: the *)
(* beat hands the fan back unless the rider asks for something else.             *)
Off == [duty |-> 0, by |-> "gesture"]
OffComesBack ==
  (asked = Off /\ [](fanBike = "riding" /\ hung = "no"))
     ~> (asked # Off \/ target # 0 \/ service # "up")

(* In automatic mode over a hot pack the fan ends up running flat out once       *)
(* writes stop failing: "Forgotten on failure so the next tick retries".         *)
FanFollowsCurve ==
  <>[](fanMode = "automatic" /\ heat = "hot" /\ hung = "no" /\ service = "up")
     => <>[](pins = ENABLE_GPIOS /\ output = "on" /\ pwmDuty = Full)

(* A process that was asked to stop leaves the bridge in standby unless a write *)
(* failed: the loop is stopped before the bridge is idled.                      *)
ExitsInStandby == service = "exited" /\ faults = 0 => pins = {}
=============================================================================
