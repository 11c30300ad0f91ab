-------------------------- MODULE ControllerProofs --------------------------
(* The two controllers of the process that command by themselves.             *)
(*                                                                            *)
(* Charge current, for every ceiling, floor, step and length of the queue of  *)
(* frames: while it is switched on, the controller says that the rider has the *)
(* current exactly while it stands down, it commands nothing while the rider  *)
(* is owed that, and in a DC session it stands down for nobody else.          *)
(*                                                                            *)
(* Fan, for all duties and any number of commands, inputs and failing writes: *)
(* the bridge is never made a brake, and the last command given by hand stands. *)
EXTENDS ChargeControl, FanControl, SequenceTheorems, TLAPS

(* What the two properties rest on.  The second conjunct is what makes the    *)
(* rider win: every way to owe a stand-down is a way to stand down, and a      *)
(* stand-down ends only where the debt ends.                                   *)
Stance == /\ mode \in {"automatic", "off"}
          /\ riderOverride \in {"standing down", "free"}
Inv == /\ Stance
       /\ ReasonMovesWithFlag
       /\ rider = "owed" => riderOverride = "standing down"

(* decideChargeCurrent answers RIDER to a controller that is on exactly when  *)
(* it stands down.                                                            *)
LEMMA VerdictNamesRider ==
  ASSUME NEW override \in {"standing down", "free"}, NEW session, NEW young,
         NEW commanded,
         NEW v \in Verdicts("automatic", override, session, young, commanded)
  PROVE  v.reason = "RIDER" <=> override = "standing down"
<1> DEFINE current == IF commanded = 0 THEN Ceiling ELSE commanded
<1>1. ASSUME NEW wanted PROVE stepTo(wanted, current).reason = "RULE"
  BY DEF stepTo, Hold
<1>2. ASSUME NEW m \in Measured(commanded) PROVE m.reason = "RULE"
  <2>1. m = Hold("RULE") \/ \E s \in -MaxStep..MaxStep : m = stepTo(current + s, current)
    BY DEF Measured
  <2>2. CASE m = Hold("RULE")
    BY <2>2 DEF Hold
  <2>3. ASSUME NEW s \in -MaxStep..MaxStep, m = stepTo(current + s, current)
        PROVE  m.reason = "RULE"
    BY <2>3, <1>1
  <2> QED BY <2>1, <2>2, <2>3
<1>3. CASE override = "standing down"
  <2>1. v = Hold("RIDER")
    BY <1>3, "standing down" # "free" DEF Verdicts
  <2> QED BY <2>1, <1>3 DEF Hold
<1>4. CASE override = "free" /\ (session # "dc" \/ ~young)
  BY <1>4 DEF Verdicts, Hold
<1>5. CASE override = "free" /\ ~(session # "dc" \/ ~young)
  BY <1>2, <1>5 DEF Verdicts
<1> QED BY <1>3, <1>4, <1>5

(* A command is a verdict of a controller that does not stand down.           *)
LEMMA CommandWhenFree ==
  ASSUME NEW wanted, NEW override, NEW session, NEW young, NEW commanded,
         NEW v \in Verdicts(wanted, override, session, young, commanded),
         v.kind = "command"
  PROVE  wanted = "automatic" /\ override = "free"
BY DEF Verdicts, Hold

LEMMA InvInit == Init => Inv
  BY DEF Init, Inv, Stance, ReasonMovesWithFlag

LEMMA InvStep == Inv /\ [Next]_vars => Inv'
<1> SUFFICES ASSUME Inv, [Next]_vars PROVE Inv'
  OBVIOUS
<1> USE DEF Inv, Stance, ReasonMovesWithFlag
<1>1. CASE UNCHANGED vars
  BY <1>1 DEF vars, memory
<1>2. ASSUME NEW s \in Sessions, Plug(s) PROVE Inv'
  BY <1>2 DEF Plug, Pi, memory
<1>3. CASE Unplug
  BY <1>3 DEF Unplug, Pi, memory
<1>4. CASE Broadcast
  BY <1>4 DEF Broadcast, Pi, memory
<1>5. CASE TakeCommit
  BY <1>5 DEF TakeCommit, Pi, memory
<1>6. ASSUME NEW a \in Current, Dial(a) PROVE Inv'
  BY <1>6 DEF Dial, Pi, memory
<1>7. ASSUME NEW a \in Current, SetByHand(a) PROVE Inv'
  BY <1>7 DEF SetByHand, performChargeCurrent, noteChargeCurrentOutgoing
<1>8. ASSUME NEW m \in {"automatic", "off"}, setMode(m) PROVE Inv'
  <2>1. PICK v \in Verdicts(m, riderOverride', seen, fresh, lastCommand) : reason' = v.reason
    BY <1>8 DEF setMode
  <2>2. mode' = m /\ rider' = IF m = "automatic" THEN "quiet" ELSE rider
    BY <1>8 DEF setMode
  <2>3. riderOverride' = IF m = "automatic" THEN "free" ELSE riderOverride
    BY <1>8 DEF setMode
  <2>4. riderOverride' \in {"standing down", "free"}
    BY <2>3
  <2>5. m = "automatic" => (reason' = "RIDER" <=> riderOverride' = "standing down")
    BY <2>1, <2>4, VerdictNamesRider
  <2> QED BY <2>2, <2>3, <2>4, <2>5
<1>9. CASE Hear
  <2>1. PICK e : HearSession(e.value) \/ HearSetpoint(e)
    BY <1>9 DEF Hear
  <2>2. CASE HearSession(e.value) /\ e.value # seen
    <3>1. mode' = mode /\ rider' = "quiet" /\ riderOverride' = "free"
      BY <2>2 DEF HearSession, forgetSession
    <3>2. PICK v \in Verdicts(mode, "free", e.value, TRUE, 0) : reason' = v.reason
      BY <2>2 DEF HearSession, forgetSession
    <3>3. mode = "automatic" => reason' # "RIDER"
      BY <3>2, VerdictNamesRider
    <3> QED BY <3>1, <3>3
  <2>3. CASE HearSession(e.value) /\ e.value = seen
    BY <2>3 DEF HearSession, memory
  <2>4. CASE HearSetpoint(e)
    <3>1. mode' = mode /\ rider' = Owed(e)
      BY <2>4 DEF HearSetpoint
    <3>2. CASE e.value # logged /\ isRiderSetpoint(e.value)
      BY <3>1, <3>2, <2>4 DEF HearSetpoint, standDown
    <3>3. CASE ~(e.value # logged /\ isRiderSetpoint(e.value))
      <4>1. UNCHANGED <<riderOverride, reason>>
        BY <3>3, <2>4 DEF HearSetpoint
      <4>2. Owed(e) = "owed" => rider = "owed"
        BY <3>3 DEF Owed, isRiderSetpoint
      <4> QED BY <3>1, <4>1, <4>2
    <3> QED BY <3>2, <3>3
  <2> QED BY <2>1, <2>2, <2>3, <2>4
<1>10. CASE GoStale
  BY <1>10 DEF GoStale, memory
<1>11. CASE runTick
  <2>1. PICK v \in Verdicts(mode, riderOverride, seen, fresh, lastCommand) :
          Command(v) \/ Decided(v)
    BY <1>11 DEF runTick
  <2>2. reason' = v.reason /\ UNCHANGED <<mode, riderOverride, rider>>
    BY <2>1 DEF Command, Decided, performChargeCurrent, noteChargeCurrentOutgoing
  <2>3. mode = "automatic" => (v.reason = "RIDER" <=> riderOverride = "standing down")
    BY VerdictNamesRider
  <2> QED BY <2>2, <2>3
<1>12. CASE SecondFrame
  BY <1>12 DEF SecondFrame, Rest
<1>13. CASE FinishCommand
  BY <1>13 DEF FinishCommand, Rest
<1> HIDE DEF Inv
<1> QED BY <1>1, <1>2, <1>3, <1>4, <1>5, <1>6, <1>7, <1>8, <1>9, <1>10, <1>11,
           <1>12, <1>13 DEF Next

LEMMA InvHolds == Spec => []Inv
  BY InvInit, InvStep, PTL DEF Spec

(* Every other step leaves the command alone or ends it.                      *)
LEMMA CommandSteps ==
  ASSUME [Next]_vars
  PROVE  \/ runTick \/ \E a \in Current : SetByHand(a)
         \/ TakeCommit \/ Hear \/ SecondFrame
         \/ command' = command \/ command' = NoCommand
<1>1. CASE UNCHANGED vars
  BY <1>1 DEF vars
<1>2. ASSUME NEW s \in Sessions, Plug(s) PROVE command' = command
  BY <1>2 DEF Plug, Pi
<1>3. CASE Unplug \/ Broadcast
  BY <1>3 DEF Unplug, Broadcast, Pi
<1>4. ASSUME NEW a \in Current, Dial(a) PROVE command' = command
  BY <1>4 DEF Dial, Pi
<1>5. ASSUME NEW m \in {"automatic", "off"}, setMode(m) PROVE command' = command
  BY <1>5 DEF setMode
<1>6. CASE GoStale
  BY <1>6 DEF GoStale
<1>7. CASE FinishCommand
  BY <1>7 DEF FinishCommand
<1> QED BY <1>1, <1>2, <1>3, <1>4, <1>5, <1>6, <1>7 DEF Next

(* The command is at all times a record with an author.                       *)
Authored == "by" \in DOMAIN command

LEMMA AuthoredHolds == Spec => []Authored
<1>1. Init => Authored
  BY DEF Init, NoCommand, Authored
<1>2. Authored /\ [Next]_vars => Authored'
  <2> SUFFICES ASSUME Authored, [Next]_vars PROVE Authored'
    OBVIOUS
  <2> USE DEF Authored
  <2>1. CASE TakeCommit \/ Hear \/ SecondFrame
    <3>1. \/ command' = command
          \/ \E x : command' = [command EXCEPT !.step = x]
      BY <2>1 DEF TakeCommit, Pi, Hear, HearSession, HearSetpoint, SecondFrame
    <3> QED BY <3>1
  <2>2. CASE runTick \/ \E a \in Current : SetByHand(a)
    BY <2>2 DEF runTick, Command, Decided, SetByHand, performChargeCurrent, sent,
       notSent, NoCommand
  <2>3. CASE command' = command \/ command' = NoCommand
    BY <2>3 DEF NoCommand
  <2> QED BY <2>1, <2>2, <2>3, CommandSteps
<1> QED BY <1>1, <1>2, PTL DEF Spec

(* ReasonMovesWithFlag: while the controller is on, the reason it publishes   *)
(* is RIDER exactly while it stands down, after every listener, tick, change  *)
(* of mode and hand-set current (auto.ts setReason and its callers).          *)
THEOREM SentenceMovesWithFlag == Spec => []ReasonMovesWithFlag
<1>1. Inv => ReasonMovesWithFlag
  BY DEF Inv
<1> QED BY <1>1, InvHolds, PTL

(* RiderWins: no automatic command leaves while the rider is owed a           *)
(* stand-down (auto.ts runTick against the listener and the phone).           *)
THEOREM NoCommandAgainstRider == Spec => RiderWins
<1>1. Inv /\ Authored /\ [Next]_vars => [Automatic => rider # "owed"]_vars
  <2> SUFFICES ASSUME Inv, Authored, Next, Automatic PROVE rider # "owed"
    OBVIOUS
  <2>1. CASE runTick
    <3>1. PICK v \in Verdicts(mode, riderOverride, seen, fresh, lastCommand) : Command(v)
      BY <2>1 DEF runTick, Decided, Automatic
    <3>2. riderOverride = "free"
      BY <3>1, CommandWhenFree DEF Command
    <3> QED BY <3>2 DEF Inv
  <2>2. ASSUME NEW a \in Current, SetByHand(a) PROVE FALSE
    BY <2>2 DEF SetByHand, performChargeCurrent, sent, notSent, NoCommand, Automatic
  <2>3. CASE TakeCommit \/ Hear \/ SecondFrame
    <3>1. \/ command' = command
          \/ \E x : command' = [command EXCEPT !.step = x]
      BY <2>3 DEF TakeCommit, Pi, Hear, HearSession, HearSetpoint, SecondFrame
    <3>2. command'.by = command.by
      BY <3>1 DEF Authored
    <3> QED BY <3>2 DEF Automatic
  <2>4. CASE command' = command \/ command' = NoCommand
    BY <2>4 DEF NoCommand, Automatic
  <2> QED BY <2>1, <2>2, <2>3, <2>4, CommandSteps
<1> QED BY <1>1, InvHolds, AuthoredHolds, PTL DEF Spec, RiderWins

(***************************************************************************)
(* Only for the rider.  The controller takes a setpoint for the rider's     *)
(* unless it is the ceiling or what it last sent, so an echo must find its   *)
(* amps still remembered when it is heard in the session it was sent in.     *)
(***************************************************************************)
(* The frames on the wire are of one seating of the cable: once the session   *)
(* is heard to be over, no other is heard to begin behind it.                 *)
OneSeating ==
  \A i \in DOMAIN toPi : toPi[i].key = "session" =>
    /\ plug \in {toPi[i].value, "idle"}
    /\ \A k \in 1..(i - 1) :
         toPi[k].key = "session" /\ toPi[i].value = "dc" => toPi[k].value = "dc"

ResetsToCeiling ==
  \A i \in DOMAIN toPi :
    toPi[i].key = "setpoint" /\ toPi[i].by = "bike" => toPi[i].value = Ceiling

(* A DC command that has not been answered and heard yet. *)
Unheard == \/ \E i \in DOMAIN commits : commits[i].session = "dc"
           \/ \E i \in DOMAIN toPi : toPi[i].by \in Origins

EchoRemembered ==
  /\ command = NoCommand => Answered
  /\ seen = "dc" =>
       /\ \A i \in DOMAIN commits : commits[i].session = "dc" => commits[i].amps = lastSentAmps
       /\ \A i \in DOMAIN toPi : toPi[i].by \in Origins => toPi[i].value = lastSentAmps
  /\ Unheard /\ seen # "dc" =>
       /\ plug # "dc"
       /\ \A i \in DOMAIN toPi : toPi[i].key = "session" => toPi[i].value # "dc"

WireInv == OneSeating /\ ResetsToCeiling /\ EchoRemembered

(* Frames of either kind, as senders build them and as the listener takes     *)
(* them apart.                                                                 *)
LEMMA SessionFrame ==
  ASSUME NEW s \in Sessions \cup {"idle"} PROVE Event("session", s, "bike") \in Events
BY DEF Event, Events

LEMMA SetpointFrame ==
  ASSUME NEW a \in Current, NEW by \in Origins \cup {"bike", "dash"}
  PROVE  Event("setpoint", a, by) \in Events
BY DEF Event, Events

LEMMA FrameKinds ==
  ASSUME NEW e \in Events
  PROVE  \/ e.key = "session" /\ e.value \in Sessions \cup {"idle"} /\ e.by = "bike"
         \/ e.key = "setpoint" /\ e.value \in Current /\ e.by \in Origins \cup {"bike", "dash"}
BY DEF Events

LEMMA CeilingIsCurrent == Ceiling \in Current
  BY ChargeAssumption DEF Current

(* A command asks for a current the motorcycle has.                            *)
LEMMA CommandedIsCurrent ==
  ASSUME NEW wanted, NEW override, NEW session, NEW young,
         NEW commanded \in Current \cup {0},
         NEW v \in Verdicts(wanted, override, session, young, commanded),
         v.kind = "command"
  PROVE  v.amps \in Current
<1> DEFINE current == IF commanded = 0 THEN Ceiling ELSE commanded
<1>1. v \in Measured(commanded)
  BY DEF Verdicts, Hold
<1>2. PICK s \in -MaxStep..MaxStep : v = stepTo(current + s, current)
  BY <1>1 DEF Measured, Hold
<1>3. current + s \in Int
  BY ChargeAssumption DEF Current
<1>4. v.amps = AtMost(Ceiling, AtLeast(MinCommand, current + s))
  BY <1>2 DEF stepTo, Hold
<1> QED BY <1>3, <1>4, ChargeAssumption DEF AtMost, AtLeast, Current

(* Every verdict's reason is one of the four.                                  *)
LEMMA VerdictReasons ==
  ASSUME NEW wanted, NEW override, NEW session, NEW young, NEW commanded,
         NEW v \in Verdicts(wanted, override, session, young, commanded)
  PROVE  v.reason \in Reasons
BY DEF Verdicts, Measured, stepTo, Hold, Reasons

(* The types the argument needs, by who changes them.                         *)
WireOK == /\ plug \in Sessions \cup {"idle"}
          /\ commits \in Seq(Frame) /\ Len(commits) <= 1
          /\ toPi \in Seq(Events)
SentOK == lastCommand \in Current \cup {0} /\ lastSentAmps \in Current \cup {0}
CommandOK == command \in [by : Origins \cup {"nobody"}, session : Sessions, amps : Current \cup {0},
                          step : {"none", "gap", "settling", "failed"}]
Typed == WireOK /\ SentOK /\ CommandOK

LEMMA OneInSeq ==
  ASSUME NEW S, NEW e \in S
  PROVE  <<e>> \in Seq(S) /\ Len(<<e>>) = 1 /\ <<e>>[1] = e
OBVIOUS

LEMMA AtMostOne ==
  ASSUME NEW S, NEW e \in S, NEW s, s = <<>> \/ s = <<e>>
  PROVE  s \in Seq(S) /\ Len(s) <= 1 /\ \A j \in DOMAIN s : s[j] = e
<1>1. CASE s = <<>>
  <2>1. <<>> \in Seq(S) /\ Len(<<>>) = 0 /\ DOMAIN <<>> = {}
    BY EmptySeq
  <2> QED BY <1>1, <2>1
<1>2. CASE s = <<e>>
  BY <1>2, OneInSeq
<1> QED BY <1>1, <1>2

LEMMA TypedInit == Init => Typed
<1>1. Init => WireOK
  BY EmptySeq DEF Init, WireOK, Sessions
<1>2. Init => SentOK
  BY DEF Init, SentOK
<1>3. Init => CommandOK
  BY DEF Init, CommandOK, NoCommand, Sessions
<1> QED BY <1>1, <1>2, <1>3 DEF Typed

(* A command's first part, whoever asks for it.                               *)
LEMMA TypedCommand ==
  ASSUME Typed, EchoRemembered, NEW origin \in Origins, NEW amps \in Current,
         performChargeCurrent(origin, amps)
  PROVE  Typed'
<1>1. commits = <<>> /\ seen \in Sessions /\ command = NoCommand
  BY DEF performChargeCurrent, acquireBus, EchoRemembered, Answered
<1>2. commits' = <<>> \/ commits' = <<[by |-> origin, session |-> seen, amps |-> amps]>>
  BY <1>1 DEF performChargeCurrent, sent, notSent
<1>3. [by |-> origin, session |-> seen, amps |-> amps] \in Frame
  BY <1>1 DEF Frame
<1>4. commits' \in Seq(Frame) /\ Len(commits') <= 1
  BY <1>2, <1>3, AtMostOne
<1>5. WireOK'
  BY <1>4 DEF WireOK, Typed, performChargeCurrent
<1>6. CommandOK'
  BY <1>1 DEF performChargeCurrent, sent, notSent, NoCommand, CommandOK
<1>7. SentOK'
  BY DEF performChargeCurrent, noteChargeCurrentOutgoing, SentOK, Typed
<1> QED BY <1>5, <1>6, <1>7 DEF Typed

LEMMA TypedStep == Typed /\ EchoRemembered /\ [Next]_vars => Typed'
<1> SUFFICES ASSUME Typed, EchoRemembered, [Next]_vars PROVE Typed'
  OBVIOUS
<1> USE DEF Typed
<1>1. CASE UNCHANGED vars
  BY <1>1 DEF vars, bike, memory, WireOK, SentOK, CommandOK
<1>2. ASSUME NEW s \in Sessions, Plug(s) PROVE Typed'
  <2>1. toPi' \in Seq(Events)
    BY <1>2, SessionFrame DEF Plug, Send, WireOK
  <2> QED BY <1>2, <2>1 DEF Plug, Pi, memory, WireOK, SentOK, CommandOK
<1>3. CASE Unplug
  <2>1. PICK reset \in {<<>>, <<Event("setpoint", Ceiling, "bike")>>},
             over \in {<<>>, <<Event("session", "idle", "bike")>>} : Send(reset \o over)
    BY <1>3 DEF Unplug
  <2>2. reset \in Seq(Events)
    BY <2>1, SetpointFrame, CeilingIsCurrent, EmptySeq, OneInSeq
  <2>3. over \in Seq(Events)
    BY <2>1, SessionFrame, EmptySeq, OneInSeq
  <2>4. toPi' \in Seq(Events)
    BY <2>1, <2>2, <2>3 DEF Send, WireOK
  <2> QED BY <1>3, <2>4 DEF Unplug, Pi, memory, WireOK, SentOK, CommandOK
<1>4. CASE Broadcast
  <2>1. toPi' \in Seq(Events)
    BY <1>4, SessionFrame DEF Broadcast, Send, WireOK
  <2> QED BY <1>4, <2>1 DEF Broadcast, Pi, bike, memory, WireOK, SentOK, CommandOK
<1>5. CASE TakeCommit
  <2>1. Head(commits) \in Frame /\ commits' \in Seq(Frame) /\ Len(commits') <= 1
    BY <1>5 DEF TakeCommit, WireOK
  <2>2. Event("setpoint", Head(commits).amps, Head(commits).by) \in Events
    BY <2>1, SetpointFrame DEF Frame
  <2>3. toPi \o <<>> \in Seq(Events)
        /\ toPi \o <<Event("setpoint", Head(commits).amps, Head(commits).by)>> \in Seq(Events)
    BY <2>2, EmptySeq, OneInSeq, ConcatProperties DEF WireOK
  <2>4. toPi' \in Seq(Events)
    BY <1>5, <2>3 DEF TakeCommit, WireOK
  <2> QED BY <1>5, <2>1, <2>4 DEF TakeCommit, Pi, memory, WireOK, SentOK, CommandOK
<1>6. ASSUME NEW a \in Current, Dial(a) PROVE Typed'
  <2>1. toPi' \in Seq(Events)
    BY <1>6, SetpointFrame DEF Dial, Send, WireOK
  <2> QED BY <1>6, <2>1 DEF Dial, Pi, memory, WireOK, SentOK, CommandOK
<1>7. ASSUME NEW a \in Current, SetByHand(a) PROVE Typed'
  BY <1>7, TypedCommand DEF SetByHand, Origins
<1>8. ASSUME NEW m \in {"automatic", "off"}, setMode(m) PROVE Typed'
  BY <1>8 DEF setMode, bike, WireOK, SentOK, CommandOK
<1>9. CASE Hear
  <2>1. WireOK'
    BY <1>9 DEF Hear, bike, WireOK
  <2>2. UNCHANGED command /\ SentOK'
    BY <1>9 DEF Hear, HearSession, HearSetpoint, forgetSession, memory, SentOK
  <2> QED BY <2>1, <2>2 DEF CommandOK
<1>10. CASE GoStale
  BY <1>10 DEF GoStale, bike, memory, WireOK, SentOK, CommandOK
<1>11. CASE runTick
  <2>1. PICK v \in Verdicts(mode, riderOverride, seen, fresh, lastCommand) :
          Command(v) \/ Decided(v)
    BY <1>11 DEF runTick
  <2>2. CASE Command(v)
    <3>1. v.amps \in Current
      BY <2>2, CommandedIsCurrent DEF Command, SentOK
    <3> QED BY <2>2, <3>1, TypedCommand DEF Command, Origins
  <2>3. CASE Decided(v)
    BY <2>3 DEF Decided, bike, WireOK, SentOK, CommandOK
  <2> QED BY <2>1, <2>2, <2>3
<1>12. CASE SecondFrame
  BY <1>12 DEF SecondFrame, Rest, WireOK, SentOK, CommandOK
<1>13. CASE FinishCommand
  <2>1. SentOK'
    BY <1>13 DEF FinishCommand, Landed, Refused, Rest, SentOK, CommandOK
  <2> QED BY <1>13, <2>1 DEF FinishCommand, Rest, NoCommand, Sessions, WireOK, CommandOK
<1> QED BY <1>1, <1>2, <1>3, <1>4, <1>5, <1>6, <1>7, <1>8, <1>9, <1>10, <1>11,
           <1>12, <1>13 DEF Next

LEMMA WireInit == Init => WireInv
  BY DEF Init, WireInv, OneSeating, ResetsToCeiling, EchoRemembered, Unheard, Answered, Origins

(* What the rest of the invariant reads changes with none of the steps that   *)
(* leave the wire, the memory and the command alone.                           *)
LEMMA WireStays ==
  ASSUME WireInv, UNCHANGED <<plug, commits, toPi, seen, lastSentAmps>>,
         command' = NoCommand => command = NoCommand \/ Answered
  PROVE  WireInv'
<1>1. OneSeating' /\ ResetsToCeiling'
  BY DEF WireInv, OneSeating, ResetsToCeiling
<1>2. EchoRemembered'
  BY DEF WireInv, EchoRemembered, Unheard, Answered
<1> QED BY <1>1, <1>2 DEF WireInv

LEMMA Longer ==
  ASSUME NEW S, NEW s \in Seq(S), NEW t \in Seq(S), NEW u, u = s \o t
  PROVE  /\ DOMAIN u = 1..(Len(s) + Len(t)) /\ Len(s) \in Nat /\ Len(t) \in Nat
         /\ DOMAIN s = 1..Len(s) /\ DOMAIN t = 1..Len(t)
         /\ \A i \in 1..Len(s) : u[i] = s[i]
         /\ \A i \in DOMAIN u : i \notin DOMAIN s =>
              i - Len(s) \in DOMAIN t /\ u[i] = t[i - Len(s)]
BY ConcatProperties, LenProperties

(* Frames the motorcycle sends of itself, or for a dial: none is an echo, and *)
(* what they say of the session is what the motorcycle is in.                  *)
LEMMA Sending ==
  ASSUME Typed, WireInv, NEW events \in Seq(Events), toPi' = toPi \o events,
         UNCHANGED <<commits, seen, lastSentAmps, command>>, plug' \in {plug, "idle"},
         \A j \in DOMAIN events :
           /\ events[j].by \notin Origins
           /\ events[j].key = "session" => events[j].value = plug'
           /\ events[j].key = "setpoint" /\ events[j].by = "bike" => events[j].value = Ceiling
  PROVE  WireInv'
<1> USE DEF WireInv
<1>1. toPi \in Seq(Events)
  BY DEF Typed, WireOK
<1>2. /\ DOMAIN toPi \subseteq DOMAIN toPi'
      /\ \A i \in DOMAIN toPi : toPi'[i] = toPi[i]
      /\ \A i \in DOMAIN toPi' : i \in DOMAIN toPi \/ \E j \in DOMAIN events : toPi'[i] = events[j]
      /\ \A i \in DOMAIN toPi' : i \in Nat /\ (i \in DOMAIN toPi => 1..(i - 1) \subseteq DOMAIN toPi)
      /\ \A i \in DOMAIN toPi' : 1..(i - 1) \subseteq DOMAIN toPi'
  <2>1. /\ DOMAIN toPi' = 1..(Len(toPi) + Len(events)) /\ Len(toPi) \in Nat /\ Len(events) \in Nat
        /\ DOMAIN toPi = 1..Len(toPi)
        /\ \A i \in 1..Len(toPi) : toPi'[i] = toPi[i]
        /\ \A i \in DOMAIN toPi' : i \notin DOMAIN toPi =>
             i - Len(toPi) \in DOMAIN events /\ toPi'[i] = events[i - Len(toPi)]
    BY <1>1, Longer
  <2>2. \A i \in DOMAIN toPi' : i \in DOMAIN toPi \/ \E j \in DOMAIN events : toPi'[i] = events[j]
    BY <2>1
  <2> QED BY <2>1, <2>2
<1>3. ASSUME NEW i \in DOMAIN toPi', toPi'[i].key = "session" PROVE plug' \in {toPi'[i].value, "idle"}
  BY <1>2, <1>3 DEF OneSeating
<1>4. ASSUME NEW i \in DOMAIN toPi', NEW k \in 1..(i - 1), toPi'[k].key = "session",
             toPi'[i].key = "session", toPi'[i].value = "dc"
      PROVE  toPi'[k].value = "dc"
  <2>1. CASE i \in DOMAIN toPi
    BY <2>1, <1>2, <1>4 DEF OneSeating
  <2>2. CASE i \notin DOMAIN toPi
    <3>1. plug' = "dc"
      BY <2>2, <1>2, <1>4
    <3> QED BY <3>1, <1>2, <1>3, <1>4
  <2> QED BY <2>1, <2>2
<1>5. OneSeating'
  BY <1>3, <1>4 DEF OneSeating
<1>6. ResetsToCeiling'
  BY <1>2 DEF ResetsToCeiling
<1>7. Answered => Answered'
  BY <1>2 DEF Answered
<1>8. Unheard' => Unheard
  BY <1>2 DEF Unheard
<1>9. EchoRemembered'
  BY <1>2, <1>7, <1>8 DEF EchoRemembered
<1> QED BY <1>5, <1>6, <1>9

LEMMA WirePlug == ASSUME Typed, WireInv, NEW s \in Sessions, Plug(s) PROVE WireInv'
<1>1. toPi' = <<Event("session", s, "bike")>> /\ plug' = s /\ commits' = <<>>
      /\ toPi = <<>> /\ commits = <<>> /\ UNCHANGED <<seen, lastSentAmps, command>>
  BY EmptySeq, OneInSeq, ConcatEmptySeq, SessionFrame DEF Plug, Send, Pi, memory
<1>2. DOMAIN toPi' = {1} /\ toPi'[1] = Event("session", s, "bike") /\ DOMAIN commits' = {}
  BY <1>1
<1>3. OneSeating' /\ ResetsToCeiling'
  BY <1>1, <1>2 DEF OneSeating, ResetsToCeiling, Event
<1>4. Answered' /\ ~Unheard'
  BY <1>1, <1>2 DEF Answered, Unheard, Event, Origins
<1>5. EchoRemembered'
  BY <1>2, <1>4 DEF EchoRemembered, Event, Origins
<1> QED BY <1>3, <1>5 DEF WireInv

LEMMA WireUnplug == ASSUME Typed, WireInv, Unplug PROVE WireInv'
<1>1. PICK reset \in {<<>>, <<Event("setpoint", Ceiling, "bike")>>},
           over \in {<<>>, <<Event("session", "idle", "bike")>>} : Send(reset \o over)
  BY DEF Unplug
<1>2. reset \in Seq(Events) /\ \A j \in DOMAIN reset : reset[j] = Event("setpoint", Ceiling, "bike")
  BY <1>1, SetpointFrame, CeilingIsCurrent, AtMostOne
<1>3. over \in Seq(Events) /\ \A j \in DOMAIN over : over[j] = Event("session", "idle", "bike")
  BY <1>1, SessionFrame, AtMostOne
<1>4. reset \o over \in Seq(Events)
  BY <1>2, <1>3
<1>5. \A j \in DOMAIN (reset \o over) : \/ (reset \o over)[j] = Event("setpoint", Ceiling, "bike")
                                        \/ (reset \o over)[j] = Event("session", "idle", "bike")
  BY <1>2, <1>3, Longer
<1>6. plug' = "idle" /\ UNCHANGED <<commits, seen, lastSentAmps, command>> /\ toPi' = toPi \o (reset \o over)
  BY <1>1 DEF Unplug, Pi, memory, Send
<1> DEFINE events == reset \o over
<1>7. \A j \in DOMAIN events :
        /\ events[j].by \notin Origins
        /\ events[j].key = "session" => events[j].value = plug'
        /\ events[j].key = "setpoint" /\ events[j].by = "bike" => events[j].value = Ceiling
  BY <1>5, <1>6 DEF Event, Origins
<1> HIDE DEF events
<1>8. events \in Seq(Events) /\ toPi' = toPi \o events
  BY <1>4, <1>6 DEF events
<1> QED BY <1>6, <1>7, <1>8, Sending

LEMMA WireBroadcast == ASSUME Typed, WireInv, Broadcast PROVE WireInv'
<1> DEFINE e == Event("session", plug, "bike")
<1>1. e \in Events /\ e.by \notin Origins /\ e.key = "session" /\ e.value = plug
  BY SessionFrame DEF Event, Origins, Typed, WireOK
<1>2. toPi' = toPi \o <<e>> /\ UNCHANGED <<plug, commits, seen, lastSentAmps, command>>
  BY DEF Broadcast, Send, Pi, bike, memory
<1> HIDE DEF e
<1>3. <<e>> \in Seq(Events) /\ DOMAIN <<e>> = {1} /\ <<e>>[1] = e
  BY <1>1, OneInSeq
<1> QED BY <1>1, <1>2, <1>3, Sending

LEMMA WireDial == ASSUME Typed, WireInv, NEW a \in Current, Dial(a) PROVE WireInv'
<1> DEFINE e == Event("setpoint", a, "dash")
<1>1. e \in Events /\ e.by = "dash" /\ e.key = "setpoint"
  BY SetpointFrame DEF Event
<1>2. toPi' = toPi \o <<e>> /\ UNCHANGED <<plug, commits, seen, lastSentAmps, command>>
  BY DEF Dial, Send, Pi, bike, memory
<1> HIDE DEF e
<1>3. <<e>> \in Seq(Events) /\ DOMAIN <<e>> = {1} /\ <<e>>[1] = e
  BY <1>1, OneInSeq
<1> QED BY <1>1, <1>2, <1>3, Sending DEF Origins

(* The answer carries the amps the commit asked for, and takes its place as   *)
(* the one the controller has still to hear.                                   *)
LEMMA WireTakeCommit == ASSUME Typed, WireInv, TakeCommit PROVE WireInv'
<1> USE DEF WireInv
<1> DEFINE c == Head(commits)
           e == Event("setpoint", c.amps, c.by)
<1>1. /\ c \in Frame /\ 1 \in DOMAIN commits /\ commits[1] = c
      /\ commits # <<>> /\ commits' = <<>> /\ DOMAIN commits' = {}
      /\ UNCHANGED <<plug, seen, lastSentAmps, command>>
  BY DEF TakeCommit, Pi, memory, Typed, WireOK
<1>2. e \in Events /\ e.by \in Origins /\ e.key = "setpoint" /\ e.value = c.amps
  BY <1>1, SetpointFrame DEF Frame, Event
<1>3. toPi' = toPi \/ (c.session = "dc" /\ toPi' = toPi \o <<e>>)
  BY <1>1, ConcatEmptySeq DEF TakeCommit, Typed, WireOK
<1>4. command # NoCommand
  BY <1>1 DEF EchoRemembered, Answered
<1> HIDE DEF e, c
<1>5. /\ DOMAIN toPi \subseteq DOMAIN toPi'
      /\ \A i \in DOMAIN toPi' : \/ i \in DOMAIN toPi /\ toPi'[i] = toPi[i]
                                 \/ toPi'[i] = e /\ c.session = "dc"
      /\ \A i \in DOMAIN toPi : toPi'[i] = toPi[i] /\ 1..(i - 1) \subseteq DOMAIN toPi
  <2>1. CASE toPi' = toPi
    BY <2>1, LenProperties DEF Typed, WireOK
  <2>2. CASE c.session = "dc" /\ toPi' = toPi \o <<e>>
    <3>1. <<e>> \in Seq(Events) /\ DOMAIN <<e>> = {1} /\ <<e>>[1] = e
      BY <1>2, OneInSeq
    <3>2. /\ DOMAIN toPi' = 1..(Len(toPi) + Len(<<e>>)) /\ Len(toPi) \in Nat /\ Len(<<e>>) \in Nat
          /\ DOMAIN toPi = 1..Len(toPi)
          /\ \A i \in 1..Len(toPi) : toPi'[i] = toPi[i]
          /\ \A i \in DOMAIN toPi' : i \notin DOMAIN toPi =>
               i - Len(toPi) \in DOMAIN <<e>> /\ toPi'[i] = <<e>>[i - Len(toPi)]
      BY <2>2, <3>1, Longer DEF Typed, WireOK
    <3>3. \A i \in DOMAIN toPi' : i \in DOMAIN toPi \/ toPi'[i] = e
      BY <3>1, <3>2
    <3> QED BY <2>2, <3>2, <3>3
  <2> QED BY <1>3, <2>1, <2>2
<1>6. OneSeating'
  BY <1>1, <1>2, <1>5 DEF OneSeating
<1>7. ResetsToCeiling'
  BY <1>2, <1>5 DEF ResetsToCeiling, Origins
<1>8. Unheard' => Unheard
  BY <1>1, <1>5 DEF Unheard
<1>9. EchoRemembered'
  <2>1. command' # NoCommand
    BY <1>1, <1>4
  <2>2. seen' = "dc" => \A i \in DOMAIN toPi' : toPi'[i].by \in Origins => toPi'[i].value = lastSentAmps'
    BY <1>1, <1>2, <1>5 DEF EchoRemembered
  <2>3. Unheard' /\ seen' # "dc" =>
          plug' # "dc" /\ \A i \in DOMAIN toPi' : toPi'[i].key = "session" => toPi'[i].value # "dc"
    BY <1>1, <1>2, <1>5, <1>8 DEF EchoRemembered
  <2> QED BY <1>1, <2>1, <2>2, <2>3 DEF EchoRemembered
<1> QED BY <1>6, <1>7, <1>9

LEMMA Heard ==
  ASSUME Typed, Hear
  PROVE  /\ Head(toPi) \in Events /\ 1 \in DOMAIN toPi /\ toPi[1] = Head(toPi)
         /\ \A i \in DOMAIN toPi' : i + 1 \in DOMAIN toPi /\ toPi'[i] = toPi[i + 1] /\ i \in Nat \ {0}
         /\ \A i \in DOMAIN toPi' : 1..(i - 1) \subseteq DOMAIN toPi'
  BY DEF Hear, Typed, WireOK

LEMMA WireHear == ASSUME Typed, WireInv, Hear PROVE WireInv'
<1> USE DEF WireInv
<1> DEFINE e == Head(toPi)
<1>1. /\ e \in Events /\ 1 \in DOMAIN toPi /\ toPi[1] = e
      /\ \A i \in DOMAIN toPi' : i + 1 \in DOMAIN toPi /\ toPi'[i] = toPi[i + 1] /\ i \in Nat \ {0}
      /\ \A i \in DOMAIN toPi' : 1..(i - 1) \subseteq DOMAIN toPi'
  BY Heard
<1>2. UNCHANGED <<plug, commits, command>>
  BY DEF Hear, HearSession, HearSetpoint, bike
<1> HIDE DEF e
<1>3. OneSeating'
  <2>1. ASSUME NEW i \in DOMAIN toPi', toPi'[i].key = "session" PROVE plug' \in {toPi'[i].value, "idle"}
    BY <1>1, <1>2, <2>1 DEF OneSeating
  <2>2. ASSUME NEW i \in DOMAIN toPi', NEW k \in 1..(i - 1), toPi'[i].key = "session",
               toPi'[k].key = "session", toPi'[i].value = "dc"
        PROVE  toPi'[k].value = "dc"
    <3>1. k + 1 \in 1..((i + 1) - 1) /\ i + 1 \in DOMAIN toPi
          /\ toPi'[i] = toPi[i + 1] /\ toPi'[k] = toPi[k + 1]
      BY <1>1
    <3> QED BY <2>2, <3>1 DEF OneSeating
  <2> QED BY <2>1, <2>2 DEF OneSeating
<1>4. ResetsToCeiling'
  BY <1>1 DEF ResetsToCeiling
<1>5. (Answered => Answered') /\ (Unheard' => Unheard)
  BY <1>1, <1>2 DEF Answered, Unheard
<1>6. CASE e.key = "session" /\ e.value # seen
  <2>1. seen' = e.value
    BY <1>6 DEF Hear, HearSession, e
  <2>2. seen' = "dc" => ~Unheard
    BY <1>1, <1>6, <2>1 DEF EchoRemembered
  <2>3. seen' # "dc" => plug # "dc" \/ ~Unheard
    BY <1>1, <1>6, <2>1 DEF OneSeating
  <2>4. ASSUME seen' # "dc", NEW i \in DOMAIN toPi', toPi'[i].key = "session", toPi'[i].value = "dc"
        PROVE FALSE
    BY <1>1, <1>6, <2>1, <2>4 DEF OneSeating
  <2>5. EchoRemembered'
    BY <1>1, <1>2, <1>5, <2>2, <2>3, <2>4 DEF EchoRemembered, Unheard
  <2> QED BY <1>3, <1>4, <2>5
<1>7. CASE ~(e.key = "session" /\ e.value # seen)
  <2>1. UNCHANGED <<seen, lastSentAmps>>
    BY <1>7 DEF Hear, HearSession, HearSetpoint, memory, e
  <2>2. EchoRemembered'
    BY <1>1, <1>2, <1>5, <2>1 DEF EchoRemembered
  <2> QED BY <1>3, <1>4, <2>2
<1> QED BY <1>6, <1>7

LEMMA WireCommand ==
  ASSUME Typed, WireInv, NEW origin \in Origins, NEW amps, performChargeCurrent(origin, amps)
  PROVE  WireInv'
<1> USE DEF WireInv
<1> DEFINE c == [by |-> origin, session |-> seen, amps |-> amps]
<1>1. commits = <<>> /\ Answered /\ ~Unheard
  BY DEF performChargeCurrent, acquireBus, EchoRemembered, Answered, Unheard
<1>2. UNCHANGED <<plug, toPi, seen>> /\ lastSentAmps' = amps
  BY DEF performChargeCurrent, noteChargeCurrentOutgoing
<1>3. OneSeating' /\ ResetsToCeiling'
  BY <1>2 DEF OneSeating, ResetsToCeiling
<1>4. command'.step # "none" /\ (commits' = <<c>> \/ commits' = <<>>)
  <2>1. CASE sent(origin, amps)
    BY <1>1, <2>1 DEF sent, NoCommand
  <2>2. CASE notSent(origin, amps)
    BY <1>1, <2>2 DEF notSent, NoCommand
  <2> QED BY <2>1, <2>2 DEF performChargeCurrent
<1>5. c.amps = amps /\ c.session = seen
  OBVIOUS
<1> HIDE DEF c
<1>6. \A i \in DOMAIN commits' : commits'[i] = c
  BY <1>4, <1>5, AtMostOne
<1>7. EchoRemembered'
  BY <1>1, <1>2, <1>4, <1>5, <1>6 DEF EchoRemembered, Answered, Unheard, NoCommand
<1> QED BY <1>3, <1>7

LEMMA WireStep == Typed /\ WireInv /\ [Next]_vars => WireInv'
<1> SUFFICES ASSUME Typed, WireInv, [Next]_vars PROVE WireInv'
  OBVIOUS
<1>1. CASE UNCHANGED vars
  BY <1>1, WireStays DEF vars, bike, memory
<1>2. CASE \E s \in Sessions : Plug(s)
  BY <1>2, WirePlug
<1>3. CASE Unplug \/ Broadcast \/ TakeCommit \/ Hear
  BY <1>3, WireUnplug, WireBroadcast, WireTakeCommit, WireHear
<1>4. CASE \E a \in Current : Dial(a)
  BY <1>4, WireDial
<1>5. CASE \E a \in Current : SetByHand(a)
  BY <1>5, WireCommand DEF SetByHand, Origins
<1>6. ASSUME NEW m \in {"automatic", "off"}, setMode(m) PROVE WireInv'
  BY <1>6, WireStays DEF setMode, bike
<1>7. CASE GoStale
  BY <1>7, WireStays DEF GoStale, bike, memory
<1>8. CASE runTick
  <2>1. PICK v \in Verdicts(mode, riderOverride, seen, fresh, lastCommand) :
          Command(v) \/ Decided(v)
    BY <1>8 DEF runTick
  <2>2. CASE Command(v)
    BY <2>2, WireCommand DEF Command, Origins
  <2>3. CASE Decided(v)
    BY <2>3, WireStays DEF Decided, bike
  <2> QED BY <2>1, <2>2, <2>3
<1>9. CASE SecondFrame
  <2>1. command'.step # "none"
    BY <1>9 DEF SecondFrame, Typed, CommandOK
  <2> QED BY <1>9, <2>1, WireStays DEF SecondFrame, Rest, NoCommand
<1>10. CASE FinishCommand
  BY <1>10, WireStays DEF FinishCommand, Rest
<1> QED BY <1>1, <1>2, <1>3, <1>4, <1>5, <1>6, <1>7, <1>8, <1>9, <1>10 DEF Next

LEMMA WireHolds == Spec => [](Typed /\ WireInv)
<1>1. Typed /\ WireInv /\ [Next]_vars => (Typed /\ WireInv)'
  BY TypedStep, WireStep DEF WireInv
<1> QED BY <1>1, TypedInit, WireInit, PTL DEF Spec

(* A setpoint that stands the controller down in a DC session is the rider's. *)
LEMMA OnlyTheRiderIsTaken ==
  ASSUME Typed, WireInv, StandsDownForRider, Hear,
         Head(toPi).key # "session", seen = "dc", rider' = "quiet"
  PROVE  riderOverride' # "standing down" \/ riderOverride' = riderOverride
<1> DEFINE e == Head(toPi)
<1>1. e \in Events /\ 1 \in DOMAIN toPi /\ toPi[1] = e
  BY Heard
<1>2. HearSetpoint(e)
  BY DEF Hear
<1>3. e.key = "setpoint" /\ e.by \in Origins \cup {"bike", "dash"}
  BY <1>1, FrameKinds
<1>4. e.by # "dash"
  BY <1>2 DEF HearSetpoint, Owed
<1>5. e.by \in Origins => e.value = lastSentAmps
  BY <1>1 DEF WireInv, EchoRemembered
<1>6. e.by = "bike" => e.value = Ceiling
  BY <1>1, <1>3 DEF WireInv, ResetsToCeiling
<1>7. ~isRiderSetpoint(e.value)
  BY <1>3, <1>4, <1>5, <1>6 DEF isRiderSetpoint
<1> QED BY <1>2, <1>7 DEF HearSetpoint

LEMMA StandsDownStep ==
  Typed /\ WireInv /\ StandsDownForRider /\ [Next]_vars => StandsDownForRider'
<1> SUFFICES ASSUME Typed, WireInv, StandsDownForRider, [Next]_vars,
                    seen' = "dc", riderOverride' = "standing down"
             PROVE  rider' # "quiet"
  BY DEF StandsDownForRider
<1> USE DEF StandsDownForRider
<1>1. CASE UNCHANGED <<seen, riderOverride, rider>>
  BY <1>1
<1>2. CASE Hear
  <2>1. CASE Head(toPi).key = "session"
    <3>1. HearSession(Head(toPi).value)
      BY <1>2, <2>1 DEF Hear
    <3>2. CASE Head(toPi).value # seen
      BY <3>1, <3>2 DEF HearSession, forgetSession
    <3>3. CASE Head(toPi).value = seen
      BY <3>1, <3>3 DEF HearSession, memory
    <3> QED BY <3>2, <3>3
  <2>2. CASE Head(toPi).key # "session"
    <3>1. HearSetpoint(Head(toPi)) /\ seen = "dc"
      BY <1>2, <2>2 DEF Hear, HearSetpoint
    <3>2. rider' = "quiet" => rider = "quiet"
      BY <3>1 DEF HearSetpoint, Owed
    <3> QED BY <1>2, <2>2, <3>1, <3>2, OnlyTheRiderIsTaken
  <2> QED BY <2>1, <2>2
<1>3. ASSUME NEW a \in Current, SetByHand(a) PROVE rider' # "quiet"
  BY <1>3 DEF SetByHand, performChargeCurrent, noteChargeCurrentOutgoing
<1>4. ASSUME NEW m \in {"automatic", "off"}, setMode(m) PROVE rider' # "quiet"
  BY <1>4 DEF setMode
<1>5. CASE runTick
  <2>1. UNCHANGED <<seen, riderOverride, rider>>
    BY <1>5 DEF runTick, Command, Decided, performChargeCurrent, noteChargeCurrentOutgoing
  <2> QED BY <1>1, <2>1
<1>6. ASSUME \/ UNCHANGED vars \/ \E s \in Sessions : Plug(s)
             \/ Unplug \/ Broadcast \/ TakeCommit \/ (\E a \in Current : Dial(a))
             \/ GoStale \/ SecondFrame \/ FinishCommand
      PROVE  UNCHANGED <<seen, riderOverride, rider>>
  BY <1>6 DEF vars, memory, Plug, Unplug, Broadcast, TakeCommit, Dial, Pi, GoStale, SecondFrame,
     FinishCommand, Rest
<1> QED BY <1>1, <1>2, <1>3, <1>4, <1>5, <1>6 DEF Next

(* StandsDownForRider: in a DC session nothing but the rider stops the        *)
(* controller.  Its own command is answered while it remembers the amps it    *)
(* sent, or in a session that is not heard as DC again before the wire is      *)
(* empty (auto.ts noteChargeCurrentOutgoing, isRiderSetpoint, forgetSession).  *)
THEOREM OnlyForTheRider == Spec => []StandsDownForRider
<1>1. Init => StandsDownForRider
  BY DEF Init, StandsDownForRider
<1> QED BY <1>1, StandsDownStep, WireHolds, PTL DEF Spec

-----------------------------------------------------------------------------
(* The fan. *)
Jobs == [kind : {"duty", "kick", "stop"}, duty : Duties, by : Callers]
KickSteps == {"kick duty", "kick output", "kick bridge"}
IdleSteps == {"idle bridge", "idle output", "idle duty"}

(* The parts of FanTypeOK, which the actions disturb one or two at a time. *)
BridgeTyped == /\ pins \subseteq ENABLE_GPIOS /\ output \in {"off", "on"}
               /\ pwmDuty \in Duties /\ hung \in {"no", "yes"}
ContextTyped ==
  /\ phase \in {"idle", "kick-start", "running"} /\ target \in Duties
  /\ bridgeEnabled \in {"no", "yes"} /\ kickTimer \in {None, "armed"}
  /\ stray \in {"no", "yes"} /\ kick \in {"short", "full"}
StepTyped == /\ step \in {"ready", "apply"} \union KickSteps \union IdleSteps /\ failed \in {"no", "yes"}
QueueTyped == queue \in Seq(Jobs)
LoopTyped == /\ fanMode \in Modes /\ lastCommanded \in Duties \union {Forgotten}
             /\ funInFlight \in {"no", "yes"} /\ funPending \in {"no", "yes"}
GestureTyped == /\ offTimer \in {None, "armed"} /\ movingSince \in {None, "above"}
                /\ holding \in {"no", "yes"}
SignalsTyped == fanBike \in Bikes /\ heat \in Heats
ServiceTyped == service \in {"up", "stopping", "exited"}
BudgetTyped == inputs \in 0..MaxInputs /\ faults \in 0..MaxFaults
AskedTyped == asked \in [duty : Duties, by : {"slider", "gesture", "nobody"}]
Types == /\ BridgeTyped /\ ContextTyped /\ StepTyped /\ QueueTyped /\ LoopTyped
         /\ GestureTyped /\ SignalsTyped /\ ServiceTyped /\ BudgetTyped /\ AskedTyped

(* What the bridge is given, step by step.                                      *)
Driven ==
  /\ bridgeEnabled = "no" => pins \subseteq {17}
  /\ bridgeEnabled = "yes" => output = "on" /\ pwmDuty # 0
  /\ step \in {"kick output", "kick bridge"} => pwmDuty = Full
  /\ step = "kick bridge" => output = "on"
  /\ step \in {"idle output", "idle duty"} => bridgeEnabled = "no"
  /\ step \in KickSteps \union {"apply"} \/ phase # "idle" => target # 0

(* How far the head of the chain has come.                                      *)
Progress ==
  /\ queue = <<>> => step = "ready"
  /\ failed = "yes" => faults > 0
  /\ service = "up" => \A i \in DOMAIN queue : queue[i].kind # "stop"
  /\ step # "ready" /\ Head1.kind = "duty" =>
       \/ step \in KickSteps \union {"apply"} /\ target = Head1.duty
       \/ step \in IdleSteps /\ (Head1.duty = 0 \/ faults > 0)
  /\ step # "ready" /\ Head1.kind = "kick" =>
       step = "apply" \/ (step \in IdleSteps /\ faults > 0)

(* The fan has a duty that was asked for, or a write failed and it is stopped.  *)
Obeyed(duty) == \/ target = duty /\ (phase = "running" => pwmDuty = target)
                \/ target = 0 /\ faults > 0

(* The rider's command is the last one of the chain, or the fan has it.         *)
LastOf(s, duty) ==
  \E i \in DOMAIN s : /\ s[i].kind = "duty" /\ s[i].duty = duty
                      /\ \A j \in DOMAIN s : j > i => s[j].kind # "duty"
NoneOf(s) == \A i \in DOMAIN s : s[i].kind # "duty"
LastWord ==
  asked # Nobody /\ service = "up" =>
    fanMode = "manual" /\ (LastOf(queue, asked.duty) \/ (NoneOf(queue) /\ Obeyed(asked.duty)))

FanInv == FanTypeOK /\ Driven /\ Progress /\ LastWord

-----------------------------------------------------------------------------
(* What the duties and the bounds are. *)
LEMMA Numbers ==
         /\ Floor \in Nat /\ Full \in Nat /\ 0 < Floor /\ Floor < Full
         /\ 0 \in Duties /\ Floor \in Duties /\ Full \in Duties /\ Duties \subseteq Nat
         /\ Full \in Duties \union {Forgotten} /\ MaxFaults \in Nat /\ MaxInputs \in Nat
  BY FanDuties, FanBounds DEF Duties

(* FanTypeOK and its parts. *)
LEMMA TypesHold == FanTypeOK => Types
  BY DEF FanTypeOK, Types, BridgeTyped, ContextTyped, StepTyped, QueueTyped, LoopTyped, GestureTyped,
         SignalsTyped, ServiceTyped, BudgetTyped, AskedTyped, KickSteps, IdleSteps, Jobs

LEMMA TypesSuffice == Types' => FanTypeOK'
  BY DEF FanTypeOK, Types, BridgeTyped, ContextTyped, StepTyped, QueueTyped, LoopTyped, GestureTyped,
         SignalsTyped, ServiceTyped, BudgetTyped, AskedTyped, KickSteps, IdleSteps, Jobs

(* The curve asks for one of the three duties. *)
LEMMA CurveIsADuty == ASSUME FanTypeOK PROVE CurveDuty \in Duties
  BY Numbers, FanDuties DEF FanTypeOK, CurveDuty

(* A command more on the chain, and one less. *)
LEMMA ChainLonger ==
  ASSUME NEW s \in Seq(Jobs), NEW j \in Jobs
  PROVE  /\ Append(s, j) \in Seq(Jobs) /\ Append(s, j) # <<>>
         /\ Len(s) \in Nat /\ DOMAIN s = 1..Len(s)
         /\ DOMAIN Append(s, j) = 1..(Len(s) + 1) /\ Append(s, j)[Len(s) + 1] = j
         /\ \A i \in DOMAIN s : Append(s, j)[i] = s[i]
         /\ s # <<>> => Append(s, j)[1] = s[1] /\ 1 \in DOMAIN s
<1>1. /\ Append(s, j) \in Seq(Jobs) /\ Len(s) \in Nat /\ DOMAIN s = 1..Len(s)
      /\ DOMAIN Append(s, j) = 1..(Len(s) + 1) /\ Append(s, j)[Len(s) + 1] = j
      /\ \A i \in DOMAIN s : Append(s, j)[i] = s[i]
  OBVIOUS
<1>2. Append(s, j) # <<>>
  BY <1>1
<1>3. s # <<>> => Len(s) \in Nat \ {0}
  BY EmptySeq
<1> QED BY <1>1, <1>2, <1>3

LEMMA ChainShorter ==
  ASSUME NEW s \in Seq(Jobs), s # <<>>
  PROVE  /\ Tail(s) \in Seq(Jobs) /\ Len(Tail(s)) = Len(s) - 1 /\ Len(s) \in Nat /\ 1 \in DOMAIN s
         /\ \A i \in DOMAIN Tail(s) : Tail(s)[i] = s[i + 1] /\ i + 1 \in DOMAIN s /\ i \in Nat \ {0}
  BY EmptySeq

(* What a pass of the loop may do to the chain: nothing, or one more command.   *)
Ordered(s) == queue' = s \/ \E j \in Jobs : j.kind = "duty" /\ queue' = Append(s, j)

(* The hand-back, a turn of fun mode and a pass of it order one command at most. *)
LEMMA HandsBack ==
  ASSUME FanTypeOK, NEW s, NEW by \in Callers, HandBack(s, by)
  PROVE  Ordered(s) /\ fanMode' \in Modes /\ lastCommanded' \in Duties \union {Forgotten}
<1>1. Job(CurveDuty, by) \in Jobs /\ Job(CurveDuty, by).kind = "duty"
  BY CurveIsADuty DEF Job, Jobs
<1> QED BY <1>1 DEF HandBack, Ordered, Modes

LEMMA FunTurns ==
  ASSUME FanTypeOK, NEW s, NEW last \in Duties \union {Forgotten}, FunTurn(s, last)
  PROVE  Ordered(s) /\ LoopTyped'
<1>1. CASE HandBack(s, "handback") /\ funInFlight' = "yes"
  BY <1>1, HandsBack DEF FunTurn, LoopTyped, Callers
<1>2. CASE FunGateAllows /\ fanMode' = "fun" /\ lastCommanded' = last
  <2>1. PICK throttle \in {Floor, Full} :
          IF throttle = last THEN funInFlight' = "no" /\ queue' = s
          ELSE funInFlight' = "yes" /\ queue' = Append(s, Job(throttle, "fun"))
    BY <1>2 DEF FunTurn
  <2>2. Job(throttle, "fun") \in Jobs /\ Job(throttle, "fun").kind = "duty"
    BY Numbers DEF Job, Jobs, Callers
  <2> QED BY <1>2, <2>1, <2>2 DEF FunTurn, LoopTyped, Ordered, Modes
<1> QED BY <1>1, <1>2 DEF FunTurn

LEMMA DrivesFun ==
  ASSUME FanTypeOK, NEW last \in Duties \union {Forgotten}, DriveFun(last)
  PROVE  Ordered(queue) /\ LoopTyped'
<1>1. CASE FunTurn(queue, last)
  BY <1>1, FunTurns
<1>2. CASE funInFlight = "yes" /\ UNCHANGED funInFlight
  <2>1. CASE funPending' = "yes" /\ fanMode' = "fun" /\ lastCommanded' = last /\ UNCHANGED queue
    BY <1>2, <2>1 DEF LoopTyped, Ordered, Modes
  <2>2. CASE UNCHANGED funPending /\ HandBack(queue, "curve")
    BY <1>2, <2>2, HandsBack DEF FanTypeOK, LoopTyped, Callers
  <2> QED BY <1>2, <2>1, <2>2 DEF DriveFun
<1> QED BY <1>1, <1>2 DEF DriveFun

(* Nothing is on the chain when the loop starts. *)
LEMMA FanInvInit ==
  ASSUME FanInit
  PROVE  FanInv
<1>1. FanTypeOK
  BY Numbers, FanDuties DEF FanInit, FanTypeOK, Modes, Nobody, None, Forgotten
<1>2. Driven /\ Progress /\ LastWord
  BY Numbers DEF FanInit, Driven, Progress, LastWord, KickSteps
<1> QED BY <1>1, <1>2 DEF FanInv

-----------------------------------------------------------------------------
(* Everything that does not work on the chain: it adds a command at most.       *)
LEMMA ChainKept ==
  ASSUME FanInv, UNCHANGED <<pins, output, pwmDuty, phase, target, bridgeEnabled, step, failed, faults>>,
         service' = "up" => service = "up",
         \/ queue' = queue
         \/ \E j \in Jobs : queue' = Append(queue, j) /\ (service' = "up" => j.kind # "stop")
  PROVE  Driven' /\ Progress'
<1> USE DEF FanInv
<1>1. Driven'
  BY DEF Driven
<1>2. CASE queue' = queue
  BY <1>1, <1>2 DEF Progress, Head1
<1>3. ASSUME NEW j \in Jobs, queue' = Append(queue, j), service' = "up" => j.kind # "stop"
      PROVE  Progress'
  <2>1. queue \in Seq(Jobs)
    BY DEF FanTypeOK, Jobs
  <2>2. queue = <<>> => step = "ready"
    BY DEF Progress
  <2>3. queue # <<>> => Head1' = Head1
    BY <1>3, <2>1, ChainLonger DEF Head1
  <2>4. \A i \in DOMAIN queue' : queue'[i] = j \/ (i \in DOMAIN queue /\ queue'[i] = queue[i])
    BY <1>3, <2>1, ChainLonger
  <2> QED BY <1>3, <2>1, <2>2, <2>3, <2>4, ChainLonger DEF Progress
<1> QED BY <1>1, <1>2, <1>3

(* The last duty of a chain is the one that was appended last. *)
LEMMA LastAppended ==
  ASSUME NEW s \in Seq(Jobs), NEW j \in Jobs
  PROVE  /\ j.kind = "duty" => LastOf(Append(s, j), j.duty)
         /\ j.kind # "duty" => /\ \A d : LastOf(s, d) => LastOf(Append(s, j), d)
                               /\ NoneOf(s) => NoneOf(Append(s, j))
<1> DEFINE u == Append(s, j)
<1>1. /\ Len(s) \in Nat /\ DOMAIN s = 1..Len(s) /\ DOMAIN u = 1..(Len(s) + 1) /\ u[Len(s) + 1] = j
      /\ \A i \in DOMAIN s : u[i] = s[i]
  BY ChainLonger
<1> HIDE DEF u
<1>2. j.kind = "duty" => LastOf(u, j.duty)
  BY <1>1 DEF LastOf
<1>3. ASSUME j.kind # "duty", NEW d, LastOf(s, d) PROVE LastOf(u, d)
  BY <1>1, <1>3 DEF LastOf
<1>4. j.kind # "duty" /\ NoneOf(s) => NoneOf(u)
  BY <1>1 DEF NoneOf
<1> QED BY <1>2, <1>3, <1>4 DEF u

(* The rider's word stands through whatever commands nothing, or withdraws it. *)
LEMMA WordKept ==
  ASSUME FanInv, UNCHANGED <<phase, target, pwmDuty, faults>>, service' = "up" => service = "up",
         \/ asked' = Nobody \/ service' # "up"
         \/ asked' = asked /\ fanMode' = fanMode /\ queue' = queue
         \/ asked' = asked /\ fanMode' = fanMode /\ \E j \in Jobs : j.kind # "duty" /\ queue' = Append(queue, j)
         \/ /\ fanMode' = "manual"
            /\ \E j \in Jobs : j.kind = "duty" /\ j.duty = asked'.duty /\ queue' = Append(queue, j)
  PROVE  LastWord'
<1> SUFFICES ASSUME asked' # Nobody, service' = "up"
             PROVE  /\ fanMode' = "manual"
                    /\ LastOf(queue', asked'.duty) \/ (NoneOf(queue') /\ Obeyed(asked'.duty))
  BY DEF LastWord, LastOf, NoneOf, Obeyed
<1>0. queue \in Seq(Jobs)
  BY DEF FanInv, FanTypeOK, Jobs
<1>2. asked' = asked => /\ fanMode = "manual"
                        /\ LastOf(queue, asked.duty) \/ (NoneOf(queue) /\ Obeyed(asked.duty))
  BY DEF FanInv, LastWord
<1>3. CASE asked' = asked /\ fanMode' = fanMode /\ queue' = queue
  BY <1>2, <1>3
<1>4. CASE asked' = asked /\ fanMode' = fanMode /\ \E j \in Jobs : j.kind # "duty" /\ queue' = Append(queue, j)
  <2>1. (LastOf(queue, asked.duty) => LastOf(queue', asked.duty)) /\ (NoneOf(queue) => NoneOf(queue'))
    BY <1>0, <1>4, LastAppended
  <2> QED BY <1>2, <1>4, <2>1
<1>5. CASE /\ fanMode' = "manual"
           /\ \E j \in Jobs : j.kind = "duty" /\ j.duty = asked'.duty /\ queue' = Append(queue, j)
  BY <1>0, <1>5, LastAppended
<1> QED BY <1>3, <1>4, <1>5

(* What only touches the chain, the loop and the gesture, and may count an input. *)
LEMMA RestTyped ==
  ASSUME FanTypeOK,
         UNCHANGED <<pins, output, pwmDuty, hung, phase, target, bridgeEnabled, kickTimer, stray, kick,
                     step, failed, fanBike, heat>>,
         QueueTyped', LoopTyped', GestureTyped', ServiceTyped', BudgetTyped', AskedTyped'
  PROVE  FanTypeOK'
<1>1. BridgeTyped' /\ ContextTyped'
  BY TypesHold DEF Types, BridgeTyped, ContextTyped
<1>2. StepTyped' /\ SignalsTyped'
  BY TypesHold DEF Types, StepTyped, SignalsTyped
<1> QED BY <1>1, <1>2, TypesSuffice DEF Types

(* An ordered command joins the chain, and the rider has not spoken. *)
LEMMA OrderedKept ==
  ASSUME FanInv, Ordered(queue), service' = service,
         UNCHANGED <<pins, output, pwmDuty, phase, target, bridgeEnabled, step, failed, faults>>,
         asked' = Nobody \/ service # "up"
  PROVE  QueueTyped' /\ Driven' /\ Progress' /\ LastWord'
<1>1. \/ queue' = queue
      \/ \E j \in Jobs : queue' = Append(queue, j) /\ j.kind # "stop"
  BY DEF Ordered
<1>2. queue \in Seq(Jobs)
  BY DEF FanInv, FanTypeOK, Jobs
<1>3. queue' \in Seq(Jobs)
  BY <1>1, <1>2, ChainLonger
<1>4. Driven' /\ Progress'
  BY <1>1, ChainKept
<1>5. LastWord'
  BY WordKept
<1> QED BY <1>3, <1>4, <1>5 DEF QueueTyped

(* The loop passes. *)
LEMMA LoopKeeps ==
  ASSUME FanInv, Tick \/ SignalsChanged
  PROVE  FanInv'
<1> USE DEF FanInv
<1>1. /\ service = "up" /\ service' = service /\ asked' = asked
      /\ UNCHANGED <<hardware, context, step, failed, gesture, signals, budget>>
  BY DEF Tick, SignalsChanged
<1>2. UNCHANGED <<pins, output, pwmDuty, hung, phase, target, bridgeEnabled, kickTimer, stray, kick, step, failed,
                  offTimer, movingSince, holding, fanBike, heat, inputs, faults>>
  BY <1>1 DEF hardware, context, gesture, signals, budget
<1>3. fanMode \in Modes /\ lastCommanded \in Duties \union {Forgotten}
  BY DEF FanTypeOK
<1>6. GestureTyped' /\ ServiceTyped' /\ BudgetTyped' /\ AskedTyped'
  BY <1>1, <1>2, TypesHold DEF Types, GestureTyped, ServiceTyped, BudgetTyped, AskedTyped
<1>4. CASE fanMode = "manual"
  <2>1. UNCHANGED <<loop, queue>>
    BY <1>3, <1>4 DEF Tick, SignalsChanged
  <2>2. FanTypeOK'
    BY <1>2, <1>6, <2>1, TypesHold, RestTyped DEF Types, QueueTyped, LoopTyped, loop
  <2>3. Driven' /\ Progress'
    BY <1>1, <1>2, <2>1, ChainKept
  <2>4. LastWord'
    BY <1>1, <1>2, <2>1, WordKept DEF loop
  <2> QED BY <2>2, <2>3, <2>4
<1>5. CASE fanMode # "manual"
  <2>1. Ordered(queue) /\ LoopTyped'
    <3>1. CASE fanMode = "fun"
      BY <1>3, <3>1, DrivesFun DEF Tick, SignalsChanged
    <3>2. CASE /\ fanMode = "automatic" /\ CommandCurve(queue, lastCommanded)
               /\ UNCHANGED <<fanMode, funInFlight, funPending>>
      <4>1. Job(CurveDuty, "curve") \in Jobs /\ Job(CurveDuty, "curve").kind = "duty"
        BY CurveIsADuty DEF Job, Jobs, Callers
      <4> QED BY <3>2, <4>1 DEF CommandCurve, Ordered, LoopTyped, FanTypeOK
    <3> QED BY <1>3, <1>5, <3>1, <3>2 DEF Tick, SignalsChanged, Modes
  <2>2. asked = Nobody
    BY <1>1, <1>5 DEF LastWord
  <2>3. QueueTyped' /\ Driven' /\ Progress' /\ LastWord'
    BY <1>1, <1>2, <2>1, <2>2, OrderedKept
  <2>4. FanTypeOK'
    BY <1>2, <1>6, <2>1, <2>3, RestTyped
  <2> QED BY <2>3, <2>4
<1> QED BY <1>4, <1>5

(* The rider taps, drags or holds. *)
LEMMA RiderKeeps ==
  ASSUME FanInv,
         \/ \E duty \in SliderDuties : Slide(duty)
         \/ \E to \in Modes : TapMode(to)
         \/ FireHold
  PROVE  FanInv'
<1> USE DEF FanInv
<1>1. /\ service = "up" /\ service' = service /\ inputs' = inputs + 1 /\ inputs < MaxInputs /\ faults' = faults
      /\ UNCHANGED <<pins, output, pwmDuty, hung, phase, target, bridgeEnabled, kickTimer, stray, kick,
                     step, failed, fanBike, heat>>
  BY DEF Slide, TapMode, FireHold, RoomForInput, Counted, hardware, context, signals
<1>2. GestureTyped' /\ ServiceTyped' /\ BudgetTyped'
  <2>1. BudgetTyped'
    BY <1>1, TypesHold, Numbers DEF Types, BudgetTyped
  <2>2. GestureTyped'
    BY TypesHold DEF Types, GestureTyped, Slide, TapMode, FireHold, gesture
  <2> QED BY <1>1, <2>1, <2>2, TypesHold DEF Types, ServiceTyped
<1>3. ASSUME NEW duty \in Duties, NEW by \in {"slider", "gesture"}, CommandManual(duty, by)
      PROVE  FanInv'
  <2>1. /\ Job(duty, by) \in Jobs /\ Job(duty, by).kind = "duty" /\ Job(duty, by).duty = duty
        /\ queue' = Append(queue, Job(duty, by)) /\ asked' = [duty |-> duty, by |-> by]
        /\ fanMode' = "manual" /\ LoopTyped'
    BY <1>3 DEF Job, Jobs, Callers, CommandManual, LoopTyped, FanTypeOK, Modes
  <2>2. QueueTyped' /\ AskedTyped'
    BY <1>3, <2>1, ChainLonger, TypesHold DEF Types, QueueTyped, AskedTyped
  <2>3. Driven' /\ Progress'
    BY <1>1, <2>1, ChainKept
  <2>4. asked'.duty = duty
    BY <2>1
  <2>5. LastWord'
    BY <1>1, <2>1, <2>4, WordKept
  <2>6. FanTypeOK'
    BY <1>1, <1>2, <2>1, <2>2, RestTyped
  <2> QED BY <2>3, <2>5, <2>6
<1>4. ASSUME Ordered(queue), LoopTyped', asked' = Nobody PROVE FanInv'
  <2>1. QueueTyped' /\ Driven' /\ Progress' /\ LastWord'
    BY <1>1, <1>4, OrderedKept
  <2>2. AskedTyped'
    BY <1>4, Numbers DEF AskedTyped, Nobody
  <2>3. FanTypeOK'
    BY <1>1, <1>2, <1>4, <2>1, <2>2, RestTyped
  <2> QED BY <2>1, <2>3
<1>5. ASSUME NEW by \in Callers, SwitchToAutomatic(by) PROVE FanInv'
  <2>1. Ordered(queue) /\ LoopTyped'
    BY <1>5, HandsBack DEF SwitchToAutomatic, LoopTyped, FanTypeOK
  <2> QED BY <1>4, <1>5, <2>1 DEF SwitchToAutomatic
<1>6. CASE \E duty \in SliderDuties : Slide(duty)
  BY <1>3, <1>6, FanDuties DEF Slide, Duties
<1>7. CASE FireHold
  BY <1>3, <1>5, <1>7, Numbers DEF FireHold, NextGesture, FanTypeOK, Modes, Callers
<1>8. ASSUME NEW to \in Modes, TapMode(to) PROVE FanInv'
  <2>1. CASE to = "automatic"
    BY <1>5, <1>8, <2>1 DEF TapMode, Callers
  <2>2. CASE fanMode' = "manual" /\ asked' = Nobody /\ UNCHANGED <<queue, lastCommanded, funInFlight, funPending>>
    BY <1>4, <2>2 DEF Ordered, LoopTyped, FanTypeOK, Modes
  <2>3. CASE DriveFun(Forgotten) /\ asked' = Nobody
    BY <1>4, <2>3, DrivesFun
  <2>4. CASE UNCHANGED <<loop, queue, asked>>
    <3>1. Driven' /\ Progress'
      BY <1>1, <2>4, ChainKept
    <3>2. LastWord'
      BY <1>1, <2>4, WordKept DEF loop
    <3>3. FanTypeOK'
      BY <1>1, <1>2, <2>4, TypesHold, RestTyped DEF Types, QueueTyped, LoopTyped, AskedTyped, loop
    <3> QED BY <3>1, <3>2, <3>3
  <2> QED BY <1>8, <2>1, <2>2, <2>3, <2>4 DEF TapMode, Modes
<1> QED BY <1>6, <1>7, <1>8

(* The beat of the watch. *)
LEMMA BeatKeeps ==
  ASSUME FanInv, Beat
  PROVE  FanInv'
<1> USE DEF FanInv
<1>1. /\ service' = service
      /\ UNCHANGED <<pins, output, pwmDuty, hung, phase, target, bridgeEnabled, kickTimer, stray, kick, step, failed,
                     fanBike, heat, inputs, faults>>
  BY DEF Beat, hardware, context, signals, budget
<1>2. GestureTyped' /\ ServiceTyped' /\ BudgetTyped'
  <2>1. GestureTyped'
    BY TypesHold DEF Types, GestureTyped, Beat
  <2> QED BY <1>1, <2>1, TypesHold DEF Types, ServiceTyped, BudgetTyped
<1>3. CASE UNCHANGED <<loop, queue, asked>>
  <2>1. Driven' /\ Progress'
    BY <1>1, <1>3, ChainKept
  <2>2. LastWord'
    BY <1>1, <1>3, WordKept DEF loop
  <2>3. FanTypeOK'
    BY <1>1, <1>2, <1>3, TypesHold, RestTyped DEF Types, QueueTyped, LoopTyped, AskedTyped, loop
  <2> QED BY <2>1, <2>2, <2>3
<1>4. CASE SwitchToAutomatic("revert")
  <2>1. Ordered(queue) /\ LoopTyped'
    BY <1>4, HandsBack, TypesHold DEF SwitchToAutomatic, LoopTyped, Types, Callers
  <2>2. asked' = Nobody /\ AskedTyped'
    BY <1>4, Numbers DEF SwitchToAutomatic, AskedTyped, Nobody
  <2>3. QueueTyped' /\ Driven' /\ Progress' /\ LastWord'
    BY <1>1, <2>1, <2>2, OrderedKept
  <2>4. FanTypeOK'
    BY <1>1, <1>2, <2>1, <2>2, <2>3, RestTyped
  <2> QED BY <2>3, <2>4
<1> QED BY <1>3, <1>4 DEF Beat

(* Nothing of the chain, the loop or the bridge moves. *)
LEMMA AsideKeeps ==
  ASSUME FanInv,
         UNCHANGED <<pins, output, pwmDuty, context, chain, loop, gesture, inputs, asked>>,
         SignalsTyped', ServiceTyped', BudgetTyped', hung' \in {"no", "yes"},
         faults' \in {faults, faults + 1}, service' = "up" => service = "up"
  PROVE  FanInv'
<1> USE DEF FanInv
<1>1. UNCHANGED <<phase, target, bridgeEnabled, kickTimer, stray, kick, queue, step, failed,
                  fanMode, lastCommanded, funInFlight, funPending, offTimer, movingSince, holding>>
  BY DEF context, chain, loop, gesture
<1>2. BridgeTyped' /\ ContextTyped' /\ StepTyped' /\ QueueTyped' /\ LoopTyped' /\ GestureTyped' /\ AskedTyped'
  BY <1>1, TypesHold DEF Types, BridgeTyped, ContextTyped, StepTyped, QueueTyped, LoopTyped,
                         GestureTyped, AskedTyped
<1>3. FanTypeOK'
  BY <1>2, TypesSuffice DEF Types
<1>4. faults \in Nat /\ (faults > 0 => faults' > 0)
  BY TypesHold, Numbers DEF Types, BudgetTyped
<1>5. Driven'
  BY <1>1 DEF Driven
<1>6. Progress'
  BY <1>1, <1>4 DEF Progress, Head1
<1>7. LastWord'
  BY <1>1, <1>4 DEF LastWord, LastOf, NoneOf, Obeyed
<1> QED BY <1>3, <1>5, <1>6, <1>7

(* The timer, the stop of the process, and what only happens around the fan.    *)
LEMMA AroundKeeps ==
  ASSUME FanInv, SignalsMove \/ Exit \/ WriteHangs \/ UNCHANGED fanVars
  PROVE  FanInv'
<1> USE DEF FanInv
<1>0. Types
  BY TypesHold
<1>1. UNCHANGED <<pins, output, pwmDuty, context, chain, loop, gesture, inputs, asked>>
  BY DEF SignalsMove, Exit, WriteHangs, fanVars, hardware, budget
<1>2. SignalsTyped' /\ ServiceTyped' /\ hung' \in {"no", "yes"} /\ (service' = "up" => service = "up")
  BY <1>0 DEF SignalsMove, Exit, WriteHangs, fanVars, hardware, signals,
               Types, SignalsTyped, ServiceTyped, BridgeTyped
<1>3. faults' \in {faults, faults + 1} /\ BudgetTyped'
  BY <1>0, Numbers DEF SignalsMove, Exit, WriteHangs, fanVars, budget, Types, BudgetTyped
<1> QED BY <1>1, <1>2, <1>3, AsideKeeps

(* The kick timer only ever appends the end of a kick. *)
LEMMA KickFires ==
  ASSUME FanInv, KickTimerFires
  PROVE  FanInv'
<1> USE DEF FanInv
<1>0. Types
  BY TypesHold
<1>1. /\ queue' = Append(queue, KickJob) /\ service' = service /\ asked' = asked
      /\ UNCHANGED <<pins, output, pwmDuty, hung, phase, target, bridgeEnabled, step, failed,
                     fanMode, lastCommanded, funInFlight, funPending, offTimer, movingSince, holding,
                     fanBike, heat, inputs, faults>>
  BY DEF KickTimerFires, hardware, loop, gesture, signals, budget
<1>2. KickJob \in Jobs /\ KickJob.kind = "kick"
  BY Numbers DEF KickJob, Jobs, Callers
<1>3. Driven' /\ Progress'
  BY <1>1, <1>2, ChainKept
<1>4. LastWord'
  BY <1>1, <1>2, WordKept
<1>5. ContextTyped' /\ QueueTyped'
  <2>1. ContextTyped'
    BY <1>0 DEF KickTimerFires, Types, ContextTyped
  <2>2. QueueTyped'
    BY <1>0, <1>1, <1>2, ChainLonger DEF Types, QueueTyped
  <2> QED BY <2>1, <2>2
<1>6. /\ BridgeTyped' /\ StepTyped' /\ LoopTyped' /\ GestureTyped' /\ SignalsTyped'
      /\ ServiceTyped' /\ BudgetTyped' /\ AskedTyped'
  BY <1>0, <1>1 DEF Types, BridgeTyped, StepTyped, LoopTyped, GestureTyped, SignalsTyped, ServiceTyped,
                    BudgetTyped, AskedTyped
<1> QED BY <1>3, <1>4, <1>5, <1>6, TypesSuffice DEF Types

(* The stop of the bridge is appended too. *)
LEMMA ShutdownKeeps ==
  ASSUME FanInv, Shutdown
  PROVE  FanInv'
<1> USE DEF FanInv
<1>1. /\ queue' = Append(queue, StopJob) /\ service' = "stopping" /\ asked' = asked
      /\ UNCHANGED <<pins, output, pwmDuty, hung, phase, target, bridgeEnabled, kickTimer, stray, kick, step, failed,
                     fanMode, lastCommanded, funInFlight, funPending, fanBike, heat, inputs, faults>>
  BY DEF Shutdown, hardware, context, loop, signals, budget
<1>2. StopJob \in Jobs
  BY Numbers DEF StopJob, Jobs, Callers
<1>3. Driven' /\ Progress'
  BY <1>1, <1>2, ChainKept
<1>4. LastWord'
  BY <1>1, WordKept
<1>5. QueueTyped'
  BY <1>1, <1>2, ChainLonger, TypesHold DEF Types, QueueTyped
<1>6. GestureTyped'
  BY TypesHold DEF Types, GestureTyped, Shutdown
<1>7. LoopTyped' /\ ServiceTyped' /\ BudgetTyped' /\ AskedTyped'
  BY <1>1, TypesHold DEF Types, LoopTyped, ServiceTyped, BudgetTyped, AskedTyped
<1>8. FanTypeOK'
  BY <1>1, <1>5, <1>6, <1>7, RestTyped
<1> QED BY <1>3, <1>4, <1>8

-----------------------------------------------------------------------------
(* The chain works on its head.                                                 *)
LEMMA Behind ==
  ASSUME NEW s \in Seq(Jobs), s # <<>>
  PROVE  /\ \A d : LastOf(s, d) => \/ LastOf(Tail(s), d)
                                   \/ NoneOf(Tail(s)) /\ s[1].kind = "duty" /\ s[1].duty = d
         /\ NoneOf(s) => NoneOf(Tail(s)) /\ s[1].kind # "duty"
<1> DEFINE t == Tail(s)
<1>1. /\ Len(s) \in Nat \ {0} /\ DOMAIN s = 1..Len(s) /\ DOMAIN t = 1..(Len(s) - 1)
      /\ \A i \in DOMAIN t : t[i] = s[i + 1]
  BY EmptySeq
<1> HIDE DEF t
<1>2. ASSUME NEW d, LastOf(s, d), ~(s[1].kind = "duty" /\ s[1].duty = d /\ NoneOf(t)) PROVE LastOf(t, d)
  <2>1. PICK i \in DOMAIN s : /\ s[i].kind = "duty" /\ s[i].duty = d
                              /\ \A j \in DOMAIN s : j > i => s[j].kind # "duty"
    BY <1>2 DEF LastOf
  <2>2. CASE i = 1
    <3>1. \A j \in DOMAIN t : t[j].kind # "duty"
      BY <1>1, <2>1, <2>2
    <3> QED BY <1>2, <2>1, <2>2, <3>1 DEF NoneOf
  <2>3. CASE i # 1
    <3>1. i - 1 \in DOMAIN t /\ t[i - 1] = s[i]
      BY <1>1, <2>3
    <3>2. \A j \in DOMAIN t : j > i - 1 => t[j].kind # "duty"
      BY <1>1, <2>1
    <3> QED BY <2>1, <3>1, <3>2 DEF LastOf
  <2> QED BY <2>2, <2>3
<1>3. NoneOf(s) => NoneOf(t) /\ s[1].kind # "duty"
  BY <1>1 DEF NoneOf
<1> QED BY <1>2, <1>3 DEF t

(* What stands at the head of the chain. *)
LEMMA TheHead ==
  ASSUME FanInv, queue # <<>>
  PROVE  /\ queue \in Seq(Jobs) /\ Head1 \in Jobs /\ Head1 = queue[1] /\ 1 \in DOMAIN queue
         /\ service = "up" => Head1.kind \in {"duty", "kick"}
<1>1. queue \in Seq(Jobs)
  BY DEF FanInv, FanTypeOK, Jobs
<1>2. 1 \in DOMAIN queue /\ queue[1] \in Jobs
  BY <1>1, EmptySeq
<1> QED BY <1>1, <1>2 DEF FanInv, Progress, Head1, Jobs

(* What the loop does with a settled command: at most one more. *)
LEMMA LoopHears ==
  ASSUME FanTypeOK, queue # <<>>, NEW ok \in BOOLEAN, LoopSettles(ok), Head1 \in Jobs
  PROVE  /\ Ordered(Tail(queue)) /\ LoopTyped'
         /\ (queue' = Tail(queue) /\ fanMode' = fanMode) \/ fanMode = "fun"
<1> DEFINE last == IF ok THEN Head1.duty ELSE Forgotten
<1>1. last \in Duties \union {Forgotten}
  BY DEF Jobs
<1> HIDE DEF last
<1>2. CASE FunTurn(Tail(queue), last) /\ fanMode = "fun"
  BY <1>1, <1>2, FunTurns
<1>3. CASE queue' = Tail(queue) /\ UNCHANGED loop
  BY <1>3, TypesHold DEF Types, LoopTyped, loop, Ordered
<1>4. CASE /\ queue' = Tail(queue) /\ lastCommanded' = last /\ funInFlight' \in {"no", funInFlight}
           /\ UNCHANGED <<fanMode, funPending>>
  BY <1>1, <1>4, TypesHold DEF Types, LoopTyped, Ordered
<1>5. Head1.by \in Callers
  BY DEF Jobs
<1> QED BY <1>2, <1>3, <1>4, <1>5 DEF LoopSettles, Callers, last

(* The head's command is over, with the fan as it was asked. *)
LEMMA SettleKeeps ==
  ASSUME FanInv, queue # <<>>, NEW ok \in BOOLEAN, Settle(ok),
         UNCHANGED <<service, asked>>, target' \in Duties,
         \A d : Head1.kind = "duty" /\ d = Head1.duty => Obeyed(d)',
         \A d : Head1.kind = "kick" /\ Obeyed(d) => Obeyed(d)'
  PROVE  StepTyped' /\ QueueTyped' /\ LoopTyped' /\ GestureTyped' /\ Progress' /\ LastWord'
<1> USE DEF FanInv
<1>1. LoopSettles(ok) /\ GestureSettles /\ step' = "ready" /\ failed' = "no"
  BY DEF Settle
<1>2. /\ queue \in Seq(Jobs) /\ Head1 \in Jobs /\ Head1 = queue[1]
      /\ service = "up" => Head1.kind \in {"duty", "kick"}
  BY TheHead
<1>3. /\ Ordered(Tail(queue)) /\ LoopTyped'
      /\ (queue' = Tail(queue) /\ fanMode' = fanMode) \/ fanMode = "fun"
  BY <1>1, <1>2, LoopHears
<1>4. /\ Tail(queue) \in Seq(Jobs)
      /\ \A i \in DOMAIN Tail(queue) : Tail(queue)[i] = queue[i + 1] /\ i + 1 \in DOMAIN queue
  BY <1>2, ChainShorter
<1>5. QueueTyped'
  <2>1. \A j \in Jobs : Append(Tail(queue), j) \in Seq(Jobs)
    BY <1>4, ChainLonger
  <2> QED BY <1>3, <1>4, <2>1 DEF Ordered, QueueTyped
<1>6. GestureTyped'
  BY <1>1, TypesHold DEF GestureSettles, Types, GestureTyped
<1>7. Progress'
  <2>1. service' = "up" => \A i \in DOMAIN queue' : queue'[i].kind # "stop"
    <3>1. service = "up" => \A i \in DOMAIN Tail(queue) : Tail(queue)[i].kind # "stop"
      BY <1>4 DEF Progress
    <3>2. CASE queue' = Tail(queue)
      BY <3>1, <3>2
    <3>3. ASSUME NEW j \in Jobs, j.kind = "duty", queue' = Append(Tail(queue), j)
          PROVE  service' = "up" => \A i \in DOMAIN queue' : queue'[i].kind # "stop"
      <4>1. \A i \in DOMAIN queue' : queue'[i] = j \/ (i \in DOMAIN Tail(queue) /\ queue'[i] = Tail(queue)[i])
        BY <1>4, <3>3, ChainLonger
      <4> QED BY <3>1, <3>3, <4>1
    <3> QED BY <1>3, <3>2, <3>3 DEF Ordered
  <2> QED BY <1>1, <2>1 DEF Progress
<1>8. LastWord'
  <2> SUFFICES ASSUME asked' # Nobody, service' = "up"
               PROVE  /\ fanMode' = "manual"
                      /\ LastOf(queue', asked'.duty) \/ (NoneOf(queue') /\ Obeyed(asked.duty)')
    BY DEF LastWord, LastOf, NoneOf, Obeyed
  <2>1. /\ fanMode = "manual"
        /\ LastOf(queue, asked.duty) \/ (NoneOf(queue) /\ Obeyed(asked.duty))
    BY DEF LastWord
  <2>2. queue' = Tail(queue) /\ fanMode' = "manual"
    BY <1>3, <2>1
  <2>3. CASE LastOf(queue, asked.duty)
    BY <1>2, <2>2, <2>3, Behind
  <2>4. CASE NoneOf(queue) /\ Obeyed(asked.duty)
    BY <1>2, <2>2, <2>4, Behind
  <2> QED BY <2>1, <2>2, <2>3, <2>4
<1> QED BY <1>1, <1>3, <1>5, <1>6, <1>7, <1>8 DEF StepTyped

(* The head's command goes on: the loop and the rider hear nothing. *)
LEMMA GoesOn ==
  ASSUME FanInv, queue # <<>>, UNCHANGED <<queue, loop, service, asked>>,
         faults' \in {faults, faults + 1},
         Head1.kind = "kick" => UNCHANGED <<phase, target, pwmDuty>>
  PROVE  LastWord'
<1> USE DEF FanInv
<1> SUFFICES ASSUME asked # Nobody, service = "up"
             PROVE  /\ fanMode' = "manual"
                    /\ LastOf(queue, asked.duty) \/ (NoneOf(queue) /\ Obeyed(asked.duty)')
  BY DEF LastWord, LastOf, NoneOf, Obeyed, loop
<1>1. /\ fanMode' = "manual"
      /\ LastOf(queue, asked.duty) \/ (NoneOf(queue) /\ Obeyed(asked.duty))
  BY DEF LastWord, loop
<1>2. NoneOf(queue) => Head1.kind = "kick"
  BY TheHead DEF NoneOf
<1>3. faults > 0 => faults' > 0
  BY TypesHold, Numbers DEF Types, BudgetTyped
<1>4. UNCHANGED <<phase, target, pwmDuty>> /\ Obeyed(asked.duty) => Obeyed(asked.duty)'
  BY <1>3 DEF Obeyed
<1> QED BY <1>1, <1>2, <1>4

(* A command begins. *)
LEMMA StartKeeps ==
  ASSUME FanInv, Start
  PROVE  FanInv'
<1> USE DEF FanInv
<1>0. Types /\ queue # <<>> /\ step = "ready"
  BY TypesHold DEF Start, Working
<1>1. /\ UNCHANGED <<pins, output, pwmDuty, hung, phase, bridgeEnabled, kick, fanBike, heat, service, inputs, faults, asked>>
  BY DEF Start, hardware, signals, budget
<1>2. /\ Head1 \in Jobs /\ Head1.duty \in Duties /\ Head1.duty \in Nat
      /\ service = "up" => Head1.kind \in {"duty", "kick"}
  BY <1>0, TheHead, Numbers DEF Jobs
<1>3. BridgeTyped' /\ SignalsTyped' /\ ServiceTyped' /\ BudgetTyped' /\ AskedTyped'
  BY <1>0, <1>1 DEF Types, BridgeTyped, SignalsTyped, ServiceTyped, BudgetTyped, AskedTyped
<1>4. ASSUME Settle(TRUE), kickTimer' \in {None, "armed"}, stray' \in {"no", "yes"},
             \/ Head1.kind = "duty" /\ target' = Head1.duty /\ target' # 0 /\ phase = "kick-start"
             \/ Head1.kind = "kick" /\ UNCHANGED target
      PROVE  FanInv'
  <2>1. target' \in Duties /\ (phase # "idle" => target' # 0)
    BY <1>0, <1>2, <1>4 DEF Types, ContextTyped, Driven
  <2>2. /\ \A d : Head1.kind = "duty" /\ d = Head1.duty => Obeyed(d)'
        /\ \A d : Head1.kind = "kick" /\ Obeyed(d) => Obeyed(d)'
    BY <1>1, <1>4 DEF Obeyed
  <2>3. StepTyped' /\ QueueTyped' /\ LoopTyped' /\ GestureTyped' /\ Progress' /\ LastWord'
    BY <1>0, <1>1, <1>4, <2>1, <2>2, SettleKeeps
  <2>4. step' = "ready"
    BY <1>4 DEF Settle
  <2>5. Driven'
    BY <1>1, <2>1, <2>4 DEF Driven, KickSteps, IdleSteps
  <2>6. ContextTyped'
    BY <1>0, <1>1, <1>4, <2>1 DEF Types, ContextTyped
  <2> QED BY <1>3, <2>3, <2>5, <2>6, TypesSuffice DEF Types
<1>5. ASSUME NEW to, Goes(to), kickTimer' \in {None, "armed"}, stray' \in {"no", "yes"}, UNCHANGED failed,
             \/ /\ to = "idle bridge" /\ UNCHANGED target
                /\ Head1.kind = "stop" \/ (Head1.kind = "duty" /\ Head1.duty = 0)
             \/ to \in {"kick duty", "apply"} /\ Head1.kind = "duty" /\ target' = Head1.duty /\ target' # 0
             \/ to = "apply" /\ Head1.kind = "kick" /\ UNCHANGED target /\ phase # "idle"
      PROVE  FanInv'
  <2>1. step' = to /\ UNCHANGED <<queue, loop, gesture>> /\ Head1' = Head1
    BY <1>5 DEF Goes, Head1
  <2>2. LastWord'
    BY <1>0, <1>1, <1>5, <2>1, GoesOn
  <2>3. target' \in Duties
    BY <1>0, <1>2, <1>5 DEF Types, ContextTyped
  <2>4. Driven'
    BY <1>1, <1>5, <2>1 DEF Driven, KickSteps, IdleSteps
  <2>5. Progress'
    BY <1>0, <1>1, <1>5, <2>1 DEF Progress, KickSteps, IdleSteps
  <2>6. ContextTyped' /\ StepTyped'
    BY <1>0, <1>1, <1>5, <2>1, <2>3 DEF Types, ContextTyped, StepTyped, KickSteps, IdleSteps
  <2>7. QueueTyped' /\ LoopTyped' /\ GestureTyped'
    BY <1>0, <2>1 DEF Types, QueueTyped, LoopTyped, GestureTyped, loop, gesture
  <2> QED BY <1>3, <2>2, <2>4, <2>5, <2>6, <2>7, TypesSuffice DEF Types
<1>6. kickTimer \in {None, "armed"} /\ stray \in {"no", "yes"} /\ phase \in {"idle", "kick-start", "running"}
  BY <1>0 DEF Types, ContextTyped
<1>7. Head1.duty < Floor => Head1.duty = 0
  BY <1>2, Numbers DEF Duties
<1>8. CASE Head1.kind = "stop" \/ (Head1.kind = "duty" /\ Head1.duty < Floor)
  <2>0. Head1.kind # "kick" /\ ~(Head1.kind = "duty" /\ Head1.duty >= Floor)
    BY <1>2, <1>8, Numbers
  <2>1. kickTimer' = None /\ Goes("idle bridge") /\ UNCHANGED <<target, failed, stray>>
    BY <1>8, <2>0 DEF Start
  <2> QED BY <1>5, <1>6, <1>7, <1>8, <2>1
<1>9. CASE Head1.kind = "duty" /\ ~(Head1.duty < Floor)
  <2>1. Head1.duty >= Floor /\ Head1.duty # 0
    BY <1>2, <1>9, Numbers
  <2>2. /\ target' = Head1.duty /\ UNCHANGED <<kickTimer, stray>>
        /\ IF phase = "kick-start" THEN Settle(TRUE)
           ELSE Goes(IF phase = "idle" THEN "kick duty" ELSE "apply") /\ UNCHANGED failed
    BY <1>9, <2>1 DEF Start
  <2>3. CASE phase = "kick-start"
    BY <1>4, <1>6, <1>9, <2>1, <2>2, <2>3
  <2>4. CASE phase # "kick-start"
    BY <1>5, <1>6, <1>9, <2>1, <2>2, <2>4
  <2> QED BY <2>3, <2>4
<1>10. CASE Head1.kind = "kick"
  <2>1. /\ stray' = (IF kickTimer = "armed" THEN "yes" ELSE stray)
        /\ UNCHANGED target
        /\ IF phase = "kick-start" /\ kick = "full" THEN kickTimer' = None /\ Goes("apply") /\ UNCHANGED failed
           ELSE kickTimer' = (IF phase = "kick-start" THEN "armed" ELSE None) /\ Settle(TRUE)
    BY <1>10 DEF Start
  <2>2. stray' \in {"no", "yes"} /\ kickTimer' \in {None, "armed"}
    BY <1>6, <2>1
  <2>3. CASE phase = "kick-start" /\ kick = "full"
    BY <1>5, <1>10, <2>1, <2>2, <2>3
  <2>4. CASE ~(phase = "kick-start" /\ kick = "full")
    BY <1>4, <1>10, <2>1, <2>2, <2>4
  <2> QED BY <2>3, <2>4
<1> QED BY <1>2, <1>8, <1>9, <1>10 DEF Jobs

(* A write succeeds. *)
LEMMA WriteKeeps ==
  ASSUME FanInv, Write
  PROVE  FanInv'
<1> USE DEF FanInv
<1>0. Types /\ queue # <<>> /\ step # "ready"
  BY TypesHold DEF Write, Working
<1>1. UNCHANGED <<hung, fanBike, heat, service, inputs, faults, asked>>
  BY DEF Write, signals, budget
<1>2. /\ Head1 \in Jobs /\ Head1.duty \in Duties
      /\ service = "up" => Head1.kind \in {"duty", "kick"}
      /\ faults \in Nat
  BY <1>0, TheHead, Numbers DEF Jobs, Types, BudgetTyped
<1>3. SignalsTyped' /\ ServiceTyped' /\ BudgetTyped' /\ AskedTyped'
  BY <1>0, <1>1 DEF Types, SignalsTyped, ServiceTyped, BudgetTyped, AskedTyped
<1>4. ASSUME NEW ok \in BOOLEAN, Settle(ok), BridgeTyped', ContextTyped', Driven',
             \A d : Head1.kind = "duty" /\ d = Head1.duty => Obeyed(d)',
             \A d : Head1.kind = "kick" /\ Obeyed(d) => Obeyed(d)'
      PROVE  FanInv'
  <2>1. StepTyped' /\ QueueTyped' /\ LoopTyped' /\ GestureTyped' /\ Progress' /\ LastWord'
    BY <1>0, <1>1, <1>4, SettleKeeps DEF ContextTyped
  <2> QED BY <1>3, <1>4, <2>1, TypesSuffice DEF Types
<1>5. ASSUME NEW to, Goes(to), UNCHANGED failed, BridgeTyped', ContextTyped', Driven',
             \/ step \in KickSteps /\ to \in KickSteps /\ UNCHANGED target
             \/ step \in IdleSteps /\ to \in IdleSteps,
             Head1.kind = "kick" => UNCHANGED <<phase, target, pwmDuty>>
      PROVE  FanInv'
  <2>1. step' = to /\ UNCHANGED <<queue, loop, gesture>> /\ Head1' = Head1
    BY <1>5 DEF Goes, Head1
  <2>2. LastWord'
    BY <1>0, <1>1, <1>5, <2>1, GoesOn
  <2>3. Progress'
    BY <1>0, <1>1, <1>5, <2>1 DEF Progress, KickSteps, IdleSteps
  <2>4. QueueTyped' /\ LoopTyped' /\ GestureTyped' /\ StepTyped'
    BY <1>0, <1>5, <2>1 DEF Types, QueueTyped, LoopTyped, GestureTyped, StepTyped, loop, gesture
  <2> QED BY <1>3, <1>5, <2>2, <2>3, <2>4, TypesSuffice DEF Types
<1>6. (Head1.kind = "kick" => step \notin KickSteps) /\ Full # 0
  <2>1. Head1.kind = "kick" => step \notin KickSteps
    BY <1>0 DEF Progress, KickSteps, IdleSteps
  <2>2. Full # 0
    BY Numbers
  <2> QED BY <2>1, <2>2
<1>7. CASE step = "kick duty"
  <2>1. pwmDuty' = Full /\ Goes("kick output") /\ UNCHANGED <<pins, output, context, failed>>
    BY <1>7 DEF Write
  <2>2. UNCHANGED <<phase, target, bridgeEnabled, kickTimer, stray, kick>> /\ step' = "kick output"
    BY <2>1 DEF context, Goes
  <2>3. BridgeTyped' /\ ContextTyped'
    BY <1>0, <1>1, <2>1, <2>2, Numbers DEF Types, BridgeTyped, ContextTyped
  <2>4. Driven'
    BY <1>6, <1>7, <2>1, <2>2 DEF Driven, KickSteps
  <2> QED BY <1>5, <1>6, <1>7, <2>1, <2>2, <2>3, <2>4 DEF KickSteps
<1>8. CASE step = "kick output"
  <2>1. output' = "on" /\ Goes("kick bridge") /\ UNCHANGED <<pins, pwmDuty, context, failed>>
    BY <1>8 DEF Write
  <2>2. UNCHANGED <<phase, target, bridgeEnabled, kickTimer, stray, kick>> /\ step' = "kick bridge"
    BY <2>1 DEF context, Goes
  <2>3. BridgeTyped' /\ ContextTyped'
    BY <1>0, <1>1, <2>1, <2>2, Numbers DEF Types, BridgeTyped, ContextTyped
  <2>4. Driven'
    BY <1>8, <2>1, <2>2, Numbers DEF Driven, KickSteps, IdleSteps
  <2> QED BY <1>5, <1>6, <1>8, <2>1, <2>2, <2>3, <2>4 DEF KickSteps
<1>9. CASE step = "kick bridge"
  <2>1. /\ pins' = ENABLE_GPIOS /\ bridgeEnabled' = "yes" /\ phase' = "kick-start"
        /\ kickTimer' = "armed" /\ kick' = "short"
        /\ UNCHANGED <<output, pwmDuty, target, stray>> /\ Settle(TRUE)
    BY <1>9 DEF Write
  <2>2. step' = "ready"
    BY <2>1 DEF Settle
  <2>3. BridgeTyped' /\ ContextTyped'
    BY <1>0, <1>1, <2>1, Numbers DEF Types, BridgeTyped, ContextTyped
  <2>4. Driven'
    BY <1>6, <1>9, <2>1, <2>2 DEF Driven, KickSteps
  <2>5. Head1.kind = "duty" => target' = Head1.duty
    BY <1>9, <2>1 DEF Progress, KickSteps, IdleSteps
  <2>6. \A d : Head1.kind = "duty" /\ d = Head1.duty => Obeyed(d)'
    BY <2>1, <2>5 DEF Obeyed
  <2>7. Head1.kind # "kick"
    BY <1>6, <1>9 DEF KickSteps
  <2> QED BY <1>4, <2>1, <2>3, <2>4, <2>6, <2>7
<1>10. CASE step = "apply"
  <2>1. /\ pwmDuty' = target /\ phase' = "running" /\ kick' = "short"
        /\ UNCHANGED <<pins, output, target, bridgeEnabled, kickTimer, stray>> /\ Settle(TRUE)
    BY <1>10 DEF Write
  <2>2. step' = "ready"
    BY <2>1 DEF Settle
  <2>3. BridgeTyped' /\ ContextTyped'
    BY <1>0, <1>1, <2>1, Numbers DEF Types, BridgeTyped, ContextTyped
  <2>4. Driven'
    BY <1>10, <2>1, <2>2, Numbers DEF Driven, KickSteps, IdleSteps
  <2>5. Head1.kind = "duty" => target' = Head1.duty
    BY <1>10, <2>1 DEF Progress, KickSteps, IdleSteps
  <2>6. \A d : Head1.kind = "duty" /\ d = Head1.duty => Obeyed(d)'
    BY <2>1, <2>5 DEF Obeyed
  <2>7. \A d : Obeyed(d) => Obeyed(d)'
    BY <1>1, <2>1 DEF Obeyed
  <2> QED BY <1>4, <2>1, <2>3, <2>4, <2>6, <2>7
<1>11. CASE step = "idle bridge"
  <2>1. /\ pins' = {} /\ bridgeEnabled' = "no" /\ Goes("idle output")
        /\ UNCHANGED <<output, pwmDuty, phase, target, kickTimer, stray, kick, failed>>
    BY <1>11 DEF Write
  <2>2. step' = "idle output"
    BY <2>1 DEF Goes
  <2>3. BridgeTyped' /\ ContextTyped'
    BY <1>0, <1>1, <2>1, Numbers DEF Types, BridgeTyped, ContextTyped
  <2>4. Driven'
    BY <1>11, <2>1, <2>2, Numbers DEF Driven, KickSteps, IdleSteps
  <2> QED BY <1>5, <1>11, <2>1, <2>3, <2>4 DEF IdleSteps
<1>12. CASE step = "idle output"
  <2>1. output' = "off" /\ Goes("idle duty") /\ UNCHANGED <<pins, pwmDuty, context, failed>>
    BY <1>12 DEF Write
  <2>2. UNCHANGED <<phase, target, bridgeEnabled, kickTimer, stray, kick>> /\ step' = "idle duty"
    BY <2>1 DEF context, Goes
  <2>3. BridgeTyped' /\ ContextTyped'
    BY <1>0, <1>1, <2>1, <2>2, Numbers DEF Types, BridgeTyped, ContextTyped
  <2>4. Driven'
    BY <1>12, <2>1, <2>2, Numbers DEF Driven, KickSteps, IdleSteps
  <2> QED BY <1>5, <1>12, <2>1, <2>2, <2>3, <2>4 DEF IdleSteps
<1>13. CASE step = "idle duty"
  <2>1. /\ pwmDuty' = 0 /\ target' = 0 /\ phase' = "idle" /\ kick' = "short"
        /\ UNCHANGED <<pins, output, bridgeEnabled, kickTimer, stray>> /\ Settle(failed = "no")
    BY <1>13 DEF Write
  <2>2. step' = "ready" /\ (failed = "no") \in BOOLEAN
    BY <2>1 DEF Settle
  <2>3. BridgeTyped' /\ ContextTyped'
    BY <1>0, <1>1, <2>1, Numbers DEF Types, BridgeTyped, ContextTyped
  <2>4. Driven'
    BY <1>13, <2>1, <2>2, Numbers DEF Driven, KickSteps, IdleSteps
  <2>5. /\ Head1.kind = "duty" => Head1.duty = 0 \/ faults > 0
        /\ Head1.kind = "kick" => faults > 0
    BY <1>13 DEF Progress, KickSteps, IdleSteps
  <2>6. /\ \A d : Head1.kind = "duty" /\ d = Head1.duty => Obeyed(d)'
        /\ \A d : Head1.kind = "kick" /\ Obeyed(d) => Obeyed(d)'
    BY <1>1, <2>1, <2>5 DEF Obeyed
  <2> QED BY <1>4, <2>1, <2>2, <2>3, <2>4, <2>6
<1>14. step \in {"kick duty", "kick output", "kick bridge", "apply", "idle bridge", "idle output", "idle duty"}
  BY <1>0 DEF Types, StepTyped, KickSteps, IdleSteps
<1> QED BY <1>7, <1>8, <1>9, <1>10, <1>11, <1>12, <1>13, <1>14

(* A write fails. *)
LEMMA FailureKeeps ==
  ASSUME FanInv, WriteFails
  PROVE  FanInv'
<1> USE DEF FanInv
<1>0. Types /\ queue # <<>> /\ step # "ready"
  BY TypesHold DEF WriteFails, Working
<1>1. /\ UNCHANGED <<output, pwmDuty, hung, fanBike, heat, service, inputs, bridgeEnabled, stray, asked>>
      /\ faults' = faults + 1 /\ faults < MaxFaults /\ pins' \in PinsAfterFailure
  BY DEF WriteFails, signals
<1>2. /\ Head1 \in Jobs
      /\ service = "up" => Head1.kind \in {"duty", "kick"}
      /\ faults \in Nat /\ faults' \in 0..MaxFaults /\ faults' > 0
  BY <1>0, <1>1, TheHead, Numbers DEF Types, BudgetTyped
<1>3. SignalsTyped' /\ ServiceTyped' /\ BudgetTyped' /\ AskedTyped'
  BY <1>0, <1>1, <1>2 DEF Types, SignalsTyped, ServiceTyped, BudgetTyped, AskedTyped
<1>4. /\ pins' \subseteq ENABLE_GPIOS
      /\ pins \subseteq {17} => pins' \subseteq {17}
  BY <1>0, <1>1 DEF Types, BridgeTyped, PinsAfterFailure, ENABLE_GPIOS
<1>5. BridgeTyped'
  BY <1>0, <1>1, <1>4 DEF Types, BridgeTyped
<1>6. CASE step \in {"idle output", "idle duty"} \/ LeftDriving
  <2>1. /\ target' = 0 /\ phase' = "idle" /\ kick' = "short" /\ Settle(FALSE) /\ UNCHANGED kickTimer
    BY <1>6 DEF WriteFails
  <2>2. \A d : Obeyed(d)'
    BY <1>2, <2>1 DEF Obeyed
  <2>3. ContextTyped'
    BY <1>0, <1>1, <2>1, Numbers DEF Types, ContextTyped
  <2>4. StepTyped' /\ QueueTyped' /\ LoopTyped' /\ GestureTyped' /\ Progress' /\ LastWord'
    BY <1>0, <1>1, <2>1, <2>2, Numbers, SettleKeeps
  <2>5. step' = "ready"
    BY <2>1 DEF Settle
  <2>6. Driven'
    BY <1>1, <1>4, <2>1, <2>5 DEF Driven, KickSteps
  <2> QED BY <1>3, <1>5, <2>3, <2>4, <2>6, TypesSuffice DEF Types
<1>7. CASE ~(step \in {"idle output", "idle duty"} \/ LeftDriving)
  <2>1. /\ failed' = "yes"
        /\ Goes(IF step = "idle bridge" THEN "idle output" ELSE "idle bridge")
        /\ kickTimer' = (IF step = "idle bridge" THEN kickTimer ELSE None)
        /\ UNCHANGED <<phase, target, bridgeEnabled, stray, kick>>
    BY <1>7 DEF WriteFails
  <2>2. /\ step' = IF step = "idle bridge" THEN "idle output" ELSE "idle bridge"
        /\ UNCHANGED <<queue, loop, gesture>> /\ Head1' = Head1
    BY <2>1 DEF Goes, Head1
  <2>3. step = "idle bridge" => bridgeEnabled = "no"
    BY <1>0, <1>7 DEF LeftDriving, Types, ContextTyped
  <2>4. LastWord'
    BY <1>0, <1>1, <2>1, <2>2, GoesOn
  <2>5. Driven'
    BY <1>1, <1>4, <2>1, <2>2, <2>3 DEF Driven, KickSteps, IdleSteps
  <2>6. Progress'
    BY <1>0, <1>1, <1>2, <2>1, <2>2 DEF Progress, KickSteps, IdleSteps
  <2>7. ContextTyped' /\ StepTyped'
    BY <1>0, <2>1, <2>2 DEF Types, ContextTyped, StepTyped, IdleSteps
  <2>8. QueueTyped' /\ LoopTyped' /\ GestureTyped'
    BY <1>0, <2>2 DEF Types, QueueTyped, LoopTyped, GestureTyped, loop, gesture
  <2> QED BY <1>3, <1>5, <2>4, <2>5, <2>6, <2>7, <2>8, TypesSuffice DEF Types
<1> QED BY <1>6, <1>7

(* Every step keeps the invariant. *)
LEMMA FanInvStep ==
  ASSUME FanInv, [FanNext]_fanVars
  PROVE  FanInv'
  BY LoopKeeps, RiderKeeps, BeatKeeps, AroundKeeps, KickFires, ShutdownKeeps, StartKeeps, WriteKeeps,
     FailureKeeps DEF FanNext

(* The enables are never both high over an output that is off or at duty 0,     *)
(* whichever writes fail, in any number (control.ts: goIdle, beginKickStart).   *)
THEOREM NeverBraking == FanSpec => []NeverBrakes
<1>1. FanInv => NeverBrakes
  <2> SUFFICES ASSUME FanInv, pins = ENABLE_GPIOS PROVE output = "on" /\ pwmDuty # 0
    BY DEF NeverBrakes
  <2>1. bridgeEnabled \in {"no", "yes"}
    BY TypesHold DEF FanInv, Types, ContextTyped
  <2>2. ~(pins \subseteq {17})
    BY DEF ENABLE_GPIOS
  <2> QED BY <2>1, <2>2 DEF FanInv, Driven
<1>2. FanInit => FanInv
  BY FanInvInit
<1>3. FanInv /\ [FanNext]_fanVars => FanInv'
  BY FanInvStep
<1> QED BY <1>1, <1>2, <1>3, PTL DEF FanSpec

(* Once the chain is idle in manual mode the fan has what was asked for by hand *)
(* last, or a write failed and it is stopped (auto.ts: commandManual, evaluate). *)
THEOREM RidersWordHolds == FanSpec => []ManualHolds
<1>1. FanInv => ManualHolds
  <2> SUFFICES ASSUME FanInv, service = "up", asked # Nobody, queue = <<>> PROVE Obeyed(asked.duty)
    BY DEF ManualHolds, Obeyed
  <2>1. ~LastOf(queue, asked.duty)
    BY DEF LastOf
  <2> QED BY <2>1 DEF FanInv, LastWord
<1>2. FanInit => FanInv
  BY FanInvInit
<1>3. FanInv /\ [FanNext]_fanVars => FanInv'
  BY FanInvStep
<1> QED BY <1>1, <1>2, <1>3, PTL DEF FanSpec
=============================================================================
