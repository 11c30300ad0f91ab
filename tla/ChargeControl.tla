---------------------------- MODULE ChargeControl ----------------------------
(* The automatic charge current (src/charge/auto.ts), the runner's            *)
(* charge-current command (src/vcu/write-runner.ts, write-session.ts) and the *)
(* two people it shares the motorcycle with: the rider at the dash, and a     *)
(* hand on the phone.                                                         *)
(*                                                                            *)
(* The controller cannot ask who set the current.  It hears 0x121 events: the *)
(* motorcycle sends one for a dial that is turned, one in answer to every     *)
(* 0x120 commit of its own, and one when a cable leaves and the setting       *)
(* resets.  What the temperature rule measures is left open: the verdict is   *)
(* any that decideChargeCurrent can give for some history.                    *)
EXTENDS Integers, Sequences

CONSTANTS Ceiling,    \* fast_dc_limit_max_a: the ceiling the dash knows
          MinCommand, \* MIN_COMMAND_A: the least an automatic command asks for
          MaxStep,    \* MAX_STEP_A
          WireLimit   \* bound: frames from the motorcycle not heard yet

ASSUME ChargeAssumption ==
  /\ Ceiling \in Nat \ {0} /\ MinCommand \in Nat \ {0} /\ MaxStep \in Nat \ {0}
  /\ WireLimit \in Nat \ {0}

VARIABLES plug,          \* the motorcycle: "idle", or in an "ac" or "dc" session
          commits,       \* 0x120 commits it has not acted on
          toPi,          \* its frames this process has not read
          seen,          \* lastSessionState: charge_manager_state as last heard
          fresh,         \* whether that is younger than CHARGE_SESSION_MAX_AGE_MS
          logged,        \* signals.ts lastLogged of dc_charge_limit_selected_a
          mode,          \* context.mode
          riderOverride, \* context.riderOverride: "standing down" or "free"
          reason,        \* context.reason, and charge_auto_reason with it
          lastCommand,   \* context.lastCommand.amps, 0 for null
          lastSentAmps,  \* context.lastSentAmps, 0 for null
          inFlight,      \* context.inFlight
          command,       \* the charge-current action that has the bus
          rider          \* history: what this charge's rider is owed

bike == <<plug, commits>>
memory == <<mode, riderOverride, reason, lastCommand, lastSentAmps>>
vars == <<bike, toPi, seen, fresh, logged, memory, inFlight, command, rider>>

Current == 1..Ceiling
Origins == {"manual", "automatic"}
Sessions == {"ac", "dc"}
\* CHARGE_AUTO_REASON: "RULE" is any of the reasons the temperature rule gives.
Reasons == {"DISABLED", "RIDER", "NOT_DC", "RULE"}
Event(key, value, by) == [key |-> key, value |-> value, by |-> by]
NoCommand == [by |-> "nobody", session |-> "dc", amps |-> 0, step |-> "none"]
Frame == [by : Origins, session : Sessions, amps : Current]

Init == /\ plug \in {"idle", "ac", "dc"}
        /\ commits = <<>> /\ toPi = <<>>
        /\ seen = "none" /\ fresh = FALSE /\ logged = 0
        /\ mode = "automatic" /\ riderOverride = "free" /\ reason = "RULE"
        /\ lastCommand = 0 /\ lastSentAmps = 0
        /\ inFlight = FALSE /\ command = NoCommand
        /\ rider = "quiet"

(***************************************************************************)
(* auto-curve.ts: the verdicts the rule can reach.                         *)
(***************************************************************************)
Hold(why) == [kind |-> "hold", amps |-> 0, reason |-> why]
AtLeast(a, b) == IF a < b THEN b ELSE a
AtMost(a, b) == IF a > b THEN b ELSE a

stepTo(wanted, current) ==
  LET amps == AtMost(Ceiling, AtLeast(MinCommand, wanted))
  IN  IF Ceiling <= MinCommand \/ amps = current
      THEN Hold("RULE")
      ELSE [kind |-> "command", amps |-> amps, reason |-> "RULE"]

\* A step either way, or none: no temperature, no history, near the setpoint,
\* a command not measured yet, a charge that ends first.
Measured(commanded) ==
  LET current == IF commanded = 0 THEN Ceiling ELSE commanded
  IN  {Hold("RULE")} \cup {stepTo(current + s, current) : s \in -MaxStep..MaxStep}

\* decideChargeCurrent
Verdicts(wanted, override, session, young, commanded) ==
  IF wanted # "automatic" THEN {Hold("DISABLED")}
  ELSE IF override # "free" THEN {Hold("RIDER")}
  ELSE IF session # "dc" \/ ~young THEN {Hold("NOT_DC")}
  ELSE Measured(commanded)

(***************************************************************************)
(* The motorcycle, and the rider at its dash.                              *)
(***************************************************************************)
Send(events) == /\ Len(toPi) + Len(events) <= WireLimit
                /\ toPi' = toPi \o events

Pi == <<seen, fresh, logged, memory, inFlight, command, rider>>

\* A cable is not seated again in the milliseconds a frame takes.
Plug(s) == /\ plug = "idle" /\ commits = <<>> /\ toPi = <<>>
           /\ plug' = s
           /\ Send(<<Event("session", s, "bike")>>)
           /\ UNCHANGED <<commits, Pi>>

\* The setting resets.  What is said of it depends on how soon the charge
\* manager, awake only with a cable, falls silent.
Unplug == /\ plug # "idle"
          /\ plug' = "idle"
          /\ \E reset \in {<<>>, <<Event("setpoint", Ceiling, "bike")>>},
                over \in {<<>>, <<Event("session", "idle", "bike")>>} :
               Send(reset \o over)
          /\ UNCHANGED <<commits, Pi>>

Broadcast == /\ plug # "idle"
             /\ Send(<<Event("session", plug, "bike")>>)
             /\ UNCHANGED <<bike, Pi>>

\* A dial turned in an AC session moves no signal the controller hears.
Dial(amps) == /\ plug = "dc"
              /\ Send(<<Event("setpoint", amps, "dash")>>)
              /\ UNCHANGED <<plug, commits, Pi>>

\* The commit takes; the answer carries the amps it asked for.  In a session of
\* the other kind, or none, it takes nothing and may or may not be answered.
TakeCommit ==
  /\ commits # <<>>
  /\ commits' = Tail(commits)
  /\ LET c == Head(commits)
         answer == IF c.session = "dc" THEN <<Event("setpoint", c.amps, c.by)>> ELSE <<>>
     IN  \/ toPi' = toPi \o answer
         \/ plug # c.session /\ UNCHANGED toPi
  /\ UNCHANGED <<plug, Pi>>

(***************************************************************************)
(* auto.ts: what the controller remembers.                                 *)
(***************************************************************************)
\* Mutant: only a hand-set current is noted.
noteManualOnly(amps, origin) ==
  /\ lastSentAmps' = IF origin = "manual" THEN amps ELSE lastSentAmps
  /\ IF origin = "manual"
     THEN riderOverride' = "standing down" /\ reason' = "RIDER" /\ rider' = "owed"
     ELSE UNCHANGED <<riderOverride, rider>>
\* noteChargeCurrentOutgoing, before a frame is on the bus.
noteChargeCurrentOutgoing(amps, origin) ==
  /\ lastSentAmps' = amps
  /\ IF origin = "manual"
     THEN riderOverride' = "standing down" /\ reason' = "RIDER" /\ rider' = "owed"
     ELSE UNCHANGED <<riderOverride, rider>>

\* A session edge takes the memory with it, and the sentence.
forgetSession(session) ==
  /\ lastCommand' = 0 /\ lastSentAmps' = 0
  /\ riderOverride' = "free"
  /\ \E v \in Verdicts(mode, "free", session, TRUE, 0) : reason' = v.reason

\* Mutant: every setpoint heard during a command is taken for its answer.
isSetpointInTheQuiet(amps) == ~inFlight /\ amps \notin {lastSentAmps, Ceiling}
isRiderSetpoint(amps) == amps \notin {lastSentAmps, Ceiling}

standDown == riderOverride' = "standing down" /\ reason' = "RIDER"

setMode(m) ==
  /\ mode' = m
  /\ riderOverride' = IF m = "automatic" THEN "free" ELSE riderOverride
  /\ \E v \in Verdicts(m, riderOverride', seen, fresh, lastCommand) : reason' = v.reason
  /\ rider' = IF m = "automatic" THEN "quiet" ELSE rider
  /\ UNCHANGED <<bike, toPi, seen, fresh, logged, lastCommand, lastSentAmps,
                 inFlight, command>>

\* A charge_manager_state frame: only a change of it is an edge.
HearSession(session) ==
  /\ seen' = session /\ fresh' = TRUE
  /\ IF session # seen
     THEN /\ forgetSession(session)
          /\ rider' = "quiet"
          /\ UNCHANGED mode
     ELSE UNCHANGED <<memory, rider>>
  /\ UNCHANGED <<logged, inFlight, command>>

\* What a setpoint that arrives says of the rider, who is owed a stand-down from
\* then on unless it is one of the exceptions of docs/charge-auto.md: the amps
\* last sent, the ceiling, and (in no document) the amps logged last.
Owed(e) == CASE e.by # "dash" -> rider
             [] rider = "owed" \/ e.value \notin {lastSentAmps, Ceiling, logged} -> "owed"
             [] rider = "repeated" \/ e.value \notin {lastSentAmps, Ceiling} -> "repeated"
             [] OTHER -> "excepted"

\* A 0x121 event: record() calls the listeners only for a value not logged last.
HearSetpoint(e) ==
  /\ logged' = e.value
  /\ rider' = Owed(e)
  /\ IF e.value # logged /\ isRiderSetpoint(e.value)
     THEN standDown
     ELSE UNCHANGED <<riderOverride, reason>>
  /\ UNCHANGED <<seen, fresh, mode, lastCommand, lastSentAmps, inFlight, command>>

Hear == /\ toPi # <<>>
        /\ toPi' = Tail(toPi)
        /\ LET e == Head(toPi)
           IN  IF e.key = "session" THEN HearSession(e.value) ELSE HearSetpoint(e)
        /\ UNCHANGED bike

GoStale == /\ fresh /\ toPi = <<>>
           /\ fresh' = FALSE
           /\ UNCHANGED <<bike, toPi, seen, logged, memory, inFlight, command, rider>>

(***************************************************************************)
(* performChargeCurrent and sendChargeCommand, two frames and two gaps.    *)
(***************************************************************************)
acquireBus == command = NoCommand
sent(origin, amps) ==
  /\ commits' = Append(commits, [by |-> origin, session |-> seen, amps |-> amps])
  /\ command' = [NoCommand EXCEPT !.by = origin, !.session = seen, !.amps = amps,
                                  !.step = "gap"]
\* The first frame cannot be sent: the answer waits for the audit record only.
notSent(origin, amps) ==
  /\ command' = [NoCommand EXCEPT !.by = origin, !.session = seen, !.amps = amps,
                                  !.step = "failed"]
  /\ UNCHANGED commits

performChargeCurrent(origin, amps) ==
  /\ acquireBus
  /\ seen \in Sessions /\ fresh                \* chargeSessionFrom
  /\ noteChargeCurrentOutgoing(amps, origin)
  /\ sent(origin, amps) \/ notSent(origin, amps)
  /\ UNCHANGED <<plug, toPi, seen, fresh, logged, mode, lastCommand>>

\* runTick: from the verdict to the first frame there is no await another task
\* could run in.  A refused command has changed the sentence only.
Command(v) == /\ v.kind = "command"
              /\ reason' = v.reason
              /\ performChargeCurrent("automatic", v.amps)
              /\ inFlight' = TRUE
Decided(v) == /\ reason' = v.reason
              /\ UNCHANGED <<bike, toPi, seen, fresh, logged, mode, riderOverride,
                             lastCommand, lastSentAmps, inFlight, command, rider>>
runTick ==
  /\ ~inFlight
  /\ \E v \in Verdicts(mode, riderOverride, seen, fresh, lastCommand) :
       Command(v) \/ Decided(v)

\* POST /vcu-write?action=charge-current.
SetByHand(amps) == performChargeCurrent("manual", amps) /\ UNCHANGED inFlight

Rest == <<plug, commits, toPi, seen, fresh, logged, mode, riderOverride,
          reason, lastSentAmps, rider>>

\* After the first gap, the 0x121 twin: it moves the dash's display, no current.
SecondFrame ==
  /\ command.step = "gap"
  /\ \E step \in {"settling", "failed"} : command' = [command EXCEPT !.step = step]
  /\ UNCHANGED <<Rest, inFlight, lastCommand>>

\* The motorcycle has answered: measured 3-10 ms after the commit, against two
\* 5 ms gaps and the synced append to the audit journal.
Answered == commits = <<>> /\ \A i \in DOMAIN toPi : toPi[i].by \notin Origins

Landed == /\ command.step = "settling"
          /\ lastCommand' = IF command.by = "automatic" THEN command.amps ELSE lastCommand
Refused == command.step = "failed" /\ UNCHANGED lastCommand

\* The audit record is written, the lease released and the caller answered.
FinishCommand == /\ Answered
                 /\ Landed \/ Refused
                 /\ inFlight' = (inFlight /\ command.by # "automatic")
                 /\ command' = NoCommand
                 /\ UNCHANGED Rest

Next == \/ \E s \in Sessions : Plug(s)
        \/ Unplug \/ Broadcast \/ TakeCommit
        \/ \E a \in Current : Dial(a) \/ SetByHand(a)
        \/ \E m \in {"automatic", "off"} : setMode(m)
        \/ Hear \/ GoStale \/ runTick \/ SecondFrame \/ FinishCommand

Spec == Init /\ [][Next]_vars
FairSpec == /\ Spec
            /\ WF_vars(Hear) /\ WF_vars(SecondFrame) /\ WF_vars(FinishCommand)
            /\ WF_vars(TakeCommit)

(***************************************************************************)
(* Properties.                                                             *)
(***************************************************************************)
Events == [key : {"session"}, value : Sessions \cup {"idle"}, by : {"bike"}]
          \cup [key : {"setpoint"}, value : Current, by : Origins \cup {"bike", "dash"}]

TypeOK ==
  /\ plug \in Sessions \cup {"idle"}
  /\ commits \in Seq(Frame) /\ Len(commits) <= 1
  /\ toPi \in Seq(Events)
  /\ seen \in Sessions \cup {"idle", "none"} /\ fresh \in BOOLEAN
  /\ logged \in Current \cup {0}
  /\ mode \in {"automatic", "off"} /\ riderOverride \in {"standing down", "free"}
  /\ reason \in Reasons
  /\ {lastCommand, lastSentAmps} \subseteq Current \cup {0}
  /\ inFlight \in BOOLEAN
  /\ command \in [by : Origins \cup {"nobody"}, session : Sessions, amps : Current \cup {0},
                  step : {"none", "gap", "settling", "failed"}]
  /\ (inFlight <=> command.by = "automatic")
  /\ rider \in {"quiet", "excepted", "repeated", "owed"}

(* The sentence moves with the flag, in both directions (auto.ts standDown,  *)
(* setMode, forgetSession): while the controller is switched on, the charge  *)
(* page offers to take the current back exactly while it stands down.        *)
ReasonMovesWithFlag ==
  mode = "automatic" => (riderOverride = "standing down" <=> reason = "RIDER")

(* In a DC session the controller stands down for the rider only: neither the *)
(* motorcycle's answer to a command of its own nor the setting that resets at *)
(* an unplug stops it (auto.ts noteChargeCurrentOutgoing, isRiderSetpoint).   *)
StandsDownForRider ==
  seen = "dc" /\ riderOverride = "standing down" => rider # "quiet"

Automatic == command'.by = "automatic" /\ command.by # "automatic"

(* No automatic command leaves while the rider is owed a stand-down: since a  *)
(* hand-set current or a dial that was heard, until the next session edge or  *)
(* until the rider takes the controller back.                                 *)
RiderWins == [][Automatic => rider # "owed"]_vars

(* docs/charge-auto.md names two settings of the dial the controller ignores, *)
(* the amps it last sent and the ceiling: every other one stands it down.     *)
DialsAreHonoured == [][Automatic => rider \notin {"owed", "repeated"}]_vars

(* A command that left is answered, whatever becomes of its frames, and the   *)
(* controller may send the next one.                                          *)
CommandEnds == inFlight ~> ~inFlight
=============================================================================
