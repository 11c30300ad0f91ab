---------------------------- MODULE ClockGate ----------------------------
(* The GPS clock of src/gps/clock.ts and src/gps/clock-gate.ts: satellite times *)
(* come in from two transports, some of them corrupt; the gate decides which may *)
(* step the system clock, `date` carries the step out or fails, and what the     *)
(* rest of the program may stamp with the clock is told from both.               *)
(*                                                                                *)
(* Satellite times and the system clock are seconds off the true time, so two    *)
(* readings carried forward by monotonic time differ by their offsets.  Time is   *)
(* counted in readings: every tick brings one, or silence.                        *)
EXTENDS Integers, Sequences, FiniteSets

CONSTANTS Offsets,          \* what the receiver may claim; 0 is the truth
          ColdOffset,       \* the clock of a Pi that has just booted
          Required,         \* REQUIRED_CONSISTENT_READINGS
          Displacing,       \* READINGS_TO_DISPLACE_CONTESTED_ANCHOR
          WindowAge,        \* READING_WINDOW_MAX_AGE_MS, in ticks
          AnchorAge,        \* KNOWN_GOOD_MAX_AGE_MS, in ticks
          Cooldown,         \* MIN_SECONDS_BETWEEN_STEPS, in ticks
          DateTicks,        \* how long `date` may take (a bound of the model)
          MaxFaults,        \* runs of `date` that fail (a bound of the model)
          MaxMoves          \* times somebody else sets the clock (a bound of the model)

ASSUME GateBounds ==
  /\ 0 \in Offsets /\ Offsets \subseteq Int /\ ColdOffset \in Int
  /\ {Required, Displacing, WindowAge, AnchorAge, Cooldown, DateTicks} \subseteq Nat \ {0}
  /\ Required <= Displacing /\ Cooldown <= AnchorAge
  /\ MaxFaults \in Nat /\ MaxMoves \in Nat

CONSISTENCY_TOLERANCE_SECONDS == 3
KNOWN_GOOD_TOLERANCE_SECONDS == 10
DRIFT_THRESHOLD_SECONDS == 60
COOLDOWN_OVERRIDE_SECONDS == 3600

VARIABLES window, consecutiveConsistent,      \* the readings that must agree, oldest first
          knownGood, anchorWasContested,      \* the anchor; past its age it is as if there were none
          sinceStep,                          \* ticks since the last step was asked for
          clockConfirmed, clockContested,     \* clock.ts
          system, dates,                      \* the system clock; the runs of `date` under way
          root,                               \* whether this process may set the clock
          streak, fooled,                     \* history: the same time in a row; whether a lie had
                                              \* Required of them
          target, moved, faults, moves        \* history: the last step's target; whether others set
                                              \* the clock since it was last confirmed; two budgets

gate == <<window, consecutiveConsistent, knownGood, anchorWasContested, sinceStep>>
vars == <<window, consecutiveConsistent, knownGood, anchorWasContested, sinceStep,
          clockConfirmed, clockContested, system, dates, root, streak, fooled, target, moved, faults, moves>>

Clocks == Offsets \union {ColdOffset}

TypeOK ==
  /\ window \in Seq([offset : Offsets, age : 0..WindowAge]) /\ Len(window) <= Required
  /\ consecutiveConsistent \in 0..Displacing
  /\ knownGood \in [offset : Offsets, age : 0..(AnchorAge + 1)]
  /\ anchorWasContested \in BOOLEAN /\ sinceStep \in 0..(AnchorAge + 1)
  /\ clockConfirmed \in BOOLEAN /\ clockContested \in BOOLEAN
  /\ system \in Clocks /\ dates \subseteq [offset : Offsets, age : 0..DateTicks] /\ root \in BOOLEAN
  /\ streak \in [offset : Offsets, times : 0..Displacing] /\ fooled \in BOOLEAN /\ target \in Offsets /\ moved \in BOOLEAN
  /\ faults \in 0..MaxFaults /\ moves \in 0..MaxMoves

Init ==
  /\ window = <<>> /\ consecutiveConsistent = 0
  /\ knownGood = [offset |-> 0, age |-> AnchorAge + 1] /\ anchorWasContested = FALSE
  /\ sinceStep = AnchorAge + 1
  /\ clockConfirmed = FALSE /\ clockContested = FALSE
  /\ system \in Clocks /\ dates = {} /\ root \in BOOLEAN
  /\ streak = [offset |-> 0, times |-> 0] /\ fooled = FALSE /\ target = 0 /\ moved = FALSE /\ faults = 0 /\ moves = 0

-----------------------------------------------------------------------------
Apart(x, y, limit) == x - y > limit \/ y - x > limit
AtMost(n, cap) == IF n > cap THEN cap ELSE n

(* A tick of monotonic time. *)
Older == [i \in DOMAIN window |-> [window[i] EXCEPT !.age = @ + 1]]
AnchorOlder == [knownGood EXCEPT !.age = AtMost(@ + 1, AnchorAge + 1)]
SinceStepOlder == AtMost(sinceStep + 1, AnchorAge + 1)
DatesOlder == {[d EXCEPT !.age = @ + 1] : d \in dates}
DatesInTime == \A d \in dates : d.age < DateTicks

(* Readings too old go.  They are in the order they came, one tick apart or     *)
(* more, so a tick can make only the first of them too old.                     *)
Young == IF window # <<>> /\ Older[1].age > WindowAge THEN Tail(Older) ELSE Older

(* offer, its window: what is young of it, and no more than the last Required.  *)
WindowWith(offset) ==
  LET kept == Append(Young, [offset |-> offset, age |-> 0])
  IN IF Len(kept) > Required THEN SubSeq(kept, Len(kept) - Required + 1, Len(kept)) ELSE kept

Disagrees(readings, offset) ==
  \E i \in DOMAIN readings : Apart(readings[i].offset, offset, CONSISTENCY_TOLERANCE_SECONDS)

\* Mutant: the count of agreeing readings is enough.
CorroboratedByCount(readings, count) ==
  count >= (IF anchorWasContested THEN Displacing ELSE Required)

Corroborated(readings, count) ==
  /\ Len(readings) >= Required
  /\ count >= (IF anchorWasContested THEN Displacing ELSE Required)

\* Mutant: the anchor's life and the cooldown are the same.
AnchorFreshForCooldown == AnchorOlder.age <= Cooldown

\* Mutant: an anchor that was contradicted does not expire.
AnchorFreshWhileContested == AnchorOlder.age <= AnchorAge \/ anchorWasContested

AnchorFresh == AnchorOlder.age <= AnchorAge

(* The verdict on a corroborated reading the anchor does not refuse. *)
Verdict(offset) ==
  CASE ~Apart(offset, system, DRIFT_THRESHOLD_SECONDS) -> "in-agreement"
    [] /\ Apart(offset, system, DRIFT_THRESHOLD_SECONDS)
       /\ SinceStepOlder < Cooldown
       /\ ~Apart(offset, system, COOLDOWN_OVERRIDE_SECONDS - 1) -> "cooling-down"
    [] OTHER -> "step"

Streak(offset) ==
  [offset |-> offset, times |-> IF offset = streak.offset THEN AtMost(streak.times + 1, Displacing) ELSE 1]

-----------------------------------------------------------------------------
(* syncSystemClockFromGps without a step: the window disagrees with itself, is   *)
(* not enough yet, or contradicts the anchor.                                     *)
Refuse(offset) ==
  LET readings == WindowWith(offset)
      inconsistent == Disagrees(readings, offset)
      count == IF inconsistent THEN 1 ELSE AtMost(consecutiveConsistent + 1, Displacing)
      corroborated == ~inconsistent /\ Corroborated(readings, count)
  IN /\ corroborated => AnchorFresh /\ Apart(offset, knownGood.offset, KNOWN_GOOD_TOLERANCE_SECONDS)
     /\ window' = readings /\ consecutiveConsistent' = count
     /\ anchorWasContested' = (anchorWasContested \/ corroborated)
     /\ clockContested' = (clockContested \/ corroborated)
     /\ knownGood' = AnchorOlder /\ sinceStep' = SinceStepOlder /\ dates' = DatesOlder
     /\ UNCHANGED <<clockConfirmed, target, moved>>

(* A step is asked for: `date` is run, or this process may not set the clock. *)
ActOnStep(offset) ==
  /\ sinceStep' = 0 /\ target' = offset
  /\ dates' = DatesOlder \union (IF root THEN {[offset |-> offset, age |-> 0]} ELSE {})
  /\ clockContested' = (clockContested \/ ~root)
  /\ UNCHANGED <<clockConfirmed, moved>>

(* syncSystemClockFromGps with a reading that becomes the reference. *)
Adopt(offset) ==
  LET readings == WindowWith(offset)
      count == AtMost(consecutiveConsistent + 1, Displacing)
  IN /\ ~Disagrees(readings, offset) /\ Corroborated(readings, count)
     /\ ~(AnchorFresh /\ Apart(offset, knownGood.offset, KNOWN_GOOD_TOLERANCE_SECONDS))
     /\ window' = readings /\ consecutiveConsistent' = count
     /\ knownGood' = [offset |-> offset, age |-> 0] /\ anchorWasContested' = FALSE
     /\ \/ /\ Verdict(offset) = "in-agreement"
           /\ clockConfirmed' = TRUE /\ clockContested' = FALSE /\ moved' = FALSE
           /\ sinceStep' = SinceStepOlder /\ dates' = DatesOlder /\ UNCHANGED target
        \/ /\ Verdict(offset) = "cooling-down"
           /\ sinceStep' = SinceStepOlder /\ dates' = DatesOlder
           /\ UNCHANGED <<clockConfirmed, clockContested, target, moved>>
        \/ Verdict(offset) = "step" /\ ActOnStep(offset)

(* A frame from CAN 0x410 or from the hub. *)
Hear(offset) ==
  /\ DatesInTime
  /\ Refuse(offset) \/ Adopt(offset)
  /\ streak' = Streak(offset) /\ fooled' = (fooled \/ (offset # 0 /\ streak'.times >= Required))
  /\ UNCHANGED <<system, root, faults, moves>>

(* A tunnel, a garage, a hub that stopped talking. *)
Silence ==
  /\ DatesInTime
  /\ window' = Young
  /\ knownGood' = AnchorOlder /\ sinceStep' = SinceStepOlder /\ dates' = DatesOlder
  /\ UNCHANGED <<consecutiveConsistent, anchorWasContested, clockConfirmed, clockContested,
                 system, root, streak, fooled, target, moved, faults, moves>>

\* Mutant: a `date` that failed is only counted.
DateFailsUnmarked(d) ==
  /\ d \in dates /\ faults < MaxFaults
  /\ dates' = dates \ {d} /\ faults' = faults + 1
  /\ UNCHANGED <<gate, clockConfirmed, clockContested, system, root, streak, fooled, target, moved, moves>>

DateFails(d) ==
  /\ d \in dates /\ faults < MaxFaults
  /\ dates' = dates \ {d} /\ faults' = faults + 1
  /\ clockContested' = TRUE
  /\ UNCHANGED <<gate, clockConfirmed, system, root, streak, fooled, target, moved, moves>>

DateSets(d) ==
  /\ d \in dates
  /\ dates' = dates \ {d} /\ system' = d.offset
  /\ clockConfirmed' = TRUE /\ clockContested' = FALSE /\ moved' = FALSE
  /\ UNCHANGED <<gate, root, streak, fooled, target, faults, moves>>

(* systemd-timesyncd, or somebody at the bike. *)
OthersSet(offset) ==
  /\ moves < MaxMoves /\ moves' = moves + 1
  /\ system' = offset /\ moved' = TRUE
  /\ UNCHANGED <<gate, clockConfirmed, clockContested, dates, root, streak, fooled, target, faults>>

Next ==
  \/ \E offset \in Offsets : Hear(offset) \/ OthersSet(offset)
  \/ Silence
  \/ \E d \in dates : DateSets(d) \/ DateFails(d)

DateReturns == \E d \in dates : DateSets(d) \/ DateFails(d)

Spec == Init /\ [][Next]_vars /\ WF_vars(Hear(0)) /\ WF_vars(DateReturns)

-----------------------------------------------------------------------------
systemClockTrust ==
  IF clockContested THEN "contested" ELSE IF clockConfirmed THEN "satellite-backed" ELSE "never-synced"

(* Corrupt frames that never come Required in a row with the same time are never *)
(* a reference and never reach `date`, whatever truth, silence and other          *)
(* corruption lie between them.                                                    *)
SingleLiesNeverStep ==
  ~fooled => knownGood.offset = 0 /\ \A d \in dates : d.offset = 0

(* The clock is no oscillator: two steps to different times are an anchor's life *)
(* apart, not a cooldown.                                                          *)
FlipTakesAnAnchorLife ==
  [][Apart(target, target', KNOWN_GOOD_TOLERANCE_SECONDS) => sinceStep >= AnchorAge]_vars

(* What the program may stamp with the clock: a clock called satellite-backed is  *)
(* the one the gate last took for good, unless somebody else has set it since or   *)
(* a step is still under way.                                                       *)
TrustedClockIsTheAnchors ==
  systemClockTrust = "satellite-backed" /\ ~moved /\ dates = {} =>
    ~Apart(system, knownGood.offset, DRIFT_THRESHOLD_SECONDS)

HearsTruth == window # <<>> /\ window[Len(window)] = [offset |-> 0, age |-> 0]

(* However long the receiver lied and whatever it made of the clock, once it tells *)
(* the truth without a break the clock is right and known to be.                    *)
HonestReceiverWins ==
  root /\ <>[]HearsTruth => <>[](~Apart(system, 0, DRIFT_THRESHOLD_SECONDS) /\ systemClockTrust = "satellite-backed")

(* "How many consecutive agreeing readings it takes to displace an anchor that    *)
(* expired while being CONTRADICTED" (clock-gate.ts:117): no fewer than that many   *)
(* agree when it is.                                                                 *)
ContestedAnchorTakesMore ==
  [][anchorWasContested /\ knownGood'.offset # knownGood.offset => streak'.times = Displacing]_vars
=============================================================================
