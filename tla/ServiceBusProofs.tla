-------------------------- MODULE ServiceBusProofs --------------------------
(***************************************************************************)
(* Proofs about ServiceBus, for every set of operations of any kinds and   *)
(* for all values of the timing constants its assumptions allow.           *)
(***************************************************************************)
EXTENDS ServiceBus, TLAPS

(* The variables keep their types: ServiceBus.TypeOK.                      *)
LEMMA TypeOKInit == Init => TypeOK
  BY OpsAssumption, TicksAssumption
  DEF Init, TypeOK, LeaseInit, PollerInit, Phases, Off, AgeLimit

LEMMA TypeOKStep == TypeOK /\ [Next]_vars => TypeOK'
<1> SUFFICES ASSUME TypeOK, [Next]_vars PROVE TypeOK'
  OBVIOUS
<1> USE OpsAssumption, TicksAssumption
    DEF TypeOK, Phases, Off, AgeLimit, holdVars, pollerVars, slotVars, rowVars,
        opVars, GoTo, StartWork, AcquireBus, ReleaseBus, ArmWatch, Transmit, Wind,
        Leave, GiveBackHold, Abort, NoHold, AskForHold, ReleaseHold
<1>1. CASE UNCHANGED vars
  BY <1>1 DEF vars
<1>2. ASSUME NEW o \in Ops, OpStep(o) PROVE TypeOK'
  <2>1. CASE SweepStart(o)
    BY <2>1 DEF SweepStart
  <2>2. CASE SweepSelfAbort(o)
    BY <2>2 DEF SweepSelfAbort, SweepAtRow
  <2>3. CASE SweepReadRow(o)
    BY <2>3 DEF SweepReadRow, SweepAtRow
  <2>4. CASE SweepParkForRow(o)
    BY <2>4 DEF SweepParkForRow, SweepAtRow
  <2>5. CASE SweepSkipRow(o)
    BY <2>5 DEF SweepSkipRow, SweepAtRow
  <2>6. CASE SweepGranted(o)
    BY <2>6 DEF SweepGranted
  <2>7. CASE SweepRowOver(o)
    BY <2>7 DEF SweepRowOver
  <2>8. CASE SweepEnds(o)
    BY <2>8 DEF SweepEnds
  <2>9. CASE OneShotAsk(o)
    BY <2>9 DEF OneShotAsk
  <2>10. CASE OneShotGranted(o)
    BY <2>10 DEF OneShotGranted
  <2>11. CASE OneShotTooLate(o)
    BY <2>11 DEF OneShotTooLate
  <2>12. CASE OneShotSend(o)
    BY <2>12 DEF OneShotSend
  <2>13. CASE OneShotEnds(o)
    BY <2>13 DEF OneShotEnds
  <2>14. CASE ParameterAsk(o)
    BY <2>14 DEF ParameterAsk
  <2>15. CASE ParameterRefused(o)
    BY <2>15 DEF ParameterRefused
  <2>16. CASE ParameterStart(o)
    BY <2>16 DEF ParameterStart
  <2>17. CASE StampStart(o)
    BY <2>17 DEF StampStart
  <2>18. CASE ClockStart(o)
    BY <2>18 DEF ClockStart
  <2>19. CASE ChargeStart(o)
    BY <2>19 DEF ChargeStart
  <2>20. CASE WriteSend(o)
    BY <2>20 DEF WriteSend
  <2>21. CASE WriteEnds(o)
    BY <2>21 DEF WriteEnds
  <2>22. CASE ClearStart(o)
    BY <2>22 DEF ClearStart
  <2>23. CASE ClearGranted(o)
    BY <2>23 DEF ClearGranted
  <2>24. CASE ClearRefused(o)
    BY <2>24 DEF ClearRefused, AtClearStep
  <2>25. CASE ClearReadCounters(o)
    BY <2>25 DEF ClearReadCounters, AtClearStep
  <2>26. CASE ClearErase(o)
    BY <2>26 DEF ClearErase, AtClearStep
  <2>27. CASE ClearReadBack(o)
    BY <2>27 DEF ClearReadBack
  <2>28. CASE ClearEnds(o)
    BY <2>28 DEF ClearEnds
  <2>29. CASE RestartStart(o)
    BY <2>29 DEF RestartStart
  <2>30. CASE Finish(o)
    BY <2>30 DEF Finish
  <2>31. CASE ExchangeEnds(o)
    BY <2>31 DEF ExchangeEnds
  <2>32. CASE SweepReadGoesOn(o)
    BY <2>32 DEF SweepReadGoesOn
  <2>33. CASE HoldRefused(o)
    BY <2>33 DEF HoldRefused
  <2>34. CASE WatchdogLooks(o)
    BY <2>34 DEF WatchdogLooks
  <2>35. QED
    BY <1>2, <2>1, <2>2, <2>3, <2>4, <2>5, <2>6, <2>7, <2>8, <2>9, <2>10, <2>11, <2>12, <2>13, <2>14, <2>15, <2>16, <2>17, <2>18, <2>19, <2>20, <2>21, <2>22, <2>23, <2>24, <2>25, <2>26, <2>27, <2>28, <2>29, <2>30, <2>31, <2>32, <2>33, <2>34
    DEF OpStep, ReadStep, WriteStep
<1>3. CASE Cancel
  BY <1>3 DEF Cancel
<1>4. CASE Shutdown
  BY <1>4 DEF Shutdown
<1>5. CASE GateChanges
  BY <1>5 DEF GateChanges
<1>6. CASE PollerParksAndAnnounces
  BY <1>6 DEF PollerParksAndAnnounces, PollerParks, StopAtParkPoint, PollerPauses
<1>7. CASE PollerStep
  BY <1>7 DEF PollerStep, PollerTransmits, PassParkPoint, PollerEndsRound, PollerRequestEnds, PollerWakes, PollerPauses
<1>8. CASE Tick
  BY <1>8 DEF Tick, PollerMayWait, MayWait, HoldAges, PollerAges
<1>9. QED
  BY <1>1, <1>2, <1>3, <1>4, <1>5, <1>6, <1>7, <1>8 DEF Next

(* Every variable keeps its type, whatever the timing constants are.       *)
THEOREM TypeCorrect == Spec => []TypeOK
<1>1. QED
  BY TypeOKInit, TypeOKStep, PTL DEF Spec

-----------------------------------------------------------------------------
(* The inductive invariant, in parts                                       *)

(* Who has the lease.  Everything from the first request to the last file  *)
(* write happens with the lease; only a one-shot read waits for its park   *)
(* without it.                                                             *)
Owns(o) ==
  \/ phase[o] \in {"ready", "exchange", "ending"}
  \/ phase[o] \in {"parking", "granted"} /\ Kind[o] \in {"sweep", "clear"}

LeaseInv ==
  /\ \A o \in Ops : Owns(o) => holder = o
  /\ \A o \in Ops : phase[o] = "table" => Kind[o] = "parameter"
  /\ \A o \in Ops : phase[o] \in {"parking", "granted"} =>
                      Kind[o] \in {"sweep", "oneshot", "clear"}
  /\ sweep # NoOp => holder = sweep /\ Kind[sweep] = "sweep"
  /\ oneShot # NoOp => holder = oneShot /\ Kind[oneShot] = "oneshot"
  /\ running # NoOp => holder = running /\ Kind[running] \in Writes

(* The worst case of n more requests. *)
Cost(n) == n * ExchangeTicks

Remaining(o) ==
  Cost(left[o]) + (IF phase[o] = "exchange" THEN ExchangeTicks - waited[o] ELSE 0)

(* Whose hold it is, and that the work left to do under it fits the time   *)
(* left until the loop would resume.                                       *)
HoldInv ==
  /\ holdBy = NoOp <=> hold = "none"
  /\ \A o \in Ops : phase[o] = "parking" => holdBy = o /\ hold = "asked"
  /\ \A o \in Ops : phase[o] = "granted" => holdBy = o /\ hold = "parked" /\ holdAge = 0
  /\ \A o \in Ops : o \in quiet => phase[o] \in {"ready", "exchange", "ending"}
  /\ \A o \in Ops : o \in quiet /\ phase[o] \in {"ready", "exchange"} =>
       holdBy = o /\ hold = "parked" /\ holdAge + Remaining(o) <= MaxHold
  /\ hold = "parked" /\ holdAge <= MaxHold => poller # "request"

(* A session that is on the bus is watched, and its exposure and the time  *)
(* to the next look make up at most one interval.                          *)
NotYetInSession(o) ==
  \/ phase[o] \in {"idle", "table"}
  \/ phase[o] \in {"parking", "granted"} /\ Kind[o] # "sweep"
  \/ Kind[o] = "clear" /\ phase[o] \in {"ready", "exchange"} /\ left[o] >= Exchanges - 1

WatchInv ==
  /\ Safe => \A o \in Ops : exposed[o] = 0
  /\ \A o \in Ops : InSession(o) => watch[o] <= WatchTicks /\ exposed[o] + watch[o] <= WatchTicks
  /\ \A o \in Ops : NotYetInSession(o) => exposed[o] = 0 /\ o \notin {sweep, oneShot, running}
  /\ \A o \in Ops : Kind[o] = "clear" /\ phase[o] \in {"parking", "granted", "ready", "exchange"}
                    /\ o \notin aborted => watch[o] <= WatchTicks
  /\ UnsafeSessionsAreShort

(* How long the loop has let a caller wait, from where it is. *)
ParkInv ==
  hold = "asked" =>
    /\ poller = "request" => holdAge <= pollerTime
    /\ poller = "sleep" => holdAge <= RequestTicks + pollerTime
    /\ poller = "point" => /\ holdAge <= RequestTicks + SleepTicks
                           /\ roundLeft = 0 => holdAge <= RequestTicks

PollerTimeInv ==
  /\ poller = "request" => pollerTime <= RequestTicks
  /\ poller = "sleep" => pollerTime <= SleepTicks

StoppedInv == \A o \in aborted : phase[o] # "exchange"

IInv == LeaseInv /\ HoldInv /\ WatchInv /\ PollerTimeInv /\ ParkInv /\ StoppedInv

-----------------------------------------------------------------------------
(* Each part is preserved *)

(* What WorkFitsHold says of every shorter piece of work. *)
LEMMA CostFits ==
  /\ \A n \in 0..Exchanges : Cost(n) \in Nat /\ Cost(n) <= MaxHold
  /\ \A n \in 1..Exchanges : Cost(n - 1) + ExchangeTicks = Cost(n)
<1> USE TicksAssumption
<1>1. ASSUME NEW n \in 0..Exchanges PROVE Cost(n) \in Nat /\ Cost(n) <= MaxHold
  <2>1. n * ExchangeTicks \in Nat /\ (Exchanges - n) * ExchangeTicks \in Nat
    OBVIOUS
  <2>2. n * ExchangeTicks + (Exchanges - n) * ExchangeTicks = Exchanges * ExchangeTicks
    OBVIOUS
  <2>3. Exchanges * ExchangeTicks \in Nat
    OBVIOUS
  <2>. HIDE TicksAssumption
  <2>. QED BY <2>1, <2>2, <2>3, WorkFitsHold, TicksAssumption DEF Cost
<1>2. ASSUME NEW n \in 1..Exchanges PROVE Cost(n - 1) + ExchangeTicks = Cost(n)
  BY DEF Cost
<1>. QED BY <1>1, <1>2

LEMMA IInvStep == TypeOK /\ IInv /\ [Next]_vars => IInv'
<1> SUFFICES ASSUME TypeOK, IInv, [Next]_vars PROVE IInv'
  OBVIOUS
<1> USE CostFits
<1> USE OpsAssumption, TicksAssumption
    DEF TypeOK, Phases, Writes, Kinds, AgeLimit, holdVars, pollerVars, slotVars, rowVars,
        opVars, GoTo, StartWork, AcquireBus, ReleaseBus, ArmWatch, Transmit, Wind,
        Leave, GiveBackHold, Abort, NoHold, AskForHold, ReleaseHold,
        IInv, LeaseInv, Owns, ReadRunnerFree, HoldInv, Remaining, HoldWaitOver, HoldExpired,
        HoldInForce, WatchInv, NotYetInSession, UnsafeSessionsAreShort, InSession, Safe, Off,
        PollerTimeInv, ParkInv, StoppedInv
<1>1. CASE UNCHANGED vars
  BY <1>1 DEF vars
<1>2. ASSUME NEW o \in Ops, OpStep(o) PROVE IInv'
  <2>1. CASE SweepStart(o)
    BY <2>1 DEF SweepStart
  <2>2. CASE SweepSelfAbort(o)
    BY <2>2 DEF SweepSelfAbort, SweepAtRow
  <2>3. CASE SweepReadRow(o)
    BY <2>3 DEF SweepReadRow, SweepAtRow
  <2>4. CASE SweepParkForRow(o)
    BY <2>4 DEF SweepParkForRow, SweepAtRow
  <2>5. CASE SweepSkipRow(o)
    BY <2>5 DEF SweepSkipRow, SweepAtRow
  <2>6. CASE SweepGranted(o)
    BY <2>6 DEF SweepGranted
  <2>7. CASE SweepRowOver(o)
    BY <2>7 DEF SweepRowOver
  <2>8. CASE SweepEnds(o)
    BY <2>8 DEF SweepEnds
  <2>9. CASE OneShotAsk(o)
    BY <2>9 DEF OneShotAsk
  <2>10. CASE OneShotGranted(o)
    BY <2>10 DEF OneShotGranted
  <2>11. CASE OneShotTooLate(o)
    BY <2>11 DEF OneShotTooLate
  <2>12. CASE OneShotSend(o)
    BY <2>12 DEF OneShotSend
  <2>13. CASE OneShotEnds(o)
    BY <2>13 DEF OneShotEnds
  <2>14. CASE ParameterAsk(o)
    BY <2>14 DEF ParameterAsk
  <2>15. CASE ParameterRefused(o)
    BY <2>15 DEF ParameterRefused
  <2>16. CASE ParameterStart(o)
    BY <2>16 DEF ParameterStart
  <2>17. CASE StampStart(o)
    BY <2>17 DEF StampStart
  <2>18. CASE ClockStart(o)
    BY <2>18 DEF ClockStart
  <2>19. CASE ChargeStart(o)
    BY <2>19 DEF ChargeStart
  <2>20. CASE WriteSend(o)
    BY <2>20 DEF WriteSend
  <2>21. CASE WriteEnds(o)
    BY <2>21 DEF WriteEnds
  <2>22. CASE ClearStart(o)
    BY <2>22 DEF ClearStart
  <2>23. CASE ClearGranted(o)
    BY <2>23 DEF ClearGranted
  <2>24. CASE ClearRefused(o)
    BY <2>24 DEF ClearRefused, AtClearStep
  <2>25. CASE ClearReadCounters(o)
    BY <2>25 DEF ClearReadCounters, AtClearStep
  <2>26. CASE ClearErase(o)
    BY <2>26 DEF ClearErase, AtClearStep
  <2>27. CASE ClearReadBack(o)
    BY <2>27 DEF ClearReadBack
  <2>28. CASE ClearEnds(o)
    BY <2>28 DEF ClearEnds
  <2>29. CASE RestartStart(o)
    BY <2>29 DEF RestartStart
  <2>30. CASE Finish(o)
    BY <2>30 DEF Finish
  <2>31. CASE ExchangeEnds(o)
    BY <2>31 DEF ExchangeEnds
  <2>32. CASE SweepReadGoesOn(o)
    BY <2>32 DEF SweepReadGoesOn
  <2>33. CASE HoldRefused(o)
    BY <2>33 DEF HoldRefused
  <2>34. CASE WatchdogLooks(o)
    BY <2>34 DEF WatchdogLooks
  <2>35. QED
    BY <1>2, <2>1, <2>2, <2>3, <2>4, <2>5, <2>6, <2>7, <2>8, <2>9, <2>10, <2>11, <2>12, <2>13, <2>14, <2>15, <2>16, <2>17, <2>18, <2>19, <2>20, <2>21, <2>22, <2>23, <2>24, <2>25, <2>26, <2>27, <2>28, <2>29, <2>30, <2>31, <2>32, <2>33, <2>34
    DEF OpStep, ReadStep, WriteStep
<1>3. CASE Cancel
  BY <1>3 DEF Cancel
<1>4. CASE Shutdown
  BY <1>4 DEF Shutdown
<1>5. CASE GateChanges
  BY <1>5 DEF GateChanges
<1>6. CASE PollerParksAndAnnounces
  BY <1>6 DEF PollerParksAndAnnounces, PollerParks, StopAtParkPoint, PollerPauses
<1>7. CASE PollerStep
  BY <1>7 DEF PollerStep, PollerTransmits, PassParkPoint, PollerEndsRound, PollerRequestEnds, PollerWakes, PollerPauses
<1>8. CASE Tick
  BY <1>8 DEF Tick, PollerMayWait, MayWait, HoldAges, PollerAges
<1>9. QED
  BY <1>1, <1>2, <1>3, <1>4, <1>5, <1>6, <1>7, <1>8 DEF Next

(* The parts hold at the start and together.                               *)
LEMMA IInvInit == Init => IInv
<1> SUFFICES ASSUME Init PROVE IInv
  OBVIOUS
<1> USE OpsAssumption, TicksAssumption DEF Init, LeaseInit, PollerInit
<1>1. LeaseInv
  BY DEF LeaseInv, Owns
<1>2. HoldInv
  BY DEF HoldInv
<1>3. WatchInv
  BY DEF WatchInv, UnsafeSessionsAreShort, InSession, NotYetInSession, Off
<1>4. PollerTimeInv /\ ParkInv /\ StoppedInv
  BY DEF PollerTimeInv, ParkInv, StoppedInv
<1>5. QED
  BY <1>1, <1>2, <1>3, <1>4 DEF IInv

LEMMA Inductive == Spec => [](TypeOK /\ IInv)
<1>1. TypeOK /\ IInv /\ [Next]_vars => IInv'
  BY IInvStep
<1>2. QED
  BY TypeCorrect, IInvInit, <1>1, PTL DEF Spec

-----------------------------------------------------------------------------
(* Safety *)

(* acquireBus and the identity check of release are enough: for any number *)
(* of operations of any kinds, two are never awaiting a reply at once.     *)
THEOREM OneConversationHolds == Spec => []OneConversation
<1>1. TypeOK /\ IInv => OneConversation
  BY DEF IInv, LeaseInv, Owns, OneConversation
<1>2. QED
  BY Inductive, <1>1, PTL

(* Whatever a runner would abort, from the watchdog or at shutdown, is the *)
(* operation that has the bus.                                             *)
THEOREM SlotsHold == Spec => []SlotsBelongToLease
<1>1. TypeOK /\ IInv => SlotsBelongToLease
  BY DEF IInv, LeaseInv, SlotsBelongToLease
<1>2. QED
  BY Inductive, <1>1, PTL

(* As long as the work under a hold fits MAX_HOLD_MS, as obd-hold.ts sizes *)
(* it, the loop never transmits while a holder awaits a reply: the cap of  *)
(* the hold can only be reached after the last one.                        *)
THEOREM PollerSilent == Spec => []PollerSilentUnderHold
<1>1. TypeOK /\ IInv => PollerSilentUnderHold
  BY CostFits, TicksAssumption DEF TypeOK, IInv, HoldInv, Remaining, PollerSilentUnderHold
<1>2. QED
  BY Inductive, <1>1, PTL

(* No session runs on for more than one watch interval with the gate       *)
(* closed, whatever the gate does and whatever is awaited meanwhile.       *)
THEOREM UnsafeSessionsShort == Spec => []UnsafeSessionsAreShort
<1>1. TypeOK /\ IInv => UnsafeSessionsAreShort
  BY DEF IInv, WatchInv
<1>2. QED
  BY Inductive, <1>1, PTL

(* A loop that is alive parks before HOLD_WAIT_MS is over, for every length *)
(* of a request, a pause and a round for which the wait is longer than one *)
(* request and one pause.                                                  *)
THEOREM ParkComesInTime == Spec => []ParkInTime
<1>1. TypeOK /\ IInv => ParkInTime
  BY TicksAssumption DEF TypeOK, IInv, PollerTimeInv, ParkInv, ParkInTime, HoldWaitOver
<1>2. QED
  BY Inductive, <1>1, PTL

LEMMA ActionStep == TypeOK /\ IInv /\ [Next]_vars => (EraseIsSafe /\ StoppedIsSilent)
<1> SUFFICES ASSUME TypeOK, IInv, [Next]_vars PROVE (EraseIsSafe /\ StoppedIsSilent)
  OBVIOUS
<1> USE OpsAssumption, TicksAssumption
    DEF TypeOK, Phases, Writes, Kinds, AgeLimit, holdVars, pollerVars, slotVars, rowVars,
        opVars, GoTo, StartWork, AcquireBus, ReleaseBus, ArmWatch, Transmit, Wind,
        Leave, GiveBackHold, Abort, NoHold, AskForHold, ReleaseHold,
        IInv, StoppedInv, LeaseInv, Owns, EraseIsSafe, StoppedIsSilent
<1>1. CASE UNCHANGED vars
  BY <1>1 DEF vars
<1>2. ASSUME NEW o \in Ops, OpStep(o) PROVE (EraseIsSafe /\ StoppedIsSilent)
  <2>1. CASE SweepStart(o)
    BY <2>1 DEF SweepStart
  <2>2. CASE SweepSelfAbort(o)
    BY <2>2 DEF SweepSelfAbort, SweepAtRow
  <2>3. CASE SweepReadRow(o)
    BY <2>3 DEF SweepReadRow, SweepAtRow
  <2>4. CASE SweepParkForRow(o)
    BY <2>4 DEF SweepParkForRow, SweepAtRow
  <2>5. CASE SweepSkipRow(o)
    BY <2>5 DEF SweepSkipRow, SweepAtRow
  <2>6. CASE SweepGranted(o)
    BY <2>6 DEF SweepGranted
  <2>7. CASE SweepRowOver(o)
    BY <2>7 DEF SweepRowOver
  <2>8. CASE SweepEnds(o)
    BY <2>8 DEF SweepEnds
  <2>9. CASE OneShotAsk(o)
    BY <2>9 DEF OneShotAsk
  <2>10. CASE OneShotGranted(o)
    BY <2>10 DEF OneShotGranted
  <2>11. CASE OneShotTooLate(o)
    BY <2>11 DEF OneShotTooLate
  <2>12. CASE OneShotSend(o)
    BY <2>12 DEF OneShotSend
  <2>13. CASE OneShotEnds(o)
    BY <2>13 DEF OneShotEnds
  <2>14. CASE ParameterAsk(o)
    BY <2>14 DEF ParameterAsk
  <2>15. CASE ParameterRefused(o)
    BY <2>15 DEF ParameterRefused
  <2>16. CASE ParameterStart(o)
    BY <2>16 DEF ParameterStart
  <2>17. CASE StampStart(o)
    BY <2>17 DEF StampStart
  <2>18. CASE ClockStart(o)
    BY <2>18 DEF ClockStart
  <2>19. CASE ChargeStart(o)
    BY <2>19 DEF ChargeStart
  <2>20. CASE WriteSend(o)
    BY <2>20 DEF WriteSend
  <2>21. CASE WriteEnds(o)
    BY <2>21 DEF WriteEnds
  <2>22. CASE ClearStart(o)
    BY <2>22 DEF ClearStart
  <2>23. CASE ClearGranted(o)
    BY <2>23 DEF ClearGranted
  <2>24. CASE ClearRefused(o)
    BY <2>24 DEF ClearRefused, AtClearStep
  <2>25. CASE ClearReadCounters(o)
    BY <2>25 DEF ClearReadCounters, AtClearStep
  <2>26. CASE ClearErase(o)
    BY <2>26 DEF ClearErase, AtClearStep
  <2>27. CASE ClearReadBack(o)
    BY <2>27 DEF ClearReadBack
  <2>28. CASE ClearEnds(o)
    BY <2>28 DEF ClearEnds
  <2>29. CASE RestartStart(o)
    BY <2>29 DEF RestartStart
  <2>30. CASE Finish(o)
    BY <2>30 DEF Finish
  <2>31. CASE ExchangeEnds(o)
    BY <2>31 DEF ExchangeEnds
  <2>32. CASE SweepReadGoesOn(o)
    BY <2>32 DEF SweepReadGoesOn
  <2>33. CASE HoldRefused(o)
    BY <2>33 DEF HoldRefused
  <2>34. CASE WatchdogLooks(o)
    BY <2>34 DEF WatchdogLooks
  <2>35. QED
    BY <1>2, <2>1, <2>2, <2>3, <2>4, <2>5, <2>6, <2>7, <2>8, <2>9, <2>10, <2>11, <2>12, <2>13, <2>14, <2>15, <2>16, <2>17, <2>18, <2>19, <2>20, <2>21, <2>22, <2>23, <2>24, <2>25, <2>26, <2>27, <2>28, <2>29, <2>30, <2>31, <2>32, <2>33, <2>34
    DEF OpStep, ReadStep, WriteStep
<1>3. CASE Cancel
  BY <1>3 DEF Cancel
<1>4. CASE Shutdown
  BY <1>4 DEF Shutdown
<1>5. CASE GateChanges
  BY <1>5 DEF GateChanges
<1>6. CASE PollerParksAndAnnounces
  BY <1>6 DEF PollerParksAndAnnounces, PollerParks, StopAtParkPoint, PollerPauses
<1>7. CASE PollerStep
  BY <1>7 DEF PollerStep, PollerTransmits, PassParkPoint, PollerEndsRound, PollerRequestEnds, PollerWakes, PollerPauses
<1>8. CASE Tick
  BY <1>8 DEF Tick, PollerMayWait, MayWait, HoldAges, PollerAges
<1>9. QED
  BY <1>1, <1>2, <1>3, <1>4, <1>5, <1>6, <1>7, <1>8 DEF Next

(* The erase of clear-dtcs is never sent on a gate that closed while the   *)
(* poller parked or the counters were read.                                *)
THEOREM ErasesSafely == Spec => EraseOnOpenGate
<1>1. TypeOK /\ IInv /\ [Next]_vars => [EraseIsSafe]_vars
  BY ActionStep
<1>2. QED
  BY Inductive, <1>1, PTL DEF Spec, EraseOnOpenGate

(* abort and stop are final: nothing a stopped operation was waiting for   *)
(* makes it send again.                                                    *)
THEOREM StoppedNeverSends == Spec => StoppedStaysSilent
<1>1. TypeOK /\ IInv /\ [Next]_vars => [StoppedIsSilent]_vars
  BY ActionStep
<1>2. QED
  BY Inductive, <1>1, PTL DEF Spec, StoppedStaysSilent

-----------------------------------------------------------------------------
(* Refinement *)

LEMMA AccessStep == TypeOK /\ LeaseInv /\ HoldInv /\ [Next]_vars => [Access!AccessNext]_(Access!accessVars)
<1> SUFFICES ASSUME TypeOK, LeaseInv, HoldInv, [Next]_vars PROVE [Access!AccessNext]_(Access!accessVars)
  OBVIOUS
<1> USE OpsAssumption, TicksAssumption
    DEF TypeOK, Phases, Writes, Kinds, AgeLimit, holdVars, pollerVars, slotVars, rowVars,
        opVars, GoTo, StartWork, AcquireBus, ReleaseBus, ArmWatch, Transmit, Wind,
        Leave, GiveBackHold, Abort, NoHold, AskForHold, ReleaseHold,
        LeaseInv, Owns, HoldInv, HoldInForce, HoldExpired, ReadRunnerFree, InSession,
        Access!Take, Access!Give, Access!Talk, Access!Hush, Access!PollerTalk,
        Access!PollerHush, Access!accessVars
<1>1. CASE UNCHANGED vars
  BY <1>1 DEF vars
<1>2. ASSUME NEW o \in Ops, OpStep(o) PROVE [Access!AccessNext]_(Access!accessVars)
  <2>1. CASE SweepStart(o)
    <3>1. Access!Take(o)
      BY <2>1 DEF SweepStart
    <3>2. QED
      BY <3>1 DEF Access!AccessNext
  <2>2. CASE SweepSelfAbort(o)
    <3>1. UNCHANGED Access!accessVars
      BY <2>2 DEF SweepSelfAbort, SweepAtRow
    <3>2. QED
      BY <3>1 DEF Access!AccessNext
  <2>3. CASE SweepReadRow(o)
    <3>1. Access!Talk(o)
      BY <2>3 DEF SweepReadRow, SweepAtRow
    <3>2. QED
      BY <3>1 DEF Access!AccessNext
  <2>4. CASE SweepParkForRow(o)
    <3>1. UNCHANGED Access!accessVars
      BY <2>4 DEF SweepParkForRow, SweepAtRow
    <3>2. QED
      BY <3>1 DEF Access!AccessNext
  <2>5. CASE SweepSkipRow(o)
    <3>1. UNCHANGED Access!accessVars
      BY <2>5 DEF SweepSkipRow, SweepAtRow
    <3>2. QED
      BY <3>1 DEF Access!AccessNext
  <2>6. CASE SweepGranted(o)
    <3>1. Access!Talk(o) \/ UNCHANGED Access!accessVars
      BY <2>6 DEF SweepGranted
    <3>2. QED
      BY <3>1 DEF Access!AccessNext
  <2>7. CASE SweepRowOver(o)
    <3>1. UNCHANGED Access!accessVars
      BY <2>7 DEF SweepRowOver
    <3>2. QED
      BY <3>1 DEF Access!AccessNext
  <2>8. CASE SweepEnds(o)
    <3>1. UNCHANGED Access!accessVars
      BY <2>8 DEF SweepEnds
    <3>2. QED
      BY <3>1 DEF Access!AccessNext
  <2>9. CASE OneShotAsk(o)
    <3>1. UNCHANGED Access!accessVars
      BY <2>9 DEF OneShotAsk
    <3>2. QED
      BY <3>1 DEF Access!AccessNext
  <2>10. CASE OneShotGranted(o)
    <3>1. Access!Take(o)
      BY <2>10 DEF OneShotGranted
    <3>2. QED
      BY <3>1 DEF Access!AccessNext
  <2>11. CASE OneShotTooLate(o)
    <3>1. UNCHANGED Access!accessVars
      BY <2>11 DEF OneShotTooLate
    <3>2. QED
      BY <3>1 DEF Access!AccessNext
  <2>12. CASE OneShotSend(o)
    <3>1. Access!Talk(o)
      BY <2>12, CostFits DEF OneShotSend, Remaining
    <3>2. QED
      BY <3>1 DEF Access!AccessNext
  <2>13. CASE OneShotEnds(o)
    <3>1. Access!Give
      BY <2>13 DEF OneShotEnds
    <3>2. QED
      BY <3>1 DEF Access!AccessNext
  <2>14. CASE ParameterAsk(o)
    <3>1. UNCHANGED Access!accessVars
      BY <2>14 DEF ParameterAsk
    <3>2. QED
      BY <3>1 DEF Access!AccessNext
  <2>15. CASE ParameterRefused(o)
    <3>1. UNCHANGED Access!accessVars
      BY <2>15 DEF ParameterRefused
    <3>2. QED
      BY <3>1 DEF Access!AccessNext
  <2>16. CASE ParameterStart(o)
    <3>1. Access!Take(o)
      BY <2>16 DEF ParameterStart
    <3>2. QED
      BY <3>1 DEF Access!AccessNext
  <2>17. CASE StampStart(o)
    <3>1. Access!Take(o)
      BY <2>17 DEF StampStart
    <3>2. QED
      BY <3>1 DEF Access!AccessNext
  <2>18. CASE ClockStart(o)
    <3>1. Access!Take(o)
      BY <2>18 DEF ClockStart
    <3>2. QED
      BY <3>1 DEF Access!AccessNext
  <2>19. CASE ChargeStart(o)
    <3>1. Access!Take(o)
      BY <2>19 DEF ChargeStart
    <3>2. QED
      BY <3>1 DEF Access!AccessNext
  <2>20. CASE WriteSend(o)
    <3>1. Access!Talk(o)
      BY <2>20, CostFits DEF WriteSend, Remaining
    <3>2. QED
      BY <3>1 DEF Access!AccessNext
  <2>21. CASE WriteEnds(o)
    <3>1. UNCHANGED Access!accessVars
      BY <2>21 DEF WriteEnds
    <3>2. QED
      BY <3>1 DEF Access!AccessNext
  <2>22. CASE ClearStart(o)
    <3>1. Access!Take(o)
      BY <2>22 DEF ClearStart
    <3>2. QED
      BY <3>1 DEF Access!AccessNext
  <2>23. CASE ClearGranted(o)
    <3>1. UNCHANGED Access!accessVars
      BY <2>23 DEF ClearGranted
    <3>2. QED
      BY <3>1 DEF Access!AccessNext
  <2>24. CASE ClearRefused(o)
    <3>1. Access!Give
      BY <2>24 DEF ClearRefused, AtClearStep
    <3>2. QED
      BY <3>1 DEF Access!AccessNext
  <2>25. CASE ClearReadCounters(o)
    <3>1. Access!Talk(o)
      BY <2>25, CostFits DEF ClearReadCounters, AtClearStep, Remaining
    <3>2. QED
      BY <3>1 DEF Access!AccessNext
  <2>26. CASE ClearErase(o)
    <3>1. Access!Talk(o)
      BY <2>26, CostFits DEF ClearErase, AtClearStep, Remaining
    <3>2. QED
      BY <3>1 DEF Access!AccessNext
  <2>27. CASE ClearReadBack(o)
    <3>1. Access!Talk(o)
      BY <2>27, CostFits DEF ClearReadBack, Remaining
    <3>2. QED
      BY <3>1 DEF Access!AccessNext
  <2>28. CASE ClearEnds(o)
    <3>1. UNCHANGED Access!accessVars
      BY <2>28 DEF ClearEnds
    <3>2. QED
      BY <3>1 DEF Access!AccessNext
  <2>29. CASE RestartStart(o)
    <3>1. Access!Take(o)
      BY <2>29 DEF RestartStart
    <3>2. QED
      BY <3>1 DEF Access!AccessNext
  <2>30. CASE Finish(o)
    <3>1. Access!Give
      BY <2>30 DEF Finish
    <3>2. QED
      BY <3>1 DEF Access!AccessNext
  <2>31. CASE ExchangeEnds(o)
    <3>1. Access!Hush
      BY <2>31 DEF ExchangeEnds
    <3>2. QED
      BY <3>1 DEF Access!AccessNext
  <2>32. CASE SweepReadGoesOn(o)
    <3>1. UNCHANGED Access!accessVars
      BY <2>32 DEF SweepReadGoesOn
    <3>2. QED
      BY <3>1 DEF Access!AccessNext
  <2>33. CASE HoldRefused(o)
    <3>1. Access!Give \/ UNCHANGED Access!accessVars
      BY <2>33 DEF HoldRefused
    <3>2. QED
      BY <3>1 DEF Access!AccessNext
  <2>34. CASE WatchdogLooks(o)
    <3>1. Access!Hush \/ UNCHANGED Access!accessVars
      BY <2>34 DEF WatchdogLooks
    <3>2. QED
      BY <3>1 DEF Access!AccessNext
  <2>35. QED
    BY <1>2, <2>1, <2>2, <2>3, <2>4, <2>5, <2>6, <2>7, <2>8, <2>9, <2>10, <2>11, <2>12, <2>13, <2>14, <2>15, <2>16, <2>17, <2>18, <2>19, <2>20, <2>21, <2>22, <2>23, <2>24, <2>25, <2>26, <2>27, <2>28, <2>29, <2>30, <2>31, <2>32, <2>33, <2>34
    DEF OpStep, ReadStep, WriteStep
<1>3. CASE Cancel
  <2>1. Access!Hush \/ UNCHANGED Access!accessVars
    BY <1>3 DEF Cancel
  <2>2. QED
    BY <2>1 DEF Access!AccessNext
<1>4. CASE Shutdown
  <2>1. Access!Hush \/ UNCHANGED Access!accessVars
    BY <1>4 DEF Shutdown
  <2>2. QED
    BY <2>1 DEF Access!AccessNext
<1>5. CASE GateChanges
  <2>1. UNCHANGED Access!accessVars
    BY <1>5 DEF GateChanges
  <2>2. QED
    BY <2>1 DEF Access!AccessNext
<1>6. CASE PollerParksAndAnnounces
  <2>1. UNCHANGED Access!accessVars
    BY <1>6 DEF PollerParksAndAnnounces, PollerParks, StopAtParkPoint, PollerPauses
  <2>2. QED
    BY <2>1 DEF Access!AccessNext
<1>7. CASE PollerStep
  <2>1. Access!PollerTalk \/ Access!PollerHush \/ UNCHANGED Access!accessVars
    BY <1>7, CostFits DEF PollerStep, PollerTransmits, PassParkPoint, PollerEndsRound, PollerRequestEnds, PollerWakes, PollerPauses, Remaining
  <2>2. QED
    BY <2>1 DEF Access!AccessNext
<1>8. CASE Tick
  <2>1. UNCHANGED Access!accessVars
    BY <1>8 DEF Tick, PollerMayWait, MayWait, HoldAges, PollerAges
  <2>2. QED
    BY <2>1 DEF Access!AccessNext
<1>9. QED
  BY <1>1, <1>2, <1>3, <1>4, <1>5, <1>6, <1>7, <1>8 DEF Next

(* The lease, the hold and their timers implement BusAccess, the promise   *)
(* that lets kwp-client.ts match replies by CAN identifier alone.          *)
THEOREM Refinement == Spec => ImplementsBusAccess
<1>1. Init => Access!AccessInit
  BY OpsAssumption DEF Init, LeaseInit, PollerInit, Access!AccessInit
<1>2. TypeOK /\ IInv /\ [Next]_vars => [Access!AccessNext]_(Access!accessVars)
  BY AccessStep DEF IInv
<1>3. QED
  BY Inductive, <1>1, <1>2, PTL DEF Spec, ImplementsBusAccess, Access!AccessSpec
=============================================================================
