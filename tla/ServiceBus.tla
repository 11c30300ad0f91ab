----------------------------- MODULE ServiceBus -----------------------------
(***************************************************************************)
(* Who may talk on the diagnostic bus, and when.  The read runner          *)
(* (src/vcu/read-runner.ts, sweep.ts), the write runner                    *)
(* (src/vcu/write-runner.ts, clear-dtcs.ts), the settings restart and the  *)
(* CAN link restart share one lease (BusLease); the OBD poll loop takes no *)
(* lease and is parked with a hold instead (ObdPoller).                    *)
(*                                                                         *)
(* One operation is one call of a runner.  An operation of kind            *)
(*   "sweep"      reads rows for as long as the safety gate stays open,    *)
(*                some of them with the poller parked;                     *)
(*   "oneshot"    is a probe, a lifetime read or a freeze-frame read;      *)
(*   "parameter"  awaits the last sweep's file before it takes the lease;  *)
(*   "stamp"      is a gated write that does not;                          *)
(*   "clock"      broadcasts the time on an open gate and hears nothing;   *)
(*   "clear"      erases the trouble codes on a parked bus;                *)
(*   "charge"     is a charge command: neither gated nor watched;          *)
(*   "restart"    holds the lease and sends nothing.                       *)
(* A refused request that changes nothing is a step that is not taken.     *)
(***************************************************************************)
EXTENDS ObdPoller

CONSTANTS Kind,           \* the kind of every operation
          Exchanges,      \* requests one piece of work makes at most
          ExchangeTicks,  \* the reply timeout
          SweepRows,      \* rows a sweep has to read
          WatchTicks      \* GATE_WATCH_INTERVAL_MS

Kinds == {"sweep", "oneshot", "parameter", "stamp", "clock", "clear", "charge", "restart"}

ASSUME OpsAssumption == NoOp \notin Ops /\ Kind \in [Ops -> Kinds]

ASSUME TicksAssumption ==
  /\ HoldWait \in Nat /\ MaxHold \in Nat
  /\ RequestTicks \in Nat \ {0} /\ SleepTicks \in Nat \ {0} /\ RoundRequests \in Nat \ {0}
  /\ Exchanges \in Nat /\ Exchanges >= 3
  /\ ExchangeTicks \in Nat \ {0}
  /\ SweepRows \in Nat /\ WatchTicks \in Nat \ {0}

(* obd-hold.ts sizes MAX_HOLD_MS from the work done under a hold, and      *)
(* freeze-frame-read.ts derives its deadline from MAX_HOLD_MS.             *)
ASSUME WorkFitsHold == Exchanges * ExchangeTicks <= MaxHold

VARIABLES holder,        \* the lease, see BusLease
          gate,          \* the verdict of evaluateServiceGate
          sweep,         \* read runner: context.sweep
          oneShot,       \* read runner: context.oneShot
          running,       \* write runner: context.running
          pollerRefused, \* sweeps whose state.pollerRefusal is set
          rowsLeft,      \* rows a sweep has not asked about
          phase,         \* where every operation is
          quiet,         \* it has been granted a hold it has not given back
          left,          \* requests its present work may still make
          waited,        \* ticks it has waited for the present reply
          aborted,       \* its client or session was stopped
          watch,         \* ticks to its next gate check, or Off
          exposed        \* ticks its session ran with the gate closed

INSTANCE BusLease

slotVars == <<sweep, oneShot, running>>
rowVars  == <<pollerRefused, rowsLeft>>
opVars   == <<phase, quiet, left, waited, aborted, watch, exposed>>
vars == <<holder, holdVars, pollerVars, gate, slotVars, rowVars, opVars>>

Safe == gate = "open"

Off == WatchTicks + 1

Phases == {"idle",      \* not asked for
           "parking",   \* awaiting holdObdPoller
           "granted",   \* the park was announced, its continuation is due
           "table",     \* awaiting latestSweep
           "ready",     \* between two requests
           "exchange",  \* awaiting a reply
           "ending",    \* off the bus: audit line, snapshot, link restart
           "done"}

Writes == {"parameter", "stamp", "clock", "clear", "charge"}

Init ==
  /\ LeaseInit /\ PollerInit
  /\ gate \in {"open", "closed"}
  /\ sweep = NoOp /\ oneShot = NoOp /\ running = NoOp
  /\ pollerRefused = {} /\ rowsLeft = [o \in Ops |-> SweepRows]
  /\ phase = [o \in Ops |-> "idle"]
  /\ quiet = {}
  /\ left = [o \in Ops |-> 0]
  /\ waited = [o \in Ops |-> 0]
  /\ aborted = {}
  /\ watch = [o \in Ops |-> Off]
  /\ exposed = [o \in Ops |-> 0]

-----------------------------------------------------------------------------
(* Steps the operations are made of *)

GoTo(o, p) == phase' = [phase EXCEPT ![o] = p]

(* Its session is registered where the watchdog looks for it. *)
InSession(o) == o \in {sweep, oneShot, running} /\ o \notin aborted

(* Takes the lease, arms the watchdog and has a full piece of work to do.  *)
StartWork(o, p) ==
  /\ AcquireBus(o)
  /\ GoTo(o, p)
  /\ left' = [left EXCEPT ![o] = Exchanges]
  /\ UNCHANGED <<waited, aborted, exposed>>

ArmWatch(o) == watch' = [watch EXCEPT ![o] = WatchTicks]

(* A request goes out. *)
Transmit(o) ==
  /\ left[o] > 0 /\ o \notin aborted
  /\ GoTo(o, "exchange")
  /\ left' = [left EXCEPT ![o] = left[o] - 1]
  /\ waited' = [waited EXCEPT ![o] = 0]
  /\ UNCHANGED <<aborted, watch, exposed>>

(* It gives back the hold it was granted, if it was granted one. *)
GiveBackHold(o) ==
  /\ IF o \in quiet THEN ReleaseHold(o) ELSE UNCHANGED holdVars
  /\ quiet' = quiet \ {o}

(* It leaves the bus but still has something to write down. *)
Wind(o) ==
  /\ GoTo(o, "ending")
  /\ left' = [left EXCEPT ![o] = 0]
  /\ UNCHANGED <<waited, watch, exposed>>

(* The finally of every runner: the slot, the lease, the watchdog. *)
Leave(o) ==
  /\ sweep'   = IF Kind[o] = "sweep" THEN NoOp ELSE sweep
  /\ oneShot' = IF Kind[o] = "oneshot" THEN NoOp ELSE oneShot
  /\ running' = IF Kind[o] \in Writes THEN NoOp ELSE running
  /\ ReleaseBus(o)
  /\ GoTo(o, "done")
  /\ watch' = [watch EXCEPT ![o] = Off]
  /\ left' = [left EXCEPT ![o] = 0]
  /\ waited' = [waited EXCEPT ![o] = 0]
  /\ exposed' = [exposed EXCEPT ![o] = 0]
  /\ UNCHANGED aborted

(* abort and stop: the client sends nothing more and the pending request   *)
(* is settled.                                                             *)
Abort(S) ==
  /\ aborted' = aborted \cup S
  /\ phase' = [o \in Ops |-> IF o \in S /\ phase[o] = "exchange"
                             THEN "ready" ELSE phase[o]]
  /\ waited' = [o \in Ops |-> IF o \in S THEN 0 ELSE waited[o]]
  /\ exposed' = [o \in Ops |-> IF o \in S THEN 0 ELSE exposed[o]]
  /\ UNCHANGED <<quiet, left>>

-----------------------------------------------------------------------------
(* read-runner.ts: a sweep *)

(* checkBusFreeRefusals lets the caller through. *)
ReadRunnerFree == sweep = NoOp /\ oneShot = NoOp /\ Safe /\ holder = NoOp

SweepStart(o) ==
  /\ Kind[o] = "sweep" /\ phase[o] = "idle"
  /\ ReadRunnerFree
  /\ StartWork(o, "ready") /\ ArmWatch(o)
  /\ sweep' = o
  /\ UNCHANGED <<holdVars, pollerVars, gate, oneShot, running, rowVars, quiet>>

SweepAtRow(o) == Kind[o] = "sweep" /\ phase[o] = "ready" /\ o \notin aborted /\ o \notin quiet

(* mayContinue with the gate closed: the sweep aborts itself. *)
SweepSelfAbort(o) ==
  /\ SweepAtRow(o) /\ ~Safe
  /\ Abort({o})
  /\ UNCHANGED <<holder, holdVars, pollerVars, gate, slotVars, rowVars, watch>>

(* A row the client can read beside the poller. *)
SweepReadRow(o) ==
  /\ SweepAtRow(o) /\ Safe /\ rowsLeft[o] > 0
  /\ GoTo(o, "exchange")
  /\ rowsLeft' = [rowsLeft EXCEPT ![o] = rowsLeft[o] - 1]
  /\ left' = [left EXCEPT ![o] = Exchanges - 1]
  /\ waited' = [waited EXCEPT ![o] = 0]
  /\ UNCHANGED <<holder, holdVars, pollerVars, gate, slotVars, pollerRefused,
                 quiet, aborted, watch, exposed>>

(* A row whose width is unverified needs the poller parked.  Once that was *)
(* refused, every such row is filed as not sent.                           *)
SweepParkForRow(o) ==
  /\ SweepAtRow(o) /\ Safe /\ rowsLeft[o] > 0 /\ o \notin pollerRefused
  /\ AskForHold(o)
  /\ GoTo(o, "parking")
  /\ rowsLeft' = [rowsLeft EXCEPT ![o] = rowsLeft[o] - 1]
  /\ UNCHANGED <<holder, pollerVars, gate, slotVars, pollerRefused,
                 quiet, left, waited, aborted, watch, exposed>>

SweepSkipRow(o) ==
  /\ SweepAtRow(o) /\ Safe /\ rowsLeft[o] > 0
  /\ o \in pollerRefused \/ hold # "none"
  /\ pollerRefused' = pollerRefused \cup {o}
  /\ rowsLeft' = [rowsLeft EXCEPT ![o] = rowsLeft[o] - 1]
  /\ UNCHANGED <<holder, holdVars, pollerVars, gate, slotVars, opVars>>

(* Mutant of SweepGranted: only the gate is asked, not whether the sweep   *)
(* was stopped while it waited.                                            *)
SweepGrantedUnasked(o) ==
  /\ Kind[o] = "sweep" /\ phase[o] = "granted" /\ Safe
  /\ quiet' = quiet \cup {o}
  /\ GoTo(o, "exchange")
  /\ left' = [left EXCEPT ![o] = Exchanges - 1]
  /\ waited' = [waited EXCEPT ![o] = 0]
  /\ UNCHANGED <<holder, holdVars, pollerVars, gate, slotVars, rowVars,
                 aborted, watch, exposed>>

(* readWithPollerParked: the gate is asked again on the far side. *)
SweepGranted(o) ==
  /\ Kind[o] = "sweep" /\ phase[o] = "granted"
  /\ quiet' = quiet \cup {o}
  /\ IF Safe /\ o \notin aborted
       THEN /\ GoTo(o, "exchange")
            /\ left' = [left EXCEPT ![o] = Exchanges - 1]
            /\ waited' = [waited EXCEPT ![o] = 0]
            /\ UNCHANGED aborted
       ELSE /\ GoTo(o, "ready")
            /\ aborted' = aborted \cup {o}
            /\ UNCHANGED <<left, waited>>
  /\ UNCHANGED <<holder, holdVars, pollerVars, gate, slotVars, rowVars, watch, exposed>>

(* The row is over: the hold it was read under is released. *)
SweepRowOver(o) ==
  /\ Kind[o] = "sweep" /\ phase[o] = "ready" /\ o \in quiet
  /\ GiveBackHold(o)
  /\ UNCHANGED <<holder, pollerVars, gate, slotVars, rowVars,
                 phase, left, waited, aborted, watch, exposed>>

(* No row left, or stopped: the snapshot is written. *)
SweepEnds(o) ==
  /\ Kind[o] = "sweep" /\ phase[o] = "ready" /\ o \notin quiet
  /\ rowsLeft[o] = 0 \/ o \in aborted
  /\ Wind(o)
  /\ aborted' = aborted \cup {o}
  /\ UNCHANGED <<holder, holdVars, pollerVars, gate, slotVars, rowVars, quiet>>

(* cancel: stopped from the dashboard. *)
Cancel ==
  /\ sweep # NoOp
  /\ Abort({sweep})
  /\ UNCHANGED <<holder, holdVars, pollerVars, gate, slotVars, rowVars, watch>>

-----------------------------------------------------------------------------
(* read-runner.ts: a one-shot read.  The hold comes first and the lease    *)
(* after it, so every check is made again once the poller has parked.      *)

OneShotAsk(o) ==
  /\ Kind[o] = "oneshot" /\ phase[o] = "idle"
  /\ ReadRunnerFree
  /\ AskForHold(o)
  /\ GoTo(o, "parking")
  /\ UNCHANGED <<holder, pollerVars, gate, slotVars, rowVars,
                 quiet, left, waited, aborted, watch, exposed>>

OneShotGranted(o) ==
  /\ Kind[o] = "oneshot" /\ phase[o] = "granted"
  /\ ReadRunnerFree
  /\ StartWork(o, "ready") /\ ArmWatch(o)
  /\ oneShot' = o
  /\ quiet' = quiet \cup {o}
  /\ UNCHANGED <<holdVars, pollerVars, gate, sweep, running, rowVars>>

OneShotTooLate(o) ==
  /\ Kind[o] = "oneshot" /\ phase[o] = "granted"
  /\ ~ReadRunnerFree
  /\ ReleaseHold(o)
  /\ GoTo(o, "done")
  /\ UNCHANGED <<holder, pollerVars, gate, slotVars, rowVars,
                 quiet, left, waited, aborted, watch, exposed>>

OneShotSend(o) ==
  /\ Kind[o] = "oneshot" /\ phase[o] = "ready"
  /\ Transmit(o)
  /\ UNCHANGED <<holder, holdVars, pollerVars, gate, slotVars, rowVars, quiet>>

OneShotEnds(o) ==
  /\ Kind[o] = "oneshot" /\ phase[o] = "ready"
  /\ Leave(o)
  /\ GiveBackHold(o)
  /\ UNCHANGED <<pollerVars, gate, rowVars>>

-----------------------------------------------------------------------------
(* write-runner.ts *)

(* checkPreconditions awaits the last sweep's file between the gate and    *)
(* the lease; what the file says may refuse the write.                     *)
ParameterAsk(o) ==
  /\ Kind[o] = "parameter" /\ phase[o] = "idle" /\ Safe
  /\ GoTo(o, "table")
  /\ UNCHANGED <<holder, holdVars, pollerVars, gate, slotVars, rowVars,
                 quiet, left, waited, aborted, watch, exposed>>

ParameterRefused(o) ==
  /\ phase[o] = "table"
  /\ GoTo(o, "done")
  /\ UNCHANGED <<holder, holdVars, pollerVars, gate, slotVars, rowVars,
                 quiet, left, waited, aborted, watch, exposed>>

ParameterStart(o) ==
  /\ phase[o] = "table"
  /\ StartWork(o, "ready") /\ ArmWatch(o)
  /\ running' = o
  /\ UNCHANGED <<holdVars, pollerVars, gate, sweep, oneShot, rowVars, quiet>>

StampStart(o) ==
  /\ Kind[o] = "stamp" /\ phase[o] = "idle" /\ Safe
  /\ StartWork(o, "ready") /\ ArmWatch(o)
  /\ running' = o
  /\ UNCHANGED <<holdVars, pollerVars, gate, sweep, oneShot, rowVars, quiet>>

(* performClockSync: one frame without a reply, and nothing is registered  *)
(* for the watchdog that is armed; a clock that is not fit to copy sends   *)
(* none.                                                                   *)
ClockStart(o) ==
  /\ Kind[o] = "clock" /\ phase[o] = "idle" /\ Safe
  /\ AcquireBus(o) /\ ArmWatch(o)
  /\ GoTo(o, "ending")
  /\ UNCHANGED <<holdVars, pollerVars, gate, slotVars, rowVars,
                 quiet, left, waited, aborted, exposed>>

(* No gate, no watchdog, and nothing registered that could be aborted. *)
ChargeStart(o) ==
  /\ Kind[o] = "charge" /\ phase[o] = "idle"
  /\ StartWork(o, "ready")
  /\ UNCHANGED <<holdVars, pollerVars, gate, slotVars, rowVars, quiet, watch>>

WriteSend(o) ==
  /\ Kind[o] \in {"parameter", "stamp", "charge"} /\ phase[o] = "ready"
  /\ Transmit(o)
  /\ UNCHANGED <<holder, holdVars, pollerVars, gate, slotVars, rowVars, quiet>>

(* The outcome is known: the audit line is appended. *)
WriteEnds(o) ==
  /\ Kind[o] \in {"parameter", "stamp", "charge"} /\ phase[o] = "ready"
  /\ Wind(o)
  /\ UNCHANGED <<holder, holdVars, pollerVars, gate, slotVars, rowVars, quiet, aborted>>

(* clear-dtcs.ts: the lease is taken before the poller is asked to park. *)
ClearStart(o) ==
  /\ Kind[o] = "clear" /\ phase[o] = "idle" /\ Safe
  /\ StartWork(o, "parking") /\ ArmWatch(o)
  /\ AskForHold(o)
  /\ UNCHANGED <<pollerVars, gate, slotVars, rowVars, quiet>>

ClearGranted(o) ==
  /\ Kind[o] = "clear" /\ phase[o] = "granted" /\ Safe
  /\ GoTo(o, "ready")
  /\ quiet' = quiet \cup {o}
  /\ UNCHANGED <<holder, holdVars, pollerVars, gate, slotVars, rowVars,
                 left, waited, aborted, watch, exposed>>

AtClearStep(o, n) == Kind[o] = "clear" /\ phase[o] = "ready" /\ left[o] = n

(* refuseIfUnsafe, after the park and again after the counters. *)
ClearRefused(o) ==
  /\ \/ Kind[o] = "clear" /\ phase[o] = "granted"
     \/ AtClearStep(o, Exchanges - 1)
  /\ ~Safe
  /\ ReleaseHold(o)
  /\ quiet' = quiet \ {o}
  /\ Leave(o)
  /\ UNCHANGED <<pollerVars, gate, rowVars>>

(* readClearCounters: nothing is registered that could be aborted. *)
ClearReadCounters(o) ==
  /\ AtClearStep(o, Exchanges)
  /\ Transmit(o)
  /\ UNCHANGED <<holder, holdVars, pollerVars, gate, slotVars, rowVars, quiet>>

(* Mutant of ClearErase: the gate is not asked after the counters. *)
ClearEraseUnasked(o) ==
  /\ AtClearStep(o, Exchanges - 1)
  /\ Transmit(o)
  /\ running' = o
  /\ UNCHANGED <<holder, holdVars, pollerVars, gate, sweep, oneShot, rowVars, quiet>>

(* The last gate reading before the irreversible frame, and the frame. *)
ClearErase(o) ==
  /\ AtClearStep(o, Exchanges - 1) /\ Safe
  /\ Transmit(o)
  /\ running' = o
  /\ UNCHANGED <<holder, holdVars, pollerVars, gate, sweep, oneShot, rowVars, quiet>>

(* readAfterClear: the erase was accepted. *)
ClearReadBack(o) ==
  /\ Kind[o] = "clear" /\ phase[o] = "ready" /\ left[o] < Exchanges - 1
  /\ Transmit(o)
  /\ UNCHANGED <<holder, holdVars, pollerVars, gate, slotVars, rowVars, quiet>>

(* Refused, failed, aborted, or read back: the audit line is appended with *)
(* the poller still parked.                                                *)
ClearEnds(o) ==
  /\ Kind[o] = "clear" /\ phase[o] = "ready" /\ left[o] < Exchanges - 1
  /\ running' = NoOp
  /\ Wind(o)
  /\ UNCHANGED <<holder, holdVars, pollerVars, gate, sweep, oneShot, rowVars, quiet, aborted>>

(* settings/restart.ts and http/can-restart.ts. *)
RestartStart(o) ==
  /\ Kind[o] = "restart" /\ phase[o] = "idle"
  /\ AcquireBus(o)
  /\ GoTo(o, "ending")
  /\ UNCHANGED <<holdVars, pollerVars, gate, slotVars, rowVars,
                 quiet, left, waited, aborted, watch, exposed>>

(* The file work is over. *)
Finish(o) ==
  /\ phase[o] = "ending"
  /\ Leave(o)
  /\ GiveBackHold(o)
  /\ UNCHANGED <<pollerVars, gate, rowVars>>

-----------------------------------------------------------------------------
(* Replies, timeouts, the watchdog, the gate and time *)

(* A reply or a timeout.  Once the erase is settled, clear-dtcs.ts takes   *)
(* its session off the write runner.                                       *)
ExchangeEnds(o) ==
  /\ phase[o] = "exchange"
  /\ GoTo(o, "ready")
  /\ running' = IF Kind[o] = "clear" THEN NoOp ELSE running
  /\ waited' = [waited EXCEPT ![o] = 0]
  /\ UNCHANGED <<holder, holdVars, pollerVars, gate, sweep, oneShot, rowVars,
                 quiet, left, aborted, watch, exposed>>

(* kwp-client.ts: one read of a row opens a session, asks, and after a     *)
(* timeout opens it again and repeats itself.  The gate is not asked in    *)
(* between.                                                                *)
SweepReadGoesOn(o) ==
  /\ Kind[o] = "sweep" /\ phase[o] = "exchange"
  /\ Transmit(o)
  /\ UNCHANGED <<holder, holdVars, pollerVars, gate, slotVars, rowVars, quiet>>

(* Mutant of HoldRefused: a refused park leaves without the finally. *)
HoldRefusedLeaks(o) ==
  /\ phase[o] = "parking" /\ HoldWaitOver
  /\ NoHold
  /\ GoTo(o, "done")
  /\ UNCHANGED <<holder, pollerVars, gate, slotVars, rowVars,
                 quiet, left, waited, aborted, watch, exposed>>

(* holdObdPoller's wait timer.  A sweep goes on without its parked rows.   *)
HoldRefused(o) ==
  /\ phase[o] = "parking" /\ HoldWaitOver
  /\ NoHold
  /\ \/ /\ Kind[o] = "sweep"
        /\ pollerRefused' = pollerRefused \cup {o}
        /\ GoTo(o, "ready")
        /\ UNCHANGED <<holder, slotVars, left, waited, aborted, watch, exposed>>
     \/ /\ Kind[o] = "oneshot"
        /\ GoTo(o, "done")
        /\ UNCHANGED <<holder, slotVars, pollerRefused, left, waited, aborted, watch, exposed>>
     \/ /\ Kind[o] = "clear"
        /\ Leave(o)
        /\ UNCHANGED pollerRefused
  /\ UNCHANGED <<pollerVars, gate, rowsLeft, quiet>>

(* Mutant of WatchdogLooks: a single look instead of one per interval. *)
WatchdogLooksOnce(o) ==
  /\ watch[o] = 0
  /\ IF ~Safe /\ InSession(o)
       THEN Abort({o})
       ELSE UNCHANGED <<phase, quiet, left, waited, aborted, exposed>>
  /\ watch' = [watch EXCEPT ![o] = Off]
  /\ UNCHANGED <<holder, holdVars, pollerVars, gate, slotVars, rowVars>>

(* startWatchdog and startGateWatchdog: a closed gate aborts the session   *)
(* that is registered and is then done; with none registered it looks      *)
(* again at the next interval.                                             *)
WatchdogLooks(o) ==
  /\ watch[o] = 0
  /\ IF ~Safe /\ InSession(o)
       THEN /\ Abort({o})
            /\ watch' = [watch EXCEPT ![o] = Off]
       ELSE /\ ArmWatch(o)
            /\ UNCHANGED <<phase, quiet, left, waited, aborted, exposed>>
  /\ UNCHANGED <<holder, holdVars, pollerVars, gate, slotVars, rowVars>>

(* The service stops: both runners abort what they have registered. *)
Shutdown ==
  /\ Abort({sweep, oneShot, running} \cap Ops)
  /\ watch' = [o \in Ops |-> IF o = sweep THEN Off ELSE watch[o]]
  /\ UNCHANGED <<holder, holdVars, pollerVars, gate, slotVars, rowVars>>

GateChanges ==
  /\ gate' = IF Safe THEN "closed" ELSE "open"
  /\ exposed' = IF Safe' THEN [o \in Ops |-> 0] ELSE exposed
  /\ UNCHANGED <<holder, holdVars, pollerVars, slotVars, rowVars,
                 phase, quiet, left, waited, aborted, watch>>

(* The loop parks, and whoever waits for that is told. *)
PollerParksAndAnnounces ==
  /\ PollerParks
  /\ phase' = [o \in Ops |-> IF o = holdBy /\ phase[o] = "parking"
                             THEN "granted" ELSE phase[o]]
  /\ UNCHANGED <<holder, gate, slotVars, rowVars, quiet, left, waited, aborted, watch, exposed>>

PollerStep ==
  /\ PollerTransmits \/ PollerEndsRound \/ PollerRequestEnds \/ PollerWakes
  /\ UNCHANGED <<holder, gate, slotVars, rowVars, opVars>>

(* Timers that are due and continuations that are ready run before time    *)
(* goes on; only file work and the pauses of an operation that keeps       *)
(* nobody parked may take as long as they like.                            *)
MayWait(o) ==
  /\ phase[o] # "granted"
  /\ phase[o] = "exchange" => waited[o] < ExchangeTicks
  /\ phase[o] = "ready" => o \notin quiet
  /\ phase[o] = "parking" => ~HoldWaitOver
  /\ watch[o] # 0

Tick ==
  /\ PollerMayWait /\ \A o \in Ops : MayWait(o)
  /\ HoldAges /\ PollerAges
  /\ waited' = [o \in Ops |-> IF phase[o] = "exchange" THEN waited[o] + 1 ELSE waited[o]]
  /\ watch' = [o \in Ops |-> IF watch[o] = Off THEN Off ELSE watch[o] - 1]
  /\ exposed' = [o \in Ops |-> IF ~Safe /\ InSession(o) /\ exposed[o] <= WatchTicks
                               THEN exposed[o] + 1 ELSE exposed[o]]
  /\ UNCHANGED <<holder, gate, slotVars, rowVars, phase, quiet, left, aborted>>

-----------------------------------------------------------------------------
ReadStep(o) ==
  \/ SweepStart(o) \/ SweepSelfAbort(o) \/ SweepReadRow(o) \/ SweepParkForRow(o)
  \/ SweepSkipRow(o) \/ SweepGranted(o) \/ SweepRowOver(o) \/ SweepEnds(o)
  \/ OneShotAsk(o) \/ OneShotGranted(o) \/ OneShotTooLate(o)
  \/ OneShotSend(o) \/ OneShotEnds(o)

WriteStep(o) ==
  \/ ParameterAsk(o) \/ ParameterRefused(o) \/ ParameterStart(o)
  \/ StampStart(o) \/ ClockStart(o) \/ ChargeStart(o) \/ WriteSend(o) \/ WriteEnds(o)
  \/ ClearStart(o) \/ ClearGranted(o) \/ ClearRefused(o) \/ ClearReadCounters(o)
  \/ ClearErase(o) \/ ClearReadBack(o) \/ ClearEnds(o)
  \/ RestartStart(o)

OpStep(o) ==
  \/ ReadStep(o) \/ WriteStep(o) \/ Finish(o)
  \/ ExchangeEnds(o) \/ SweepReadGoesOn(o) \/ HoldRefused(o) \/ WatchdogLooks(o)

Next ==
  \/ \E o \in Ops : OpStep(o)
  \/ Cancel \/ Shutdown \/ GateChanges
  \/ PollerParksAndAnnounces \/ PollerStep \/ Tick

Spec == Init /\ [][Next]_vars

(* The event loop runs what is due, replies and timeouts come, and time    *)
(* passes.  Nothing is assumed of what the owner asks for, and nothing of  *)
(* the file system: an audit line may take for ever.                       *)
Work(o) == /\ phase[o] \notin {"idle", "table", "ending"}
           /\ \/ ReadStep(o) \/ WriteStep(o) \/ ExchangeEnds(o) \/ HoldRefused(o)

Fairness ==
  /\ WF_vars(PollerStep) /\ WF_vars(PollerParksAndAnnounces) /\ WF_vars(Tick)
  /\ \A o \in Ops : WF_vars(Work(o)) /\ WF_vars(WatchdogLooks(o))

FairSpec == Spec /\ Fairness

-----------------------------------------------------------------------------
(* Properties *)

TypeOK ==
  /\ holder \in Ops \cup {NoOp}
  /\ holdBy \in Ops \cup {NoOp} /\ hold \in {"none", "asked", "parked"}
  /\ holdAge \in 0..AgeLimit
  /\ poller \in {"point", "request", "sleep"}
  /\ pollerTime \in 0..(RequestTicks + SleepTicks) /\ roundLeft \in 0..RoundRequests
  /\ gate \in {"open", "closed"}
  /\ {sweep, oneShot, running} \subseteq Ops \cup {NoOp}
  /\ pollerRefused \subseteq Ops /\ rowsLeft \in [Ops -> 0..SweepRows]
  /\ phase \in [Ops -> Phases] /\ quiet \subseteq Ops
  /\ left \in [Ops -> 0..Exchanges] /\ waited \in [Ops -> 0..ExchangeTicks]
  /\ aborted \subseteq Ops
  /\ watch \in [Ops -> 0..Off] /\ exposed \in [Ops -> 0..(WatchTicks + 1)]

(* bus-lease.ts exists for this: two service operations are never in an    *)
(* exchange at once, so no reply can be taken for the answer to somebody   *)
(* else's request, in whatever order parks, checks and timers interleave.  *)
OneConversation ==
  \A o, p \in Ops : phase[o] = "exchange" /\ phase[p] = "exchange" => o = p

(* obd-hold.ts exists for this: while an operation that was granted a hold *)
(* awaits a reply, the poll loop has no request out, although the hold can *)
(* expire, time out, or be released late by an operation still writing its *)
(* audit line.                                                             *)
PollerSilentUnderHold ==
  \A o \in Ops : phase[o] = "exchange" /\ o \in quiet => poller # "request"

(* What a runner has registered as abortable belongs to the operation that *)
(* has the bus: the watchdog and the shutdown can never abort an operation *)
(* that has already left, nor miss the one that is on the bus.             *)
SlotsBelongToLease == \A s \in {sweep, oneShot, running} : s # NoOp => s = holder

(* The watchdogs bound what a closed gate costs: no session goes on for    *)
(* longer than one watch interval after the gate closed.  The parameter    *)
(* write, whose gate was read before a file was, is included.              *)
UnsafeSessionsAreShort == \A o \in Ops : exposed[o] <= WatchTicks

(* HOLD_WAIT_MS is longer than the loop can take to reach a park point, so *)
(* nobody is refused a hold by a loop that is alive.                       *)
ParkInTime ==
  RequestTicks + SleepTicks < HoldWait =>
    \A o \in Ops : phase[o] = "parking" => ~HoldWaitOver

(* A step that sends the erase takes place on an open gate.                *)
EraseIsSafe ==
  \A o \in Ops : Kind[o] = "clear" /\ running # o /\ running' = o => Safe

(* The irreversible frame of clear-dtcs goes out on an open gate, although *)
(* parking the poller and reading the counters took seconds since the gate *)
(* was first asked.                                                        *)
EraseOnOpenGate == [][EraseIsSafe]_vars

(* A step wakes no operation that was stopped or is over.                  *)
StoppedIsSilent ==
  \A o \in Ops : o \in aborted \/ phase[o] = "done" =>
    (o \in aborted => o \in aborted') /\ phase'[o] # "exchange"

(* An operation that was stopped sends nothing again, and one that is over *)
(* never comes back: neither a late park nor a late file wakes it.         *)
StoppedStaysSilent == [][StoppedIsSilent]_vars

(* Telemetry survives a hold that is never given back: the loop asks the   *)
(* bike again and again even if an audit line hangs with the poller parked. *)
PollerSpeaks == []<>(poller = "request")

(* As long as the file work of an operation ends, the bus is given back by *)
(* everyone who took it: it is free again and again.                       *)
FileWorkEnds == \A o \in Ops : WF_vars(Finish(o))
BusIsReturned == FileWorkEnds => []<>(holder = NoOp)

(* The lease, the hold and every timer together implement BusAccess: one   *)
(* owner, only the owner talks, and quiet is really quiet.                 *)
Access == INSTANCE BusAccess WITH
  owner       <- holder,
  talking     <- {o \in Ops : phase[o] = "exchange"},
  undisturbed <- \E o \in Ops : phase[o] = "exchange" /\ o \in quiet,
  pollerTalks <- poller = "request"

ImplementsBusAccess == Access!AccessSpec

(* docs/vcu-parameters.md says that the gate is asked again before every   *)
(* single request a sweep sends.                                           *)
EverySweepRequestGated ==
  [][\A o \in Ops : Kind[o] = "sweep" /\ phase'[o] = "exchange"
                     /\ (phase[o] # "exchange" \/ left'[o] # left[o]) => Safe]_vars
=============================================================================
