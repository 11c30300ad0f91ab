# cool-eva: specifications, model checking and proofs

cool-eva is a Node service (TypeScript) on a Raspberry Pi inside an Energica
motorcycle. It listens to CAN, polls the OBD port, records rides, commands the
charge current and a fan, reads and writes the parameters of the vehicle
control unit (VCU), and talks to a phone over BLE and to browsers over WiFi. The
motorcycle's ignition is its power switch, so every step may be the last one
before a power cut.

This directory holds TLA+ specifications of the parts in which the order of
events decides whether the service is right, the TLC configurations that check
them on small instances, and TLAPS proofs of the most important results for
every value of the constants. `PROJECT.json` names the components, the runs, the
mutants, the hazards, the findings, the theorems and, definition by definition,
the source lines each one stands for. Paths below are relative to the
repository (`src/src/...` is the code, `src/docs/...` its documentation).

1. [The system](#1-the-system)
2. [The modules](#2-the-modules)
3. [The runs](#3-the-runs)
4. [Fairness](#4-fairness)
5. [What is assumed of the outside](#5-what-is-assumed-of-the-outside)
6. [What is proved](#6-what-is-proved)
7. [Findings](#7-findings)
8. [What is not modelled](#8-what-is-not-modelled)
9. [Plan](#9-plan)

## 1. The system

### How the parts interact

```
 phone, browser ── http/ ── ble-server/          dash and rider      charger
        │                                              │                │
        ▼                                              ▼                ▼
 read-runner ─┐                                   ┌── CAN ── can/signals.ts
 write-runner ┼── bus-lease ── write-session ─────┤             │
 restart  ────┘       │        kwp-client ────────┤             ├── charge/auto ── write-runner
                   obd-hold                       │             ├── fan/auto ───── fan/control
                      │                           │             ├── service-gate ─ runners
                   can/obd (poll loop) ───────────┘             └── encrypted-log, WebSocket
 GPS, both transports ── gps/clock, clock-gate ── date     gestures ── fan/gesture-runner
 settings/store ── settings/restart ── systemd ── shutdown.ts
 settings/startup ── migration ── data-move ── the SD card
```

Everything in the service runs in one JavaScript thread. What makes it hard is
what happens between two `await`s:

* **The diagnostic bus.** The VCU answers on one CAN identifier and its answers
  name no request. Two conversations at once would each file the other's
  replies. Three mechanisms keep them apart. The *lease* (`vcu/bus-lease.ts`) is
  one module-level variable: a service operation has it or is refused. The *hold*
  (`can/obd-hold.ts`) asks the poll loop, which takes no lease, to park at its
  next park point, and expires by itself so that a forgotten one cannot silence
  telemetry for the rest of the ride. The *gate* (`vcu/service-gate.ts`) says from
  fresh signals whether the motorcycle is standing still; it is asked before an
  operation, by each sweep before each row, and by a watchdog during the
  operation, which aborts the session registered in the runner's slot.
* **The micros behind it.** Writes need a seed, a key and an unlock that lasts
  about two seconds of idleness; a seed asked of an unlocked micro spends one of
  about three attempts. Replies come late, or never, or during the next exchange.
* **The restart.** A confirmed settings change reserves the bus and the settings
  store, waits for its reply to be delivered, and asks systemd to restart the
  service, while saves, another phone, motion and a manual stop go on.
* **The card.** The one-time move of the archives to their new paths survives a
  cut after any of its steps.
* **The charge.** The motorcycle reports the charge current but not who set it.
  The controller must tell the rider's dial from the echo of its own command.
* **The fan.** Every write to the bridge is awaited and may fail or hang, in an
  order of which some prefixes would brake the fan electrically; a tick, a slider, a
  throttle pass, a kick-start timer and a handlebar gesture all command it.
* **The ride.** Readings wait in memory and reach the card in segments, each with
  one label for the clock they were stamped under, while the power may go.
* **The clock.** Satellite times arrive corrupted, and the gate that decides which may
  set the clock has to survive plausible lies, its own past mistakes included.
* **The phone.** A session changes hands while proofs, lookups, requests and seals of
  the one before are still awaited, over a radio whose disconnections may go untold.

### Components

The state each component keeps, its operations, what is hard about it, and what
makes it correct. "Module" says where it is modelled; section 8 says why the
others are not (yet).

| Component | State | Operations | Hard | Correct when | Module |
|---|---|---|---|---|---|
| Bus lease `vcu/bus-lease.ts` | `holder` | acquire, release with an identity check | released twice, forgotten | one conversation at a time; given back by everybody | BusLease, ServiceBus |
| OBD poller and hold `can/obd.ts`, `obd-hold.ts` | the loop's position, the hold, its two timers | ask, park, resume, release, expire | wait timer against park, expiry against work in progress | silent while a holder awaits a reply; never starved | ObdPoller |
| Read runner `vcu/read-runner.ts`, `sweep.ts` | `sweep`, `oneShot`, row cursor, `pollerRefused` | start, row, parked row, cancel, stop, end | checks made before an await and relied on after it | gate and slots hold when work begins | ServiceBus |
| Write runner `vcu/write-runner.ts`, `clear-dtcs.ts` | `running`, watchdog | six kinds of write, clear, stop | the table gate awaits a file between the gate and the lease; the erase cannot be taken back | watched sessions, erase only on an open gate | ServiceBus |
| Write session `vcu/write-session.ts` | unlock mark, plans and outcomes, the pending exchange | open, read, seed, key, write, read back, service routine, stop | late replies, partial failure of a batch, unlock that outlives the cooldown | every outcome is true of the micro; no operation leaves an unlock for the next one's seed to meet | WriteSession |
| KWP read client `vcu/kwp-client.ts`, `multiframe-transfer.ts` | session freshness, the exchange in flight, its timer, the reassembler | open, read, flow control, retry, stop | a reply to the first try answers the retry; a reply that stalls half-way | a record is whole and filed under its own name | KwpClient |
| Freeze-frame and lifetime reads `vcu/lifetime-read.ts`, `freeze-frame-*.ts` | the list, what was filed | read one component, retry, file | as above | as above | KwpClient |
| Settings startup, migration, data move `settings/` | journal, settings document, which writers run | import, plan, publish, rename, sync, link, flush, commit, resume | a cut between any two syncs; a refusal after a rename | nothing lost; recorders find their archive | LegacyMove |
| Settings restart `settings/restart.ts` | status, lease, reservation, deadline | reserve, deliver, schedule, fail, release | waits behind a save; deadline against scheduling; stop against reserve | reserved means bus *and* settings; asks systemd only for what was confirmed | SettingsRestart |
| Settings store `settings/store.ts` | serial queue, revision, reservation | update, reserve, release | queue order against synchronous callers | reservations and saves exclude each other | SettingsRestart |
| Requested shutdown `shutdown.ts` | who stopped the process | consume, exit | signal in the middle of a reservation | the bus stays held until the exit | SettingsRestart |
| Charge controller `charge/auto.ts`, `auto-curve.ts` | mode, override, reason, last command, amps last sent, in flight | tick, note, setpoint heard, session edge, mode change | its own echo, the reset at an unplug, edges during a command | stands down for the rider and only for the rider, and says so | ChargeControl |
| Charge command `write-runner.ts`, `write-session.ts` | the command that has the bus | two frames, two gaps, audit | fails half-way | ends whatever fails | ChargeControl |
| Signals `can/signals.ts` | the last logged value of a signal | record, notify | listeners hear changes and not events | | ChargeControl (two signals) |
| Service gate, table gate `vcu/service-gate.ts`, `table-gate.ts` | none | a verdict over signal ages | stale signals | | an input of ServiceBus |
| Parameter snapshots and files, write audit `vcu/snapshot*.ts`, `write-audit.ts` | files | append, load | | | their time only |
| Charge acknowledgement `charge/ack-watch.ts` | one pending command, its timer | expect, hear, expire, supersede | verdict of an older command | one verdict per command, its own | planned |
| Charge SOC limit `vcu/charge-soc-limit.ts` | stored value, one write in flight | read, write, settle, read | broadcast against read-back | reported means stored | planned |
| Fan `fan/*.ts` | mode, serial command queue, phase, kick timer, cached duty, off watch | tick, set, kick, fun pass, idle, revert a gesture | a write that fails half-way or hangs; commands decided in one mode and run in another | never a brake; the hand's command stands; fun ends with its gate; a gesture's off does not follow the rider | FanControl |
| Gestures `gestures/*.ts` | press in samples, one run in flight | sample, fire | run overlapping the next press | one run per press | the fan gesture in FanControl |
| GPS clock `gps/clock*.ts` | window, count, anchor and its latch, cooldown, trust flags | reading, verdict, run of `date` | a receiver that lies plausibly; `date` that fails after the verdict | scattered corruption never sets it; trusted means the anchor's; honesty wins in the end | ClockGate |
| Ride log `storage/encrypted-log.ts`, `trust-runs.ts` | buffer, row counter, the active seal | record, seal, write, flush, close | failed seal against new readings; two askers of one seal; power cut | a prefix of the ride on the card; no label too good; a flush means it is there | RideLog |
| BLE server `ble-server/*.ts` | owner, epoch, generation, requests, seals, queue, stream | admit, hello, request, seal, notify, forget | everything stale after an await; a disconnection nobody reports | only the owner of now is answered; the next phone gets in | BleServer |
| BLE client `ble/*.ts` | session, retry, adapter | connect, hand-shake, recover | recovery against a late connection | at most one session | planned |
| WiFi recovery `wifi/*.ts` | running flag, ladder rung | observe, confirm, act | slow command against the next check | one recovery at a time | planned |
| CAN link `can/adapter-rebind.ts`, `link-config.ts` | round of retry | bring up | | bounded rounds | not yet |
| Archive access, capture pruner `storage/` | permission bits | install | | | no |
| HTTP, WebSocket `http/` | clients | parse, reply, fan out | | | inside the modules whose state they change |
| Diagnostics and CAN decoding, GPS decode, hub output, temperature sensor | none to speak of | pure conversions | | | no |
| Settings editing, installer, process start, replay, dashboard, scripts and apps | documents, wiring | | | | no |

## 2. The modules

```
BusLease    ObdPoller
     \       /
     ServiceBus ──refines──> BusAccess           ServiceBusProofs
     (INSTANCE)
WriteSession      KwpClient                      WriteSessionProofs, KwpClientProofs
LegacyMove        RideLog                        StorageProofs
ChargeControl     FanControl                     ControllerProofs
SettingsRestart   ClockGate      BleServer       SettingsRestartProofs, ClockGateProofs, BleServerProofs
MC<module>  one per specification: the values of the constants TLC uses
```

A step of a model is what the code does between two points at which something
else may run: two `await`s, or an `await` and the end of a callback. Where the
code runs through several functions without one, the step does too.

**BusLease, ObdPoller, ServiceBus** (`bus-lease.ts`, `obd-hold.ts`, `obd.ts`,
`read-runner.ts`, `sweep.ts`, `write-runner.ts`, `clear-dtcs.ts`). `BusLease` is
the one variable and its two operations. `ObdPoller` is the loop (`poller`:
at a park point, in a request, asleep) and the hold with both its time limits.
`ServiceBus` composes them with the two runners: one *operation* is one call of a
runner, of one of eight kinds, and `phase` says at which `await` it is. The
slots `sweep`, `oneShot` and `running` are those of the code, as what the
watchdogs and the shutdown abort is what stands in them. A refused request that
changes nothing is a step that is not taken. Time is discrete: `HoldWait`,
`MaxHold`, `RequestTicks`, `SleepTicks`, `ExchangeTicks`, `WatchTicks` stand for
the code's milliseconds; `Tick` waits for timers that are due and continuations
that are ready, never for files. `WorkFitsHold` is the inequality by which
`obd-hold.ts` justifies `MAX_HOLD_MS`.

**BusAccess** is what lease, hold, gate and timers are for, without any of them:
one owner, only the owner talks, and the poller is silent during a talk that
asked for quiet. `ServiceBus!ImplementsBusAccess` is the refinement.

**WriteSession** (`write-session.ts`, `write-codec.ts`). One session against one
micro: a single write, a batch, or the service point, one after the other. `step`
is the exchange, `out` whether its frame is due or sent. `After…` operators are
what the session does with the reply to that exchange; `mark` is
`lastAuthenticatedAt`. The micro may refuse, be silent, or answer into `wire`,
from which a reply settles whatever is pending when it arrives. It may also answer a
write or a routine with `7F .. 78` ("response pending") and the answer proper later
(`owed`); the code files the first as a refusal, which the model keeps apart as "pending"
so that properties can tell the two. A batch may name a parameter twice. Any other
operation may read the micro at any time between two of these (`ReaderReads`); `alone` is
a history variable, the time the unlock would have left had nobody done so.

**KwpClient** (`kwp-client.ts`, `multiframe-transfer.ts`,
`extended-iso-tp.ts`, the job loops of `sweep.ts` and `lifetime-read.ts`). One
read job and the client under it, against a micro that answers in one frame or
in several, late, with lost frames. Replies carry the number of the request they
answer and the item they are about, which the code cannot see: `Status` decides
as `toStoredReply` and `decodeParameterReply` do, from what the reply says.

**LegacyMove** (`data-move.ts`, `data-permissions.ts`, `migration.ts`,
`startup.ts`). Directories are inodes; `disk` is what the running system sees and
`card` what a cut would leave, and the same for modes and the journal. A start of
the service is a sequence of steps (`pc`), any of which may fail or be the last.

**SettingsRestart** (`restart.ts`, the queue and the reservation of `store.ts`,
the one SIGTERM of `shutdown.ts`, `http/settings.ts`, `http/bundle-stop.ts`).
`queue` is the store's promise chain; `Drained` says that jobs that wait for
nothing run before the next event of the loop. `pc` of a request is the `await`
it is in, `age` its time there.

**ChargeControl** (`charge/auto.ts`, `auto-curve.ts`, `performChargeCurrent` and
`sendChargeCommand`, `record` of `signals.ts`). The motorcycle, the rider, a hand
on the phone, and the controller, joined by two wires. What the temperature rule
measures is left open: a verdict is any that `decideChargeCurrent` can give.
`rider` is a history variable: what has been *heard* of the rider in this charge.

**FanControl** (`control.ts`, `auto.ts`, `fun-runner.ts`, `gesture-runner.ts`,
`gestures/runner.ts`). `runExclusively` is `queue`; each step of the command at its
head is one write to the bridge that succeeds, fails or, for a while, does not return
(`hung`). `pins`, `output` and `pwmDuty` are the bridge, `phase`, `target` and
`bridgeEnabled` what the code believes of it. The tick, the throttle passes, the
kick-start timer (`stray`: one that fired as it was cleared), the slider, the mode
buttons, a hold on the handlebar and the shutdown run between any two writes. What the
curve measures comes to one of three answers, the duties to three, and what the signals
say of the motorcycle to four kinds of ride.

**RideLog** (`encrypted-log.ts`, `trust-runs.ts` and the callers of a flush). `sealing` is
what the active seal has left of the readings it took: the run at its head is written and
then flushed, and `collapsed` says whether all of it is one run; a failure puts all of
what is left back in front of the buffer. `flush` is where each caller of
`flushEncryptedLog` is in its two passes. Readings are their sequence numbers and the
trust they were stamped under; encryption and names are left out, except that a
segment has one label. A segment lost to a cut stays where it was, with nothing in it.

**ClockGate** (`clock-gate.ts`, `clock.ts`). Times are seconds off the true time, so
that two readings carried forward by monotonic time differ by their offsets; a tick
brings one reading or silence. `window` and `consecutiveConsistent` must agree before
the gate looks at its anchor, `Verdict` is the branches of `offer()` from there on, and
`dates` are the runs of `date` on their way. `fooled`, `streak`, `target` and `moved`
are history.

**BleServer** (`server.ts`, `owner.ts`, `session.ts`, `outbound.ts`, `stream.ts`,
`tunnel.ts`, `device-watch.ts`).
HELLOs, envelopes, requests and seals are tasks between two awaits. The code compares
the epoch and the generation a task began in with the present ones; a task here carries
`fresh`, which turns FALSE whenever the two move. A subscription sends its first
snapshot before the stream is assigned, so `Dispatch` lets that send end the session first
and installs the stream all the same; an answer to a request too many is two seals at
once. `linked` is the radio and `signals`
the disconnections bluetoothd has yet to tell: one may get lost, and then only the
lookup of the owner finds out.

A proof module EXTENDS the module it is about. StorageProofs and ControllerProofs extend
two, so what the second would share with the first has a name of its own: `LogSpec`,
`LogTypeOK`, `PowerGoes` in RideLog, `FanSpec`, `FanTypeOK`, `FireHold` in FanControl.
Section 6 says what they prove.

## 3. The runs

Passing runs are complete searches. Mutants (one per property, in
`PROJECT.json`) are small changes of the code's behaviour, kept as definitions
beside the ones they change; each is found by the property it is listed with.

| Run | What meets | What it shows |
|---|---|---|
| `bus_readers` | a sweep, a one-shot read and a clear; a poller that may be too slow to park (`HoldWait` 1) | `UnsafeSessionsAreShort`, `StoppedStaysSilent`, `ImplementsBusAccess`; `PollerSpeaks`: the poll loop is never starved, even by a hold nobody gives back; `BusIsReturned`: the lease comes back whenever file work ends |
| `bus_commands` | a charge command, a clear, a parameter write, a service-point write, a clock broadcast, a settings restart; a poller that parks in time (`HoldWait` 3) | `ParkInTime`: nobody is refused by a loop that is alive; `EraseOnOpenGate` |
| `write_batch` | single writes, a batch of two plans and one of three that names a parameter twice, service points; refused, lost, late and pending replies; reads by others at any time | `OwnUnlockIsOver`, `UnlockOutlivesBatch`, `UntouchedMeansUntouched`, `WrittenIsOnTheBike`, `ReplacesTheExpected`, `OperationEnds` |
| `write_seed` | single writes and service points; reads by others | *violation* of `SeedOnlyWhenLocked`: section 7 |
| `legacy_move` | two archives, two power cuts, two failing steps, two changes by hand between starts | `NothingIsLost`, `RenamesOnlyPlainTrees`, `WritersFindArchive`, and `MoveGetsDone` over any number of starts |
| `settings_restart` | two requests, a save, another user of the bus, motion, a signal | `ReservationIsWhole`, `AsksForConfirmed`, `BusComesBack` |
| `charge_control` | a dial, a phone, cables, the controller | `StandsDownForRider`, `RiderWins` |
| `kwp_reads` | two rows or two components, late, partial, lost and failing replies, a stop | `RecordsAreTheirOwn`, `QuietAfterStop`, `JobEnds` |
| `fan` | ticks, throttle passes, slider, mode buttons, a handlebar hold, a write that fails or hangs | `NeverBrakes`, `ManualHolds`, `FunEndsWithGate`, `OffComesBack` |
| `ride_log` | readings, a flapping trust, the timer, a park, a download, a shutdown, two appends that fail, a power cut | `CutLeavesAPrefix`, `LabelNeverUnderstates`, `FlushedUnlessRefused`, `EverythingSealed` |
| `clock` | true and corrupt times, silences, a `date` that is late or fails, somebody else who sets the clock | `SingleLiesNeverStep`, `TrustedClockIsTheAnchors`, `FlipTakesAnAnchorLife`, `HonestReceiverWins` |
| `ble` | two phones that come, ask, subscribe and vanish; one reset, unsubscription, lost signal, failed lookup or stop | `NothingOutlivesItsSession`, `EvictsWhomItAskedAbout`, `NextPhoneGetsIn` |

Each module has a type invariant, `TypeOK` (`LogTypeOK`, `FanTypeOK`), which holds in
each of these runs; the proofs carry what they need of it. Some invariants are true and
simple enough that they are stated and proved, or implied by a run's property, and not
searched for: `OneConversation`, `PollerSilentUnderHold` and `SlotsBelongToLease` (the
refinement has the first two), `ReasonMovesWithFlag`, `EveryPlanAnswered`,
`CompleteMeansMoved`, `NothingLeaks`, `StoppingKeepsBus` and `CommandEnds`. Adding one
to a cfg checks it.

### Bounds, and why they are enough

* **ServiceBus.** `Exchanges` 3 is the least that tells a clear's counters, erase
  and read-back apart; `MaxHold` 3 is exactly the work that must fit, so that one
  tick more would let the poller in; `RequestTicks`, `SleepTicks`,
  `ExchangeTicks` 1 make every pair of timers race. `HoldWait` 1 is shorter than a
  request and a pause, 3 is longer: the two sides of `ParkInTime`. `RoundRequests`
  1 and 2: with 2 a loop meets a park point in the middle of a round. Two rows let
  a parked row follow a refused one. `WatchTicks` 1 and 2. Every operation is
  asked for at most once; three to six of them at once is more than the one
  owner of the motorcycle can ask for.
* **WriteSession.** `UnlockTicks` 3, `ReplyTicks` 1 and `CooldownTicks` 5 are the least
  that `UnlockAssumption` allows. It is what the proofs need for every instance; in this one,
  with the assumption taken out, `UnlockOutlivesBatch` breaks at an unlock of 2 and
  `OwnUnlockIsOver` at a cooldown of 3. Two parameters are a batch with a rest; a third plan,
  for the first one's parameter, meets the first one's value and is as far from the key as
  it takes for an unlock that nobody keeps up to lapse; three values tell the expected, the wanted and a stranger's apart.
  `WireLimit` 2 lets a reply be late by two exchanges, or one be pending and its answer
  owed; with 3, which takes three operations ended in the middle of an exchange one after
  the other, a key's late "unlocked" can be taken by a later operation, and
  `UnlockOutlivesBatch` does not hold. `MCWriteSessionReaders.cfg` and
  `MCWriteSessionPending.cfg` have one parameter, which is enough for their
  counterexamples.
* **KwpClient.** Two items (a late reply has a neighbour to be mistaken for),
  replies of one frame and of three (`Nexts` 2), two frames on the wire, one lost
  frame. Counters of requests are bounded by the job itself.
* **LegacyMove.** Two archives are the fewest for a refusal or a cut *between*
  them; two cuts let a resumed start be cut as well, two failures let a resumed start
  fail, and two changes by hand let one be made and its cure follow. One of the two is
  named in the settings document, one is not.
* **SettingsRestart.** Two requests race each other. The three awaited steps are
  one tick each and the deadline four, the order of 5 + 8 + 5 s within 30 s. One
  save and one restart are enough for a stale revision and a stale generation.
* **ChargeControl.** `Ceiling` 2 and `MinCommand` 1 leave one current that is
  neither an exception nor out of reach; `MCChargeControlDial.cfg` needs a third. Two frames on
  the wire let a dial and an echo, or a reset and an edge, arrive in either order.
* **FanControl.** Duties 0, the floor and full are the three the code treats
  differently. Two queued commands behind each other are the fewest for a later one to
  have been decided on an older mode; two inputs let a hand and a gesture meet; one
  failing write can strike any of them. The motorcycle is parked or riding, the curve
  warm or hot; with all four kinds of ride and all three answers of the curve, and one
  input, the properties hold as well (two minutes).
* **RideLog.** Two readings fill the buffer, two runs fill a seal, three readings
  leave one behind a seal in flight; two failures let the retry fail as well. All four
  of its askers may meet.
* **ClockGate.** Offsets 0, 120 and 7200 are the truth, a lie within the cooldown's
  override and one beyond it. Three agreeing readings, four over a contested anchor, a
  window of two ticks, a cooldown of three and an anchor's life of six keep the order of
  the code's constants (5 and 30 readings; 30, 300 and 600 s). A window of three holds as
  well (three and a half minutes).
* **BleServer.** Two phones, one envelope, request, seal and queued frame each: every
  queue is full at once, and a request too many, whose answer is two seals, ends the session.
  With two seals, so that the answer fits, the three properties hold as well (711 144
  states, five minutes). One disturbance of any kind; with two phones each can be the
  stale one.

For RideLog the next larger bound of any one constant takes longer than five minutes.

## 4. Fairness

Only what the code's scheduling gives is assumed. Always: the event loop runs
continuations that are ready, timers fire, and time passes.

* **ServiceBus**: weak fairness of every operation's steps while it is on the bus,
  of its replies or timeouts (an exchange ends by itself), the watchdog, the
  poller and `Tick`. Nothing is assumed of what the owner asks for, of `awaits` on
  files, or of the gate. That file work ends is a *hypothesis of the property*
  `BusIsReturned`, since a card may hang; `PollerSpeaks` holds without it.
* **WriteSession**: requests that are due go out or fail to, timers fire, time
  passes. Nothing of the micro or of its replies.
* **KwpClient**: the caller's continuations and the timer. Nothing of the micro.
* **LegacyMove**: a start goes on, and there is always another start: the service
  is enabled and the Pi comes up with the motorcycle. Faults, cuts and changes by
  hand are bounded but not fair.
* **SettingsRestart**: the program's own steps, the end of a save, `Tick`. Not the
  SIGTERM, nor that anybody asks.
* **ChargeControl**: only safety is checked.
* **FanControl**: the tick and the beat of the off watch come, the kick-start timer
  fires, and a command at the head of the chain goes on to the end of each write, well or
  not. A write that *hangs* is not fair: `OffComesBack` and `FanFollowsCurve` say so
  in their hypotheses, `FunEndsWithGate` holds although one hangs. Neither hands nor
  signals are fair.
* **RideLog**: the seal timer, the write and the flush of a segment. Readings, callers,
  failures and cuts are not.
* **ClockGate**: a true reading is heard if the receiver goes on offering it, and `date`
  returns. `HonestReceiverWins` has the honest receiver as its hypothesis.
* **BleServer**: a phone in range says HELLO again and again and answers, bluetoothd
  reports a lost link or loses the report, and the proof of a phone that keeps trying is
  sooner or later one its session began with (strong fairness: it can be overtaken any
  number of times). Requests, seals and the notifier need none: a session may end with
  them outstanding.

## 5. What is assumed of the outside

Definitions that model something outside the repository are marked external in
`PROJECT.json`: the micro, the rider, the motorcycle, the file system, systemd.

* JavaScript: promise jobs run before the next event, one thread.
* ext4: a rename is kept or lost as a whole; `fsync` of both parents makes it
  durable; after `sync(1)` everything is on the card. `replaceFileDurably` is
  durable on return; a journal save that *fails* may be visible without being
  durable. Settings documents are saved entirely or not at all.
* Frames with one identifier from one sender keep their order. In KwpClient only
  consecutive frames get lost (a lost first or single frame is a silent micro).
* The motorcycle answers a `0x120` commit (3 to 10 ms, measured) before the
  command's two 5 ms gaps and its synced audit line are over: `Answered`. A cable
  is not seated again while frames are in transit. The ceiling is known, constant
  and one for AC and DC.
* WriteSession: the rider or the dash change a parameter between operations only,
  when no reply is on its way or owed. Every request that is heard re-arms the idle timer of
  an unlock; that the micro finishes a piece of work does not. It says "pending" to a write
  or a routine only, hears nothing while it is at work, and has decided by then
  whether the parameter changes. KwpClient: one caller per client, as the lease
  guarantees (ServiceBus); timers may fire at any time between being armed and
  being cleared, which includes every timing.
* RideLog: a write that fails leaves nothing behind; a segment written in part is one
  that was not written, since the reader drops it and goes on at the next header it finds
  (`src/scripts/decrypt-log.ts:273`). Writing to the card's cache and
  claiming the readings are one step. A cut keeps the flushed segments and any of the
  others.
* ClockGate: times a receiver claims are equal or further apart than the gate's
  tolerances; what is nearer counts as one time. Nobody turns the monotonic clock.
* BleServer: bluetoothd tells of a lost link, if it does at all, before anything the
  phone says on its next one and before it answers a lookup for that phone. A phone that
  has no link writes nothing.
* FanControl: the bridge does what a successful write said, and nothing of a failed one.
  The two enables are driven one after the other, 17 and then 27, and the first that fails
  ends it.
  The process exits a while after the fan's steps of the shutdown, and the pins stay as
  they are.

## 6. What is proved

`tlapm` checks eight modules; their theorems hold for all values of the constants that
satisfy the named assumptions of the modules, and the hypotheses a theorem names.

**ServiceBusProofs** (from `OpsAssumption`, `TicksAssumption`, `WorkFitsHold`; any
set of operations of any kinds):

| Theorem | Property |
|---|---|
| `TypeCorrect` | `TypeOK` |
| `OneConversationHolds` | `OneConversation` |
| `PollerSilent` | `PollerSilentUnderHold` |
| `SlotsHold` | `SlotsBelongToLease` |
| `UnsafeSessionsShort` | `UnsafeSessionsAreShort` |
| `ParkComesInTime` | `ParkInTime` |
| `ErasesSafely` | `EraseOnOpenGate` |
| `StoppedNeverSends` | `StoppedStaysSilent` |
| `Refinement` | `ImplementsBusAccess` |

None of the safety properties is inductive. `OneConversation` says nothing of who
has the lease, so two operations past their checks could both start talking; the
invariant `IInv` adds what the code relies on, in parts:

* `LeaseInv`: everything from an operation's first request to its last file write
  happens with the lease, only a one-shot read waits for its park without it, and a
  slot names the lease's holder and its kind.
* `HoldInv`: whose hold it is, and that the age of a parked hold plus the worst
  case of the work left under it is at most `MaxHold`. This is the argument of the
  comment in `obd-hold.ts`, carried through every step: each request spends
  from `left` what `Tick` may add to `holdAge`. `CostFits` supplies the arithmetic
  from `WorkFitsHold`, the only non-linear step.
* `WatchInv`: the ticks a session has been exposed and the ticks to the next look
  of its watchdog together make up at most one interval.
* `ParkInv`, `PollerTimeInv`: how long the loop can have let a caller wait, by
  where it is in its round.
* `StoppedInv`: a stopped operation awaits no reply.

`Init => IInv` and `TypeOK /\ IInv /\ [Next]_vars => IInv'` are lemmas with one
step per action; the invariants follow by definition, the two action properties by
a second pass over the actions (`ActionStep`), and the refinement by mapping every
action to a step of `BusAccess` or a stutter (`AccessStep`).

**ControllerProofs.** For the charge current (every ceiling, floor, step and wire):
`SentenceMovesWithFlag` (`ReasonMovesWithFlag`), `NoCommandAgainstRider` (`RiderWins`)
and `OnlyForTheRider` (`StandsDownForRider`). The strengthening of the second is
`rider = "owed" => riderOverride = "standing down"`: every way to owe the rider a
stand-down is a way to stand down, and a stand-down ends only where the debt does.
`Authored` adds that a command's author does not change under way, so that a step that
makes it automatic is a tick. The third needs the wires: an echo that is still to come
carries the amps last sent, and a reset that is still to come is behind the session edge
that makes the controller deaf to it.

For the fan (all duties, any number of commands on the chain, of inputs and of failing
writes, from `FanDuties` and `FanBounds`): `NeverBraking` (`NeverBrakes`) and
`RidersWordHolds` (`ManualHolds`). `Driven` says of each write of a command what the
bridge was given before it: while the code believes the enables low, at most the first of
them is high; when it believes them high, the output is on at a duty that is not 0.
`Progress` says how far the command at the head of the chain has come, and that only a
command of duty 0, a stop or a failed write makes it go to idle. `LastWord` is the
strengthening of `ManualHolds`: what was asked for by hand is the last duty on the chain,
or no duty is on the chain and the fan has it, or a write failed and it is stopped. A
tick cannot put a duty behind it, because the mode is manual from the moment it is asked
for, and the end of a kick and a stop carry no duty.

**WriteSessionProofs** (from `BatchesAssumption`, `UnlockAssumption`; any micro,
parameters, values and batches):

| Theorem | Property | Hypothesis |
|---|---|---|
| `OwnUnlockLapses` | `OwnUnlockIsOver` | none |
| `UnlockCoversBatch` | `UnlockOutlivesBatch` | `WireLimit <= 2` |
| `UntouchedIsUntouched` | `UntouchedMeansUntouched` | `WireLimit <= 2` |
| `WrittenOnlyOnTheBike` | `WrittenIsOnTheBike` | `WireLimit <= 2` |
| `EveryWriteIsASwap` | `ReplacesTheExpected` | `WireLimit <= 2` |

`OwnUnlockIsOver` is what the cooldown can promise: the unlock an operation may leave
behind is over before the next seed, whatever was lost, late, aborted or pending. It is
about `alone`, the unlock as it would be had no other reader used the micro; with
readers the stronger `SeedOnlyWhenLocked` is false (section 7). It says nothing of how an
operation came to its seed; the invariant `Cooling` adds that what is left of such an
unlock and what has gone by of the cooldown fit into the cooldown together, that an
operation holds the unlock from its key on, and how old the mark can be when a key or a
write goes out: at most one and two reply timeouts. That is the arithmetic behind
`SECURITY_COOLDOWN_MS`.

The others are about late replies, which the code takes for the answer to whatever it
asked last. `OwnKey` counts them: an operation has spent one of the two on its opening and
another on its seed before it sends its key, so the "unlocked" it hears is the answer to
its own key, everything older is off the wire by then, and from there on each reply answers
the request just made (`OwnAnswers`). A "pending" ends that: what it stands for comes during
a later exchange, so from then on the operation may be one answer behind, which is why
`UntouchedMeansUntouched` believes a refusal only in front of the first "pending", and why a
"written" needs its value read back. With three on the wire none of this need hold
(section 3). `Swaps` is the compare-and-swap spread over the exchanges: a value on the
wire is the parameter's, since nothing is written while one is under way (`ValuesHold`);
what is still to be written holds what its plan expected, or what an earlier plan of the
batch was sent to put there (`Fresh`); and what is said to be untouched is as it was, but
for the plan at the cursor from its write to its read-back (`Undone`, `InDoubt`). A batch
that names a parameter twice compares both plans with the same reading; the theorem
says of the second that it replaces the expected value or the first one's.

**StorageProofs.** For the move (any number of archives, cuts, failures and changes by
hand): `ArchivesSurvive` (`NothingIsLost`), `PlainBeforeRename`
(`RenamesOnlyPlainTrees`) and `RecordersFindTheArchive` (`WritersFindArchive`). A cut puts
back what is on the card, so
the card must hold every directory the running system sees (`CardHolds`), and the system
may be ahead of it only while a journal is open (`AheadWhileOpen`): recorders make
directories at both and start when none is. `Course` is how far the journal is at each
step, `CompleteStays` that a complete one never opens again. For the recorders, `Located`
says where the archive of before the move is: at its old path or in the journal's entry
(`OldIsKnown`), behind a link that is on the card once the entry is linked
(`LinkedStand`), and at the new path, named by the settings, once the move or the import
is complete (`SettingsFollow`).

For the ride log (any number of readings and failing appends, any sizes of the buffer and
of a seal, from `LogBounds`): `CutPrefix` (`CutLeavesAPrefix`), `LabelsHonest`
(`LabelNeverUnderstates`) and `FlushKept` (`FlushedUnlessRefused`). A row is safe when the
full buffer gave it up or a flushed segment has it. `NoneLost`: while the process runs
every row is safe, in the active seal or in the buffer; `InOrder`: they wait in the order
of their numbers, the seal's first. So the run that is written next stands on rows
that are all safe, and this is what the files remember (`Founded`): whatever a cut takes,
it takes nothing from under a segment that it leaves. `Promised` carries a caller's rows
through its two passes: in the second, what is not safe is in the seal it waits for.

**SettingsRestartProofs** (any number of requests, saves, processes, all times):
`ReservedIsWhole` (`ReservationIsWhole`), `AskedIsConfirmed` (`AsksForConfirmed`). The
first says nothing of the jobs in the store's queue, any of which could take the
settings away again; `QueueOK` says that a release in the queue is never of the request
that reserves next nor of the one that has reserved, because only requests that have been
through `reserve()` queue one.

**KwpClientProofs** (any number of items, frames, losses): `RecordsHold`
(`RecordsAreTheirOwn`), `NothingAfterStop` (`QuietAfterStop`). The reassembler counts
frames and cannot see whose they are. `Wire` is why it never joins two replies: behind a
first frame come only frames of its reply until the next first frame, what is being
assembled is continued by the head of the wire, and what the micro still sends continues
its end.

**ClockGateProofs** (all counts, ages and cooldowns): `TrustIsDeserved`
(`TrustedClockIsTheAnchors`), `StepsAreSlow` (`FlipTakesAnAnchorLife`) and
`LoneLiesNeverStep` (`SingleLiesNeverStep`), under two
hypotheses: `Distinct` (section 5: claimed times are equal or further apart than the
anchor's tolerance) for all three and `DateIsQuick` (`date` returns within an anchor's
life) for the first two.
`OneTime` ties the anchor to the last step: they are the same time for as long as an
anchor set with that step could live, and every `date` under way sets that time. For the
third, `InARow` is the relation of the gate's window to the readings themselves: what
stands at the end of the window with the time heard last was heard in a row, so a window
that agrees with itself is as long a row as the gate asks for. That it has not been
thinned out by age is `WindowStaysYoung`: at most its oldest reading is too old.

**BleServerProofs** (any number of phones, tasks, frames, disturbances):
`SessionsEndOnTheRadio` (`NothingOutlivesItsSession`). What waits for the radio is only
half of it; `FreshHasOwner` is about the tasks that may still add to it: an envelope or a
request that has not been overtaken by an end of its session has an owner, and a seal has a
listener. A seal need not have an owner: a stream left behind by its own first snapshot
(section 7) goes on asking for seals, which an ended session answers with nothing.
`AnswersEndTheirOwn` (`EvictsWhomItAskedAbout`) needs `Asking`: a HELLO that waits for an
answer and has not been overtaken asked about the session there is now, because every
change of the owner overtakes every HELLO.

**Only model-checked.**

* Everything temporal under fairness, which is outside what the prover handles:
  `PollerSpeaks`, `BusIsReturned`, `OperationEnds`, `JobEnds`, `MoveGetsDone`,
  `BusComesBack`, `FunEndsWithGate`, `OffComesBack`, `EverythingSealed`,
  `HonestReceiverWins`, `NextPhoneGetsIn`.
* The properties of WriteSession with more than two late replies on the wire. For
  `UnlockOutlivesBatch` they are false at three (section 3); the others hold at three in
  the instance of the run, and no argument for every instance is known. Nor can
  they hold for every number: with an operation's worth of late replies the stale value of
  one operation passes the compare of the next.
* The counterexamples of section 7.

All other properties of the passing runs are theorems.

## 7. Findings

`write_seed`: reads of a micro re-arm the unlock that a write left behind, and move no mark
of the cooldown (`vcu/write-session.ts:1280`; `read-runner.ts` and the stamp read ask for
none). After a write and four seconds of reads, the next write is let through and asks an
unlocked micro for a seed, which costs one of about three attempts.
`docs/vcu-parameters.md:491` says that `SECURITY_COOLDOWN_MS` "refuses to start a second
authenticated operation until the unlock has certainly expired". What does hold is
`OwnUnlockIsOver`.

Ten more places where the code does what a document or a comment says it does not, or
where one of two readings of it does. Each has a property and a configuration that shows
it; they are not among the listed runs.

| Where | What | Property, configuration |
|---|---|---|
| `vcu/sweep.ts:300` | a sweep asks the gate once per row, and one row may put five frames on the bus; `docs/vcu-parameters.md:1390`: "The same check runs again before **every single request** the sweep sends". `UnsafeSessionsAreShort` bounds what it costs: one watch interval | `EverySweepRequestGated`, `MCServiceBusSweepGate.cfg` |
| `fan/auto.ts:260` | a kick-start that fails as it drops to its target leaves the automatic mode believing that its duty is in force: `evaluate()` remembers the duty as commanded when the kick *begins*, the write at its end fails 400 ms later, the fan is forced idle (`fan/control.ts:313`), and nobody tells the loop, so with a steady curve no later tick commands anything; `:264`: "Forgotten on failure so the next tick retries rather than believing a command that never reached the bridge" | `FanFollowsCurve`, `MCFanControlKick.cfg` |
| `vcu/write-codec.ts:312` | a `7F 2E 78` (response pending) settles the write as refused and the batch goes on, while the micro is still at work on it: a refused plan may have changed its parameter, and the late answer settles the next exchange; `:303`: "The micro said no, by name", `docs/diagnostics-and-checks.md:205`: "is a WAIT, not a refusal" | `RefusedMeansUntouched`, `MCWriteSessionPending.cfg` |
| `ble-server/server.ts:270` | a subscription sends its first snapshot before its stream is assigned; if that is one seal too many the session ends, and a stream without an owner is installed. Nothing of it is heard (`session.seal` returns nothing), but its timers and its listener run until a HELLO commits, a session is ended again or the service stops; `docs/ble-server.md:95`: "Output overflow ends that session" | `StreamHasItsOwner`, `MCBleServerStream.cfg` |
| `settings/restart.ts:42` | `reserve()` looks at `stopping` before it waits for the store and not after; `docs/service-shutdown.md:23`: "A requested stop deliberately remains stopped" | `StopRemainsStopped`, `MCSettingsRestartStop.cfg` |
| `can/signals.ts:193` | a dial set to the amps logged last is silent, a third exception beside the two of `docs/charge-auto.md:307` | `DialsAreHonoured`, `MCChargeControlDial.cfg` |
| `vcu/lifetime-read.ts:183` | `57 00` names no component; a late one, taken by the retry, makes the next reply the next component's "no record", against the comment at `:164` | `AnswersAreTheirOwn`, `MCKwpClientComponents.cfg` |
| `fan/fun-runner.ts:135` | a throttle pass that is in a write when the loop is stopped goes round once more if the throttle moved meanwhile, behind the idling of the bridge; `docs/fan-control.md:753`: "so a tick cannot re-command a process that is leaving" | `ExitsInStandby`, `MCFanControlStop.cfg` |
| `storage/encrypted-log.ts:257` | a flush whose seals fail returns as one whose seals did not, and the download goes on (`http/recording-flush.ts:25`), against "Does not return until it is on the card" at `:199` | `FlushedIsOnCard`, `MCRideLogFlush.cfg` |
| `gps/clock-gate.ts:240` | the count of agreeing readings outlives a silence that empties the window, so readings of one time and then of another make up the 30 that `:117` asks for "to displace an anchor that expired while being CONTRADICTED"; five of the second are enough | `ContestedAnchorTakesMore`, `MCClockGateContested.cfg` |

Seen while modelling, with no promise in the repository to hold against them, so
no property:

* a batch that names one parameter twice compares both plans with the value read before
  either was written (`ReplacesTheExpected` allows the second its predecessor's value); an
  exchange stopped, or whose retry cannot be sent, is filed as
  "not sent" although its first try was on the bus;
* a charge command whose *second* frame fails is reported as refused although the first
  one took; a session edge during a settling command leaves that command's amps in the
  next session's memory; the acknowledgement begins to watch after both frames and their
  gaps, so an answer in between reads as "no change expected";
* a verdict of "cooling down" leaves the clock called satellite-backed although the gate
  knows it to be up to an hour off (`gps/clock.ts:57-62`); claims nearer to each other
  than the tolerance can walk the anchor by ten seconds at a time;
* readings that arrive after the second pass of the close are lost with the process;
* a new segment file whose directory could not be flushed is opened again by the retry as
  one that exists, and its directory is not flushed then (`storage/durable.ts:251`);
  harmless on ext4 as section 5 assumes it.

## 8. What is not modelled

Inside the modelled parts:

* ServiceBus: what the frames say, snapshots and audit lines (only their time),
  the decoding of PIDs. A charge *stop* is a "charge" operation.
* WriteSession: the ECU reset, which is one exchange; the clock broadcast and
  the charge frames, which read no reply (ServiceBus has both as users of the lease);
  "response pending" as an answer to anything but a write or a routine.
* KwpClient: requests of several frames and `cancelMultiFrameRead` (driven by a
  script only), the ping whose answer is only logged, frame budgets, the time
  budget of a freeze-frame list.
* LegacyMove: explicit external archives, links found at the old path, fresh
  installs, the capture service.
* SettingsRestart: the editing routes and documents; the `delivering` flag, which
  no reachable state tells apart; the clean-up steps between SIGTERM and exit.
* ChargeControl: what the temperature rule measures, `stop()` and the disabled
  controller, the AC dial (no signal the controller hears), curve files.

* FanControl: what is published for the dashboard, the curve's table, the sampling of a
  hold (the gesture is an input).
* RideLog: encryption, keys, file names and their dates, downloads of what is on the card.
* ClockGate: readings below the floor, which change nothing; the two transports, which
  bring the same kind of reading.
* BleServer: registration with bluetoothd (`gatt-app.ts:282-339`) except for the resets it
  causes; framing, byte sizes, the limiter of refusals, the wait of a stop for the queue to
  drain.

Whole components:

* stateful, and next in the plan: the charge acknowledgement, the charge SOC limit, WiFi
  recovery, the BLE client to the motorcycle's hub, the sampling of hold gestures, the
  bring-up of the CAN link;
* pure conversions, in which no order of events matters (CAN, GPS, diagnostics and
  parameter decoding, the registries and tables behind them, the gates);
* pure I/O (HTTP and WebSocket replies, archive access, hub output, the temperature
  sensor, audit and snapshot files), and wiring (`index.ts`), followed wherever a modelled
  component calls another;
* development tools (replay, the scripts, which are most of the repository's TypeScript),
  the browser and phone applications, the installer.

The last three are most of the repository's lines, so the lines the map covers are a
small share of it; they are most of the lines in which the order of events decides.

## 9. Plan

Done: the bus (lease, hold, runners, refinement), writes, reads, the move, the restart,
the charge current, the fan, the ride log, the clock, the phone's sessions, and proofs of
every property of theirs that does not depend on fairness. Next, in this order:

1. Proofs: the type invariants of the modules that carry only `Typed`, the invariants that
   are stated and not searched for (section 3), and an abstract specification of the
   ride log (an append-only sequence of rows of which a cut keeps a prefix).
2. The charge acknowledgement and the SOC limit beside ChargeControl, sharing its wires.
3. WiFi recovery (the running flag, the confirm window, the ladder) and the BLE client
   (session, handshake, adapter power-cycle).
4. Hold gestures as samples of a signal, in front of FanControl; the CAN link.
