------------------------------ MODULE ObdPoller ------------------------------
(***************************************************************************)
(* The always-on OBD poll loop (src/can/obd.ts) and the hold that parks it *)
(* (src/can/obd-hold.ts).  A hold is acknowledged by the loop at a park    *)
(* point, never granted by a flag, and its maximum length is enforced by   *)
(* the loop and not by the holder.                                         *)
(*                                                                         *)
(* Time is counted in ticks.  The deadline `expiresAt` is kept as the age  *)
(* of the hold; `now > expiresAt` is then `holdAge > MaxHold`, and the     *)
(* age stops counting once it is past every limit it is compared with.     *)
(***************************************************************************)
EXTENDS Naturals

CONSTANTS Ops, NoOp,
          HoldWait,       \* HOLD_WAIT_MS: how long a caller waits for the park
          MaxHold,        \* MAX_HOLD_MS: how long a parked poller stays parked
          RequestTicks,   \* worst case of one awaited request of the loop
          SleepTicks,     \* longest pause between two rounds
          RoundRequests   \* requests in one round

VARIABLES holdBy,       \* whose hold it is, or NoOp (the code's hold = null)
          hold,         \* "none", "asked", or "parked" once acknowledged
          holdAge,      \* ticks since it was asked for, then since it was parked
          poller,       \* where the loop is: "point", "request" or "sleep"
          pollerTime,   \* ticks spent in the present request or pause
          roundLeft     \* requests left in this round

holdVars   == <<holdBy, hold, holdAge>>
pollerVars == <<poller, pollerTime, roundLeft>>

AgeLimit == HoldWait + MaxHold + 1

PollerInit ==
  /\ holdBy = NoOp /\ hold = "none" /\ holdAge = 0
  /\ poller = "point" /\ pollerTime = 0 /\ roundLeft = RoundRequests

NoHold == holdBy' = NoOp /\ hold' = "none" /\ holdAge' = 0

-----------------------------------------------------------------------------
(* obd-hold.ts *)

(* holdObdPoller up to its await: refused while there is any hold. *)
AskForHold(o) ==
  /\ hold = "none"
  /\ holdBy' = o /\ hold' = "asked" /\ holdAge' = 0

(* The wait timer of holdObdPoller: it is cleared when the loop parks, so  *)
(* it can only fire on a hold that is not parked.                          *)
HoldWaitOver == hold = "asked" /\ holdAge >= HoldWait

(* release: only clears a hold that is still this caller's own. *)
ReleaseHold(o) == IF holdBy = o THEN NoHold ELSE UNCHANGED holdVars

(* Mutants of HoldExpired: off by one; a cap nobody enforces. *)
HoldExpiresEarly == hold = "parked" /\ holdAge >= MaxHold
HoldExpiresNever == FALSE

HoldExpired == hold = "parked" /\ holdAge > MaxHold
HoldInForce == hold # "none" /\ ~HoldExpired

(* parkedForHold answering false: there is no hold, or it has just been    *)
(* dropped because its owner kept it too long.                             *)
PassParkPoint ==
  /\ ~HoldInForce
  /\ IF HoldExpired THEN NoHold ELSE UNCHANGED holdVars

(* parkedForHold answering true; the first time it parks and announces. *)
StopAtParkPoint ==
  /\ HoldInForce
  /\ hold' = "parked"
  /\ holdAge' = IF hold = "parked" THEN holdAge ELSE 0
  /\ UNCHANGED holdBy

HoldAges ==
  /\ holdAge' = IF hold # "none" /\ holdAge < AgeLimit THEN holdAge + 1 ELSE holdAge
  /\ UNCHANGED <<holdBy, hold>>

-----------------------------------------------------------------------------
(* obd.ts: the loop.  The check at the top of the loop and the one before  *)
(* the first request of a round run without an await between them, so they *)
(* are one park point.                                                     *)

PollerPauses == poller' = "sleep" /\ pollerTime' = 0 /\ UNCHANGED roundLeft

PollerParks == poller = "point" /\ StopAtParkPoint /\ PollerPauses

(* Mutant of PollerTransmits: the hold is only looked at between rounds. *)
PollerTransmitsUnasked ==
  /\ poller = "point" /\ roundLeft > 0
  /\ IF roundLeft = RoundRequests THEN PassParkPoint ELSE UNCHANGED holdVars
  /\ poller' = "request" /\ pollerTime' = 0 /\ roundLeft' = roundLeft - 1

PollerTransmits ==
  /\ poller = "point" /\ roundLeft > 0
  /\ PassParkPoint
  /\ poller' = "request" /\ pollerTime' = 0 /\ roundLeft' = roundLeft - 1

(* After the last request of a round the loop does not look at the hold. *)
PollerEndsRound ==
  /\ poller = "point" /\ roundLeft = 0
  /\ PollerPauses
  /\ UNCHANGED holdVars

(* A reply, a timeout, or a transmit error that abandons the round. *)
PollerRequestEnds ==
  /\ poller = "request"
  /\ \/ poller' = "point" /\ pollerTime' = 0 /\ UNCHANGED roundLeft
     \/ PollerPauses
  /\ UNCHANGED holdVars

(* sleep(HOLD_POLL_MS) and sleep(intervalMs - elapsed): a pause that ends  *)
(* after at least one tick, since a round never takes no time at all.      *)
PollerWakes ==
  /\ poller = "sleep" /\ pollerTime >= 1
  /\ poller' = "point" /\ pollerTime' = 0 /\ roundLeft' = RoundRequests
  /\ UNCHANGED holdVars

(* A timer of the loop that is due is served before time goes on. *)
PollerMayWait ==
  \/ poller = "request" /\ pollerTime < RequestTicks
  \/ poller = "sleep" /\ pollerTime < SleepTicks

PollerAges == pollerTime' = pollerTime + 1 /\ UNCHANGED <<poller, roundLeft>>
=============================================================================
