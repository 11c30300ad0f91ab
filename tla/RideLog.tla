------------------------------ MODULE RideLog ------------------------------
(* The encrypted ride log of src/storage/encrypted-log.ts: readings wait in a  *)
(* buffer, are sealed one segment per run of equal clock trust, and each       *)
(* segment is written and flushed to the card before the next.  A timer, the   *)
(* park, a download and the shutdown all ask for a seal; appends fail and the  *)
(* power goes at any moment.                                                    *)
EXTENDS Naturals, Sequences, FiniteSets

CONSTANTS TrustsSeen,       \* the clock's states in a behaviour
          MaxBuffered,      \* MAX_BUFFERED_READINGS
          MaxRuns,          \* MAX_RUNS_PER_SEAL
          MaxReadings,      \* readings in a behaviour (a bound of the model)
          MaxFailures       \* appends that fail (a bound of the model)

ASSUME LogBounds == /\ TrustsSeen \subseteq {"satellite-backed", "never-synced", "contested"}
                    /\ MaxBuffered \in Nat \ {0} /\ MaxRuns \in Nat \ {0}
                    /\ MaxReadings \in Nat /\ MaxFailures \in Nat

Trusts == {"satellite-backed", "never-synced", "contested"}
Callers == {"park", "download", "close"}
Reading == [seq : 0..(MaxReadings - 1), trust : Trusts]
Segment == [trust : Trusts, readings : Seq(Reading), durable : BOOLEAN]

VARIABLES buffered, nextSequence,   \* the module's buffer and row counter
          sealing,                  \* the active seal: the readings of the runs it has left, <<>> when there is none
          collapsed,                \* whether they are one run, for want of room for more
          written,                  \* whether the first run is written and not yet flushed
          flush,                    \* flushEncryptedLog per caller: its pass, and what it was asked for
          files,                    \* the log files, in the order of the appends
          service,
          dropped, faults           \* history: rows given up; appends that failed

logVars == <<buffered, nextSequence, sealing, collapsed, written, flush, files, service, dropped, faults>>

Asked(pass, upTo, refused) == [pass |-> pass, upTo |-> upTo, refused |-> refused]

LogTypeOK ==
  /\ buffered \in Seq(Reading) /\ nextSequence \in 0..MaxReadings
  /\ sealing \in Seq(Reading) /\ collapsed \in BOOLEAN /\ written \in BOOLEAN
  /\ flush \in [Callers -> [pass : {"idle", "first", "second", "done"}, upTo : 0..MaxReadings, refused : BOOLEAN]]
  /\ files \in Seq(Segment)
  /\ service \in {"up", "closing", "exited", "cut"}
  /\ dropped \subseteq 0..(MaxReadings - 1) /\ faults \in 0..MaxFailures

LogInit ==
  /\ buffered = <<>> /\ nextSequence = 0 /\ sealing = <<>> /\ collapsed = FALSE /\ written = FALSE
  /\ flush = [c \in Callers |-> Asked("idle", 0, FALSE)]
  /\ files = <<>> /\ service = "up" /\ dropped = {} /\ faults = 0

-----------------------------------------------------------------------------
(* trust-runs.ts *)
Pessimism == [t \in Trusts |-> CASE t = "satellite-backed" -> 0 [] t = "never-synced" -> 1 [] t = "contested" -> 2]

\* Mutant: the collapsed run is labelled with the trust it ends on.
LastTrust(readings) == readings[Len(readings)].trust

MostPessimistic(readings) ==
  CHOOSE t \in Trusts : /\ \E i \in DOMAIN readings : readings[i].trust = t
                        /\ \A i \in DOMAIN readings : Pessimism[readings[i].trust] <= Pessimism[t]

(* splitByTrust: one run per stretch of equal trust, or one for all of them when *)
(* there would be more than MaxRuns.  The stretches are taken off the front as    *)
(* the seal comes to them.                                                        *)
Starts(readings) == {i \in DOMAIN readings : i = 1 \/ readings[i].trust # readings[i - 1].trust}
Collapses(readings) == Cardinality(Starts(readings)) > MaxRuns
Stretch(readings) ==
  CHOOSE n \in DOMAIN readings :
    /\ \A i \in 1..n : readings[i].trust = readings[1].trust
    /\ n < Len(readings) => readings[n + 1].trust # readings[1].trust

-----------------------------------------------------------------------------
Running == service \in {"up", "closing"}
Sealing == sealing # <<>>

(* The run that is being sealed: how long it is, what it says and what is behind it. *)
RunLength == IF collapsed THEN Len(sealing) ELSE Stretch(sealing)
Run == [trust |-> MostPessimistic(SubSeq(sealing, 1, RunLength)),
        readings |-> SubSeq(sealing, 1, RunLength),
        durable |-> FALSE]
Rest == SubSeq(sealing, RunLength + 1, Len(sealing))

(* appendReading; the oldest go when the buffer is full. *)
AppendReading(trust) ==
  /\ Running /\ nextSequence < MaxReadings
  /\ nextSequence' = nextSequence + 1
  /\ LET all == Append(buffered, [seq |-> nextSequence, trust |-> trust])
         overflow == IF Len(all) > MaxBuffered THEN Len(all) - MaxBuffered ELSE 0
     IN /\ buffered' = SubSeq(all, overflow + 1, Len(all))
        /\ dropped' = dropped \union {all[i].seq : i \in 1..overflow}
  /\ UNCHANGED <<sealing, collapsed, written, flush, files, service, faults>>

(* sealPendingSegment with no seal in flight: the whole buffer is taken. *)
BeginSeal(pending) ==
  /\ sealing' = pending /\ collapsed' = Collapses(pending)
  /\ buffered' = <<>>

\* Mutant: the timer does not outlive a seal that failed.
TimerSealUntilFailure ==
  /\ service = "up" /\ ~Sealing /\ faults = 0
  /\ BeginSeal(buffered)
  /\ UNCHANGED <<nextSequence, written, flush, files, service, dropped, faults>>

(* The 30 s timer. *)
TimerSeal ==
  /\ service = "up" /\ ~Sealing
  /\ BeginSeal(buffered)
  /\ UNCHANGED <<nextSequence, written, flush, files, service, dropped, faults>>

\* Mutant: one pass.
FlushOnce(caller) ==
  IF Sealing
  THEN flush' = [flush EXCEPT ![caller] = Asked("second", nextSequence, FALSE)] /\ UNCHANGED <<sealing, collapsed, buffered>>
  ELSE /\ BeginSeal(buffered)
       /\ flush' = [flush EXCEPT ![caller] = Asked(IF buffered = <<>> THEN "done" ELSE "second", nextSequence, FALSE)]

(* flushEncryptedLog: a first pass joins the seal in flight, or begins one; with *)
(* nothing in flight and nothing waiting both passes are over at once.            *)
Flush(caller) ==
  IF Sealing
  THEN flush' = [flush EXCEPT ![caller] = Asked("first", nextSequence, FALSE)] /\ UNCHANGED <<sealing, collapsed, buffered>>
  ELSE /\ BeginSeal(buffered)
       /\ flush' = [flush EXCEPT ![caller] = Asked(IF buffered = <<>> THEN "done" ELSE "first", nextSequence, FALSE)]

Free(caller) == flush[caller].pass \in {"idle", "done"}

(* startSealOnPark hears the motorcycle park, until it is stopped just before    *)
(* the log is closed; POST /recording/flush is answered for a little longer.     *)
FlushFor(caller) ==
  /\ IF caller = "park" THEN service = "up" ELSE Running
  /\ Free(caller)
  /\ Flush(caller)
  /\ UNCHANGED <<nextSequence, written, files, service, dropped, faults>>

(* closeEncryptedLog: the timer is cleared and the log flushed. *)
Close ==
  /\ service = "up" /\ service' = "closing"
  /\ Flush("close")
  /\ UNCHANGED <<nextSequence, written, files, dropped, faults>>

(* appendDurably, its write and its flush; a file just created has its directory *)
(* flushed before the write.                                                      *)
WriteSegment ==
  /\ Running /\ Sealing /\ ~written
  /\ files' = Append(files, Run)
  /\ written' = TRUE
  /\ UNCHANGED <<buffered, nextSequence, sealing, collapsed, flush, service, dropped, faults>>

(* The active seal is over, whether it failed or not: nobody is told which.  Those *)
(* in their second pass return; those in their first seal what waits now.          *)
SealEnds(waiting, failed) ==
  LET again == waiting # <<>> /\ \E c \in Callers : flush[c].pass = "first"
  IN /\ flush' = [c \in Callers |->
                    CASE flush[c].pass = "second" -> [flush[c] EXCEPT !.pass = "done", !.refused = failed]
                      [] flush[c].pass = "first" -> [flush[c] EXCEPT !.pass = IF again THEN "second" ELSE "done"]
                      [] OTHER -> flush[c]]
     /\ IF again THEN BeginSeal(waiting) ELSE sealing' = <<>> /\ collapsed' = FALSE /\ buffered' = waiting

FlushSegment ==
  /\ Running /\ written
  /\ files' = [files EXCEPT ![Len(files)].durable = TRUE]
  /\ written' = FALSE
  /\ IF Rest # <<>> THEN sealing' = Rest /\ UNCHANGED <<collapsed, buffered, flush>> ELSE SealEnds(buffered, FALSE)
  /\ UNCHANGED <<nextSequence, service, dropped, faults>>

\* Mutant: what was not sealed goes behind what came since.
SealFailsRequeuingBehind ==
  /\ Running /\ Sealing /\ faults < MaxFailures /\ faults' = faults + 1
  /\ written' = FALSE
  /\ SealEnds(buffered \o sealing, TRUE)
  /\ UNCHANGED <<nextSequence, files, service, dropped>>

(* sealRuns: the write fails, or the flush behind it does and the bytes stay where *)
(* they are.  What is not sealed goes back in front of the buffer.                 *)
SealFails ==
  /\ Running /\ Sealing /\ faults < MaxFailures /\ faults' = faults + 1
  /\ written' = FALSE
  /\ SealEnds(sealing \o buffered, TRUE)
  /\ UNCHANGED <<nextSequence, files, service, dropped>>

ProcessGone ==
  /\ buffered' = <<>> /\ sealing' = <<>> /\ collapsed' = FALSE /\ written' = FALSE
  /\ flush' = [c \in Callers |-> Asked("idle", 0, FALSE)]

(* The shutdown goes on once the flush returned, and the process ends. *)
Exit ==
  /\ service = "closing" /\ flush["close"].pass = "done"
  /\ service' = "exited" /\ ProcessGone
  /\ UNCHANGED <<nextSequence, files, dropped, faults>>

(* The power goes: a segment that was not flushed is there afterwards, or there is *)
(* nothing where it was.                                                            *)
PowerGoes ==
  /\ service # "cut" /\ service' = "cut"
  /\ \E lost \in SUBSET {k \in DOMAIN files : ~files[k].durable} :
       files' = [k \in DOMAIN files |-> IF k \in lost THEN [files[k] EXCEPT !.readings = <<>>] ELSE files[k]]
  /\ ProcessGone
  /\ UNCHANGED <<nextSequence, dropped, faults>>

LogNext ==
  \/ \E trust \in TrustsSeen : AppendReading(trust)
  \/ TimerSeal
  \/ \E caller \in {"park", "download"} : FlushFor(caller)
  \/ Close \/ WriteSegment \/ FlushSegment \/ SealFails \/ Exit \/ PowerGoes

LogSpec == LogInit /\ [][LogNext]_logVars
             /\ WF_logVars(TimerSeal) /\ WF_logVars(WriteSegment) /\ WF_logVars(FlushSegment)

-----------------------------------------------------------------------------
Seqs(readings) == {readings[i].seq : i \in DOMAIN readings}
OnCard == UNION {Seqs(files[k].readings) : k \in DOMAIN files}

(* A cut costs the newest readings and never one in the middle: what is on the *)
(* card has every older reading with it, but for those the full buffer gave up. *)
(* Retries, split segments and a failed flush do not put a gap in the ride.     *)
CutLeavesAPrefix ==
  \A s \in OnCard : \A r \in 0..(s - 1) : r \in OnCard \union dropped

(* A segment is never labelled with a better clock than any of its readings was *)
(* stamped under, however often the trust flapped before the seal.  The day      *)
(* file's name is taken from this label.                                         *)
LabelNeverUnderstates ==
  \A k \in DOMAIN files : \A i \in DOMAIN files[k].readings :
    Pessimism[files[k].trust] >= Pessimism[files[k].readings[i].trust]

(* A park, a download or a shutdown that asks for a seal has everything up to its *)
(* call flushed to the card when it returns, whatever seal was in flight and      *)
(* whatever failed before its own second pass.                                    *)
FlushedUnlessRefused ==
  \A c \in Callers :
    flush[c].pass = "done" /\ ~flush[c].refused =>
      \A s \in 0..(flush[c].upTo - 1) :
        s \in dropped \/ \E k \in DOMAIN files : files[k].durable /\ s \in Seqs(files[k].readings)

(* In a service that stays up every reading reaches the card or is given up by *)
(* a full buffer: a failed seal's readings are tried again, all of them.        *)
EverythingSealed ==
  \A s \in 0..(MaxReadings - 1) :
    s < nextSequence ~> (service # "up" \/ s \in OnCard \union dropped)

(* "Does not return until it is on the card" (encrypted-log.ts:199). *)
FlushedIsOnCard ==
  \A c \in Callers :
    flush[c].pass = "done" => \A s \in 0..(flush[c].upTo - 1) : s \in OnCard \union dropped
=============================================================================
