---------------------------- MODULE WriteSession ----------------------------
(***************************************************************************)
(* src/vcu/write-session.ts against one micro of the VCU: the single write *)
(* and the batch, which is a single write when it has one plan, and the    *)
(* service point.  An operation opens a session, reads what it is about to *)
(* change, unlocks the micro with a seed and a key, changes it, and reads  *)
(* it back; every exchange may be refused, go unanswered, be answered too  *)
(* late, fail to be sent, or be cut short by an abort.                     *)
(*                                                                         *)
(* The micro is external.  A request is heard at once or never; replies    *)
(* keep their order, as frames with one identifier from one sender do, and *)
(* may arrive during any later exchange, of a later operation too.  A      *)
(* write or a routine may be answered with 7F .. 78, "response pending":   *)
(* the micro is at work and owes the answer proper.  The lease             *)
(* (ServiceBus) makes operations come one after the other.                 *)
(***************************************************************************)
EXTENDS Naturals, Sequences

CONSTANTS Params, Values,
          Batches,        \* the plans one operation may be given
          StampWords,     \* identifiers the last-service stamp is read from
          UnlockTicks,    \* how long an idle micro stays unlocked
          CooldownTicks,  \* SECURITY_COOLDOWN_MS
          ReplyTicks,     \* RESPONSE_TIMEOUT_MS
          WireLimit       \* bound: replies on their way or owed at once

Plans == [param : Params, value : Values, expected : Values]

ASSUME BatchesAssumption ==
  /\ \A b \in Batches : b \in Seq(Plans) /\ Len(b) > 0
  /\ StampWords \in Nat \ {0} /\ WireLimit \in Nat \ {0}

(* The seed and the key are two exchanges after the mark, and the unlock   *)
(* is idle for at most two exchanges at a time: one that took a late reply *)
(* for its answer and was not heard itself, and the one before it.         *)
ASSUME UnlockAssumption ==
  /\ ReplyTicks \in Nat \ {0} /\ UnlockTicks \in Nat /\ CooldownTicks \in Nat
  /\ 2 * ReplyTicks < UnlockTicks
  /\ UnlockTicks + 2 * ReplyTicks <= CooldownTicks

VARIABLES cell,     \* the micro: its parameters
          unlock,   \* the micro: ticks until its unlock lapses, 0 when locked
          alone,    \* history: ticks until the unlock would lapse, had
                    \* nobody but sessions asked the micro anything
          wire,     \* replies on their way, oldest first
          owed,     \* the micro: the answer it is still working on
          mark,     \* ticks since lastAuthenticatedAt, at most CooldownTicks
          plans, results,  \* of the batch, position by position
          served,   \* outcome of the service point
          before,   \* the parameters when the operation began
          step,     \* which exchange it is at
          out,      \* "due" or "asked"
          pos,      \* position in plans, or stamp words read
          waited,   \* ticks since the request
          owner,    \* context.unlockedMicro: "unlocked" or "nobody"
          stopped   \* context.stopped: "yes" or "no"

microVars  == <<cell, unlock, alone, wire, owed>>
resultVars == <<plans, results, served, before>>
cursorVars == <<step, out, pos, owner>>
vars == <<microVars, mark, resultVars, cursorVars, waited, stopped>>

Steps == {"idle", "open", "read", "stamp", "seed", "key", "write", "readback",
          "routine", "restamp", "answer"}

(* Where an exchange of the session is waiting to go out. *)
Due == step \notin {"idle", "answer"} /\ out = "due"
Service == plans = <<>>

Reply(k, p, v) == [kind |-> k, param |-> p, value |-> v]
Bare(k) == Reply(k, CHOOSE p \in Params : TRUE, CHOOSE v \in Values : TRUE)
Nothing == Bare("nothing")

Init ==
  /\ cell \in [Params -> Values] /\ unlock = 0 /\ alone = 0
  /\ wire = <<>> /\ owed = Nothing
  /\ mark = CooldownTicks
  /\ plans = <<>> /\ results = <<>> /\ served = "none" /\ before = cell
  /\ step = "idle" /\ out = "due" /\ pos = 0 /\ waited = 0
  /\ owner = "nobody" /\ stopped = "no"

-----------------------------------------------------------------------------
(* The micro *)

(* A request that is heard re-arms the idle timer of an unlock.            *)
Rearmed(t) == IF t > 0 THEN UnlockTicks ELSE 0

Keeps == unlock' = Rearmed(unlock) /\ alone' = Rearmed(alone) /\ UNCHANGED cell

Refuses(r) == r = Bare("refused") /\ Keeps

(* What it answers to the present request, and what that does to it.       *)
Answers(r) ==
  \/ step = "open" /\ r = Bare("opened") /\ Keeps
  \/ /\ step \in {"read", "readback"}
     /\ r = Reply("value", plans[pos].param, cell[plans[pos].param]) /\ Keeps
  \/ step \in {"stamp", "restamp"} /\ r = Bare("word") /\ Keeps
  \/ step = "seed" /\ unlock = 0 /\ r = Bare("seed") /\ Keeps
  \/ /\ step = "key" /\ unlock = 0 /\ r = Bare("unlocked")
     /\ unlock' = UnlockTicks /\ alone' = UnlockTicks /\ UNCHANGED cell
  \/ /\ step = "write" /\ unlock > 0
     /\ r = Reply("accepted", plans[pos].param, plans[pos].value)
     /\ unlock' = Rearmed(unlock) /\ alone' = Rearmed(alone)
     /\ cell' \in {cell, [cell EXCEPT ![plans[pos].param] = plans[pos].value]}
  \/ step = "routine" /\ unlock > 0 /\ r = Bare("started") /\ Keeps
  \/ step \in {"write", "routine"} /\ unlock = 0 /\ r = Bare("locked") /\ Keeps
  \/ Refuses(r)

Replies == [kind : {"opened", "value", "word", "seed", "unlocked", "accepted", "started",
                    "locked", "refused", "pending", "nothing"},
            param : Params, value : Values]

(* Replies on their way, the one that is owed among them.                  *)
Outstanding == Len(wire) + (IF owed = Nothing THEN 0 ELSE 1)

(* The reply is sent, or lost, or owed behind a "pending".  Owing it, the  *)
(* micro has already decided: nobody can read it before it is done.        *)
Sends(r) ==
  \/ UNCHANGED <<wire, owed>>
  \/ /\ Outstanding < WireLimit
     /\ wire' = Append(wire, r) /\ UNCHANGED owed
  \/ /\ step \in {"write", "routine"} /\ Outstanding + 1 < WireLimit
     /\ wire' = Append(wire, Bare("pending")) /\ owed' = r

(* While it is at work it hears nothing.                                   *)
Hears ==
  \/ UNCHANGED microVars
  \/ owed = Nothing /\ \E r \in Replies : Answers(r) /\ Sends(r)

-----------------------------------------------------------------------------
(* How an operation goes on *)

Goes(s, p) == step' = s /\ out' = "due" /\ pos' = p

Open(i) == results[i] = "none"
First(S) == CHOOSE i \in S : \A j \in S : i <= j

(* Every position still open gets this outcome, and the answer is ready.   *)
CloseRest(res, o) ==
  /\ results' = [i \in DOMAIN res |-> IF res[i] = "none" THEN o ELSE res[i]]
  /\ Goes("answer", 0)

(* The position gets its outcome and the next open one is written.         *)
NextWrite(o) ==
  LET res == [results EXCEPT ![pos] = o]
      rest == {i \in DOMAIN res : res[i] = "none"}
  IN /\ results' = res
     /\ IF rest = {} THEN Goes("answer", 0) ELSE Goes("write", First(rest))

(* Mutant of StopBatch: a write nobody answered does not stop the batch.   *)
GoOnRegardless(o) == NextWrite(o)

(* batchStopReason: nothing after this position is attempted.              *)
StopBatch(o) == CloseRest([results EXCEPT ![pos] = o], "unsent")

Fails == IF Service THEN Goes("answer", 0) /\ served' = "failed" /\ UNCHANGED results
                    ELSE CloseRest(results, "unsent") /\ UNCHANGED served

AfterOpen(r) ==
  IF r.kind # "opened" THEN Fails /\ UNCHANGED owner
  ELSE /\ IF Service THEN Goes("stamp", 1) ELSE Goes("read", 1)
       /\ UNCHANGED <<results, served, owner>>

(* Mutant of Compared: the value read is not compared with the expected.   *)
ComparedWithNothing(r) ==
  IF r.kind # "value" \/ r.param # plans[pos].param THEN "unread"
  ELSE IF r.value = plans[pos].value THEN "same" ELSE "none"

(* The compare of the compare-and-swap. *)
Compared(r) ==
  IF r.kind # "value" \/ r.param # plans[pos].param THEN "unread"
  ELSE IF r.value # plans[pos].expected THEN "stale"
  ELSE IF r.value = plans[pos].value THEN "same" ELSE "none"

(* Every plan is read before anything is unlocked. *)
AfterRead(r) ==
  LET res == [results EXCEPT ![pos] = Compared(r)]
  IN /\ results' = res
     /\ IF pos < Len(plans) THEN Goes("read", pos + 1)
        ELSE IF \E i \in DOMAIN res : res[i] = "none" THEN Goes("seed", 0)
        ELSE Goes("answer", 0)
     /\ UNCHANGED <<served, owner>>

(* Mutant of AfterStamp: a word that was not answered is asked for again.  *)
AfterStampAgain(r) ==
  /\ IF r.kind # "word" THEN Goes(step, pos)
     ELSE IF pos < StampWords THEN Goes(step, pos + 1)
     ELSE IF step = "stamp" THEN Goes("seed", 0) ELSE Goes("answer", 0)
  /\ UNCHANGED <<results, served, owner>>

(* runReadStampInSession: the first word that fails ends the stamp, and    *)
(* the operation goes on without it.                                       *)
AfterStamp(r) ==
  /\ IF r.kind = "word" /\ pos < StampWords THEN Goes(step, pos + 1)
     ELSE IF step = "stamp" THEN Goes("seed", 0) ELSE Goes("answer", 0)
  /\ UNCHANGED <<results, served, owner>>

AfterSeed(r) ==
  IF r.kind # "seed" THEN Fails /\ UNCHANGED owner
  ELSE Goes("key", 0) /\ UNCHANGED <<results, served, owner>>

AfterKey(r) ==
  IF r.kind # "unlocked" THEN Fails /\ UNCHANGED owner
  ELSE /\ owner' = "unlocked"
       /\ IF Service THEN Goes("routine", 0)
          ELSE Goes("write", First({i \in DOMAIN results : Open(i)}))
       /\ UNCHANGED <<results, served>>

(* Mutant of AfterWrite: a write nobody answered is reported as refused.   *)
AfterWriteGuesses(r) ==
  /\ IF r.kind = "accepted" /\ r.param = plans[pos].param
       THEN Goes("readback", pos) /\ UNCHANGED results
       ELSE StopBatch("refused")
  /\ UNCHANGED <<served, owner>>

(* A "pending" is filed as a refusal by the name of its code, and the      *)
(* batch goes on.                                                          *)
AfterWrite(r) ==
  /\ \/ /\ r.kind = "accepted" /\ r.param = plans[pos].param
        /\ Goes("readback", pos) /\ UNCHANGED results
     \/ r.kind \in {"refused", "pending"} /\ NextWrite(r.kind)
     \/ r.kind = "locked" /\ StopBatch("refused")
     \/ /\ r.kind \notin {"refused", "pending", "locked"}
        /\ r.kind = "accepted" => r.param # plans[pos].param
        /\ StopBatch("unknown")
  /\ UNCHANGED <<served, owner>>

(* Mutant of AfterReadBack: an accepted write is reported as written.      *)
AfterReadBackUnread(r) ==
  /\ IF r.kind # "value" \/ r.param # plans[pos].param THEN StopBatch("unknown")
     ELSE NextWrite("written")
  /\ UNCHANGED <<served, owner>>

AfterReadBack(r) ==
  /\ IF r.kind # "value" \/ r.param # plans[pos].param THEN StopBatch("unknown")
     ELSE NextWrite(IF r.value = plans[pos].value THEN "written" ELSE "mismatch")
  /\ UNCHANGED <<served, owner>>

AfterRoutine(r) ==
  /\ IF r.kind = "started" THEN Goes("restamp", 1) /\ served' = "started"
     ELSE /\ Goes("answer", 0)
          /\ served' = IF r.kind \in {"refused", "pending", "locked"} THEN "refused" ELSE "failed"
  /\ UNCHANGED <<results, owner>>

GoesOn(r) ==
  /\ \/ step = "open" /\ AfterOpen(r)
     \/ step = "read" /\ AfterRead(r)
     \/ step \in {"stamp", "restamp"} /\ AfterStamp(r)
     \/ step = "seed" /\ AfterSeed(r)
     \/ step = "key" /\ AfterKey(r)
     \/ step = "write" /\ AfterWrite(r)
     \/ step = "readback" /\ AfterReadBack(r)
     \/ step = "routine" /\ AfterRoutine(r)
  /\ waited' = 0
  /\ UNCHANGED <<plans, before>>

(* Mutant of Marked: only the start of the unlock is marked. *)
MarkedOnce == UNCHANGED mark

(* settle: an operation that holds an unlock pushes the mark forward on    *)
(* every exchange.  The key's own exchange does not hold it yet.           *)
Marked == mark' = IF owner = "unlocked" THEN 0 ELSE mark

-----------------------------------------------------------------------------
(* Actions *)

(* cooldownFor: refused while the micro may still be unlocked. *)
Cooled == mark = CooldownTicks

Begin(b) ==
  /\ step = "idle" /\ Cooled
  /\ plans' = b /\ results' = [i \in DOMAIN b |-> "none"] /\ served' = "none"
  /\ before' = cell
  /\ Goes("open", 0) /\ owner' = "nobody" /\ stopped' = "no"
  /\ UNCHANGED <<microVars, mark, waited>>

BeginWrite == \E b \in Batches : Begin(b)
BeginService == Begin(<<>>)

(* exchangeRaw puts the frame on the bus; unlock marks the micro first.    *)
Ask ==
  /\ Due /\ stopped = "no"
  /\ out' = "asked" /\ waited' = 0
  /\ mark' = IF step = "seed" THEN 0 ELSE mark
  /\ Hears
  /\ UNCHANGED <<resultVars, step, pos, owner, stopped>>

(* The frame never reaches the bus. *)
SendFails ==
  /\ Due /\ stopped = "no"
  /\ mark' = IF step = "seed" \/ owner = "unlocked" THEN 0 ELSE mark
  /\ GoesOn(Nothing)
  /\ UNCHANGED <<microVars, stopped>>

(* An exchange of a stopped session is over before it begins. *)
NotSent ==
  /\ Due /\ stopped = "yes"
  /\ mark' = IF step = "seed" THEN 0 ELSE mark
  /\ GoesOn(Nothing)
  /\ UNCHANGED <<microVars, stopped>>

(* handleFrame: the next frame with the right identifier settles whatever  *)
(* is pending, and is nobody's when nothing is.                            *)
Arrives ==
  /\ wire # <<>>
  /\ wire' = Tail(wire)
  /\ IF out = "asked"
       THEN Marked /\ GoesOn(Head(wire)) /\ UNCHANGED stopped
       ELSE UNCHANGED <<mark, resultVars, cursorVars, waited, stopped>>
  /\ UNCHANGED <<cell, unlock, alone, owed>>

TimesOut ==
  /\ out = "asked" /\ waited = ReplyTicks
  /\ Marked /\ GoesOn(Nothing)
  /\ UNCHANGED <<microVars, stopped>>

(* stop: the pending exchange settles as an empty payload. *)
Stop ==
  /\ step \notin {"idle", "answer"} /\ stopped = "no"
  /\ stopped' = "yes"
  /\ IF out = "asked" THEN Marked /\ GoesOn(Nothing)
     ELSE UNCHANGED <<mark, resultVars, cursorVars, waited>>
  /\ UNCHANGED microVars

Answer ==
  /\ step = "answer"
  /\ Goes("idle", 0)
  /\ UNCHANGED <<microVars, mark, resultVars, owner, waited, stopped>>

(* Another operation reads the same micro: read-runner.ts, and the stamp   *)
(* read.  It re-arms the micro's idle timer and marks nothing.             *)
ReaderReads ==
  /\ step = "idle" /\ unlock > 0 /\ owed = Nothing
  /\ unlock' = UnlockTicks
  /\ UNCHANGED <<cell, alone, wire, owed, mark, resultVars, cursorVars, waited, stopped>>

(* The rider, the dash or the VCU itself changes a parameter: between      *)
(* operations, and no sooner than the last reply has arrived or is lost.   *)
CellChanges ==
  /\ step = "idle" /\ Outstanding = 0
  /\ \E p \in Params, v \in Values : cell' = [cell EXCEPT ![p] = v]
  /\ UNCHANGED <<unlock, alone, wire, owed, mark, resultVars, cursorVars, waited, stopped>>

(* The micro has done its work: the answer it owes is sent or lost.        *)
WorkEnds ==
  /\ owed # Nothing /\ owed' = Nothing
  /\ wire' \in {wire, Append(wire, owed)}
  /\ UNCHANGED <<cell, unlock, alone, mark, resultVars, cursorVars, waited, stopped>>

Tick ==
  /\ ~Due /\ (out = "asked" => waited < ReplyTicks)
  /\ unlock' = IF unlock > 0 THEN unlock - 1 ELSE 0
  /\ alone' = IF alone > 0 THEN alone - 1 ELSE 0
  /\ mark' = IF mark < CooldownTicks THEN mark + 1 ELSE mark
  /\ waited' = IF out = "asked" THEN waited + 1 ELSE waited
  /\ UNCHANGED <<cell, wire, owed, resultVars, cursorVars, stopped>>

Next ==
  \/ BeginWrite \/ BeginService
  \/ Ask \/ SendFails \/ NotSent \/ Arrives \/ TimesOut \/ Stop \/ Answer
  \/ ReaderReads \/ CellChanges \/ WorkEnds \/ Tick

Spec == Init /\ [][Next]_vars

(* Requests that are due go out, timers fire and time passes.  Nothing is  *)
(* assumed of the micro, of replies or of who starts an operation.         *)
FairSpec ==
  /\ Spec
  /\ WF_vars(Ask \/ SendFails) /\ WF_vars(NotSent)
  /\ WF_vars(TimesOut) /\ WF_vars(Answer) /\ WF_vars(Tick)

-----------------------------------------------------------------------------
(* Properties *)

(* Outcomes after which no write of the plan was sent, and after which one *)
(* was.  "pending" is the refusal with code 78.                            *)
Unsent == {"unread", "stale", "same", "unsent"}
Outcomes == Unsent \cup {"none", "refused", "pending", "unknown", "written", "mismatch"}

TypeOK ==
  /\ cell \in [Params -> Values] /\ before \in [Params -> Values]
  /\ unlock \in 0..UnlockTicks /\ alone \in 0..unlock
  /\ wire \in Seq(Replies) /\ owed \in Replies /\ Outstanding <= WireLimit
  /\ mark \in 0..CooldownTicks
  /\ plans \in Batches \cup {<<>>} /\ DOMAIN results = DOMAIN plans
  /\ \A i \in DOMAIN results : results[i] \in Outcomes
  /\ served \in {"none", "refused", "failed", "started"}
  /\ step \in Steps /\ out \in {"due", "asked"} /\ pos \in Nat
  /\ waited \in 0..ReplyTicks
  /\ owner \in {"nobody", "unlocked"} /\ stopped \in {"no", "yes"}

SeedDue == step = "seed" /\ Due /\ stopped = "no"

(* The cooldown outlives what the session itself kept unlocked: whatever   *)
(* was lost, late or aborted before, an unlock that only authenticated     *)
(* operations had kept up would have lapsed when the next seed goes out.   *)
(* A micro that is unlocked then is the work of another reader.            *)
OwnUnlockIsOver == SeedDue => alone = 0

(* docs/vcu-parameters.md, rule 3: SECURITY_COOLDOWN_MS refuses to start a *)
(* second authenticated operation until the unlock has certainly expired.  *)
(* A seed asked of an unlocked micro spends one of about three attempts.   *)
SeedOnlyWhenLocked == SeedDue => unlock = 0

(* One unlock covers the whole batch: when a write or a routine goes out,  *)
(* the micro is still unlocked, because nothing goes on after an exchange  *)
(* that was not answered.                                                  *)
UnlockOutlivesBatch ==
  step \in {"write", "routine"} /\ Due /\ stopped = "no" => unlock > 0

(* A plan said to have changed nothing.  After a "pending", which the      *)
(* answer it stands for follows late, a refusal may be another plan's.     *)
ToldUntouched(i) ==
  \/ results[i] \in Unsent
  \/ results[i] = "refused" /\ \A j \in 1..(i - 1) : results[j] # "pending"

(* What an answer says was not touched was not touched: stale, already     *)
(* equal, unread, refused and not attempted leave the parameter as it was, *)
(* unless another plan of the batch is for the same parameter and did      *)
(* change it; and although replies may be late by any number of exchanges. *)
UntouchedMeansUntouched ==
  step # "idle" =>
    \A i \in DOMAIN results :
      (\A j \in DOMAIN plans : plans[j].param = plans[i].param => ToldUntouched(j))
      => cell[plans[i].param] = before[plans[i].param]

(* write-codec.ts says of a refused write that the micro said no, by name. *)
(* So a batch in which every plan of a parameter was refused, 7F 2E 78     *)
(* being one such name, left the parameter as it was.                      *)
RefusedMeansUntouched ==
  step # "idle" =>
    \A i \in DOMAIN results :
      (\A j \in DOMAIN plans : plans[j].param = plans[i].param => results[j] \in {"refused", "pending"})
      => cell[plans[i].param] = before[plans[i].param]

(* An answer is never given with a plan that has no outcome: finaliseBatch *)
(* does not throw.                                                         *)
EveryPlanAnswered == step = "answer" => \A i \in DOMAIN results : ~Open(i)

(* "written" is only said of a value the micro holds: an accepted write,   *)
(* an abort or somebody else's late reply is not enough.                   *)
WrittenIsOnTheBike ==
  [][\A i \in DOMAIN results \cap DOMAIN results' :
       results[i] # "written" /\ results'[i] = "written" => cell[plans[i].param] = plans[i].value]_vars

(* What the plan at i may find in its parameter: what its caller expected, *)
(* or what an earlier plan of the batch for the same parameter was sent to *)
(* put there.                                                              *)
MayReplace(i) ==
  {plans[i].expected} \cup
  {plans[j].value : j \in {k \in 1..(i - 1) : plans[k].param = plans[i].param /\ results[k] \notin Unsent}}

(* Every plan of a batch is a compare-and-swap: what a write replaces is   *)
(* what the caller expected to replace, or the caller's own.               *)
ReplacesTheExpected ==
  [][step = "write" /\ cell' # cell => cell[plans[pos].param] \in MayReplace(pos)]_vars

(* An operation ends, answered or not. *)
OperationEnds == step # "idle" ~> step = "idle"
=============================================================================
