------------------------- MODULE WriteSessionProofs -------------------------
(***************************************************************************)
(* For every micro, every batch and all tick counts UnlockAssumption       *)
(* allows.                                                                 *)
(*                                                                         *)
(* The cooldown outlives every unlock that only sessions kept up, with any *)
(* number of late replies and whatever else reads the micro (Cooling).     *)
(*                                                                         *)
(* With at most two replies on their way, the unlock lasts for the batch,  *)
(* what is answered for a parameter is true of it, and a write replaces    *)
(* what its plan expected: from its key on an operation hears only the     *)
(* answers to what it has just asked, until it is told to wait; from then  *)
(* on it may be one answer behind (OwnKey, OwnAnswers), and only its own   *)
(* writes have changed anything since it read (Undone, Fresh).             *)
(***************************************************************************)
EXTENDS WriteSession, SequenceTheorems, WellFoundedInduction, TLAPS

(* The part of TypeOK that time and authentication depend on.              *)
Clocks ==
  /\ unlock \in 0..UnlockTicks /\ alone \in 0..UnlockTicks
  /\ mark \in 0..CooldownTicks /\ waited \in 0..ReplyTicks
  /\ step \in Steps /\ out \in {"due", "asked"}
  /\ owner \in {"nobody", "unlocked"} /\ stopped \in {"no", "yes"}

Before == {"open", "read", "stamp", "seed"}
Under == {"write", "readback", "routine", "restamp"}

(* What is left of an unlock the sessions kept up, and what has gone by of *)
(* the cooldown, fit into the cooldown together; before its key an         *)
(* operation meets none and after it holds the unlock; and the key is not  *)
(* late.                                                                   *)
Cooling ==
  /\ alone > 0 => alone + mark <= CooldownTicks
  /\ step \in Before => alone = 0
  /\ step \in Before \cup {"key"} => owner = "nobody"
  /\ step \in Under => owner = "unlocked"
  /\ step = "seed" /\ out = "asked" => mark <= waited
  /\ step = "key" /\ out = "due" => mark <= ReplyTicks
  /\ step = "key" /\ out = "asked" => mark <= ReplyTicks + waited
  /\ step \in Under /\ out = "due" => mark <= 2 * ReplyTicks

Inv == Clocks /\ Cooling

(* Where the session may go from each of its exchanges, and when it holds  *)
(* the unlock.                                                             *)
Successor ==
  /\ out' = "due" /\ waited' = 0 /\ step' \in Steps
  /\ step = "open" => step' \in {"read", "stamp", "answer"} /\ owner' = owner
  /\ step = "read" => step' \in {"read", "seed", "answer"} /\ owner' = owner
  /\ step = "stamp" => step' \in {"stamp", "seed"} /\ owner' = owner
  /\ step = "seed" => step' \in {"key", "answer"} /\ owner' = owner
  /\ step = "key" => \/ step' \in {"write", "routine"} /\ owner' = "unlocked"
                     \/ step' = "answer" /\ owner' = owner
  /\ step \in Under => step' \in Under \cup {"answer"} /\ owner' = owner

LEMMA GoesOnToSuccessor == ASSUME NEW r, GoesOn(r) PROVE Successor /\ step \in Steps \ {"idle", "answer"}
<1> USE DEF GoesOn, Successor, Steps, Under, Goes
<1>1. CASE step = "open" /\ AfterOpen(r)
  BY <1>1 DEF AfterOpen, Fails, CloseRest
<1>2. CASE step = "read" /\ AfterRead(r)
  BY <1>2 DEF AfterRead
<1>3. CASE step \in {"stamp", "restamp"} /\ AfterStamp(r)
  BY <1>3 DEF AfterStamp
<1>4. CASE step = "seed" /\ AfterSeed(r)
  BY <1>4 DEF AfterSeed, Fails, CloseRest
<1>5. CASE step = "key" /\ AfterKey(r)
  BY <1>5 DEF AfterKey, Fails, CloseRest
<1>6. CASE step = "write" /\ AfterWrite(r)
  BY <1>6 DEF AfterWrite, NextWrite, StopBatch, CloseRest
<1>7. CASE step = "readback" /\ AfterReadBack(r)
  BY <1>7 DEF AfterReadBack, NextWrite, StopBatch, CloseRest
<1>8. CASE step = "routine" /\ AfterRoutine(r)
  BY <1>8 DEF AfterRoutine
<1> QED BY <1>1, <1>2, <1>3, <1>4, <1>5, <1>6, <1>7, <1>8

(* A request changes the unlock only as its step says.                     *)
LEMMA HearsLocked ==
  ASSUME Hears
  PROVE  /\ unlock' \in {unlock, UnlockTicks, 0}
         /\ \/ alone' = alone
            \/ alone > 0 /\ alone' = UnlockTicks
            \/ step = "key" /\ alone' = UnlockTicks
            \/ alone' = 0
<1>1. CASE UNCHANGED microVars
  BY <1>1 DEF microVars
<1>2. CASE \E r \in Replies : Answers(r)
  <2>1. PICK r \in Replies : Answers(r)
    BY <1>2
  <2> HIDE DEF Bare, Reply, Replies
  <2> QED BY <2>1 DEF Answers, Refuses, Keeps, Rearmed
<1> QED BY <1>1, <1>2 DEF Hears

LEMMA InvInit == Init => Inv
  BY UnlockAssumption DEF Init, Inv, Clocks, Cooling, Steps, Before, Under

(* However an exchange is settled, with the mark at nothing or, outside    *)
(* the unlock, at what it was.                                             *)
LEMMA InvSettled ==
  ASSUME Inv, NEW r, GoesOn(r), UNCHANGED <<unlock, alone>>, stopped' \in {"no", "yes"},
         \/ mark' = 0
         \/ /\ mark' = mark
            /\ out = "due" \/ step \notin Under
            /\ ~(out = "due" /\ step = "seed")
  PROVE  Inv'
<1>1. Successor /\ step \in Steps \ {"idle", "answer"}
  BY GoesOnToSuccessor
<1>2. ReplyTicks \in Nat /\ UnlockTicks \in Nat /\ CooldownTicks \in Nat
      /\ ReplyTicks > 0 /\ UnlockTicks + 2 * ReplyTicks <= CooldownTicks
  BY UnlockAssumption
<1>3. Clocks'
  <2>1. owner' \in {"nobody", "unlocked"}
    BY <1>1 DEF Inv, Clocks, Successor, Steps, Under
  <2>2. mark' \in 0..CooldownTicks /\ waited' \in 0..ReplyTicks
    BY <1>1, <1>2 DEF Inv, Clocks, Successor
  <2> QED BY <1>1, <2>1, <2>2 DEF Inv, Clocks, Successor
<1>4. (alone > 0 => alone + mark <= CooldownTicks)'
  BY <1>2 DEF Inv, Clocks, Cooling
<1>5. (step \in Before => alone = 0)'
  BY <1>1 DEF Inv, Cooling, Successor, Steps, Before, Under
<1>6. (step \in Before \cup {"key"} => owner = "nobody")'
  BY <1>1 DEF Inv, Cooling, Successor, Steps, Before, Under
<1>7. (step \in Under => owner = "unlocked")'
  BY <1>1 DEF Inv, Cooling, Successor, Steps, Before, Under
<1>8. (step = "key" /\ out = "due" => mark <= ReplyTicks)'
  BY <1>1, <1>2 DEF Inv, Clocks, Cooling, Successor, Steps, Before, Under
<1>9. (step \in Under /\ out = "due" => mark <= 2 * ReplyTicks)'
  BY <1>1, <1>2 DEF Inv, Clocks, Cooling, Successor, Steps, Before, Under
<1> QED
  BY <1>1, <1>3, <1>4, <1>5, <1>6, <1>7, <1>8, <1>9 DEF Inv, Cooling, Successor

(* Every step keeps the invariant.                                         *)
LEMMA InvStep == ASSUME Inv, [Next]_vars PROVE Inv'
<1>0. /\ ReplyTicks \in Nat /\ UnlockTicks \in Nat /\ CooldownTicks \in Nat
      /\ ReplyTicks > 0 /\ UnlockTicks + 2 * ReplyTicks <= CooldownTicks
  BY UnlockAssumption
<1>1. ASSUME NEW b, Begin(b) PROVE Inv'
  BY <1>0, <1>1 DEF Begin, Goes, Cooled, Inv, Clocks, Cooling, Steps, Before, Under, microVars
<1>2. CASE Ask
  <2> USE <1>0, <1>2 DEF Ask, Due, resultVars
  <2>1. /\ unlock' \in {unlock, UnlockTicks, 0}
        /\ \/ alone' = alone
           \/ alone > 0 /\ alone' = UnlockTicks
           \/ step = "key" /\ alone' = UnlockTicks
           \/ alone' = 0
    BY HearsLocked
  <2> HIDE DEF Hears
  <2>2. Clocks'
    BY <2>1 DEF Inv, Clocks
  <2>3. step \in Before => alone' = 0
    BY <2>1 DEF Inv, Clocks, Cooling, Before
  <2>4. alone' > 0 => alone' + mark' <= CooldownTicks
    BY <2>1, <2>3 DEF Inv, Clocks, Cooling, Steps, Before, Under
  <2>5. /\ (step \in Before \cup {"key"} => owner = "nobody")'
        /\ (step \in Under => owner = "unlocked")'
    BY DEF Inv, Cooling, Before, Under
  <2>6. /\ (step = "seed" /\ out = "asked" => mark <= waited)'
        /\ (step = "key" /\ out = "asked" => mark <= ReplyTicks + waited)'
    BY DEF Inv, Clocks, Cooling
  <2> QED BY <2>2, <2>3, <2>4, <2>5, <2>6 DEF Inv, Cooling
<1>3. CASE SendFails
  BY <1>3, InvSettled DEF SendFails, Due, microVars, Inv, Clocks, Cooling
<1>4. CASE NotSent
  BY <1>4, InvSettled DEF NotSent, Due, microVars, Inv, Clocks
<1>5. CASE Arrives
  <2>1. CASE out = "asked"
    BY <1>5, <2>1, InvSettled DEF Arrives, Marked, Inv, Clocks, Cooling
  <2>2. CASE out # "asked"
    BY <1>5, <2>2 DEF Arrives, Inv, Clocks, Cooling, cursorVars, Before, Under
  <2> QED BY <2>1, <2>2
<1>6. CASE TimesOut
  BY <1>6, InvSettled DEF TimesOut, Marked, microVars, Inv, Clocks, Cooling
<1>7. CASE Stop
  <2>1. CASE out = "asked"
    BY <1>7, <2>1, InvSettled DEF Stop, Marked, microVars, Inv, Clocks, Cooling
  <2>2. CASE out # "asked"
    BY <1>7, <2>2 DEF Stop, Inv, Clocks, Cooling, cursorVars, microVars, Before, Under
  <2> QED BY <2>1, <2>2
<1>8. CASE Answer
  BY <1>0, <1>8 DEF Answer, Goes, Inv, Clocks, Cooling, microVars, Steps, Before, Under
<1>9. CASE ReaderReads
  BY <1>0, <1>9 DEF ReaderReads, Inv, Clocks, Cooling, cursorVars, Before, Under
<1>10. CASE CellChanges \/ WorkEnds
  BY <1>10 DEF CellChanges, WorkEnds, Inv, Clocks, Cooling, cursorVars, Before, Under
<1>11. CASE Tick
  <2> USE <1>0, <1>11 DEF Tick, Due, cursorVars
  <2>1. Clocks'
    BY DEF Inv, Clocks
  <2>2. alone' > 0 => alone' + mark' <= CooldownTicks
    BY DEF Inv, Clocks, Cooling
  <2> QED BY <2>1, <2>2 DEF Inv, Clocks, Cooling, Steps, Before, Under
<1>12. CASE UNCHANGED vars
  BY <1>12 DEF vars, Inv, Clocks, Cooling, cursorVars, microVars, Before, Under
<1> HIDE DEF Inv, Begin, Ask, SendFails, NotSent, Arrives, TimesOut, Stop, Answer,
             ReaderReads, CellChanges, WorkEnds, Tick
<1> QED
  BY <1>1, <1>2, <1>3, <1>4, <1>5, <1>6, <1>7, <1>8, <1>9, <1>10, <1>11, <1>12
  DEF Next, BeginWrite, BeginService

(* SECURITY_COOLDOWN_MS covers what a session does: when a seed goes out,  *)
(* no unlock is left that sessions alone had kept up, however late, lost   *)
(* or aborted their exchanges were and whoever else reads the micro.       *)
THEOREM OwnUnlockLapses == Spec => []OwnUnlockIsOver
<1>1. Inv => OwnUnlockIsOver
  BY DEF Inv, Cooling, OwnUnlockIsOver, SeedDue, Before
<1> QED BY <1>1, InvInit, InvStep, PTL DEF Spec

-----------------------------------------------------------------------------
(* Late replies.  With at most two on their way, an operation that has     *)
(* used one up for its opening and one for its seed has none left from     *)
(* before its key, so the "unlocked" it hears is its own; everything       *)
(* before it is gone then, and from there on every reply it hears answers  *)
(* what it has just asked, until one is "pending".                         *)

(* Every reply on its way, in order: the one that is owed comes last.      *)
Flight == IF owed = Nothing THEN wire ELSE Append(wire, owed)

Kinds(k) == {i \in DOMAIN Flight : Flight[i].kind = k}
Unlocked == {"write", "readback", "routine"}

Wired ==
  /\ wire \in Seq(Replies) /\ owed \in Replies \cup {Nothing}
  /\ Flight \in Seq(Replies) /\ Len(Flight) <= WireLimit

OwnKey ==
  /\ step \in {"read", "stamp", "seed"} => Kinds("unlocked") \subseteq {1}
  /\ step = "key" /\ out = "due" => Kinds("unlocked") = {}
  /\ step = "key" /\ out = "asked" =>
       /\ Kinds("unlocked") \subseteq {Len(Flight)}
       /\ Kinds("unlocked") # {} => unlock + waited >= UnlockTicks
  /\ step \in Unlocked /\ out = "due" =>
       /\ Len(Flight) <= 1 /\ unlock + 2 * ReplyTicks >= UnlockTicks
       /\ Len(Flight) = 1 => unlock + ReplyTicks >= UnlockTicks
  /\ step \in Unlocked /\ out = "asked" =>
       /\ Len(Flight) = 1 => unlock + waited + ReplyTicks >= UnlockTicks
       /\ Len(Flight) = 2 => unlock + waited >= UnlockTicks

(* Nothing before this position was told to wait. *)
Clear(i) == \A j \in 1..(i - 1) : results[j] # "pending"

(* Until then what is on its way answers the write or the read-back that   *)
(* is being made; and a value is the answer to the latest request.         *)
OwnAnswers ==
  /\ step = "write" => Kinds("value") = {}
  /\ step = "readback" /\ out = "due" => Kinds("value") = {}
  /\ step = "readback" /\ out = "asked" => Kinds("value") \subseteq {Len(Flight)}
  /\ step \in {"write", "readback"} /\ Clear(pos) =>
       IF out = "due" THEN Flight = <<>> ELSE Len(Flight) <= 1 \/ Flight[1].kind = "pending"

(* Where the cursor is in the batch.                                       *)
Course ==
  /\ cell \in [Params -> Values] /\ before \in [Params -> Values]
  /\ plans \in Seq(Plans) /\ DOMAIN results = DOMAIN plans
  /\ step \in {"read", "write", "readback"} => pos \in DOMAIN plans
  /\ step \in {"write", "readback"} =>
       results[pos] = "none" /\ \A i \in DOMAIN results : i < pos => ~Open(i)
  /\ step \in {"stamp", "routine", "restamp"} => Service
  /\ step \in {"seed", "key"} /\ ~Service => \E i \in DOMAIN results : Open(i)
  /\ step = "open" => \A i \in DOMAIN results : Open(i)
  /\ step = "read" => \A i \in DOMAIN results : i >= pos => Open(i)

(* A value on its way is the parameter's: nothing is written meanwhile.    *)
ValuesHold == \A i \in Kinds("value") : Flight[i].value = cell[Flight[i].param]

(* The one parameter that may have been changed and not answered for.      *)
InDoubt(i) ==
  /\ i = pos
  /\ \/ step = "readback"
     \/ /\ step = "write" /\ out = "asked"
        /\ ~(Clear(pos) /\ Flight # <<>> /\ Flight[1].kind \in {"refused", "locked"})

(* What no write of its own has changed. *)
Still(i) ==
  \/ results[i] \in Unsent \cup {"none"} /\ ~InDoubt(i)
  \/ results[i] = "refused" /\ Clear(i)

Namesakes(i) == {j \in DOMAIN plans : plans[j].param = plans[i].param}

Undone ==
  step # "idle" =>
    \A i \in DOMAIN results :
      (\A j \in Namesakes(i) : Still(j)) => cell[plans[i].param] = before[plans[i].param]

(* What is still to be written is what the caller expected, or the         *)
(* caller's own.                                                           *)
Fresh ==
  \A i \in DOMAIN results :
    /\ results[i] = "none"
    /\ \/ step \in {"seed", "key"} \/ (step = "read" /\ i < pos)
       \/ step \in {"write", "readback"} /\ (i # pos \/ (step = "write" /\ out = "due"))
    => cell[plans[i].param] \in MayReplace(i)

Late == Clocks /\ Wired /\ OwnKey /\ Course
Swaps == Late /\ OwnAnswers /\ ValuesHold /\ Undone /\ Fresh
-----------------------------------------------------------------------------
LessThan == {ss \in Nat \X Nat : ss[1] < ss[2]}

LEMMA LeastNat == ASSUME NEW T, T \subseteq Nat, T # {} PROVE \E m \in T : \A k \in T : m <= k
<1>1. IsWellFoundedOn(LessThan, Nat)
  BY NatLessThanWellFounded DEF OpToRel, LessThan
<1>2. PICK m \in T : \A y \in T : ~(<<y, m>> \in LessThan)
  BY <1>1, WFMin
<1>3. \A y \in T : ~(y < m)
  BY <1>2 DEF LessThan
<1> QED BY <1>3

(* The next position of a batch is the first of those that are left.       *)
LEMMA FirstIsOne ==
  ASSUME NEW S, S \subseteq Nat, S # {}
  PROVE  First(S) \in S /\ \A j \in S : First(S) <= j
  BY LeastNat DEF First

LEMMA BareKind == ASSUME NEW k PROVE Bare(k).kind = k
  BY DEF Bare, Reply

(* What is on its way, its head taken.                                     *)
LEMMA HeadTaken ==
  ASSUME Wired, Flight # <<>>
  PROVE  /\ Head(Flight) = Flight[1] /\ Flight[1] \in Replies /\ 1 \in DOMAIN Flight
         /\ Tail(Flight) \in Seq(Replies) /\ Len(Tail(Flight)) = Len(Flight) - 1
         /\ \A i \in DOMAIN Tail(Flight) :
              i + 1 \in DOMAIN Flight /\ Tail(Flight)[i] = Flight[i + 1] /\ i \in Nat \ {0}
<1> HIDE DEF Flight
<1> QED BY DEF Wired

(* An arrival takes the head of what is on its way.                        *)
LEMMA FlightArrives ==
  ASSUME Wired, Arrives
  PROVE  /\ Flight # <<>> /\ Head(wire) = Head(Flight) /\ Flight' = Tail(Flight)
         /\ wire' \in Seq(Replies) /\ owed' = owed
<1> HIDE DEF Replies, Nothing
<1>1. wire # <<>> /\ wire' = Tail(wire) /\ owed' = owed /\ wire \in Seq(Replies)
  BY DEF Arrives, Wired
<1>2. Tail(wire) \in Seq(Replies)
  BY <1>1
<1>3. CASE owed = Nothing
  BY <1>1, <1>2, <1>3 DEF Flight, Nothing, Bare, Reply
<1>4. CASE owed # Nothing
  <2>1. owed \in Replies /\ Nothing' = Nothing
    BY <1>4 DEF Wired, Nothing, Bare, Reply
  <2>2. Flight = Append(wire, owed) /\ Flight' = Append(Tail(wire), owed)
    BY <1>1, <1>4, <2>1 DEF Flight
  <2>3. Head(Append(wire, owed)) = Head(wire) /\ Tail(Append(wire, owed)) = Append(Tail(wire), owed)
    BY <1>1, <2>1
  <2>4. Append(wire, owed) # <<>>
    BY <1>1, <2>1
  <2> QED BY <1>1, <1>2, <2>2, <2>3, <2>4
<1> QED BY <1>3, <1>4

(* The last reply is gone from what is on its way. *)
Lost ==
  /\ Flight' \in Seq(Replies) /\ Len(Flight') + 1 = Len(Flight)
  /\ \A i \in DOMAIN Flight' : i \in DOMAIN Flight /\ i # Len(Flight) /\ Flight'[i] = Flight[i]

LEMMA FlightWorkEnds ==
  ASSUME Wired, WorkEnds
  PROVE  Wired' /\ (Flight' = Flight \/ Lost)
<1> HIDE DEF Replies, Nothing
<1>1. /\ owed \in Replies /\ owed # Nothing /\ wire \in Seq(Replies) /\ Nothing' = Nothing
      /\ owed' = Nothing /\ wire' \in {wire, Append(wire, owed)}
  BY DEF WorkEnds, Wired, Nothing, Bare, Reply
<1>2. Flight = Append(wire, owed) /\ Flight' = wire' /\ wire' \in Seq(Replies)
  BY <1>1 DEF Flight
<1>3. ASSUME wire' = wire PROVE Lost
  BY <1>1, <1>2, <1>3 DEF Lost
<1>4. Flight' = Flight \/ Lost
  BY <1>1, <1>2, <1>3
<1>5. WireLimit \in Nat
  BY BatchesAssumption
<1>6. Len(Flight') <= WireLimit
  BY <1>4, <1>5, <1>2 DEF Wired, Lost
<1> QED BY <1>1, <1>2, <1>4, <1>6 DEF Wired

(* How the micro answers, by what it was asked.                            *)
LEMMA AnswersOwn ==
  ASSUME NEW r \in Replies, Answers(r)
  PROVE  /\ r.kind \notin {"nothing", "pending"}
         /\ r.kind = "unlocked" => step = "key" /\ unlock' = UnlockTicks
         /\ r.kind = "value" => /\ step \in {"read", "readback"}
                                /\ r.param = plans[pos].param /\ r.value = cell[plans[pos].param]
         /\ step \in Unlocked /\ unlock > 0 => unlock' = UnlockTicks
         /\ \/ cell' = cell
            \/ /\ step = "write" /\ r.kind = "accepted"
               /\ cell' = [cell EXCEPT ![plans[pos].param] = plans[pos].value]
<1> HIDE DEF Bare, Replies
<1> USE BareKind DEF Unlocked, Rearmed, Keeps
<1>1. CASE step = "open" /\ r = Bare("opened") /\ Keeps
  BY <1>1
<1>2. CASE /\ step \in {"read", "readback"} /\ Keeps
           /\ r = Reply("value", plans[pos].param, cell[plans[pos].param])
  BY <1>2 DEF Reply
<1>3. CASE step \in {"stamp", "restamp"} /\ r = Bare("word") /\ Keeps
  BY <1>3
<1>4. CASE step = "seed" /\ r = Bare("seed") /\ Keeps
  BY <1>4
<1>5. CASE step = "key" /\ r = Bare("unlocked") /\ unlock' = UnlockTicks /\ UNCHANGED cell
  BY <1>5
<1>6. CASE /\ step = "write" /\ r = Reply("accepted", plans[pos].param, plans[pos].value)
           /\ unlock > 0 /\ unlock' = Rearmed(unlock)
           /\ cell' \in {cell, [cell EXCEPT ![plans[pos].param] = plans[pos].value]}
  BY <1>6 DEF Reply
<1>7. CASE step = "routine" /\ r = Bare("started") /\ Keeps
  BY <1>7
<1>8. CASE step \in {"write", "routine"} /\ unlock = 0 /\ r = Bare("locked") /\ Keeps
  BY <1>8
<1>9. CASE Refuses(r)
  BY <1>9 DEF Refuses
<1> QED BY <1>1, <1>2, <1>3, <1>4, <1>5, <1>6, <1>7, <1>8, <1>9 DEF Answers

(* What a request that is heard adds to what is on its way.                *)
LEMMA FlightSends ==
  ASSUME Wired, owed = Nothing, NEW r \in Replies, r.kind # "nothing", Sends(r)
  PROVE  /\ Wired'
         /\ \/ Flight' = Flight
            \/ Flight' = Append(Flight, r)
            \/ /\ step \in {"write", "routine"} /\ Len(Flight) + 1 < WireLimit
               /\ Flight' = Append(Append(Flight, Bare("pending")), r)
<1>0. WireLimit \in Nat
  BY BatchesAssumption
<1>1. Nothing' = Nothing /\ r # Nothing
  BY BareKind DEF Nothing, Bare, Reply
<1>2. Flight = wire /\ wire \in Seq(Replies) /\ Outstanding = Len(wire)
  BY DEF Flight, Wired, Outstanding
<1>3. Bare("pending") \in Replies
  <2>1. r.param \in Params /\ r.value \in Values
    BY DEF Replies
  <2> QED BY <2>1 DEF Bare, Reply, Replies
<1> HIDE DEF Replies, Nothing, Bare, Outstanding
<1>4. CASE UNCHANGED <<wire, owed>>
  BY <1>1, <1>2, <1>4 DEF Flight, Wired
<1>5. CASE Outstanding < WireLimit /\ wire' = Append(wire, r) /\ UNCHANGED owed
  <2>1. wire' \in Seq(Replies) /\ Len(wire') = Len(wire) + 1 /\ Flight' = wire'
    BY <1>1, <1>2, <1>5 DEF Flight
  <2> QED BY <1>0, <1>1, <1>2, <1>5, <2>1 DEF Wired
<1>6. CASE /\ step \in {"write", "routine"} /\ Outstanding + 1 < WireLimit
           /\ wire' = Append(wire, Bare("pending")) /\ owed' = r
  <2>1. wire' \in Seq(Replies) /\ Len(wire') = Len(wire) + 1 /\ Flight' = Append(wire', r)
    BY <1>1, <1>2, <1>3, <1>6 DEF Flight
  <2>2. Flight' \in Seq(Replies) /\ Len(Flight') = Len(wire) + 2
    BY <1>2, <2>1
  <2> QED BY <1>0, <1>1, <1>2, <1>6, <2>1, <2>2 DEF Wired
<1> QED BY <1>4, <1>5, <1>6 DEF Sends

(* What has to be heard for the operation to go on.                        *)
LEMMA Moves ==
  ASSUME NEW r, GoesOn(r)
  PROVE  /\ step' = "read" => step \in {"open", "read"} /\ (step = "open" => r.kind = "opened")
         /\ step' = "stamp" => step \in {"open", "stamp"} /\ (step = "open" => r.kind = "opened")
         /\ step' = "seed" => step \in {"read", "stamp"}
         /\ step' = "key" => step = "seed" /\ r.kind = "seed"
         /\ step' = "routine" => step = "key" /\ r.kind = "unlocked"
         /\ step' = "write" => \/ step = "key" /\ r.kind = "unlocked"
                               \/ step = "write" /\ r.kind \in {"refused", "pending"}
                               \/ step = "readback" /\ r.kind = "value"
         /\ step' = "readback" => step = "write" /\ r.kind = "accepted"
         /\ step' # "open" /\ step' # "idle"
<1> USE DEF GoesOn, Goes
<1>1. CASE step = "open" /\ AfterOpen(r)
  BY <1>1 DEF AfterOpen, Fails, CloseRest
<1>2. CASE step = "read" /\ AfterRead(r)
  BY <1>2 DEF AfterRead
<1>3. CASE step \in {"stamp", "restamp"} /\ AfterStamp(r)
  BY <1>3 DEF AfterStamp
<1>4. CASE step = "seed" /\ AfterSeed(r)
  BY <1>4 DEF AfterSeed, Fails, CloseRest
<1>5. CASE step = "key" /\ AfterKey(r)
  BY <1>5 DEF AfterKey, Fails, CloseRest
<1>6. CASE step = "write" /\ AfterWrite(r)
  BY <1>6 DEF AfterWrite, NextWrite, StopBatch, CloseRest
<1>7. CASE step = "readback" /\ AfterReadBack(r)
  BY <1>7 DEF AfterReadBack, NextWrite, StopBatch, CloseRest
<1>8. CASE step = "routine" /\ AfterRoutine(r)
  BY <1>8 DEF AfterRoutine
<1> QED BY <1>1, <1>2, <1>3, <1>4, <1>5, <1>6, <1>7, <1>8

(* The cursor stays in the batch.                                          *)
LEMMA CourseSettled ==
  ASSUME Course, NEW r, GoesOn(r), UNCHANGED cell
  PROVE  Course'
<1>1. /\ plans' = plans /\ before' = before /\ cell' = cell
      /\ plans \in Seq(Plans) /\ DOMAIN results = DOMAIN plans /\ DOMAIN plans = 1..Len(plans) /\ Len(plans) \in Nat
      /\ cell \in [Params -> Values] /\ before \in [Params -> Values]
  BY DEF GoesOn, Course
<1>2. step' \notin {"open", "idle"}
  BY Moves
<1> DEFINE Rest(res) == {i \in DOMAIN res : res[i] = "none"}
<1>3. ASSUME NEW res, DOMAIN res = DOMAIN plans, Rest(res) # {}
      PROVE  /\ First(Rest(res)) \in DOMAIN plans /\ res[First(Rest(res))] = "none"
             /\ \A i \in DOMAIN res : i < First(Rest(res)) => res[i] # "none"
  <2>1. Rest(res) \subseteq Nat
    BY <1>1, <1>3
  <2>2. First(Rest(res)) \in Rest(res) /\ \A j \in Rest(res) : First(Rest(res)) <= j
    BY <1>3, <2>1, FirstIsOne
  <2> DEFINE n == First(Rest(res))
  <2>3. n \in Nat /\ n \in DOMAIN res /\ res[n] = "none"
    BY <2>1, <2>2
  <2>4. \A j \in DOMAIN res : res[j] = "none" => n <= j /\ j \in Nat
    BY <2>1, <2>2
  <2> HIDE DEF n
  <2>5. \A j \in DOMAIN res : j \in Nat
    BY <1>1, <1>3
  <2>6. \A j \in DOMAIN res : j < n => res[j] # "none"
    BY <2>3, <2>4, <2>5
  <2> QED BY <1>3, <2>3, <2>6 DEF n
<1>4. ASSUME NEW o, NextWrite(o) PROVE Course'
  <2> DEFINE res == [results EXCEPT ![pos] = o]
  <2>1. /\ DOMAIN res = DOMAIN plans /\ results' = res
        /\ \/ Rest(res) = {} /\ step' = "answer"
           \/ Rest(res) # {} /\ step' = "write" /\ pos' = First(Rest(res))
    BY <1>1, <1>4 DEF NextWrite, Goes
  <2> HIDE DEF res
  <2>2. CASE step' = "answer"
    BY <1>1, <2>1, <2>2 DEF Course
  <2>3. CASE Rest(res) # {} /\ step' = "write" /\ pos' = First(Rest(res))
    <3> DEFINE n == First(Rest(res))
    <3>1. n \in DOMAIN plans /\ res[n] = "none" /\ \A i \in DOMAIN res : i < n => res[i] # "none"
      BY <1>3, <2>1, <2>3
    <3> HIDE DEF n
    <3> QED BY <1>1, <2>1, <2>3, <3>1 DEF Course, Open, n
  <2> QED BY <2>1, <2>2, <2>3
<1>5. ASSUME NEW res, DOMAIN res = DOMAIN plans, NEW o, CloseRest(res, o) PROVE Course'
  BY <1>1, <1>5 DEF CloseRest, Goes, Course
<1>6. ASSUME NEW o, StopBatch(o) PROVE Course'
  BY <1>1, <1>5, <1>6 DEF StopBatch
<1>7. CASE Fails
  BY <1>1, <1>5, <1>7 DEF Fails, Goes, Course
<1>8. CASE step = "open" /\ AfterOpen(r)
  <2>1. CASE Service /\ step' = "stamp" /\ results' = results
    BY <1>1, <2>1 DEF Service, Course
  <2>2. CASE ~Service /\ step' = "read" /\ pos' = 1 /\ results' = results
    BY <1>1, <1>8, <2>2 DEF Service, Course, Open
  <2> QED BY <1>7, <1>8, <2>1, <2>2 DEF AfterOpen, Goes
<1>9. CASE step = "read" /\ AfterRead(r)
  <2> DEFINE res == [results EXCEPT ![pos] = Compared(r)]
  <2>1. /\ results' = res /\ pos \in DOMAIN plans
        /\ \/ pos < Len(plans) /\ step' = "read" /\ pos' = pos + 1
           \/ (\E i \in DOMAIN res : res[i] = "none") /\ step' = "seed"
           \/ step' = "answer"
    BY <1>9 DEF AfterRead, Goes, Course
  <2>2. DOMAIN res = DOMAIN plans /\ \A i \in DOMAIN plans : i >= pos + 1 => res[i] = "none"
    BY <1>1, <1>9, <2>1 DEF Course, Open
  <2> HIDE DEF res
  <2> QED BY <1>1, <2>1, <2>2 DEF Course, Open, Service
<1>10. CASE step \in {"stamp", "restamp"} /\ AfterStamp(r)
  BY <1>1, <1>10 DEF AfterStamp, Goes, Course, Service, Open
<1>11. CASE step = "seed" /\ AfterSeed(r)
  BY <1>1, <1>7, <1>11 DEF AfterSeed, Goes, Course, Service, Open
<1>12. CASE step = "key" /\ AfterKey(r)
  <2>1. CASE Service /\ step' = "routine" /\ results' = results
    BY <1>1, <2>1 DEF Course, Service
  <2>2. CASE ~Service /\ step' = "write" /\ pos' = First({i \in DOMAIN results : Open(i)}) /\ results' = results
    <3> DEFINE n == First(Rest(results))
    <3>1. {i \in DOMAIN results : Open(i)} = Rest(results) /\ Rest(results) # {}
      BY <1>12, <2>2 DEF Course, Open
    <3>2. n \in DOMAIN plans /\ results[n] = "none" /\ \A i \in DOMAIN results : i < n => results[i] # "none"
      BY <1>1, <1>3, <3>1
    <3>3. pos' = n
      BY <2>2, <3>1
    <3> HIDE DEF n
    <3> QED BY <1>1, <2>2, <3>2, <3>3 DEF Course, Open
  <2> QED BY <1>7, <1>12, <2>1, <2>2 DEF AfterKey, Goes
<1>13. CASE step = "write" /\ AfterWrite(r)
  <2>1. CASE step' = "readback" /\ pos' = pos /\ results' = results
    BY <1>1, <1>13, <2>1 DEF Course, Open
  <2> QED BY <1>4, <1>6, <1>13, <2>1 DEF AfterWrite, Goes
<1>14. CASE step = "readback" /\ AfterReadBack(r)
  BY <1>4, <1>6, <1>14 DEF AfterReadBack
<1>15. CASE step = "routine" /\ AfterRoutine(r)
  BY <1>1, <1>15 DEF AfterRoutine, Goes, Course, Service
<1> QED BY <1>8, <1>9, <1>10, <1>11, <1>12, <1>13, <1>14, <1>15 DEF GoesOn

(* How an exchange is settled: by nothing, or by the first reply there is. *)
Heard(r) ==
  /\ wire' \in Seq(Replies) /\ owed' = owed
  /\ \/ r.kind = "nothing" /\ Flight' = Flight
     \/ out = "asked" /\ Flight # <<>> /\ r = Head(Flight) /\ Flight' = Tail(Flight)

LEMMA HeardArrives == ASSUME Wired, Arrives, out = "asked" PROVE Heard(Head(wire))
  BY FlightArrives DEF Heard

LEMMA HeardNothing == ASSUME Wired, UNCHANGED <<wire, owed>> PROVE Heard(Nothing)
<1>1. Nothing.kind = "nothing" /\ Nothing' = Nothing
  BY BareKind DEF Nothing, Bare, Reply
<1> HIDE DEF Nothing, Replies
<1> QED BY <1>1 DEF Heard, Wired, Flight

LEMMA WiredSettled == ASSUME Wired, NEW r, Heard(r) PROVE Wired'
<1>0. WireLimit \in Nat /\ Nothing' = Nothing
  BY BatchesAssumption DEF Nothing, Bare, Reply
<1>1. CASE Flight' = Flight
  BY <1>0, <1>1 DEF Wired, Heard
<1>2. CASE Flight # <<>> /\ Flight' = Tail(Flight)
  BY <1>0, <1>2, HeadTaken DEF Wired, Heard
<1> QED BY <1>1, <1>2 DEF Heard

LEMMA LateSettled ==
  ASSUME Late, WireLimit <= 2, NEW r, GoesOn(r), Heard(r), UNCHANGED <<unlock, cell>>
  PROVE  Wired' /\ OwnKey' /\ Course'
<1> USE DEF Late
<1>0. ReplyTicks \in Nat /\ UnlockTicks \in Nat /\ WireLimit \in Nat
  BY UnlockAssumption, BatchesAssumption
<1>1. Successor /\ step \in Steps \ {"idle", "answer"}
  BY GoesOnToSuccessor
<1>2. Course'
  BY CourseSettled
<1>3. Wired'
  BY WiredSettled
<1> HIDE DEF Flight
<1>4. \A i \in Kinds("unlocked")' : i \in Kinds("unlocked") \/ (i + 1 \in Kinds("unlocked") /\ i \in Nat \ {0})
  BY HeadTaken DEF Heard, Kinds
<1>5. r.kind # "nothing" => \A i \in Kinds("unlocked")' : i + 1 \in Kinds("unlocked") /\ i \in Nat \ {0}
  BY HeadTaken DEF Heard, Kinds
<1>6. step' \in {"read", "stamp", "seed"} => (Kinds("unlocked") \subseteq {1})'
  <2>1. CASE step = "open" /\ r.kind = "opened"
    BY <1>0, <1>3, <2>1, HeadTaken DEF Heard, Kinds, Wired
  <2>2. CASE step \in {"read", "stamp"}
    BY <1>4, <2>2 DEF OwnKey
  <2> QED BY <2>1, <2>2, Moves
<1>7. step' = "key" => (Kinds("unlocked") = {})'
  BY <1>5, Moves DEF OwnKey
<1>8. ASSUME step = "key", r.kind = "unlocked" PROVE Flight' = <<>> /\ unlock + ReplyTicks >= UnlockTicks
  <2>1. out = "asked" /\ Flight # <<>> /\ r = Head(Flight) /\ Flight' = Tail(Flight)
    BY <1>8 DEF Heard
  <2>2. 1 \in Kinds("unlocked")
    BY <1>8, <2>1, HeadTaken DEF Kinds
  <2>3. Len(Flight) = 1 /\ unlock + waited >= UnlockTicks
    BY <1>8, <2>1, <2>2 DEF OwnKey
  <2> QED BY <1>0, <2>1, <2>3, HeadTaken, EmptySeq DEF Clocks
<1>9. ASSUME step \in Unlocked, r.kind # "nothing"
      PROVE  /\ Len(Flight') <= 1 /\ unlock + 2 * ReplyTicks >= UnlockTicks
             /\ Len(Flight') = 1 => unlock + ReplyTicks >= UnlockTicks
  <2>1. out = "asked" /\ Flight # <<>> /\ Flight' = Tail(Flight)
    BY <1>9 DEF Heard
  <2>2. Len(Flight') = Len(Flight) - 1 /\ Len(Flight) \in {1, 2}
    <3>1. Len(Flight') = Len(Flight) - 1 /\ Len(Flight) \in Nat /\ Len(Flight) <= WireLimit
      BY <2>1, HeadTaken DEF Wired
    <3>2. Len(Flight) # 0
      BY <2>1, EmptySeq DEF Wired
    <3> QED BY <1>0, <3>1, <3>2
  <2>3. /\ Len(Flight) = 1 => unlock + waited + ReplyTicks >= UnlockTicks
        /\ Len(Flight) = 2 => unlock + waited >= UnlockTicks
    BY <1>9, <2>1 DEF OwnKey
  <2>4. waited \in Nat /\ waited <= ReplyTicks /\ unlock \in Nat
    BY <1>0 DEF Clocks
  <2> QED BY <1>0, <2>2, <2>3, <2>4
<1>10. step' \in Unlocked => /\ Len(Flight') <= 1 /\ unlock' + 2 * ReplyTicks >= UnlockTicks
                             /\ Len(Flight') = 1 => unlock' + ReplyTicks >= UnlockTicks
  <2>1. ASSUME step' \in Unlocked, step = "key" PROVE Len(Flight') = 0 /\ unlock' + 2 * ReplyTicks >= UnlockTicks
    <3>1. r.kind = "unlocked"
      BY <2>1, Moves DEF Unlocked
    <3> QED BY <1>0, <1>8, <2>1, <3>1, EmptySeq DEF Clocks
  <2>2. step' \in Unlocked /\ step # "key" => step \in Unlocked /\ r.kind # "nothing"
    BY Moves DEF Unlocked
  <2> QED BY <1>9, <2>1, <2>2
<1>11. OwnKey'
  BY <1>1, <1>6, <1>7, <1>10 DEF OwnKey, Successor, Unlocked
<1> QED BY <1>2, <1>3, <1>11

(* A request, heard or not, and its reply behind what is on its way.       *)
LEMMA LateAsked ==
  ASSUME Late, WireLimit <= 2, Ask
  PROVE  Wired' /\ OwnKey' /\ Course'
<1> USE DEF Late
<1>0. ReplyTicks \in Nat /\ UnlockTicks \in Nat /\ WireLimit \in Nat /\ 2 * ReplyTicks < UnlockTicks
  BY UnlockAssumption, BatchesAssumption
<1>1. /\ out = "due" /\ out' = "asked" /\ waited' = 0 /\ step \notin {"idle", "answer"} /\ step' = step
      /\ UNCHANGED <<plans, results, before, pos>>
  BY DEF Ask, Due, resultVars
<1>2. CASE UNCHANGED microVars
  <2>1. wire' = wire /\ unlock' = unlock /\ cell' = cell /\ Flight' = Flight /\ owed' = owed /\ Nothing' = Nothing
    BY <1>2 DEF microVars, Flight, Nothing, Bare, Reply
  <2> HIDE DEF Flight
  <2>2. Wired'
    BY <2>1 DEF Wired
  <2>3. Kinds("unlocked")' = Kinds("unlocked")
    BY <2>1 DEF Kinds
  <2>4. OwnKey'
    <3>1. Len(Flight) \in Nat /\ unlock \in Nat
      BY DEF Wired, Clocks
    <3>2. CASE step \in Unlocked
      <4>1. Len(Flight) <= 1 /\ (Len(Flight) = 1 => unlock + ReplyTicks >= UnlockTicks)
        BY <1>1, <3>2 DEF OwnKey
      <4>2. Len(Flight') # 2 /\ (Len(Flight') = 1 => unlock' + waited' + ReplyTicks >= UnlockTicks)
        BY <1>0, <1>1, <2>1, <3>1, <4>1
      <4> QED BY <1>1, <3>2, <4>2 DEF OwnKey, Unlocked
    <3>3. CASE step \notin Unlocked
      BY <1>1, <2>1, <2>3, <3>3 DEF OwnKey
    <3> QED BY <3>2, <3>3
  <2>5. Course'
    BY <1>1, <2>1 DEF Course, Service, Open
  <2> QED BY <2>2, <2>4, <2>5
<1>3. ASSUME NEW r \in Replies, Answers(r), Sends(r), owed = Nothing
      PROVE  Wired' /\ OwnKey' /\ Course'
  <2>0. /\ r.kind \notin {"nothing", "pending"}
        /\ r.kind = "unlocked" => step = "key" /\ unlock' = UnlockTicks
        /\ step \in Unlocked /\ unlock > 0 => unlock' = UnlockTicks
        /\ \/ cell' = cell
           \/ step = "write" /\ cell' = [cell EXCEPT ![plans[pos].param] = plans[pos].value]
    BY <1>3, AnswersOwn
  <2>1. /\ Wired'
        /\ \/ Flight' = Flight
           \/ Flight' = Append(Flight, r)
           \/ step \in {"write", "routine"} /\ Len(Flight) + 1 < WireLimit
    BY <1>3, <2>0, FlightSends
  <2> HIDE DEF Flight, Replies
  <2>2. step \notin {"write", "routine"} =>
          \A i \in Kinds("unlocked")' : \/ i \in Kinds("unlocked")
                                        \/ i = Len(Flight') /\ r.kind = "unlocked"
    <3>1. Flight \in Seq(Replies)
      BY DEF Wired
    <3>2. CASE Flight' = Flight
      BY <3>2 DEF Kinds
    <3>3. CASE Flight' = Append(Flight, r)
      <4>1. /\ Len(Flight') = Len(Flight) + 1 /\ DOMAIN Flight' = 1..Len(Flight')
            /\ DOMAIN Flight = 1..Len(Flight) /\ Len(Flight) \in Nat
            /\ \A i \in 1..Len(Flight) : Flight'[i] = Flight[i]
            /\ Flight'[Len(Flight')] = r
        BY <3>1, <3>3
      <4> QED BY <4>1 DEF Kinds
    <3> QED BY <2>1, <3>2, <3>3
  <2>3. ASSUME step \in {"read", "stamp", "seed"} PROVE OwnKey'
    BY <1>1, <1>3, <2>0, <2>2, <2>3 DEF OwnKey, Unlocked
  <2>4. ASSUME step = "key" PROVE OwnKey'
    BY <1>0, <1>1, <1>3, <2>0, <2>2, <2>4 DEF OwnKey, Unlocked
  <2>5. ASSUME step \in Unlocked PROVE OwnKey'
    <3>1. unlock > 0
      BY <1>0, <1>1, <2>5 DEF OwnKey, Clocks
    <3>2. unlock' = UnlockTicks
      BY <2>0, <2>5, <3>1
    <3> QED BY <1>0, <1>1, <2>5, <3>2 DEF OwnKey, Unlocked
  <2>6. OwnKey'
    BY <1>1, <2>3, <2>4, <2>5 DEF OwnKey, Unlocked
  <2>7. cell' \in [Params -> Values]
    <3>1. CASE step = "write" /\ cell' = [cell EXCEPT ![plans[pos].param] = plans[pos].value]
      <4>1. plans[pos] \in Plans
        BY <3>1 DEF Course
      <4> QED BY <3>1, <4>1 DEF Course, Plans
    <3> QED BY <2>0, <3>1 DEF Course
  <2>8. Course'
    BY <1>1, <2>7 DEF Course, Service, Open
  <2> QED BY <2>1, <2>6, <2>8
<1> QED BY <1>2, <1>3 DEF Ask, Hears

LEMMA ClocksStep == ASSUME Clocks, [Next]_vars PROVE Clocks'
<1>0. ReplyTicks \in Nat /\ UnlockTicks \in Nat /\ CooldownTicks \in Nat /\ UnlockTicks <= CooldownTicks
  BY UnlockAssumption
<1> USE DEF Clocks
<1>1. ASSUME NEW r, GoesOn(r), UNCHANGED <<unlock, alone>>, stopped' \in {"no", "yes"}, mark' \in {0, mark} PROVE Clocks'
  <2>1. Successor /\ step \in Steps \ {"idle", "answer"}
    BY <1>1, GoesOnToSuccessor
  <2>2. owner' \in {"nobody", "unlocked"}
    BY <2>1 DEF Successor, Steps, Under
  <2> QED BY <1>0, <1>1, <2>1, <2>2 DEF Successor
<1>2. ASSUME NEW b, Begin(b) PROVE Clocks'
  BY <1>2 DEF Begin, Goes, Steps, microVars
<1>3. CASE Ask
  <2>1. unlock' \in 0..UnlockTicks /\ alone' \in 0..UnlockTicks
    BY <1>0, <1>3, HearsLocked DEF Ask
  <2> HIDE DEF Hears
  <2> QED BY <1>0, <1>3, <2>1 DEF Ask
<1>4. CASE SendFails \/ NotSent \/ TimesOut
  BY <1>1, <1>4 DEF SendFails, NotSent, TimesOut, Marked, microVars
<1>5. CASE Arrives
  BY <1>1, <1>5 DEF Arrives, Marked, cursorVars
<1>6. CASE Stop
  BY <1>1, <1>6 DEF Stop, Marked, cursorVars, microVars
<1>7. CASE Answer
  BY <1>7 DEF Answer, Goes, microVars, Steps
<1>8. CASE ReaderReads \/ CellChanges \/ WorkEnds
  BY <1>0, <1>8 DEF ReaderReads, CellChanges, WorkEnds, cursorVars
<1>9. CASE Tick
  BY <1>0, <1>9 DEF Tick, cursorVars
<1>10. CASE UNCHANGED vars
  BY <1>10 DEF vars, cursorVars, microVars
<1> HIDE DEF Clocks
<1> QED BY <1>2, <1>3, <1>4, <1>5, <1>6, <1>7, <1>8, <1>9, <1>10 DEF Next, BeginWrite, BeginService

(* What the steps outside an exchange leave as it is.                      *)
LEMMA LateKept ==
  ASSUME Late, WireLimit <= 2, UNCHANGED <<step, out, pos, plans, results, before>>,
         cell' \in [Params -> Values],
         \/ Flight' = Flight
         \/ Lost
         \/ out = "due" /\ Flight # <<>> /\ Flight' = Tail(Flight),
         \/ unlock' = unlock /\ waited' = waited
         \/ step \notin Unlocked \cup {"key"}
         \/ out = "asked" /\ unlock' + waited' >= unlock + waited /\ waited' \in Nat /\ unlock' \in Nat
         \/ out = "due" /\ unlock' = unlock
  PROVE  OwnKey' /\ Course'
<1> USE DEF Late
<1> HIDE DEF Flight
<1>0. ReplyTicks \in Nat /\ UnlockTicks \in Nat /\ WireLimit \in Nat
  BY UnlockAssumption, BatchesAssumption
<1>1. Course'
  BY DEF Course, Service, Open
<1>2. unlock \in Nat /\ waited \in Nat /\ Len(Flight) \in Nat /\ out \in {"due", "asked"}
  BY DEF Clocks, Wired
<1>3. /\ Len(Flight') \in {Len(Flight), Len(Flight) - 1} /\ Len(Flight') \in Nat
      /\ Len(Flight') = Len(Flight) => Flight' = Flight
  BY <1>2, HeadTaken DEF Lost, Wired
<1> DEFINE n == Len(Flight)  m == Len(Flight')
<1>n. n \in Nat /\ m \in Nat /\ (m = n \/ m = n - 1) /\ n <= 2
  BY <1>0, <1>2, <1>3 DEF Wired
<1> HIDE DEF n, m
<1>4. \A i \in Kinds("unlocked")' : \/ i \in Kinds("unlocked") /\ (Flight' = Flight \/ i # Len(Flight))
                                    \/ out = "due" /\ i + 1 \in Kinds("unlocked") /\ i \in Nat \ {0}
  BY HeadTaken DEF Kinds, Lost
<1>5. ASSUME step \in {"read", "stamp", "seed"} PROVE OwnKey'
  BY <1>4, <1>5 DEF OwnKey, Unlocked
<1>6. ASSUME NEW k \in Nat, step \in Unlocked \cup {"key"}, out = "asked", unlock + waited + k >= UnlockTicks
      PROVE  unlock' + waited' + k >= UnlockTicks
  <2>1. CASE unlock' = unlock /\ waited' = waited
    BY <1>6, <2>1
  <2>2. CASE unlock' + waited' >= unlock + waited /\ waited' \in Nat /\ unlock' \in Nat
    <3>1. ASSUME NEW a \in Nat, NEW b \in Nat, NEW c \in Nat, NEW d \in Nat, NEW t \in Nat,
                 a + b >= c + d, c + d + k >= t
          PROVE  a + b + k >= t
      BY <3>1
    <3> QED BY <1>0, <1>2, <1>6, <2>2, <3>1
  <2> QED BY <1>6, <2>1, <2>2
<1>7. ASSUME step = "key" PROVE OwnKey'
  <2>1. CASE out = "due"
    BY <1>4, <1>7, <2>1 DEF OwnKey, Unlocked
  <2>2. CASE out = "asked"
    <3>1. Kinds("unlocked")' # {} => Flight' = Flight
      BY <1>4, <1>7, <2>2 DEF OwnKey
    <3>2. Kinds("unlocked")' # {} => Kinds("unlocked")' = Kinds("unlocked")
      BY <3>1 DEF Kinds
    <3>3. Kinds("unlocked") # {} => unlock' + waited' >= UnlockTicks
      <4>1. Kinds("unlocked") # {} => unlock + waited + 0 >= UnlockTicks
        BY <1>2, <1>7, <2>2 DEF OwnKey
      <4>2. Kinds("unlocked") # {} => unlock' + waited' + 0 >= UnlockTicks
        BY <1>6, <1>7, <2>2, <4>1
      <4>3. unlock' \in Nat /\ waited' \in Nat
        BY <1>2, <1>7, <2>2
      <4> QED BY <4>2, <4>3
    <3> QED BY <1>7, <2>2, <3>1, <3>2, <3>3 DEF OwnKey, Unlocked
  <2> QED BY <1>2, <2>1, <2>2
<1>8. ASSUME step \in Unlocked PROVE OwnKey'
  <2>1. CASE out = "due"
    <3>1. unlock' = unlock
      BY <1>8, <2>1
    <3>2. /\ Len(Flight) <= 1 /\ unlock + 2 * ReplyTicks >= UnlockTicks
          /\ Len(Flight) = 1 => unlock + ReplyTicks >= UnlockTicks
      BY <1>8, <2>1 DEF OwnKey
    <3>3. /\ Len(Flight') <= 1 /\ unlock' + 2 * ReplyTicks >= UnlockTicks
          /\ Len(Flight') = 1 => unlock' + ReplyTicks >= UnlockTicks
      <4>1. n <= 1 => m <= 1 /\ (m = 1 => n = 1)
        BY <1>n
      <4> QED BY <3>1, <3>2, <4>1 DEF n, m
    <3> QED BY <1>8, <2>1, <3>3 DEF OwnKey, Unlocked
  <2>2. CASE out = "asked"
    <3>1. unlock' \in Nat /\ waited' \in Nat
      BY <1>2, <1>8, <2>2
    <3>2. Len(Flight) = 1 => unlock' + waited' + ReplyTicks >= UnlockTicks
      BY <1>0, <1>6, <1>8, <2>2 DEF OwnKey
    <3>3. Len(Flight) = 2 => unlock' + waited' + 0 >= UnlockTicks
      BY <1>2, <1>6, <1>8, <2>2 DEF OwnKey
    <3>4. /\ Len(Flight') = 1 => unlock' + waited' + ReplyTicks >= UnlockTicks
          /\ Len(Flight') = 2 => unlock' + waited' >= UnlockTicks
      <4>1. (m = 2 => n = 2) /\ (m = 1 => n = 1 \/ n = 2)
        BY <1>n
      <4>2. n = 2 => unlock' + waited' + ReplyTicks >= UnlockTicks /\ unlock' + waited' >= UnlockTicks
        <5>1. ASSUME NEW a \in Nat, NEW b \in Nat, a + b + 0 >= UnlockTicks
              PROVE  a + b + ReplyTicks >= UnlockTicks /\ a + b >= UnlockTicks
          BY <1>0, <5>1
        <5> QED BY <3>1, <3>3, <5>1 DEF n
      <4> QED BY <3>2, <4>1, <4>2 DEF n, m
    <3> QED BY <1>8, <2>2, <3>4 DEF OwnKey, Unlocked
  <2> QED BY <1>2, <2>1, <2>2
<1>9. OwnKey'
  BY <1>5, <1>7, <1>8 DEF OwnKey, Unlocked
<1> QED BY <1>1, <1>9

(* The wire and what is owed as they were.                                 *)
LEMMA FlightKept == ASSUME UNCHANGED <<wire, owed>>, Wired PROVE Flight' = Flight /\ Wired'
<1>1. Nothing' = Nothing
  BY DEF Nothing, Bare, Reply
<1> HIDE DEF Nothing
<1> QED BY <1>1 DEF Flight, Wired

LEMMA LateInit == Init => Late
<1> SUFFICES ASSUME Init PROVE Late
  OBVIOUS
<1>1. Clocks
  BY UnlockAssumption DEF Init, Clocks, Steps
<1>2. Wired
  BY BatchesAssumption, EmptySeq DEF Init, Wired, Flight
<1>3. Course
  BY EmptySeq DEF Init, Course
<1>4. OwnKey
  BY DEF Init, OwnKey, Unlocked
<1> QED BY <1>1, <1>2, <1>3, <1>4 DEF Late

(* Every step keeps it.                                                    *)
LEMMA LateStep == ASSUME Late, WireLimit <= 2, [Next]_vars PROVE Late'
<1>0. ReplyTicks \in Nat /\ UnlockTicks \in Nat /\ WireLimit \in Nat
      /\ \A b \in Batches : b \in Seq(Plans)
  BY UnlockAssumption, BatchesAssumption
<1> SUFFICES Wired' /\ OwnKey' /\ Course'
  BY ClocksStep DEF Late
<1> USE DEF Late
<1> HIDE DEF Flight
<1>1. ASSUME NEW b \in Seq(Plans), Begin(b) PROVE Wired' /\ OwnKey' /\ Course'
  <2>1. /\ step' = "open" /\ wire' = wire /\ owed' = owed /\ cell' = cell /\ before' = cell /\ plans' = b
        /\ results' = [i \in DOMAIN b |-> "none"]
    BY <1>1 DEF Begin, Goes, microVars
  <2>2. Course'
    BY <2>1 DEF Course, Open
  <2> QED BY <2>1, <2>2, FlightKept DEF OwnKey, Unlocked
<1>2. CASE Ask
  BY <1>2, LateAsked
<1>3. ASSUME SendFails \/ NotSent \/ TimesOut \/ (Stop /\ out = "asked") PROVE Wired' /\ OwnKey' /\ Course'
  <2>1. GoesOn(Nothing) /\ UNCHANGED <<wire, owed, unlock, cell>>
    BY <1>3 DEF SendFails, NotSent, TimesOut, Stop, microVars
  <2> QED BY <2>1, HeardNothing, LateSettled
<1>4. CASE Arrives
  <2>1. CASE out = "asked"
    <3>1. GoesOn(Head(wire)) /\ UNCHANGED <<unlock, cell>>
      BY <1>4, <2>1 DEF Arrives
    <3> QED BY <1>4, <2>1, <3>1, HeardArrives, LateSettled
  <2>2. CASE out # "asked"
    <3>1. out = "due" /\ Flight # <<>> /\ Flight' = Tail(Flight) /\ wire' \in Seq(Replies) /\ owed' = owed
      BY <1>4, <2>2, FlightArrives DEF Clocks
    <3>2. Wired'
      <4>1. Nothing' = Nothing
        BY DEF Nothing, Bare, Reply
      <4> QED BY <1>0, <3>1, <4>1, HeadTaken DEF Wired
    <3>3. cell' \in [Params -> Values] /\ UNCHANGED <<step, out, pos, plans, results, before, unlock, waited>>
      BY <1>4, <2>2 DEF Arrives, resultVars, cursorVars, Course
    <3> QED BY <3>1, <3>2, <3>3, LateKept
  <2> QED BY <2>1, <2>2
<1>5. CASE Stop /\ out # "asked"
  BY <1>5, LateKept, FlightKept DEF Stop, resultVars, cursorVars, microVars, Course
<1>6. CASE Answer
  <2>1. step' = "idle" /\ UNCHANGED <<wire, owed, cell, plans, results, before>>
    BY <1>6 DEF Answer, Goes, microVars, resultVars
  <2> QED BY <2>1, FlightKept DEF OwnKey, Course, Unlocked
<1>7. CASE ReaderReads
  BY <1>7, LateKept, FlightKept DEF ReaderReads, resultVars, cursorVars, Course, Unlocked
<1>8. CASE CellChanges
  <2>1. cell' \in [Params -> Values]
    BY <1>8 DEF CellChanges, Course
  <2> QED BY <1>8, <2>1, LateKept, FlightKept DEF CellChanges, resultVars, cursorVars, Course, Unlocked
<1>9. CASE Tick
  <2>1. UNCHANGED <<step, out, pos, plans, results, before, cell, wire, owed>>
    BY <1>9 DEF Tick, resultVars, cursorVars
  <2>2. unlock \in Nat /\ waited \in Nat /\ out \in {"due", "asked"} /\ step \in Steps
    BY <1>0 DEF Clocks
  <2>3. out = "due" => step \notin Unlocked \cup {"key"}
    BY <1>9, <2>2 DEF Tick, Due, Unlocked
  <2>4. out = "asked" => unlock' + waited' >= unlock + waited /\ waited' \in Nat /\ unlock' \in Nat
    BY <1>9, <2>2 DEF Tick
  <2> QED BY <2>1, <2>2, <2>3, <2>4, LateKept, FlightKept DEF Course
<1>10. CASE WorkEnds
  <2>1. UNCHANGED <<step, out, pos, plans, results, before, cell, unlock, waited>>
    BY <1>10 DEF WorkEnds, resultVars, cursorVars
  <2> QED BY <1>10, <2>1, LateKept, FlightWorkEnds DEF Course
<1>11. CASE UNCHANGED vars
  BY <1>11, LateKept, FlightKept DEF vars, resultVars, cursorVars, microVars, Course
<1>12. <<>> \in Seq(Plans)
  BY EmptySeq
<1> HIDE DEF Late
<1> QED BY <1>0, <1>1, <1>2, <1>3, <1>4, <1>5, <1>6, <1>7, <1>8, <1>9, <1>10, <1>11, <1>12
        DEF Next, BeginWrite, BeginService

(* One unlock covers the whole batch (write-session.ts), when no more than *)
(* two replies are on their way at once.                                   *)
THEOREM UnlockCoversBatch ==
  ASSUME WireLimit <= 2
  PROVE  Spec => []UnlockOutlivesBatch
<1>1. Late => UnlockOutlivesBatch
  BY UnlockAssumption DEF Late, Clocks, OwnKey, Unlocked, UnlockOutlivesBatch, Due
<1> QED BY <1>1, LateInit, LateStep, PTL DEF Spec


-----------------------------------------------------------------------------
(* The compare-and-swap.                                                   *)

(* What an exchange does to the outcomes of a batch.                       *)
LEMMA Outcome ==
  ASSUME Course, NEW r, GoesOn(r), NEW i \in DOMAIN results
  PROVE  /\ plans' = plans /\ before' = before /\ out' = "due" /\ i \in DOMAIN results'
         /\ \/ results'[i] = results[i] /\ (i = pos => step \notin {"read", "write", "readback"})
            \/ /\ results[i] = "none" /\ results'[i] = "unsent"
               /\ i = pos => step \notin {"read", "write", "readback"}
            \/ i = pos /\ step = "read" /\ results'[i] = Compared(r)
            \/ /\ i = pos /\ step = "readback" /\ results'[i] \in {"unknown", "mismatch", "written"}
               /\ results'[i] = "written" => /\ r.kind = "value" /\ r.param = plans[pos].param
                                             /\ r.value = plans[pos].value
            \/ /\ i = pos /\ step = "write" /\ results'[i] = results[i]
               /\ step' = "readback" /\ pos' = pos
            \/ i = pos /\ step = "write" /\ results'[i] = "refused" /\ r.kind \in {"refused", "locked"}
            \/ i = pos /\ step = "write" /\ results'[i] = "pending" /\ r.kind = "pending"
            \/ i = pos /\ step = "write" /\ results'[i] = "unknown"
<1>1. /\ plans' = plans /\ before' = before /\ out' = "due"
  BY GoesOnToSuccessor DEF GoesOn, Successor
<1>2. ASSUME CloseRest(results, "unsent")
      PROVE  i \in DOMAIN results' /\ (results'[i] = results[i] \/ (results[i] = "none" /\ results'[i] = "unsent"))
  BY <1>2 DEF CloseRest
<1>3. CASE Fails /\ step \notin {"read", "write", "readback"}
  BY <1>1, <1>2, <1>3 DEF Fails
<1>4. ASSUME NEW o, o # "none", NextWrite(o) \/ StopBatch(o)
      PROVE  /\ i \in DOMAIN results'
             /\ i = pos => results'[i] = o
             /\ i # pos => results'[i] = results[i] \/ (results[i] = "none" /\ results'[i] = "unsent")
  BY <1>4 DEF NextWrite, StopBatch, CloseRest
<1>5. CASE step = "open" /\ AfterOpen(r)
  BY <1>1, <1>3, <1>5 DEF AfterOpen
<1>6. CASE step = "read" /\ AfterRead(r)
  BY <1>1, <1>6 DEF AfterRead
<1>7. CASE step \in {"stamp", "restamp"} /\ AfterStamp(r)
  BY <1>1, <1>7 DEF AfterStamp
<1>8. CASE step = "seed" /\ AfterSeed(r)
  BY <1>1, <1>3, <1>8 DEF AfterSeed
<1>9. CASE step = "key" /\ AfterKey(r)
  BY <1>1, <1>3, <1>9 DEF AfterKey
<1>10. CASE step = "write" /\ AfterWrite(r)
  <2>1. CASE Goes("readback", pos) /\ UNCHANGED results
    BY <1>1, <1>10, <2>1 DEF Goes
  <2>2. CASE r.kind \in {"refused", "locked"} /\ (NextWrite("refused") \/ StopBatch("refused"))
    BY <1>1, <1>4, <1>10, <2>2
  <2>3. CASE StopBatch("unknown")
    BY <1>1, <1>4, <1>10, <2>3
  <2>4. CASE r.kind = "pending" /\ NextWrite("pending")
    BY <1>1, <1>4, <1>10, <2>4
  <2> QED BY <1>10, <2>1, <2>2, <2>3, <2>4 DEF AfterWrite
<1>11. CASE step = "readback" /\ AfterReadBack(r)
  <2>1. CASE StopBatch("unknown")
    BY <1>1, <1>4, <1>11, <2>1
  <2>2. CASE /\ r.kind = "value" /\ r.param = plans[pos].param /\ r.value = plans[pos].value
             /\ NextWrite("written")
    BY <1>1, <1>4, <1>11, <2>2
  <2>3. CASE NextWrite("mismatch")
    BY <1>1, <1>4, <1>11, <2>3
  <2> QED BY <1>11, <2>1, <2>2, <2>3 DEF AfterReadBack
<1>12. CASE step = "routine" /\ AfterRoutine(r)
  BY <1>1, <1>12 DEF AfterRoutine
<1> QED BY <1>5, <1>6, <1>7, <1>8, <1>9, <1>10, <1>11, <1>12 DEF GoesOn

(* While a position is left open, only the cursor's gets an outcome.       *)
LEMMA OthersStay ==
  ASSUME Course, NEW r, GoesOn(r), NEW i \in DOMAIN results, results'[i] = "none",
         NEW k \in DOMAIN results
  PROVE  \/ results'[k] = results[k]
         \/ k = pos /\ step = "read"
         \/ k = pos /\ step \in {"write", "readback"} /\ results'[k] \notin Unsent \cup {"none"}
<1>1. \A res, o : i \in DOMAIN res /\ o # "none" /\ CloseRest(res, o) => results'[i] # "none"
  BY DEF CloseRest
<1>2. ~CloseRest(results, "unsent") /\ \A o : ~StopBatch(o)
  BY <1>1 DEF StopBatch
<1>3. ASSUME NEW o, NextWrite(o), o \notin Unsent \cup {"none"}
      PROVE  results'[k] = results[k] \/ (k = pos /\ results'[k] \notin Unsent \cup {"none"})
  BY <1>3 DEF NextWrite
<1>4. ~(Fails /\ ~Service)
  BY <1>2 DEF Fails
<1>5. Fails => results' = results
  BY <1>4 DEF Fails
<1>6. CASE step = "open" /\ AfterOpen(r)
  BY <1>5, <1>6 DEF AfterOpen
<1>7. CASE step = "read" /\ AfterRead(r)
  BY <1>7 DEF AfterRead
<1>8. CASE step \in {"stamp", "restamp"} /\ AfterStamp(r)
  BY <1>8 DEF AfterStamp
<1>9. CASE step = "seed" /\ AfterSeed(r)
  BY <1>5, <1>9 DEF AfterSeed
<1>10. CASE step = "key" /\ AfterKey(r)
  BY <1>5, <1>10 DEF AfterKey
<1>11. CASE step = "write" /\ AfterWrite(r)
  <2>1. UNCHANGED results \/ NextWrite("refused") \/ NextWrite("pending")
    BY <1>2, <1>11 DEF AfterWrite
  <2> QED BY <1>3, <1>11, <2>1 DEF Unsent
<1>12. CASE step = "readback" /\ AfterReadBack(r)
  <2>1. NextWrite("written") \/ NextWrite("mismatch")
    BY <1>2, <1>12 DEF AfterReadBack
  <2> QED BY <1>3, <1>12, <2>1 DEF Unsent
<1>13. CASE step = "routine" /\ AfterRoutine(r)
  BY <1>13 DEF AfterRoutine
<1> QED BY <1>6, <1>7, <1>8, <1>9, <1>10, <1>11, <1>12, <1>13 DEF GoesOn

(* A position that was told to wait stays so.                              *)
LEMMA ClearBefore ==
  ASSUME Course, NEW r, GoesOn(r), NEW i \in DOMAIN results, Clear(i)'
  PROVE  Clear(i)
<1>1. DOMAIN results = 1..Len(plans) /\ Len(plans) \in Nat
  BY DEF Course
<1>2. ASSUME NEW j \in 1..(i - 1), results[j] = "pending" PROVE FALSE
  <2>1. j \in DOMAIN results
    BY <1>1
  <2>2. step \in {"read", "write", "readback"} => results[pos] = "none"
    BY <1>1 DEF Course, Open
  <2>3. results'[j] = "pending"
    BY <1>2, <2>1, <2>2, Outcome
  <2> QED BY <2>3 DEF Clear
<1> QED BY <1>2 DEF Clear

(* After a write the cursor moves up.                                      *)
LEMMA Onward ==
  ASSUME Course, Course', NEW r, GoesOn(r), step \in {"write", "readback"}, step' = "write"
  PROVE  pos \in 1..(pos' - 1) /\ pos \in DOMAIN results /\ pos' \in DOMAIN results
<1>1. /\ DOMAIN results = 1..Len(plans) /\ Len(plans) \in Nat /\ plans' = plans
      /\ pos \in DOMAIN results /\ pos' \in DOMAIN results
      /\ results'[pos'] = "none" /\ \A j \in DOMAIN results : j < pos => results[j] # "none"
  BY DEF Course, GoesOn, Open
<1>2. \A j \in DOMAIN results : j < pos => results'[j] # "none"
  BY <1>1, Outcome
<1>3. results'[pos] # "none"
  BY <1>1, Outcome
<1> QED BY <1>1, <1>2, <1>3

(* A position that no write has changed after an exchange is one before it.*)
LEMMA StillBefore ==
  ASSUME Course, Wired, NEW r, GoesOn(r), Heard(r), NEW i \in DOMAIN results, Still(i)'
  PROVE  Still(i)
<1>1. step \in {"write", "readback", "read"} => results[pos] = "none"
  BY DEF Course, Open
<1>2. Clear(i)' => Clear(i)
  BY ClearBefore
<1> HIDE DEF Course, Wired, Flight, Clear
<1>3. ASSUME step = "write", r.kind \in {"refused", "locked"}, Clear(i) PROVE ~InDoubt(i)
  <2>1. out = "asked" /\ Flight # <<>> /\ r = Flight[1]
    BY <1>3, HeadTaken DEF Heard
  <2> QED BY <1>3, <2>1 DEF InDoubt
<1> QED BY <1>1, <1>2, <1>3, Outcome DEF Still, InDoubt, Unsent

(* A value heard is the parameter's.                                       *)
LEMMA ValueHeard ==
  ASSUME Wired, ValuesHold, NEW r, Heard(r), r.kind = "value"
  PROVE  r.value = cell[r.param]
<1> HIDE DEF Flight
<1> QED BY HeadTaken DEF Heard, ValuesHold, Kinds

(* An "unlocked", and any reply of a batch not told to wait, is the last.  *)
LEMMA LastTaken ==
  ASSUME Wired, Flight # <<>>, Len(Flight) <= 1
  PROVE  Tail(Flight) = <<>>
<1> HIDE DEF Flight
<1>1. Flight \in Seq(Replies) /\ Len(Flight) \in Nat /\ Len(Flight) # 0
  BY EmptySeq DEF Wired
<1>2. Tail(Flight) \in Seq(Replies) /\ Len(Tail(Flight)) = Len(Flight) - 1
  BY HeadTaken
<1> QED BY <1>1, <1>2, EmptySeq

LEMMA OwnAnswersSettled ==
  ASSUME Late, Late', OwnAnswers, NEW r, GoesOn(r), Heard(r)
  PROVE  OwnAnswers'
<1> USE DEF Late
<1> HIDE DEF Flight
<1>1. out' = "due" /\ DOMAIN results = DOMAIN plans /\ plans' = plans
  BY GoesOnToSuccessor DEF Successor, GoesOn, Course
<1>2. ASSUME r.kind # "nothing"
      PROVE  /\ out = "asked" /\ Flight # <<>> /\ r = Flight[1] /\ Flight' = Tail(Flight)
             /\ 1 \in DOMAIN Flight /\ Len(Flight) \in Nat
             /\ Len(Flight) <= 1 => Flight' = <<>>
             /\ \A k \in DOMAIN Flight' : k + 1 \in DOMAIN Flight /\ Flight'[k] = Flight[k + 1]
  <2>1. out = "asked" /\ Flight # <<>> /\ r = Head(Flight) /\ Flight' = Tail(Flight)
    BY <1>2 DEF Heard
  <2>2. Len(Flight) \in Nat
    BY DEF Wired
  <2>3. /\ Head(Flight) = Flight[1] /\ 1 \in DOMAIN Flight
        /\ \A k \in DOMAIN Tail(Flight) : k + 1 \in DOMAIN Flight /\ Tail(Flight)[k] = Flight[k + 1]
    BY <2>1, HeadTaken
  <2> QED BY <2>1, <2>2, <2>3, LastTaken
<1>3. Flight' = <<>> => Kinds("value")' = {}
  BY DEF Kinds
<1>4. ASSUME step = "key", r.kind = "unlocked" PROVE Flight' = <<>>
  <2>1. 1 \in Kinds("unlocked")
    BY <1>2, <1>4 DEF Kinds
  <2>2. Len(Flight) = 1
    BY <1>2, <1>4, <2>1 DEF OwnKey
  <2> QED BY <1>2, <1>4, <2>2
<1>5. ASSUME step = "readback", r.kind = "value" PROVE Flight' = <<>>
  <2>1. 1 \in Kinds("value")
    BY <1>2, <1>5 DEF Kinds
  <2>2. Len(Flight) = 1
    BY <1>2, <1>5, <2>1 DEF OwnAnswers
  <2> QED BY <1>2, <1>5, <2>2
<1>6. ASSUME step = "write", r.kind # "nothing" PROVE Kinds("value")' = {}
  BY <1>2, <1>6 DEF OwnAnswers, Kinds
<1>7. ASSUME step = "write", r.kind \in {"accepted", "refused"}, Clear(pos) PROVE Flight' = <<>>
  <2>1. Len(Flight) <= 1
    BY <1>2, <1>7 DEF OwnAnswers
  <2> QED BY <1>2, <1>7, <2>1
<1>8. CASE step' = "readback"
  <2>1. step = "write" /\ r.kind = "accepted"
    BY <1>8, Moves
  <2>2. pos' = pos /\ pos \in DOMAIN results
    <3>1. pos \in DOMAIN results
      BY <1>1, <2>1 DEF Course
    <3> QED BY <1>8, <2>1, <3>1 DEF GoesOn, AfterWrite, Goes, NextWrite, StopBatch, CloseRest
  <2>3. Clear(pos)' => Clear(pos)
    <3>1. Clear(pos)' => \A j \in 1..(pos - 1) : results'[j] # "pending"
      BY <2>2 DEF Clear
    <3>2. results' = results
      BY <1>8, <2>1 DEF GoesOn, AfterWrite, Goes, NextWrite, StopBatch, CloseRest
    <3> QED BY <3>1, <3>2 DEF Clear
  <2> QED BY <1>1, <1>6, <1>7, <1>8, <2>1, <2>3 DEF OwnAnswers
<1>9. CASE step' = "write"
  <2>1. CASE step = "key" \/ step = "readback"
    <3>1. Flight' = <<>>
      BY <1>4, <1>5, <1>9, <2>1, Moves
    <3> QED BY <1>1, <1>3, <1>9, <3>1 DEF OwnAnswers
  <2>2. CASE step = "write"
    <3>1. r.kind \in {"refused", "pending"}
      BY <1>9, <2>2, Moves
    <3>2. pos \in 1..(pos' - 1) /\ pos \in DOMAIN results /\ pos' \in DOMAIN results
      BY <1>9, <2>2, Onward
    <3>3. Clear(pos)' => Clear(pos)
      <4>1. ASSUME Clear(pos)' PROVE \A j \in 1..(pos' - 1) : results'[j] # "pending"
        BY <4>1 DEF Clear
      <4>2. ASSUME Clear(pos)', NEW j \in 1..(pos - 1), results[j] = "pending" PROVE FALSE
        <5>1. DOMAIN results = 1..Len(plans) /\ Len(plans) \in Nat /\ results[pos] = "none"
          BY <2>2 DEF Course
        <5>2. j \in 1..(pos' - 1) /\ j \in DOMAIN results /\ j # pos
          BY <3>2, <5>1
        <5>3. results'[j] = "pending"
          BY <4>2, <5>2, Outcome
        <5> QED BY <4>1, <4>2, <5>2, <5>3
      <4> QED BY <4>2 DEF Clear
    <3>4. r.kind = "pending" => ~Clear(pos)'
      <4>1. r.kind = "pending" => results'[pos] = "pending"
        BY <2>2, <1>9 DEF GoesOn, AfterWrite, NextWrite, StopBatch, CloseRest, Goes, Course
      <4> QED BY <3>2, <4>1 DEF Clear
    <3> QED BY <1>1, <1>6, <1>7, <1>9, <2>2, <3>1, <3>3, <3>4 DEF OwnAnswers
  <2> QED BY <1>9, <2>1, <2>2, Moves
<1> QED BY <1>8, <1>9 DEF OwnAnswers

LEMMA SwapsSettled ==
  ASSUME Swaps, WireLimit <= 2, Late', NEW r, GoesOn(r), Heard(r), UNCHANGED <<unlock, cell>>
  PROVE  OwnAnswers' /\ ValuesHold' /\ Undone' /\ Fresh'
<1> USE DEF Swaps, Late
<1>1. Successor /\ step \in Steps \ {"idle", "answer"} /\ plans' = plans /\ before' = before
      /\ DOMAIN results' = DOMAIN plans /\ DOMAIN results = DOMAIN plans
  BY GoesOnToSuccessor DEF GoesOn, Course
<1>2. OwnAnswers'
  BY OwnAnswersSettled
<1> HIDE DEF Flight
<1>3. ValuesHold'
  <2>1. CASE Flight' = Flight
    BY <2>1 DEF ValuesHold, Kinds
  <2>2. CASE Flight # <<>> /\ Flight' = Tail(Flight)
    <3>1. \A k \in Kinds("value")' : k + 1 \in Kinds("value") /\ Flight'[k] = Flight[k + 1]
      BY <2>2, HeadTaken DEF Kinds
    <3> QED BY <3>1 DEF ValuesHold
  <2> QED BY <2>1, <2>2 DEF Heard
<1>4. Undone'
  <2> SUFFICES ASSUME NEW i \in DOMAIN results, \A j \in Namesakes(i) : Still(j)'
               PROVE  cell[plans[i].param] = before[plans[i].param]
    BY <1>1 DEF Undone, Namesakes
  <2>1. \A j \in Namesakes(i) : Still(j)
    BY <1>1, StillBefore DEF Namesakes
  <2> QED BY <1>1, <2>1 DEF Undone
<1>5. Fresh'
  <2> SUFFICES ASSUME NEW i \in DOMAIN results, results'[i] = "none",
                      \/ step' \in {"seed", "key"} \/ (step' = "read" /\ i < pos')
                      \/ step' \in {"write", "readback"} /\ (i # pos' \/ step' = "write")
               PROVE  cell[plans[i].param] \in MayReplace(i)'
    BY <1>1 DEF Fresh
  <2>1. DOMAIN plans = 1..Len(plans) /\ Len(plans) \in Nat /\ i \in Nat
        /\ (step \in {"read", "write", "readback"} => pos \in DOMAIN plans /\ results[pos] = "none")
    BY <1>1 DEF Course, Open
  <2>2. results[i] = "none"
    BY <2>1, Outcome
  <2>3. ASSUME i <= pos \/ step # "read" PROVE MayReplace(i) \subseteq MayReplace(i)'
    <3>1. ASSUME NEW k \in 1..(i - 1), results[k] \notin Unsent PROVE results'[k] \notin Unsent
      <4>1. k \in DOMAIN results
        BY <1>1, <2>1
      <4>2. k = pos => step # "read"
        BY <2>1, <2>3
      <4> QED BY <3>1, <4>1, <4>2, OthersStay
    <3> QED BY <1>1, <3>1 DEF MayReplace
  <2>4. CASE step \in {"seed", "key"}
    BY <2>2, <2>3, <2>4 DEF Fresh
  <2>5. CASE step \in {"write", "readback"}
    <3>1. step = "write" /\ step' = "readback" => pos' = pos
      BY DEF GoesOn, AfterWrite, Goes, NextWrite, StopBatch, CloseRest
    <3>2. i # pos
      <4>1. CASE step = "write" /\ step' = "readback"
        BY <3>1, <4>1
      <4>2. CASE ~(step = "write" /\ step' = "readback")
        BY <2>1, <2>5, <4>2, Outcome
      <4> QED BY <4>1, <4>2
    <3> QED BY <2>2, <2>3, <2>5, <3>2 DEF Fresh
  <2>6. CASE step = "read"
    <3>1. \/ step' = "read" /\ pos' = pos + 1
          \/ step' = "seed" /\ ~(pos < Len(plans))
          \/ step' = "answer"
      BY <2>6 DEF GoesOn, AfterRead, Goes
    <3>2. i <= pos
      BY <1>1, <2>1, <2>6, <3>1
    <3>3. CASE i < pos
      BY <2>2, <2>3, <2>6, <3>2, <3>3 DEF Fresh
    <3>4. CASE i = pos
      <4>1. Compared(r) = "none"
        BY <2>6, <3>4, Outcome
      <4>2. r.kind = "value" /\ r.param = plans[pos].param /\ r.value = plans[pos].expected
        BY <4>1 DEF Compared
      <4>3. cell[plans[i].param] = plans[i].expected
        BY <3>4, <4>2, ValueHeard
      <4> QED BY <1>1, <4>3 DEF MayReplace
    <3> QED BY <2>1, <2>6, <3>2, <3>3, <3>4
  <2>7. step # "open"
    <3> SUFFICES ASSUME step = "open" PROVE FALSE
      OBVIOUS
    <3>1. step' = "read" => pos' = 1
      BY DEF GoesOn, AfterOpen, Fails, CloseRest, Goes
    <3> QED BY <1>1, <2>1, <3>1 DEF Successor
  <2>8. step \notin {"stamp", "routine", "restamp"}
    BY <1>1 DEF Course, Service
  <2> QED BY <1>1, <2>4, <2>5, <2>6, <2>7, <2>8 DEF Steps
<1> QED BY <1>2, <1>3, <1>4, <1>5

(* What stays still does so if what was in doubt stays in doubt.           *)
LEMMA StillKept ==
  ASSUME UNCHANGED <<pos, plans, results>>, NEW i, InDoubt(i) => InDoubt(i)', Still(i)'
  PROVE  Still(i)
BY DEF Still, Clear

(* A request that is not heard, or changes nothing.                        *)
LEMMA UnchangedAsked ==
  ASSUME Swaps, Ask, cell' = cell
  PROVE  Undone' /\ Fresh'
<1> USE DEF Swaps, Late
<1>1. /\ out = "due" /\ step \notin {"idle", "answer"} /\ DOMAIN results = DOMAIN plans
      /\ UNCHANGED <<step, pos, plans, results, before>> /\ out' = "asked"
  BY DEF Ask, Due, resultVars, Course
<1> HIDE DEF Flight
<1>2. \A i : InDoubt(i) => InDoubt(i)'
  BY <1>1 DEF InDoubt
<1>3. Undone'
  <2> SUFFICES ASSUME NEW i \in DOMAIN results, \A j \in Namesakes(i) : Still(j)'
               PROVE  cell[plans[i].param] = before[plans[i].param]
    BY <1>1 DEF Undone, Namesakes
  <2>1. \A j \in Namesakes(i) : Still(j)
    BY <1>1, <1>2, StillKept
  <2> QED BY <1>1, <2>1 DEF Undone
<1>4. Fresh'
  BY <1>1 DEF Fresh, MayReplace
<1> QED BY <1>3, <1>4

LEMMA SwapsAsked ==
  ASSUME Swaps, Ask
  PROVE  OwnAnswers' /\ ValuesHold' /\ Undone' /\ Fresh'
<1> USE DEF Swaps, Late
<1>1. /\ out = "due" /\ step \notin {"idle", "answer"} /\ DOMAIN results = DOMAIN plans
      /\ UNCHANGED <<step, pos, plans, results, before>> /\ out' = "asked"
  BY DEF Ask, Due, resultVars, Course
<1>2. Flight \in Seq(Replies) /\ Len(Flight) \in Nat /\ (Clear(pos)' <=> Clear(pos))
  BY <1>1 DEF Wired, Clear
<1> HIDE DEF Flight
<1>3. CASE UNCHANGED microVars
  <2>1. cell' = cell /\ Flight' = Flight
    BY <1>3, FlightKept DEF microVars
  <2>2. Kinds("value")' = Kinds("value") /\ Len(<<>>) = 0
    BY <2>1 DEF Kinds
  <2>3. OwnAnswers'
    BY <1>1, <1>2, <2>1, <2>2 DEF OwnAnswers
  <2>4. ValuesHold'
    BY <2>1 DEF ValuesHold, Kinds
  <2> QED BY <2>1, <2>3, <2>4, UnchangedAsked
<1>4. ASSUME NEW r \in Replies, Answers(r), Sends(r), owed = Nothing
      PROVE  OwnAnswers' /\ ValuesHold' /\ Undone' /\ Fresh'
  <2>1. /\ r.kind \notin {"nothing", "pending"}
        /\ r.kind = "value" => /\ step \in {"read", "readback"}
                               /\ r.param = plans[pos].param /\ r.value = cell[plans[pos].param]
        /\ \/ cell' = cell
           \/ /\ step = "write" /\ r.kind = "accepted"
              /\ cell' = [cell EXCEPT ![plans[pos].param] = plans[pos].value]
    BY <1>4, AnswersOwn
  <2> DEFINE w == Bare("pending")
  <2>2. w.kind = "pending" /\ Bare("pending")' = w
    BY BareKind DEF Bare, Reply
  <2> HIDE DEF w, Replies
  <2>3. \/ Flight' = Flight
        \/ Flight' = Append(Flight, r)
        \/ step \in {"write", "routine"} /\ Flight' = Append(Append(Flight, w), r)
    BY <1>4, <2>1, FlightSends DEF w
  <2>4. /\ Len(Flight') \in Nat
        /\ \A k \in DOMAIN Flight' : \/ k \in DOMAIN Flight /\ Flight'[k] = Flight[k]
                                     \/ Flight'[k] = r /\ k = Len(Flight')
                                     \/ Flight'[k] = w /\ step \in {"write", "routine"}
    <3>1. CASE Flight' = Flight
      BY <1>2, <3>1
    <3>2. CASE Flight' = Append(Flight, r)
      BY <1>2, <3>2
    <3>3. CASE step \in {"write", "routine"} /\ Flight' = Append(Append(Flight, w), r)
      BY <1>2, <3>3
    <3> QED BY <2>3, <3>1, <3>2, <3>3
  <2>5. Flight = <<>> => \/ Flight' = <<>>
                         \/ Len(Flight') = 1 /\ Flight'[1] = r
                         \/ Flight'[1] = w
    BY <2>3
  <2>6. step = "write" => Kinds("value")' = {}
    BY <2>1, <2>2, <2>4 DEF Kinds, OwnAnswers
  <2>7. OwnAnswers'
    <3>1. step = "readback" => Kinds("value")' \subseteq {Len(Flight')}
      BY <1>1, <2>4 DEF Kinds, OwnAnswers
    <3>2. step \in {"write", "readback"} /\ Clear(pos) => Len(Flight') <= 1 \/ Flight'[1].kind = "pending"
      <4>1. step \in {"write", "readback"} /\ Clear(pos) => Flight = <<>>
        BY <1>1 DEF OwnAnswers
      <4>2. Flight' = <<>> => Len(Flight') = 0
        OBVIOUS
      <4>3. Flight'[1] = w => Flight'[1].kind = "pending"
        BY <2>2
      <4>4. Len(Flight') = 1 => Len(Flight') <= 1
        OBVIOUS
      <4>5. Flight' = <<>> => Len(Flight') <= 1
        BY <4>2
      <4> HIDE DEF Clear, Swaps
      <4> QED BY <2>5, <4>1, <4>3, <4>4, <4>5, Zenon
    <3> QED BY <1>1, <1>2, <2>6, <3>1, <3>2 DEF OwnAnswers
  <2>8. ValuesHold'
    <3>1. CASE step = "write"
      BY <2>6, <3>1 DEF ValuesHold
    <3>2. CASE cell' = cell
      <4>1. \A k \in Kinds("value")' : \/ k \in Kinds("value") /\ Flight'[k] = Flight[k]
                                       \/ Flight'[k] = r /\ r.kind = "value"
        <5>1. \A k : Flight'[k] = w => k \notin Kinds("value")'
          BY <2>2 DEF Kinds
        <5>2. ASSUME NEW k, k \in Kinds("value")'
              PROVE  \/ k \in Kinds("value") /\ Flight'[k] = Flight[k]
                     \/ Flight'[k] = r /\ r.kind = "value"
          <6>1. k \in DOMAIN Flight' /\ Flight'[k].kind = "value"
            BY <5>2 DEF Kinds
          <6>2. Flight'[k] # w
            BY <5>1, <5>2
          <6>3. CASE k \in DOMAIN Flight /\ Flight'[k] = Flight[k]
            BY <6>1, <6>3 DEF Kinds
          <6>4. CASE Flight'[k] = r
            BY <6>1, <6>4
          <6>5. \/ k \in DOMAIN Flight /\ Flight'[k] = Flight[k]
                \/ Flight'[k] = r
                \/ Flight'[k] = w
            BY <2>4, <6>1
          <6> QED BY <6>2, <6>3, <6>4, <6>5
        <5> QED BY <5>2
      <4> QED BY <2>1, <3>2, <4>1 DEF ValuesHold
    <3> QED BY <2>1, <3>1, <3>2
  <2>9. CASE cell' = cell
    BY <2>7, <2>8, <2>9, UnchangedAsked
  <2>10. CASE /\ step = "write" /\ r.kind = "accepted"
              /\ cell' = [cell EXCEPT ![plans[pos].param] = plans[pos].value]
    <3>1. /\ pos \in DOMAIN plans /\ results[pos] = "none" /\ plans \in Seq(Plans) /\ cell \in [Params -> Values]
          /\ \A i \in DOMAIN results : i < pos => results[i] # "none"
      BY <2>10 DEF Course, Open
    <3>2. \A i \in DOMAIN plans : plans[i].param \in Params /\ i \in Nat
      <4>1. \A i \in DOMAIN plans : plans[i] \in Plans /\ i \in Nat
        BY <3>1
      <4> QED BY <4>1 DEF Plans
    <3>3. InDoubt(pos)'
      <4>1. Clear(pos) => Flight = <<>>
        BY <1>1, <2>10 DEF OwnAnswers
      <4>2. Clear(pos) => Flight' = <<>> \/ Flight'[1] \in {r, w}
        BY <2>5, <4>1
      <4>3. ~(Clear(pos) /\ Flight' # <<>> /\ Flight'[1].kind \in {"refused", "locked"})
        BY <2>2, <2>10, <4>2
      <4> QED BY <1>1, <1>2, <2>10, <4>3 DEF InDoubt
    <3>4. ~Still(pos)'
      BY <1>1, <3>1, <3>3 DEF Still
    <3>5. \A i : InDoubt(i) => InDoubt(i)'
      BY <1>1, <2>10 DEF InDoubt
    <3>6. \A i \in DOMAIN plans : plans[i].param # plans[pos].param => cell'[plans[i].param] = cell[plans[i].param]
      BY <2>10, <3>1, <3>2
    <3>7. Undone'
      <4> SUFFICES ASSUME NEW i \in DOMAIN results, \A j \in Namesakes(i) : Still(j)'
                   PROVE  cell'[plans[i].param] = before[plans[i].param]
        BY <1>1 DEF Undone, Namesakes
      <4>1. \A j \in Namesakes(i) : Still(j)
        BY <1>1, <3>5, StillKept
      <4>2. plans[i].param # plans[pos].param
        BY <1>1, <3>1, <3>4 DEF Namesakes
      <4>3. cell[plans[i].param] = before[plans[i].param]
        BY <1>1, <4>1 DEF Undone
      <4> QED BY <1>1, <3>6, <4>2, <4>3
    <3>8. Fresh'
      <4> SUFFICES ASSUME NEW i \in DOMAIN results, results[i] = "none", i # pos
                   PROVE  cell'[plans[i].param] \in MayReplace(i)'
        BY <1>1, <2>10 DEF Fresh
      <4>1. MayReplace(i)' = MayReplace(i)
        BY <1>1 DEF MayReplace
      <4>2. CASE plans[i].param # plans[pos].param
        BY <1>1, <2>10, <3>6, <4>1, <4>2 DEF Fresh
      <4>3. CASE plans[i].param = plans[pos].param
        <5>1. i \in Nat /\ pos \in Nat /\ pos \in 1..Len(plans) /\ Len(plans) \in Nat
          BY <1>1, <3>1, <3>2
        <5>2. pos \in 1..(i - 1)
          BY <3>1, <5>1
        <5>3. plans[pos].value \in MayReplace(i)
          BY <3>1, <4>3, <5>2 DEF MayReplace, Unsent
        <5>4. cell'[plans[i].param] = plans[pos].value
          BY <2>10, <3>1, <3>2, <4>3
        <5> QED BY <4>1, <5>3, <5>4
      <4> QED BY <4>2, <4>3
    <3> QED BY <2>7, <2>8, <3>7, <3>8
  <2> QED BY <2>1, <2>9, <2>10
<1> QED BY <1>3, <1>4 DEF Ask, Hears

(* The steps outside an exchange, with what is on its way as it was or     *)
(* shorter.                                                                *)
LEMMA SwapsKept ==
  ASSUME Swaps, UNCHANGED <<step, out, pos, plans, results, before>>,
         \/ Flight' = Flight
         \/ Lost
         \/ out = "due" /\ Flight # <<>> /\ Flight' = Tail(Flight),
         cell' = cell \/ (step = "idle" /\ Flight = <<>>)
  PROVE  OwnAnswers' /\ ValuesHold' /\ Undone' /\ Fresh'
<1> USE DEF Swaps, Late
<1>1. /\ Flight \in Seq(Replies) /\ Len(Flight) \in Nat /\ (Clear(pos)' <=> Clear(pos))
      /\ (Flight = <<>> => Len(Flight) = 0) /\ DOMAIN results = DOMAIN plans /\ out \in {"due", "asked"}
  BY DEF Wired, Clear, Course, Clocks
<1> HIDE DEF Flight
<1>2. Lost => /\ Flight # <<>> /\ Len(Flight') \in Nat /\ Len(Flight') < Len(Flight)
              /\ Flight' # <<>> => Flight'[1] = Flight[1]
  <2>1. Lost => Flight' \in Seq(Replies) /\ Len(Flight') + 1 = Len(Flight)
    BY DEF Lost
  <2>2. Lost /\ Flight' # <<>> => 1 \in DOMAIN Flight'
    BY <2>1
  <2> QED BY <1>1, <2>1, <2>2 DEF Lost
<1>3. \A k \in Kinds("value")' :
        \/ k \in Kinds("value") /\ Flight'[k] = Flight[k] /\ (Flight' = Flight \/ k # Len(Flight))
        \/ out = "due" /\ k + 1 \in Kinds("value") /\ Flight'[k] = Flight[k + 1]
  <2>1. CASE Flight' = Flight
    BY <2>1 DEF Kinds
  <2>2. CASE Lost
    BY <2>2 DEF Kinds, Lost
  <2>3. CASE out = "due" /\ Flight # <<>> /\ Flight' = Tail(Flight)
    BY <2>3, HeadTaken DEF Kinds
  <2> QED BY <2>1, <2>2, <2>3
<1>4. OwnAnswers'
  <2>1. step = "write" \/ (step = "readback" /\ out = "due") => Kinds("value")' = {}
    BY <1>3 DEF OwnAnswers
  <2>2. step = "readback" /\ out = "asked" => Kinds("value")' \subseteq {Len(Flight')}
    <3>1. CASE Flight' = Flight
      BY <3>1 DEF OwnAnswers, Kinds
    <3>2. CASE step = "readback" /\ out = "asked" /\ Flight' # Flight
      BY <1>3, <3>2 DEF OwnAnswers
    <3> QED BY <3>1, <3>2
  <2>3. step \in {"write", "readback"} /\ Clear(pos) /\ out = "due" => Flight' = <<>>
    BY <1>2 DEF OwnAnswers
  <2>4. ASSUME step \in {"write", "readback"}, Clear(pos), out = "asked"
        PROVE  Len(Flight') <= 1 \/ Flight'[1].kind = "pending"
    <3>1. Len(Flight) <= 1 \/ Flight[1].kind = "pending"
      BY <2>4 DEF OwnAnswers
    <3>2. CASE Flight' = Flight
      BY <3>1, <3>2
    <3>3. CASE Lost
      <4>1. CASE Len(Flight) <= 1
        BY <1>1, <1>2, <3>3, <4>1
      <4>2. CASE Flight[1].kind = "pending"
        BY <1>2, <3>3, <4>2, Len(<<>>) = 0
      <4> QED BY <3>1, <4>1, <4>2
    <3> QED BY <2>4, <3>2, <3>3
  <2> QED BY <1>1, <2>1, <2>2, <2>3, <2>4 DEF OwnAnswers
<1>5. ValuesHold'
  <2>1. CASE cell' = cell
    BY <1>3, <2>1 DEF ValuesHold
  <2>2. CASE Flight = <<>>
    <3>1. Kinds("value")' = {}
      BY <1>3, <2>2 DEF Kinds
    <3> QED BY <3>1 DEF ValuesHold
  <2> QED BY <2>1, <2>2
<1>6. \A i : InDoubt(i) => InDoubt(i)'
  <2>1. out = "asked" /\ Flight' # <<>> => Flight # <<>> /\ Flight'[1] = Flight[1]
    BY <1>2
  <2> QED BY <1>1, <2>1 DEF InDoubt
<1>7. Undone'
  <2> SUFFICES ASSUME step # "idle", NEW i \in DOMAIN results, \A j \in Namesakes(i) : Still(j)'
               PROVE  cell[plans[i].param] = before[plans[i].param]
    BY DEF Undone, Namesakes
  <2>1. \A j \in Namesakes(i) : Still(j)
    BY <1>6, StillKept
  <2> QED BY <2>1 DEF Undone
<1>8. Fresh'
  BY DEF Fresh, MayReplace
<1> QED BY <1>4, <1>5, <1>7, <1>8

LEMMA SwapsInit == Init => Swaps
<1> SUFFICES ASSUME Init PROVE Swaps
  OBVIOUS
<1>1. Flight = <<>> /\ DOMAIN results = {}
  BY DEF Init, Flight
<1> HIDE DEF Flight
<1>2. DOMAIN Flight = {}
  BY <1>1
<1> QED BY <1>1, <1>2, LateInit DEF Init, Swaps, OwnAnswers, ValuesHold, Kinds, Undone, Fresh

LEMMA SwapsStep == ASSUME Swaps, WireLimit <= 2, [Next]_vars PROVE Swaps'
<1>0. Late' /\ (\A b \in Batches : b \in Seq(Plans)) /\ Wired
  BY LateStep, BatchesAssumption DEF Swaps, Late
<1> SUFFICES OwnAnswers' /\ ValuesHold' /\ Undone' /\ Fresh'
  BY <1>0 DEF Swaps
<1> HIDE DEF Flight
<1>a. ASSUME UNCHANGED <<wire, owed, cell>>, (step' = "open" /\ before' = cell) \/ step' = "idle"
      PROVE  OwnAnswers' /\ ValuesHold' /\ Undone' /\ Fresh'
  <2>1. Flight' = Flight
    BY <1>0, <1>a, FlightKept
  <2> QED BY <1>a, <2>1 DEF Swaps, OwnAnswers, ValuesHold, Kinds, Undone, Fresh
<1>1. ASSUME NEW b \in Seq(Plans), Begin(b) PROVE OwnAnswers' /\ ValuesHold' /\ Undone' /\ Fresh'
  <2>1. /\ step' = "open" /\ UNCHANGED <<wire, owed, cell>> /\ before' = cell
    BY <1>1 DEF Begin, Goes, microVars
  <2> QED BY <1>a, <2>1
<1>2. CASE Ask
  BY <1>2, SwapsAsked
<1>3. ASSUME SendFails \/ NotSent \/ TimesOut \/ (Stop /\ out = "asked")
      PROVE  OwnAnswers' /\ ValuesHold' /\ Undone' /\ Fresh'
  <2>1. GoesOn(Nothing) /\ UNCHANGED <<wire, owed, unlock, cell>>
    BY <1>3 DEF SendFails, NotSent, TimesOut, Stop, microVars
  <2>2. Heard(Nothing)
    BY <1>0, <2>1, HeardNothing
  <2> QED BY <1>0, <2>1, <2>2, SwapsSettled
<1>4. CASE Arrives
  <2>1. CASE out = "asked"
    <3>1. GoesOn(Head(wire)) /\ UNCHANGED <<unlock, cell>>
      BY <1>4, <2>1 DEF Arrives
    <3>2. Heard(Head(wire))
      BY <1>0, <1>4, <2>1, HeardArrives
    <3> QED BY <1>0, <3>1, <3>2, SwapsSettled
  <2>2. CASE out # "asked"
    <3>1. out = "due" /\ Flight # <<>> /\ Flight' = Tail(Flight)
      BY <1>0, <1>4, <2>2, FlightArrives DEF Swaps, Late, Clocks
    <3>2. UNCHANGED <<step, out, pos, plans, results, before, cell>>
      BY <1>4, <2>2 DEF Arrives, resultVars, cursorVars
    <3> QED BY <3>1, <3>2, SwapsKept
  <2> QED BY <2>1, <2>2
<1>5. ASSUME UNCHANGED <<step, out, pos, plans, results, before, cell, wire, owed>>
      PROVE  OwnAnswers' /\ ValuesHold' /\ Undone' /\ Fresh'
  BY <1>0, <1>5, SwapsKept, FlightKept
<1>6. CASE Stop /\ out # "asked"
  BY <1>5, <1>6 DEF Stop, resultVars, cursorVars, microVars
<1>7. CASE Answer
  <2>1. step' = "idle" /\ UNCHANGED <<wire, owed, cell>>
    BY <1>7 DEF Answer, Goes, microVars
  <2> QED BY <1>a, <2>1
<1>8. CASE ReaderReads \/ Tick \/ UNCHANGED vars
  BY <1>5, <1>8 DEF ReaderReads, Tick, vars, resultVars, cursorVars, microVars
<1>9. CASE CellChanges
  <2>1. Len(wire) = 0 /\ owed = Nothing
    BY <1>0, <1>9 DEF CellChanges, Outstanding, Wired
  <2>2. Flight = <<>> /\ Flight' = Flight
    BY <1>0, <1>9, <2>1, EmptySeq, FlightKept DEF CellChanges, Flight, Wired
  <2> QED BY <1>9, <2>2, SwapsKept DEF CellChanges, resultVars, cursorVars
<1>10. CASE WorkEnds
  <2>1. UNCHANGED <<step, out, pos, plans, results, before, cell>>
    BY <1>10 DEF WorkEnds, resultVars, cursorVars
  <2> QED BY <1>0, <1>10, <2>1, SwapsKept, FlightWorkEnds
<1>11. <<>> \in Seq(Plans)
  BY EmptySeq
<1> QED BY <1>0, <1>1, <1>2, <1>3, <1>4, <1>6, <1>7, <1>8, <1>9, <1>10, <1>11
        DEF Next, BeginWrite, BeginService

(* What write-session.ts answers as stale, the same, unread, not attempted *)
(* or refused before anything of the batch was told to wait was left as it *)
(* was, unless another plan of the batch changed it; with up to two        *)
(* replies late.                                                           *)
THEOREM UntouchedIsUntouched ==
  ASSUME WireLimit <= 2
  PROVE  Spec => []UntouchedMeansUntouched
<1>1. ASSUME Swaps PROVE UntouchedMeansUntouched
  <2> SUFFICES ASSUME step # "idle", NEW i \in DOMAIN results,
                      \A j \in DOMAIN plans : plans[j].param = plans[i].param => ToldUntouched(j)
               PROVE  cell[plans[i].param] = before[plans[i].param]
    BY DEF UntouchedMeansUntouched
  <2>1. step \in {"write", "readback"} => results[pos] = "none"
    BY <1>1 DEF Swaps, Late, Course
  <2>2. ASSUME NEW j \in Namesakes(i) PROVE Still(j)
    <3>1. ToldUntouched(j)
      BY <2>2 DEF Namesakes
    <3>2. InDoubt(j) => results[j] = "none"
      BY <2>1 DEF InDoubt
    <3> QED BY <3>1, <3>2 DEF ToldUntouched, Still, Clear, Unsent
  <2> QED BY <1>1, <2>2 DEF Swaps, Undone
<1> QED BY <1>1, SwapsInit, SwapsStep, PTL DEF Spec

(* "written" is said of what the micro holds and nothing else, with up to  *)
(* two replies late.                                                       *)
THEOREM WrittenOnlyOnTheBike ==
  ASSUME WireLimit <= 2
  PROVE  Spec => WrittenIsOnTheBike
<1> DEFINE Told == \A i \in DOMAIN results \cap DOMAIN results' :
                     results[i] # "written" /\ results'[i] = "written"
                     => cell[plans[i].param] = plans[i].value
<1>1. ASSUME Swaps, [Next]_vars PROVE [Told]_vars
  <2> SUFFICES ASSUME Next, NEW i \in DOMAIN results \cap DOMAIN results',
                      results[i] # "written", results'[i] = "written"
               PROVE  cell[plans[i].param] = plans[i].value
    BY <1>1
  <2>0. Wired
    BY <1>1 DEF Swaps, Late
  <2>1. ASSUME NEW r, GoesOn(r), Heard(r) PROVE cell[plans[i].param] = plans[i].value
    <3>1. /\ i = pos /\ r.kind = "value" /\ r.param = plans[pos].param /\ r.value = plans[pos].value
      <4>1. Compared(r) # "written"
        BY DEF Compared
      <4> QED BY <1>1, <2>1, <4>1, Outcome DEF Swaps, Late
    <3>2. r.value = cell[r.param]
      BY <1>1, <2>1, <3>1, ValueHeard DEF Swaps, Late
    <3> QED BY <3>1, <3>2
  <2>2. CASE SendFails \/ NotSent \/ TimesOut \/ (Stop /\ out = "asked")
    <3>1. GoesOn(Nothing) /\ UNCHANGED <<wire, owed>>
      BY <2>2 DEF SendFails, NotSent, TimesOut, Stop, microVars
    <3> QED BY <2>0, <2>1, <3>1, HeardNothing
  <2>3. CASE Arrives /\ out = "asked"
    <3>1. GoesOn(Head(wire))
      BY <2>3 DEF Arrives
    <3> QED BY <2>0, <2>1, <2>3, <3>1, HeardArrives
  <2>4. ASSUME NEW b, Begin(b) PROVE FALSE
    BY <2>4 DEF Begin
  <2>5. CASE results' = results
    BY <2>5
  <2>6. CASE Ask \/ Answer \/ ReaderReads \/ CellChanges \/ WorkEnds \/ Tick \/ ((Arrives \/ Stop) /\ out # "asked")
    BY <2>5, <2>6 DEF Ask, Answer, ReaderReads, CellChanges, WorkEnds, Tick, Arrives, Stop, resultVars
  <2> QED BY <2>2, <2>3, <2>4, <2>6 DEF Next, BeginWrite, BeginService
<1> QED BY <1>1, SwapsInit, SwapsStep, PTL DEF Spec, WrittenIsOnTheBike

(* Each write replaces what its plan expected, or what an earlier plan of  *)
(* the batch for the same parameter was to put there, with up to two       *)
(* replies late: the compare of write-session.ts is part of the swap       *)
(* although they are exchanges apart.                                      *)
THEOREM EveryWriteIsASwap ==
  ASSUME WireLimit <= 2
  PROVE  Spec => ReplacesTheExpected
<1> DEFINE Swapped == step = "write" /\ cell' # cell => cell[plans[pos].param] \in MayReplace(pos)
<1>1. ASSUME Swaps, [Next]_vars PROVE [Swapped]_vars
  <2> SUFFICES ASSUME Next, step = "write", cell' # cell PROVE cell[plans[pos].param] \in MayReplace(pos)
    BY <1>1
  <2>1. Ask
    BY DEF Next, BeginWrite, BeginService, Begin, SendFails, NotSent, Arrives, TimesOut,
           Stop, Answer, ReaderReads, CellChanges, WorkEnds, Tick, microVars
  <2>2. out = "due"
    BY <2>1 DEF Ask, Due
  <2>3. pos \in DOMAIN results /\ results[pos] = "none"
    BY <1>1 DEF Swaps, Late, Course
  <2> QED BY <1>1, <2>2, <2>3 DEF Swaps, Fresh
<1> QED BY <1>1, SwapsInit, SwapsStep, PTL DEF Spec, ReplacesTheExpected
=============================================================================
