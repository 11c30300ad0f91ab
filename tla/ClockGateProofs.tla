--------------------------- MODULE ClockGateProofs ---------------------------
(* For every count, age and cooldown, any number of runs of `date` that fail    *)
(* and of clocks set by others: two steps to different times are an anchor's    *)
(* life apart, and a clock called satellite-backed is the anchor's.             *)
(*                                                                              *)
(* Two hypotheses, both about what the model leaves out.  Times that differ by  *)
(* less than the gate's tolerance are one time (Distinct): with finer ones the   *)
(* anchor may walk, ten seconds at a time.  And `date` returns within an         *)
(* anchor's life (DateIsQuick): ten minutes for what takes milliseconds.         *)
(*                                                                              *)
(* FlipTakesAnAnchorLife does not say what the anchor has to do with the last    *)
(* step's target.  OneTime does: they are the same for as long as the anchor     *)
(* set with that step could live, and it is never older than that step; so is    *)
(* what every `date` under way will set, because it is younger than that.        *)
(*                                                                              *)
(* Corruption that never comes often enough in a row never steps the clock: the  *)
(* readings at the end of the window that claim the time heard last were heard   *)
(* in a row (InARow), so a window that agrees with itself is a row.              *)
EXTENDS ClockGate, SequenceTheorems, TLAPS

Distinct == \A x, y \in Offsets : x = y \/ Apart(x, y, KNOWN_GOOD_TOLERANCE_SECONDS)
DateIsQuick == DateTicks <= AnchorAge

Typed ==
  /\ knownGood \in [offset : Offsets, age : 0..(AnchorAge + 1)]
  /\ sinceStep \in 0..(AnchorAge + 1)
  /\ target \in Offsets /\ system \in Clocks
  /\ dates \subseteq [offset : Offsets, age : 0..DateTicks]

OneTime ==
  /\ knownGood.age <= sinceStep
  /\ sinceStep <= AnchorAge => knownGood.offset = target
  /\ \A d \in dates : d.offset = target /\ sinceStep <= d.age

IInv == Typed /\ OneTime /\ TrustedClockIsTheAnchors

-----------------------------------------------------------------------------
(* A tick makes the anchor, the last step and every run of `date` one older.    *)
LEMMA TimePasses ==
  ASSUME Typed, OneTime, DatesInTime
  PROVE  /\ AnchorOlder \in [offset : Offsets, age : 0..(AnchorAge + 1)]
         /\ AnchorOlder.offset = knownGood.offset
         /\ SinceStepOlder \in 0..(AnchorAge + 1)
         /\ AnchorOlder.age <= SinceStepOlder
         /\ SinceStepOlder <= AnchorAge => sinceStep < AnchorAge /\ AnchorFresh
         /\ sinceStep < AnchorAge => AnchorFresh
         /\ DatesOlder \subseteq [offset : Offsets, age : 0..DateTicks]
         /\ \A d \in DatesOlder : d.offset = target /\ SinceStepOlder <= d.age /\ sinceStep < d.age
         /\ DatesOlder = {} => dates = {}
<1>1. AnchorAge \in Nat /\ DateTicks \in Nat
  BY GateBounds
<1>2. knownGood.age \in 0..(AnchorAge + 1) /\ sinceStep \in 0..(AnchorAge + 1) /\ knownGood.age <= sinceStep
      /\ knownGood.offset \in Offsets
  BY DEF Typed, OneTime
<1>3. /\ AtMost(knownGood.age + 1, AnchorAge + 1) \in 0..(AnchorAge + 1)
      /\ AtMost(sinceStep + 1, AnchorAge + 1) \in 0..(AnchorAge + 1)
      /\ AtMost(knownGood.age + 1, AnchorAge + 1) <= AtMost(sinceStep + 1, AnchorAge + 1)
      /\ AtMost(sinceStep + 1, AnchorAge + 1) <= AnchorAge => sinceStep < AnchorAge
      /\ sinceStep < AnchorAge => AtMost(knownGood.age + 1, AnchorAge + 1) <= AnchorAge
      /\ AtMost(sinceStep + 1, AnchorAge + 1) <= sinceStep + 1
  BY <1>1, <1>2 DEF AtMost
<1>4. AnchorOlder = [offset |-> knownGood.offset, age |-> AtMost(knownGood.age + 1, AnchorAge + 1)]
  BY DEF AnchorOlder, Typed
<1>5. ASSUME NEW d \in DatesOlder
      PROVE  /\ d \in [offset : Offsets, age : 0..DateTicks]
             /\ d.offset = target /\ SinceStepOlder <= d.age /\ sinceStep < d.age
  <2>1. PICK e \in dates : d = [e EXCEPT !.age = @ + 1]
    BY DEF DatesOlder
  <2>2. e \in [offset : Offsets, age : 0..DateTicks] /\ e.age < DateTicks
        /\ e.offset = target /\ sinceStep <= e.age
    BY DEF Typed, OneTime, DatesInTime
  <2>3. d = [offset |-> e.offset, age |-> e.age + 1]
    BY <2>1, <2>2
  <2> QED BY <1>1, <1>2, <1>3, <2>2, <2>3 DEF SinceStepOlder
<1>6. DatesOlder = {} => dates = {}
  BY DEF DatesOlder
<1> QED BY <1>2, <1>3, <1>4, <1>5, <1>6 DEF AnchorFresh, SinceStepOlder

(* While the last step is younger than an anchor's life, only its own target     *)
(* can be taken for good.                                                        *)
LEMMA SameWhileYoung ==
  ASSUME Typed, OneTime, DatesInTime, Distinct, NEW offset \in Offsets, Adopt(offset), sinceStep < AnchorAge
  PROVE  offset = knownGood.offset /\ offset = target
<1>1. AnchorFresh /\ knownGood.offset \in Offsets
  BY TimePasses DEF Typed
<1>2. ~Apart(offset, knownGood.offset, KNOWN_GOOD_TOLERANCE_SECONDS)
  BY <1>1 DEF Adopt
<1>3. knownGood.offset = target
  BY GateBounds DEF OneTime, Typed
<1> QED BY <1>1, <1>2, <1>3 DEF Distinct

-----------------------------------------------------------------------------
LEMMA IInvInit == Init => IInv
<1> SUFFICES ASSUME Init PROVE IInv
  OBVIOUS
<1>1. AnchorAge \in Nat /\ 0 \in Offsets
  BY GateBounds
<1>2. Typed
  BY <1>1 DEF Init, Typed
<1>3. OneTime
  BY <1>1 DEF Init, OneTime
<1>4. TrustedClockIsTheAnchors
  BY DEF Init, TrustedClockIsTheAnchors, systemClockTrust
<1> QED BY <1>2, <1>3, <1>4 DEF IInv

(* What the clock is called is not changed by what leaves these alone.          *)
LEMMA TrustStays ==
  ASSUME TrustedClockIsTheAnchors, system' = system, knownGood'.offset = knownGood.offset,
         dates' = {} => dates = {}, moved' = moved, clockConfirmed' = clockConfirmed,
         clockContested => clockContested'
  PROVE  TrustedClockIsTheAnchors'
BY DEF TrustedClockIsTheAnchors, systemClockTrust

LEMMA IInvNext ==
  ASSUME Distinct, DateIsQuick, IInv, [Next]_vars
  PROVE  IInv'
<1> USE DEF IInv
<1>0. AnchorAge \in Nat /\ DateTicks \in Nat /\ Cooldown \in Nat /\ Cooldown <= AnchorAge
      /\ Offsets \subseteq Int /\ Clocks \subseteq Int /\ Offsets \subseteq Clocks
  BY GateBounds DEF Clocks
<1>1. ASSUME NEW offset \in Offsets, DatesInTime, Refuse(offset), UNCHANGED system
      PROVE  IInv'
  <2>1. /\ knownGood' = AnchorOlder /\ sinceStep' = SinceStepOlder /\ dates' = DatesOlder
        /\ target' = target /\ moved' = moved /\ clockConfirmed' = clockConfirmed
        /\ clockContested => clockContested'
    BY <1>1 DEF Refuse
  <2>2. Typed'
    BY <1>1, <2>1, TimePasses DEF Typed
  <2>3. OneTime'
    BY <1>0, <1>1, <2>1, TimePasses DEF OneTime, Typed
  <2>4. TrustedClockIsTheAnchors'
    BY <1>1, <2>1, TimePasses, TrustStays
  <2> QED BY <2>2, <2>3, <2>4
<1>2. ASSUME NEW offset \in Offsets, DatesInTime, Adopt(offset), UNCHANGED <<system, root>>
      PROVE  IInv'
  <2>1. knownGood' = [offset |-> offset, age |-> 0] /\ knownGood'.offset = offset
    BY <1>2 DEF Adopt
  <2>2. CASE /\ Verdict(offset) = "in-agreement" /\ clockConfirmed' = TRUE
             /\ sinceStep' = SinceStepOlder /\ dates' = DatesOlder /\ UNCHANGED target
    <3>1. Typed'
      BY <1>0, <1>2, <2>1, <2>2, TimePasses DEF Typed
    <3>2. OneTime'
      BY <1>0, <1>2, <2>1, <2>2, TimePasses, SameWhileYoung DEF OneTime, Typed
    <3>3. ~Apart(offset, system, DRIFT_THRESHOLD_SECONDS)
      BY <2>2 DEF Verdict
    <3>4. ~Apart(system', knownGood'.offset, DRIFT_THRESHOLD_SECONDS)
      BY <1>0, <1>2, <2>1, <3>3 DEF Apart, Typed, DRIFT_THRESHOLD_SECONDS
    <3> QED BY <3>1, <3>2, <3>4 DEF TrustedClockIsTheAnchors
  <2>3. CASE /\ Verdict(offset) = "cooling-down"
             /\ sinceStep' = SinceStepOlder /\ dates' = DatesOlder
             /\ UNCHANGED <<clockConfirmed, clockContested, target, moved>>
    <3>1. SinceStepOlder < Cooldown
      BY <2>3 DEF Verdict
    <3>2. sinceStep < AnchorAge
      BY <1>0, <1>2, <3>1, TimePasses
    <3>3. offset = knownGood.offset /\ offset = target
      BY <1>2, <3>2, SameWhileYoung
    <3>4. Typed'
      BY <1>0, <1>2, <2>1, <2>3, TimePasses DEF Typed
    <3>5. OneTime'
      BY <1>0, <1>2, <2>1, <2>3, <3>3, TimePasses DEF OneTime, Typed
    <3>6. TrustedClockIsTheAnchors'
      BY <1>2, <2>1, <2>3, <3>3, TimePasses, TrustStays
    <3> QED BY <3>4, <3>5, <3>6
  <2>4. CASE ActOnStep(offset)
    <3>1. sinceStep' = 0 /\ target' = offset
          /\ dates' = DatesOlder \union (IF root THEN {[offset |-> offset, age |-> 0]} ELSE {})
          /\ clockContested' = (clockContested \/ ~root)
      BY <2>4 DEF ActOnStep
    <3>2. Typed'
      BY <1>0, <1>2, <2>1, <3>1, TimePasses DEF Typed
    <3>3. ASSUME NEW d \in DatesOlder PROVE d.offset = offset
      <4>1. d.offset = target /\ sinceStep < d.age /\ d.age \in 0..DateTicks
        BY <1>2, TimePasses
      <4>2. sinceStep < AnchorAge
        BY <1>0, <4>1 DEF DateIsQuick, Typed
      <4> QED BY <1>2, <4>1, <4>2, SameWhileYoung
    <3>4. ASSUME NEW d \in dates' PROVE d.offset = target' /\ sinceStep' <= d.age
      <4>1. d.age \in 0..DateTicks
        BY <3>2 DEF Typed
      <4>2. d \in DatesOlder \/ d.offset = offset
        BY <3>1
      <4> QED BY <1>0, <3>1, <3>3, <4>1, <4>2
    <3>5. OneTime'
      BY <1>0, <2>1, <3>1, <3>4 DEF OneTime
    <3>6. root => dates' # {}
      BY <3>1
    <3>7. TrustedClockIsTheAnchors'
      BY <3>1, <3>6 DEF TrustedClockIsTheAnchors, systemClockTrust
    <3> QED BY <3>2, <3>5, <3>7
  <2> QED BY <1>2, <2>2, <2>3, <2>4 DEF Adopt
<1>3. CASE Silence
  <2>1. /\ knownGood' = AnchorOlder /\ sinceStep' = SinceStepOlder /\ dates' = DatesOlder
        /\ target' = target /\ moved' = moved /\ clockConfirmed' = clockConfirmed
        /\ clockContested' = clockContested /\ system' = system /\ DatesInTime
    BY <1>3 DEF Silence
  <2>2. Typed'
    BY <2>1, TimePasses DEF Typed
  <2>3. OneTime'
    BY <1>0, <2>1, TimePasses DEF OneTime, Typed
  <2>4. TrustedClockIsTheAnchors'
    BY <2>1, TimePasses, TrustStays
  <2> QED BY <2>2, <2>3, <2>4
<1>4. ASSUME NEW d \in dates, DateSets(d)
      PROVE  IInv'
  <2>1. dates' = dates \ {d} /\ system' = d.offset /\ UNCHANGED <<knownGood, sinceStep, target>>
    BY <1>4 DEF DateSets, gate
  <2>2. Typed' /\ OneTime'
    BY <1>0, <2>1 DEF Typed, OneTime
  <2>3. d.offset = target /\ sinceStep <= d.age /\ d.age \in 0..DateTicks
    BY DEF Typed, OneTime
  <2>4. knownGood.offset = target
    BY <1>0, <2>3 DEF Typed, OneTime, DateIsQuick
  <2>5. ~Apart(system', knownGood'.offset, DRIFT_THRESHOLD_SECONDS)
    BY <1>0, <2>1, <2>3, <2>4 DEF Typed, Apart, DRIFT_THRESHOLD_SECONDS
  <2> QED BY <2>2, <2>5 DEF TrustedClockIsTheAnchors
<1>5. ASSUME NEW d \in dates, DateFails(d)
      PROVE  IInv'
  <2>1. dates' = dates \ {d} /\ clockContested' = TRUE /\ UNCHANGED <<knownGood, sinceStep, target, system>>
    BY <1>5 DEF DateFails, gate
  <2>2. Typed' /\ OneTime'
    BY <2>1 DEF Typed, OneTime
  <2>3. TrustedClockIsTheAnchors'
    BY <2>1 DEF TrustedClockIsTheAnchors, systemClockTrust
  <2> QED BY <2>2, <2>3
<1>6. ASSUME NEW offset \in Offsets, OthersSet(offset)
      PROVE  IInv'
  <2>1. system' = offset /\ moved' = TRUE /\ UNCHANGED <<knownGood, sinceStep, target, dates>>
    BY <1>6 DEF OthersSet, gate
  <2>2. Typed' /\ OneTime'
    BY <1>0, <2>1 DEF Typed, OneTime
  <2>3. TrustedClockIsTheAnchors'
    BY <2>1 DEF TrustedClockIsTheAnchors
  <2> QED BY <2>2, <2>3
<1>7. CASE UNCHANGED vars
  BY <1>7 DEF vars, Typed, OneTime, TrustedClockIsTheAnchors, systemClockTrust
<1> QED BY <1>1, <1>2, <1>3, <1>4, <1>5, <1>6, <1>7 DEF Next, Hear

-----------------------------------------------------------------------------
(* A clock called satellite-backed (clock.ts systemClockTrust) is the one the    *)
(* gate last took for good.                                                      *)
THEOREM TrustIsDeserved ==
  ASSUME Distinct, DateIsQuick
  PROVE  Spec => []TrustedClockIsTheAnchors
<1>1. Init => IInv
  BY IInvInit
<1>2. IInv /\ [Next]_vars => IInv'
  BY IInvNext
<1>3. IInv => TrustedClockIsTheAnchors
  BY DEF IInv
<1> QED BY <1>1, <1>2, <1>3, PTL DEF Spec

(* No two steps of the clock to different times within an anchor's life, whoever *)
(* lies (clock-gate.ts offer).                                                    *)
THEOREM StepsAreSlow ==
  ASSUME Distinct, DateIsQuick
  PROVE  Spec => FlipTakesAnAnchorLife
<1> DEFINE Flip == Apart(target, target', KNOWN_GOOD_TOLERANCE_SECONDS) => sinceStep >= AnchorAge
<1>0. AnchorAge \in Nat /\ Offsets \subseteq Int
  BY GateBounds
<1>1. Init => IInv
  BY IInvInit
<1>2. IInv /\ [Next]_vars => IInv'
  BY IInvNext
<1>3. IInv /\ [Next]_vars => [Flip]_vars
  <2> SUFFICES ASSUME IInv, Next PROVE Flip
    BY DEF IInv
  <2>1. sinceStep \in 0..(AnchorAge + 1) /\ target \in Offsets
    BY DEF IInv, Typed
  <2>2. CASE target' = target
    BY <1>0, <2>1, <2>2 DEF Apart, KNOWN_GOOD_TOLERANCE_SECONDS
  <2>3. ASSUME NEW offset \in Offsets, DatesInTime, Adopt(offset), target' = offset
        PROVE  Flip
    <3>1. sinceStep < AnchorAge => target' = target
      BY <2>3, SameWhileYoung DEF IInv
    <3> QED BY <1>0, <2>1, <2>2, <3>1
  <2>4. \/ target' = target
        \/ \E offset \in Offsets : DatesInTime /\ Adopt(offset) /\ target' = offset
    BY DEF Next, Hear, Refuse, Adopt, ActOnStep, OthersSet, Silence, DateSets, DateFails
  <2> QED BY <2>2, <2>3, <2>4
<1> QED BY <1>1, <1>2, <1>3, PTL DEF Spec, FlipTakesAnAnchorLife

-----------------------------------------------------------------------------
(* Lies one at a time.  Whatever stands at the end of the window with the time  *)
(* heard last was heard in a row, so a window that agrees with itself is a row. *)
Aged(top) == [offset : Offsets, age : 0..top]

(* The last readings of s claim o, and t counts at least those, up to           *)
(* Displacing.                                                                   *)
InARow(s, o, t) ==
  /\ s # <<>> => s[Len(s)].offset = o
  /\ \A i \in DOMAIN s :
       (\A j \in i..Len(s) : s[j].offset = o) => t >= AtMost(Len(s) - i + 1, Displacing)

InOrder(s) == \A i, j \in DOMAIN s : i < j => s[i].age > s[j].age

Heard ==
  /\ window \in Seq(Aged(WindowAge)) /\ Len(window) <= Required /\ InOrder(window)
  /\ streak.offset \in Offsets /\ streak.times \in Nat
  /\ InARow(window, streak.offset, streak.times)

LEMMA TailInARow ==
  ASSUME NEW R, NEW s \in Seq(R), NEW m \in 1..(Len(s) + 1), NEW o, NEW t, InARow(s, o, t), InOrder(s)
  PROVE  /\ SubSeq(s, m, Len(s)) \in Seq(R) /\ Len(SubSeq(s, m, Len(s))) = Len(s) - m + 1
         /\ InARow(SubSeq(s, m, Len(s)), o, t) /\ InOrder(SubSeq(s, m, Len(s)))
<1> DEFINE u == SubSeq(s, m, Len(s))
<1>1. /\ Len(s) \in Nat /\ m \in Nat
      /\ \A i \in 1..Len(s) : s[i] \in R
  OBVIOUS
<1>2. /\ u \in Seq(R) /\ Len(u) = Len(s) - m + 1 /\ DOMAIN u = 1..Len(u)
      /\ \A i \in DOMAIN u : u[i] = s[m + i - 1] /\ m + i - 1 \in DOMAIN s /\ i \in Nat
  BY <1>1, SubSeqProperties
<1> HIDE DEF u
<1>3. InOrder(u)
  <2> SUFFICES ASSUME NEW i \in DOMAIN u, NEW j \in DOMAIN u, i < j PROVE u[i].age > u[j].age
    BY DEF InOrder
  <2>1. m + i - 1 \in DOMAIN s /\ m + j - 1 \in DOMAIN s /\ m + i - 1 < m + j - 1
    BY <1>1, <1>2
  <2>2. s[m + i - 1].age > s[m + j - 1].age
    BY <2>1 DEF InOrder
  <2> QED BY <1>2, <2>2
<1>4. u # <<>> => u[Len(u)].offset = o
  <2> SUFFICES ASSUME u # <<>> PROVE u[Len(u)].offset = o
    OBVIOUS
  <2>1. Len(u) \in DOMAIN u
    BY <1>1, <1>2, EmptySeq
  <2>2. m + Len(u) - 1 = Len(s) /\ s # <<>>
    BY <1>1, <1>2, <2>1
  <2> QED BY <1>2, <2>1, <2>2 DEF InARow
<1>5. ASSUME NEW i \in DOMAIN u, \A j \in i..Len(u) : u[j].offset = o
      PROVE  t >= AtMost(Len(u) - i + 1, Displacing)
  <2>1. m + i - 1 \in DOMAIN s /\ Len(s) - (m + i - 1) + 1 = Len(u) - i + 1
    BY <1>1, <1>2
  <2>2. ASSUME NEW j \in (m + i - 1)..Len(s) PROVE s[j].offset = o
    <3>1. j - m + 1 \in i..Len(u) /\ j - m + 1 \in DOMAIN u /\ m + (j - m + 1) - 1 = j
      BY <1>1, <1>2
    <3> QED BY <1>2, <1>5, <3>1
  <2> QED BY <2>1, <2>2 DEF InARow
<1> QED BY <1>2, <1>3, <1>4, <1>5 DEF InARow, u

(* Another reading at the end. *)
LEMMA NextInARow ==
  ASSUME NEW R, NEW s \in Seq(R), NEW e \in R, NEW o, NEW t \in Nat, InARow(s, o, t)
  PROVE  InARow(Append(s, e), e.offset, IF e.offset = o THEN AtMost(t + 1, Displacing) ELSE 1)
<1> DEFINE u == Append(s, e)
           n == IF e.offset = o THEN AtMost(t + 1, Displacing) ELSE 1
<1>1. /\ Len(s) \in Nat /\ Len(u) = Len(s) + 1 /\ u[Len(s) + 1] = e
      /\ DOMAIN u = 1..(Len(s) + 1) /\ DOMAIN s = 1..Len(s)
      /\ \A i \in 1..Len(s) : u[i] = s[i]
  OBVIOUS
<1>2. Displacing \in Nat \ {0}
  BY GateBounds
<1> HIDE DEF u
<1>3. ASSUME NEW i \in DOMAIN u, \A j \in i..Len(u) : u[j].offset = e.offset
      PROVE  n >= AtMost(Len(u) - i + 1, Displacing)
  <2>1. CASE i = Len(s) + 1
    BY <1>1, <1>2, <2>1 DEF AtMost
  <2>2. CASE i \in 1..Len(s)
    <3>1. s # <<>> /\ Len(s) \in i..Len(u) /\ Len(s) \in 1..Len(s)
      BY <1>1, <2>2
    <3>2. e.offset = o
      <4>1. u[Len(s)].offset = e.offset /\ u[Len(s)] = s[Len(s)]
        BY <1>1, <1>3, <3>1
      <4> QED BY <3>1, <4>1 DEF InARow
    <3>3. \A j \in i..Len(s) : s[j].offset = o
      BY <1>1, <1>3, <2>2, <3>2
    <3>4. t >= AtMost(Len(s) - i + 1, Displacing)
      BY <1>1, <2>2, <3>3 DEF InARow
    <3> QED BY <1>1, <1>2, <2>2, <3>2, <3>4 DEF AtMost
  <2> QED BY <1>1, <2>1, <2>2
<1> QED BY <1>1, <1>3 DEF InARow, u

(* What a tick leaves of the window. *)
LEMMA YoungInARow ==
  ASSUME Heard
  PROVE  /\ Young \in Seq(Aged(WindowAge)) /\ Len(Young) <= Required
         /\ InOrder(Young) /\ \A i \in DOMAIN Young : Young[i].age > 0
         /\ InARow(Young, streak.offset, streak.times)
<1>1. WindowAge \in Nat /\ Required \in Nat /\ Len(window) \in Nat
  BY GateBounds DEF Heard
<1>2. ASSUME NEW i \in DOMAIN window
      PROVE  /\ Older[i] = [offset |-> window[i].offset, age |-> window[i].age + 1]
             /\ window[i] \in Aged(WindowAge)
  <2>1. window[i] \in Aged(WindowAge)
    BY DEF Heard
  <2>2. Older[i] = [window[i] EXCEPT !.age = @ + 1]
    BY DEF Older
  <2> QED BY <2>1, <2>2 DEF Aged
<1>3. /\ Older \in Seq(Aged(WindowAge + 1)) /\ Len(Older) = Len(window) /\ DOMAIN Older = DOMAIN window
      /\ DOMAIN window = 1..Len(window)
  <2>1. DOMAIN Older = 1..Len(window) /\ DOMAIN window = 1..Len(window)
    BY DEF Older, Heard
  <2>2. \A i \in 1..Len(window) : Older[i] \in Aged(WindowAge + 1)
    BY <1>1, <1>2, <2>1 DEF Aged
  <2>3. Older = [i \in 1..Len(window) |-> Older[i]]
    BY <2>1 DEF Older
  <2>4. Older \in Seq(Aged(WindowAge + 1))
    BY <1>1, <2>2, <2>3
  <2> QED BY <1>1, <2>1, <2>4, LenProperties
<1>4. \A i, j \in DOMAIN Older : i < j => Older[i].age > Older[j].age
  BY <1>1, <1>2, <1>3 DEF Heard, InOrder, Aged
<1>5. InARow(Older, streak.offset, streak.times)
  BY <1>1, <1>2, <1>3, EmptySeq DEF Heard, InARow
<1> HIDE DEF Older
<1>6. \A i \in DOMAIN Older : Older[i].age \in 1..(WindowAge + 1)
  BY <1>1, <1>2, <1>3 DEF Aged
<1>7. CASE window # <<>> /\ Older[1].age > WindowAge
  <2>1. Tail(Older) = SubSeq(Older, 2, Len(Older)) /\ 2 \in 1..(Len(Older) + 1) /\ 1 \in DOMAIN Older
    BY <1>1, <1>3, <1>7, EmptySeq
  <2>2. /\ Tail(Older) \in Seq(Aged(WindowAge + 1)) /\ Len(Tail(Older)) = Len(Older) - 1
        /\ InARow(Tail(Older), streak.offset, streak.times) /\ InOrder(Tail(Older))
    <3>1. InOrder(Older)
      BY <1>4 DEF InOrder
    <3>2. Len(Older) - 2 + 1 = Len(Older) - 1
      BY <1>1, <1>3
    <3> QED BY <1>3, <1>5, <2>1, <3>1, <3>2, TailInARow
  <2>3. ASSUME NEW i \in DOMAIN Tail(Older)
        PROVE  Tail(Older)[i] \in Aged(WindowAge) /\ Tail(Older)[i].age > 0
    <3>1. Tail(Older)[i] = Older[i + 1] /\ i + 1 \in DOMAIN Older /\ 1 < i + 1
      BY <1>1, <1>3, <2>2
    <3>2. Older[i + 1].age < Older[1].age /\ Older[1].age \in 1..(WindowAge + 1)
          /\ Older[i + 1].age \in 1..(WindowAge + 1)
      BY <1>4, <1>6, <2>1, <3>1
    <3>3. Older[i + 1].age \in 0..WindowAge /\ Older[i + 1] \in Aged(WindowAge + 1)
      BY <1>1, <1>3, <3>1, <3>2
    <3> QED BY <1>1, <3>1, <3>2, <3>3 DEF Aged
  <2>4. Tail(Older) \in Seq(Aged(WindowAge))
    <3> DEFINE u == Tail(Older)
    <3>1. u \in Seq(Aged(WindowAge + 1)) /\ \A i \in DOMAIN u : u[i] \in Aged(WindowAge)
      BY <2>2, <2>3
    <3> HIDE DEF u
    <3>2. u \in Seq(Aged(WindowAge))
      BY <3>1
    <3> QED BY <3>2 DEF u
  <2>5. Young = Tail(Older)
    BY <1>7 DEF Young
  <2> QED BY <1>1, <1>3, <2>2, <2>3, <2>4, <2>5 DEF Heard
<1>8. CASE ~(window # <<>> /\ Older[1].age > WindowAge)
  <2>1. ASSUME NEW i \in DOMAIN Older
        PROVE  Older[i] \in Aged(WindowAge) /\ Older[i].age > 0
    <3>1. 1 \in DOMAIN Older /\ window # <<>>
      BY <1>1, <1>3
    <3>2. Older[1].age <= WindowAge /\ Older[i].age <= Older[1].age
      BY <1>1, <1>3, <1>4, <1>6, <1>8, <3>1
    <3>3. Older[i].age \in 1..(WindowAge + 1) /\ Older[1].age \in 1..(WindowAge + 1)
          /\ Older[i] \in Aged(WindowAge + 1)
      BY <1>3, <1>6, <3>1
    <3> QED BY <1>1, <3>2, <3>3 DEF Aged
  <2>2. Older \in Seq(Aged(WindowAge))
    BY <1>3, <2>1
  <2>3. Young = Older
    BY <1>8 DEF Young
  <2> QED BY <1>1, <1>3, <1>4, <1>5, <2>1, <2>2, <2>3 DEF Heard, InOrder
<1> QED BY <1>7, <1>8

(* The window an offer leaves. *)
LEMMA WindowInARow ==
  ASSUME Heard, NEW offset \in Offsets
  PROVE  /\ WindowWith(offset) \in Seq(Aged(WindowAge)) /\ Len(WindowWith(offset)) <= Required
         /\ InOrder(WindowWith(offset))
         /\ InARow(WindowWith(offset), offset, Streak(offset).times)
         /\ Streak(offset).offset = offset /\ Streak(offset).times \in Nat
<1> DEFINE e == [offset |-> offset, age |-> 0]
           kept == Append(Young, e)
<1>1. /\ WindowAge \in Nat /\ Required \in Nat \ {0} /\ Displacing \in Nat \ {0}
      /\ e \in Aged(WindowAge) /\ e.offset = offset /\ e.age = 0 /\ streak.times \in Nat
  BY GateBounds DEF Aged, Heard
<1>2. /\ Young \in Seq(Aged(WindowAge)) /\ Len(Young) <= Required /\ Len(Young) \in Nat
      /\ InOrder(Young) /\ \A i \in DOMAIN Young : Young[i].age > 0
      /\ InARow(Young, streak.offset, streak.times)
  BY YoungInARow
<1> HIDE DEF e
<1>3. /\ Streak(offset).offset = offset /\ Streak(offset).times \in Nat
      /\ Streak(offset).times = IF e.offset = streak.offset THEN AtMost(streak.times + 1, Displacing) ELSE 1
  BY <1>1 DEF Streak, AtMost
<1>4. /\ kept \in Seq(Aged(WindowAge)) /\ Len(kept) = Len(Young) + 1
      /\ \A i \in DOMAIN kept : \/ i = Len(kept) /\ kept[i] = e
                                \/ i < Len(kept) /\ i \in DOMAIN Young /\ kept[i] = Young[i]
  BY <1>1, <1>2
<1>5. InARow(kept, offset, Streak(offset).times)
  BY <1>1, <1>2, <1>3, NextInARow
<1> HIDE DEF kept
<1>6. InOrder(kept)
  BY <1>1, <1>2, <1>4 DEF InOrder
<1>7. CASE Len(kept) > Required
  <2>1. Len(kept) - Required + 1 \in 1..(Len(kept) + 1)
        /\ Len(kept) - (Len(kept) - Required + 1) + 1 = Required
    BY <1>1, <1>2, <1>4, <1>7
  <2>2. WindowWith(offset) = SubSeq(kept, Len(kept) - Required + 1, Len(kept))
    BY <1>7 DEF WindowWith, kept, e
  <2>3. /\ SubSeq(kept, Len(kept) - Required + 1, Len(kept)) \in Seq(Aged(WindowAge))
        /\ Len(SubSeq(kept, Len(kept) - Required + 1, Len(kept))) = Required
        /\ InARow(SubSeq(kept, Len(kept) - Required + 1, Len(kept)), offset, Streak(offset).times)
        /\ InOrder(SubSeq(kept, Len(kept) - Required + 1, Len(kept)))
    BY <1>4, <1>5, <1>6, <2>1, TailInARow
  <2> QED BY <1>1, <1>3, <2>2, <2>3
<1>8. CASE ~(Len(kept) > Required)
  <2>1. WindowWith(offset) = kept
    BY <1>8 DEF WindowWith, kept, e
  <2> QED BY <1>1, <1>2, <1>3, <1>4, <1>5, <1>6, <1>8, <2>1
<1> QED BY <1>7, <1>8

LEMMA HeardInit == Init => Heard
<1> SUFFICES ASSUME Init PROVE Heard
  OBVIOUS
<1>1. 0 \in Offsets /\ Required \in Nat /\ window = <<>> /\ streak = [offset |-> 0, times |-> 0]
  BY GateBounds DEF Init
<1>2. window \in Seq(Aged(WindowAge)) /\ Len(window) = 0 /\ DOMAIN window = {}
  BY <1>1, EmptySeq
<1> QED BY <1>1, <1>2 DEF Heard, InOrder, InARow

LEMMA HeardNext == ASSUME Heard, [Next]_vars PROVE Heard'
<1>1. ASSUME NEW offset \in Offsets, Hear(offset) PROVE Heard'
  <2>1. window' = WindowWith(offset) /\ streak' = Streak(offset)
    BY <1>1 DEF Hear, Refuse, Adopt
  <2> QED BY <2>1, WindowInARow DEF Heard
<1>2. CASE Silence
  <2>1. window' = Young /\ streak' = streak
    BY <1>2 DEF Silence
  <2> QED BY <2>1, YoungInARow DEF Heard
<1>3. CASE window' = window /\ streak' = streak
  BY <1>3 DEF Heard
<1> QED BY <1>1, <1>2, <1>3 DEF Next, OthersSet, DateSets, DateFails, gate, vars

(* The window's readings are young, and no more than the gate asks for          *)
(* (clock-gate.ts offer).                                                        *)
THEOREM WindowStaysYoung ==
  Spec => [](window \in Seq(Aged(WindowAge)) /\ Len(window) <= Required)
<1>1. Heard => window \in Seq(Aged(WindowAge)) /\ Len(window) <= Required
  BY DEF Heard
<1> QED BY <1>1, HeardInit, HeardNext, PTL DEF Spec

(* A reading that is taken for good has been heard Required times in a row.     *)
LEMMA AdoptedInARow ==
  ASSUME Distinct, Heard, NEW offset \in Offsets, Adopt(offset)
  PROVE  Streak(offset).times >= Required
<1> DEFINE w == WindowWith(offset)
<1>1. /\ w \in Seq(Aged(WindowAge)) /\ InARow(w, offset, Streak(offset).times)
      /\ Len(w) <= Required /\ Len(w) >= Required
      /\ \A i \in DOMAIN w : ~Apart(w[i].offset, offset, CONSISTENCY_TOLERANCE_SECONDS)
  BY WindowInARow DEF Adopt, Disagrees, Corroborated
<1> HIDE DEF w
<1>2. Required \in Nat \ {0} /\ Displacing \in Nat /\ Required <= Displacing /\ Offsets \subseteq Int
  BY GateBounds
<1>3. ASSUME NEW i \in DOMAIN w PROVE w[i].offset = offset
  <2>1. w[i].offset \in Offsets
    <3>1. w[i] \in Aged(WindowAge)
      BY <1>1
    <3> QED BY <3>1 DEF Aged
  <2>2. ~Apart(w[i].offset, offset, KNOWN_GOOD_TOLERANCE_SECONDS)
    BY <1>1, <1>2, <2>1 DEF Apart, CONSISTENCY_TOLERANCE_SECONDS, KNOWN_GOOD_TOLERANCE_SECONDS
  <2> QED BY <2>1, <2>2 DEF Distinct
<1>4. Len(w) = Required /\ 1 \in DOMAIN w /\ DOMAIN w = 1..Required
  BY <1>1, <1>2
<1>5. Streak(offset).times >= AtMost(Len(w) - 1 + 1, Displacing)
  BY <1>1, <1>3, <1>4 DEF InARow
<1> QED BY <1>2, <1>4, <1>5 DEF AtMost

(* The anchor and the runs of `date` are records. *)
Recorded == knownGood \in [offset : Offsets, age : Int] /\ dates \subseteq [offset : Offsets, age : Int]

LEMMA RecordedNext ==
  ASSUME Recorded, [Next]_vars
  PROVE  /\ Recorded' /\ AnchorOlder.offset = knownGood.offset
         /\ \A d \in DatesOlder : \E b \in dates : d.offset = b.offset
<1>1. AnchorAge \in Nat
  BY GateBounds
<1>2. AnchorOlder \in [offset : Offsets, age : Int] /\ AnchorOlder.offset = knownGood.offset
  BY <1>1 DEF AnchorOlder, AtMost, Recorded
<1>3. ASSUME NEW d \in DatesOlder
      PROVE  d \in [offset : Offsets, age : Int] /\ \E b \in dates : d.offset = b.offset
  BY DEF DatesOlder, Recorded
<1>4. Recorded'
  <2>1. ASSUME NEW offset \in Offsets, Refuse(offset) \/ Adopt(offset) PROVE Recorded'
    <3>1. knownGood' \in {AnchorOlder, [offset |-> offset, age |-> 0]}
          /\ dates' \subseteq DatesOlder \union {[offset |-> offset, age |-> 0]}
      BY <2>1 DEF Refuse, Adopt, ActOnStep
    <3> QED BY <1>2, <1>3, <3>1 DEF Recorded
  <2>2. CASE Silence
    BY <1>2, <1>3, <2>2 DEF Silence, Recorded
  <2>3. CASE knownGood' = knownGood /\ dates' \subseteq dates
    BY <2>3 DEF Recorded
  <2> QED BY <2>1, <2>2, <2>3 DEF Next, Hear, OthersSet, DateSets, DateFails, gate, vars
<1> QED BY <1>2, <1>3, <1>4

(* Corruption that never comes Required times in a row with the same time, five *)
(* in clock-gate.ts, never becomes the anchor and is never given to `date`.      *)
THEOREM LoneLiesNeverStep ==
  ASSUME Distinct
  PROVE  Spec => []SingleLiesNeverStep
<1>1. Init => SingleLiesNeverStep /\ Recorded
  BY GateBounds DEF Init, SingleLiesNeverStep, Recorded
<1>2. ASSUME Heard, Recorded, SingleLiesNeverStep, [Next]_vars PROVE SingleLiesNeverStep'
  <2> SUFFICES ASSUME ~fooled' PROVE knownGood'.offset = 0 /\ \A d \in dates' : d.offset = 0
    BY DEF SingleLiesNeverStep
  <2> USE DEF SingleLiesNeverStep
  <2>1. ~fooled
    BY <1>2 DEF Next, Hear, Silence, OthersSet, DateSets, DateFails, vars
  <2>2. AnchorOlder.offset = 0 /\ \A d \in DatesOlder : d.offset = 0
    BY <1>2, <2>1, RecordedNext
  <2>3. ASSUME NEW offset \in Offsets, Hear(offset)
        PROVE  knownGood'.offset = 0 /\ \A d \in dates' : d.offset = 0
    <3>1. CASE Refuse(offset)
      BY <2>2, <3>1 DEF Refuse
    <3>2. CASE Adopt(offset)
      <4>1. offset = 0
        BY <1>2, <2>3, <3>2, AdoptedInARow DEF Hear
      <4>2. knownGood' = [offset |-> 0, age |-> 0]
        BY <3>2, <4>1 DEF Adopt
      <4>3. dates' \subseteq DatesOlder \union {[offset |-> 0, age |-> 0]}
        BY <3>2, <4>1 DEF Adopt, ActOnStep
      <4> QED BY <2>2, <4>2, <4>3
    <3> QED BY <2>3, <3>1, <3>2 DEF Hear
  <2>4. CASE Silence
    BY <2>2, <2>4 DEF Silence
  <2>5. CASE knownGood' = knownGood /\ dates' \subseteq dates
    BY <1>2, <2>1, <2>5
  <2> QED BY <1>2, <2>3, <2>4, <2>5 DEF Next, OthersSet, DateSets, DateFails, gate, vars
<1> QED BY <1>1, <1>2, HeardInit, HeardNext, RecordedNext, PTL DEF Spec
=============================================================================
