------------------------ MODULE SettingsRestartProofs ------------------------
(* For any number of requests, saves and generations of the process and any    *)
(* bounds of the waits: a restart shown as reserved has the bus and the         *)
(* settings, and systemd is asked only for what the owner confirmed.            *)
(*                                                                             *)
(* ReservationIsWhole does not say why no job already in the store's queue      *)
(* takes the settings away again.  QueueOK does: a release in the queue is of a *)
(* request that has been through reserve(), so it is never of the one that      *)
(* reserves next, nor of the one that has reserved.                             *)
EXTENDS SettingsRestart, SequenceTheorems, TLAPS

Steps == Waiting \cup {"idle", "waiting", "unwinding", "done"}
Requested == [pc : Steps, kind : Kinds, revision : Nat, generation : Nat, age : Nat]
Jobs == [job : {"save", "reserve", "release"}, by : Somebody, of : Somebody]

Typed == /\ req \in [Requests -> Requested]
         /\ queue \in Seq(Jobs)
         /\ lease \in Somebody /\ kept \in Somebody
         /\ revision \in Nat /\ generation \in Nat

(* Through reserve(), or refused by it. *)
Past(r, rq) == r \in Requests /\ rq[r].pc \notin {"idle", "waiting"}
(* The reservation that is shown. *)
Held == IF Reserved THEN reservation ELSE "none"

JobOK(j, rq, held) ==
  /\ j.job = "reserve" => j.by \in Requests /\ rq[j.by].pc = "waiting"
  /\ j.job = "release" => Past(j.of, rq) /\ j.of # held /\ (j.by # "none" => Past(j.by, rq))
QueueOK(q, rq, held) ==
  /\ \A i \in DOMAIN q : JobOK(q[i], rq, held)
  /\ \A i, k \in DOMAIN q : q[i].job = "reserve" /\ q[k].job = "reserve" /\ q[i].by = q[k].by => i = k

KeptIsPast == kept # "none" => Past(kept, req)
RevisionKept == Reserved => req[lease].revision = revision
ThisProcess == \A r \in Requests : req[r].pc \notin {"idle", "done"} => req[r].generation = generation

IInv == /\ Typed /\ QueueOK(queue, req, Held) /\ KeptIsPast /\ RevisionKept /\ ThisProcess
        /\ ReservationIsWhole

(* Jobs leave the queue at one end and join it at the other.                   *)
LEMMA Rest ==
  ASSUME NEW S, NEW s \in Seq(S), s # <<>>
  PROVE  /\ Head(s) \in S /\ 1 \in DOMAIN s /\ s[1] = Head(s) /\ Tail(s) \in Seq(S)
         /\ \A i \in DOMAIN Tail(s) : i \in Nat /\ i + 1 \in DOMAIN s /\ i + 1 # 1 /\ Tail(s)[i] = s[i + 1]
<1>1. Len(s) \in Nat /\ Len(s) > 0 /\ DOMAIN s = 1..Len(s) /\ Head(s) = s[1] /\ Head(s) \in S
  OBVIOUS
<1>2. Tail(s) \in Seq(S) /\ DOMAIN Tail(s) = 1..(Len(s) - 1)
  OBVIOUS
<1>3. \A i \in 1..(Len(s) - 1) : Tail(s)[i] = s[i + 1]
  OBVIOUS
<1> QED BY <1>1, <1>2, <1>3

LEMMA OneMore ==
  ASSUME NEW S, NEW s \in Seq(S), NEW e \in S
  PROVE  /\ Append(s, e) \in Seq(S)
         /\ \A i \in DOMAIN Append(s, e) : \/ i \in DOMAIN s /\ Append(s, e)[i] = s[i]
                                           \/ i = Len(s) + 1 /\ Append(s, e)[i] = e
OBVIOUS

(* The jobs that stay, while requests go on: the one that waits for its job at *)
(* the head may go on when that job has run.                                   *)
LEMMA JobStays ==
  ASSUME NEW rq, NEW rq2, NEW j, NEW h, NEW h2, JobOK(j, rq, h),
         \A r \in Requests : Past(r, rq) => Past(r, rq2),
         j.job = "reserve" => rq2[j.by].pc = "waiting",
         h2 = h \/ h2 \notin Requests \/ rq[h2].pc = "waiting"
  PROVE  JobOK(j, rq2, h2)
BY DEF JobOK, Past

LEMMA QueueStays ==
  ASSUME NEW q \in Seq(Jobs), NEW rq, NEW rq2, NEW h, NEW h2, QueueOK(q, rq, h),
         \A r \in Requests : Past(r, rq) => Past(r, rq2),
         \A r \in Requests : rq[r].pc = "waiting" => rq2[r].pc = "waiting",
         h2 = h \/ h2 \notin Requests
  PROVE  QueueOK(q, rq2, h2)
<1>1. ASSUME NEW i \in DOMAIN q PROVE JobOK(q[i], rq2, h2)
  <2>1. JobOK(q[i], rq, h)
    BY DEF QueueOK
  <2>2. q[i].job = "reserve" => rq2[q[i].by].pc = "waiting"
    BY <2>1 DEF JobOK
  <2> QED BY <2>1, <2>2, JobStays
<1> QED BY <1>1 DEF QueueOK

LEMMA JobRuns ==
  ASSUME NEW q \in Seq(Jobs), q # <<>>, NEW rq, NEW rq2, NEW h, NEW h2, QueueOK(q, rq, h),
         \A r \in Requests : Past(r, rq) => Past(r, rq2),
         \A r \in Requests : rq[r].pc = "waiting" =>
            rq2[r].pc = "waiting" \/ (Head(q).job = "reserve" /\ r = Head(q).by),
         h2 = h \/ h2 \notin Requests \/ (Head(q).job = "reserve" /\ h2 = Head(q).by)
  PROVE  Tail(q) \in Seq(Jobs) /\ QueueOK(Tail(q), rq2, h2)
<1> DEFINE t == Tail(q)
<1>1. /\ t \in Seq(Jobs) /\ 1 \in DOMAIN q /\ q[1] = Head(q)
      /\ \A i \in DOMAIN t : i \in Nat /\ i + 1 \in DOMAIN q /\ i + 1 # 1 /\ t[i] = q[i + 1]
  BY Rest
<1>2. ASSUME NEW i \in DOMAIN t PROVE JobOK(t[i], rq2, h2)
  <2>1. JobOK(t[i], rq, h) /\ JobOK(q[1], rq, h)
    BY <1>1 DEF QueueOK
  <2>2. t[i].job = "reserve" => t[i].by \in Requests /\ rq[t[i].by].pc = "waiting"
    BY <2>1 DEF JobOK
  <2>3. t[i].job = "reserve" /\ q[1].job = "reserve" => t[i].by # q[1].by
    BY <1>1 DEF QueueOK
  <2>4. t[i].job = "reserve" => rq2[t[i].by].pc = "waiting"
    BY <1>1, <2>2, <2>3
  <2>5. h2 = h \/ h2 \notin Requests \/ rq[h2].pc = "waiting"
    BY <1>1, <2>1 DEF JobOK
  <2> QED BY <2>1, <2>4, <2>5, JobStays
<1>3. ASSUME NEW i \in DOMAIN t, NEW k \in DOMAIN t, t[i].job = "reserve", t[k].job = "reserve",
             t[i].by = t[k].by
      PROVE  i = k
  <2>1. i + 1 = k + 1
    BY <1>1, <1>3 DEF QueueOK
  <2> QED BY <2>1, <1>1
<1> QED BY <1>1, <1>2, <1>3 DEF QueueOK

LEMMA JobJoins ==
  ASSUME NEW q \in Seq(Jobs), NEW j \in Jobs, NEW rq, NEW h, QueueOK(q, rq, h), JobOK(j, rq, h),
         j.job = "reserve" => \A i \in DOMAIN q : q[i].job = "reserve" => q[i].by # j.by
  PROVE  Append(q, j) \in Seq(Jobs) /\ QueueOK(Append(q, j), rq, h)
<1> DEFINE t == Append(q, j)
<1>1. /\ t \in Seq(Jobs)
      /\ \A i \in DOMAIN t : \/ i \in DOMAIN q /\ t[i] = q[i]
                             \/ i = Len(q) + 1 /\ t[i] = j
  BY OneMore
<1> QED BY <1>1 DEF QueueOK

LEMMA Going ==
  ASSUME Typed, NEW r \in Requests, NEW pc \in Steps \ {"idle", "waiting"}, Go(r, pc)
  PROVE  /\ req' \in [Requests -> Requested]
         /\ \A x \in Requests : req'[x].pc = IF x = r THEN pc ELSE req[x].pc
         /\ \A x \in Requests : req'[x].generation = req[x].generation /\ req'[x].revision = req[x].revision
         /\ \A x \in Requests : Past(x, req) => Past(x, req')
         /\ \A x \in Requests : req[x].pc = "waiting" => req'[x].pc = "waiting" \/ x = r
         /\ Past(r, req')
<1>1. req \in [Requests -> Requested] /\ req' = [req EXCEPT ![r].pc = pc, ![r].age = 0]
  BY DEF Typed, Go
<1>2. req' \in [Requests -> Requested]
  BY <1>1 DEF Requested
<1>3. \A x \in Requests : req[x] \in Requested
  BY <1>1
<1>4. \A x \in Requests : x # r => req'[x] = req[x]
  BY <1>1
<1>5. req'[r].pc = pc /\ req'[r].generation = req[r].generation /\ req'[r].revision = req[r].revision
  BY <1>1, <1>3 DEF Requested
<1> QED BY <1>2, <1>4, <1>5 DEF Past, Steps

LEMMA Starts == Init => IInv
<1> SUFFICES ASSUME Init PROVE IInv
  OBVIOUS
<1>1. Typed
  BY EmptySeq DEF Init, Typed, NoRequest, Requested, Steps, Kinds, Somebody
<1>2. QueueOK(queue, req, Held)
  BY DEF Init, QueueOK
<1>3. KeptIsPast /\ RevisionKept /\ ThisProcess /\ ReservationIsWhole
  BY DEF Init, KeptIsPast, RevisionKept, ThisProcess, ReservationIsWhole, Reserved, NoRequest
<1> QED BY <1>1, <1>2, <1>3 DEF IInv

LEMMA NoneIsNoRequest == "none" \notin Requests /\ "other" \notin Requests /\ Somebody = Requests \cup {"none"}
BY RestartAssumption DEF Somebody

LEMMA HeldOrNot ==
  ASSUME IInv
  PROVE  /\ Reserved => lease \in Requests /\ Held = lease /\ reservation = lease /\ bus = lease /\ kept = lease
         /\ ~Reserved => Held = "none"
BY NoneIsNoRequest DEF IInv, Typed, ReservationIsWhole, Held

(* A reservation is given up: nothing is shown any more, and the store's queue *)
(* gets a release of a request that is through reserve().                      *)
LEMMA GivenUp ==
  ASSUME IInv, NEW rq \in [Requests -> Requested], NEW by \in Somebody, ReleaseBoth(queue, by),
         \A x \in Requests : Past(x, req) => Past(x, rq),
         \A x \in Requests : req[x].pc = "waiting" => rq[x].pc = "waiting",
         by # "none" => Past(by, rq)
  PROVE  queue' \in Seq(Jobs) /\ QueueOK(queue', rq, "none") /\ lease' = "none" /\ kept' = "none"
<1>1. queue \in Seq(Jobs) /\ QueueOK(queue, rq, "none")
  BY QueueStays, NoneIsNoRequest DEF IInv, Typed
<1>2. CASE kept = "none"
  BY <1>1, <1>2 DEF ReleaseBoth
<1>3. CASE kept # "none"
  <2> DEFINE j == Job("release", by, kept)
  <2>1. j \in Jobs
    BY <1>3 DEF Job, Jobs, IInv, Typed
  <2>2. j.job = "release" /\ j.of = kept /\ j.by = by
    BY DEF Job
  <2>3. Past(kept, rq) /\ kept # "none"
    BY <1>3 DEF IInv, KeptIsPast, Past
  <2>4. JobOK(j, rq, "none")
    BY <2>2, <2>3 DEF JobOK
  <2>5. Append(queue, j) \in Seq(Jobs) /\ QueueOK(Append(queue, j), rq, "none")
    BY <1>1, <2>1, <2>2, <2>4, JobJoins
  <2> QED BY <1>3, <2>5 DEF ReleaseBoth
<1> QED BY <1>2, <1>3

(* fail() where a request may have gone on.                                    *)
LEMMA Failed ==
  ASSUME IInv, Fail, req' \in [Requests -> Requested],
         \A x \in Requests : Past(x, req) => Past(x, req'),
         \A x \in Requests : req[x].pc = "waiting" => req'[x].pc = "waiting",
         \A x \in Requests : req'[x].generation = req[x].generation,
         \A x \in Requests : req[x].pc = "idle" => req'[x].pc = "idle",
         \A x \in Requests : req'[x].pc \notin {"idle", "done"} => req[x].pc \notin {"idle", "done"},
         UNCHANGED <<reservation, revision, generation>>
  PROVE  IInv'
<1>1. ThisProcess'
  BY DEF IInv, ThisProcess
<1>2. CASE status = "stopping"
  <2>1. UNCHANGED <<status, lease, kept, bus, queue>> /\ ~Reserved /\ ~Reserved'
    BY <1>2 DEF Fail, Reserved
  <2>2. QueueOK(queue, req', Held')
    <3>1. Held' = "none"
      BY <2>1 DEF Held
    <3> QED BY <3>1, NoneIsNoRequest, QueueStays DEF IInv, Typed
  <2>3. Typed'
    BY <2>1 DEF IInv, Typed
  <2>4. KeptIsPast'
    BY <2>1 DEF IInv, KeptIsPast, Past
  <2>5. RevisionKept' /\ ReservationIsWhole'
    BY <2>1 DEF RevisionKept, ReservationIsWhole
  <2> QED BY <1>1, <2>1, <2>2, <2>3, <2>4, <2>5 DEF IInv
<1>3. CASE status # "stopping"
  <2>1. status' = "failed" /\ ReleaseBoth(queue, "none") /\ ~Reserved'
    BY <1>3 DEF Fail, Reserved
  <2>2. queue' \in Seq(Jobs) /\ QueueOK(queue', req', "none") /\ lease' = "none" /\ kept' = "none"
    BY <2>1, GivenUp, NoneIsNoRequest
  <2>3. Held' = "none"
    BY <2>1 DEF Held
  <2>4. Typed'
    BY <2>2, NoneIsNoRequest DEF IInv, Typed
  <2>5. KeptIsPast' /\ RevisionKept' /\ ReservationIsWhole'
    BY <2>1, <2>2 DEF KeptIsPast, RevisionKept, ReservationIsWhole
  <2> QED BY <1>1, <2>2, <2>3, <2>4, <2>5 DEF IInv
<1> QED BY <1>2, <1>3

(* A step that leaves what is held as it is, and shows nothing new.            *)
LEMMA Keeps ==
  ASSUME IInv, UNCHANGED <<lease, kept, reservation, generation>>, Reserved' => Reserved,
         Reserved' => bus' = bus /\ revision' = revision, revision' \in Nat,
         req' \in [Requests -> Requested],
         \A x \in Requests : Past(x, req) => Past(x, req'),
         \A x \in Requests : /\ req'[x].generation = req[x].generation
                             /\ req'[x].revision = req[x].revision,
         \A x \in Requests : req'[x].pc \notin {"idle", "done"} => req[x].pc \notin {"idle", "done"},
         queue' \in Seq(Jobs), QueueOK(queue', req', Held')
  PROVE  IInv'
<1>1. Typed' /\ KeptIsPast' /\ ThisProcess'
  <2>1. Typed'
    BY DEF IInv, Typed
  <2>2. KeptIsPast'
    BY DEF IInv, KeptIsPast, Past
  <2>3. ThisProcess'
    BY DEF IInv, ThisProcess
  <2> QED BY <2>1, <2>2, <2>3
<1>2. ASSUME Reserved' PROVE ReservationIsWhole' /\ req'[lease'].revision = revision'
  BY <1>2, HeldOrNot DEF ReservationIsWhole, IInv, RevisionKept
<1>3. RevisionKept' /\ ReservationIsWhole'
  BY <1>2 DEF RevisionKept, ReservationIsWhole
<1> QED BY <1>1, <1>3 DEF IInv

LEMMA HeldStays ==
  ASSUME IInv, UNCHANGED reservation, Reserved' => Reserved
  PROVE  Held' = Held \/ Held' \notin Requests
BY NoneIsNoRequest DEF Held

(* One request goes on, or none does, and the queue is as it was.              *)
LEMMA OneGoes ==
  ASSUME IInv, UNCHANGED <<lease, kept, reservation, generation, revision, bus, queue>>, Reserved' => Reserved,
         \/ UNCHANGED req
         \/ \E r \in Requests, pc \in Steps \ {"idle", "waiting"} :
              req[r].pc \notin {"idle", "waiting", "done"} /\ Go(r, pc)
  PROVE  IInv'
<1> DEFINE Fine ==
      /\ req' \in [Requests -> Requested]
      /\ \A x \in Requests : Past(x, req) => Past(x, req')
      /\ \A x \in Requests : req[x].pc = "waiting" => req'[x].pc = "waiting"
      /\ \A x \in Requests : /\ req'[x].generation = req[x].generation
                             /\ req'[x].revision = req[x].revision
      /\ \A x \in Requests : req'[x].pc \notin {"idle", "done"} => req[x].pc \notin {"idle", "done"}
<1>1. Fine
  <2>1. CASE UNCHANGED req
    BY <2>1 DEF IInv, Typed, Past
  <2>2. ASSUME NEW r \in Requests, NEW pc \in Steps \ {"idle", "waiting"}, Go(r, pc),
               req[r].pc \notin {"idle", "waiting", "done"}
        PROVE  Fine
    BY <2>2, Going DEF IInv
  <2> QED BY <2>1, <2>2
<1>2. QueueOK(queue', req', Held')
  BY <1>1, HeldStays, QueueStays DEF IInv, Typed
<1>3. queue' \in Seq(Jobs) /\ revision' \in Nat
  BY DEF IInv, Typed
<1> QED BY <1>1, <1>2, <1>3, Keeps

(***************************************************************************)
(* Lemmas of the jobs.                                                     *)
(***************************************************************************)
LEMMA ReserveJobStep ==
  ASSUME IInv, ReserveJob
  PROVE  IInv' /\ asked' = asked
<1> DEFINE r == Head(queue).by
<1>1. /\ queue # <<>> /\ Head(queue).job = "reserve" /\ UNCHANGED <<revision, generation, asked>>
      /\ StoreRefuses(r) \/ ReserveFails(r) \/ Reserve(r)
  BY DEF ReserveJob
<1>2. Typed /\ QueueOK(queue, req, Held) /\ queue \in Seq(Jobs)
  BY DEF IInv, Typed
<1>3. r \in Requests /\ req[r].pc = "waiting"
  BY <1>1, <1>2, Rest DEF QueueOK, JobOK
<1>4. req[r].generation = generation
  BY <1>3 DEF IInv, ThisProcess
<1> DEFINE Gone(pc) ==
      /\ req' \in [Requests -> Requested]
      /\ \A x \in Requests : req'[x].pc = IF x = r THEN pc ELSE req[x].pc
      /\ \A x \in Requests : /\ req'[x].generation = req[x].generation
                             /\ req'[x].revision = req[x].revision
      /\ \A x \in Requests : Past(x, req) => Past(x, req')
      /\ Past(r, req')
<1>5. ASSUME NEW pc \in Steps \ {"idle", "waiting"}, Go(r, pc),
             Held' = Held \/ Held' \notin Requests \/ Held' = r
      PROVE  Gone(pc) /\ Tail(queue) \in Seq(Jobs) /\ QueueOK(Tail(queue), req', Held') /\ ThisProcess'
  <2>1. Gone(pc) /\ \A x \in Requests : req[x].pc = "waiting" => req'[x].pc = "waiting" \/ x = r
    BY <1>2, <1>3, <1>5, Going
  <2>2. Tail(queue) \in Seq(Jobs) /\ QueueOK(Tail(queue), req', Held')
    BY <1>1, <1>2, <1>5, <2>1, JobRuns
  <2>3. ThisProcess'
    BY <1>1, <1>3, <2>1 DEF IInv, ThisProcess
  <2> QED BY <2>1, <2>2, <2>3
<1>6. CASE StoreRefuses(r)
  <2>1. Go(r, "done") /\ queue' = Tail(queue) /\ UNCHANGED <<status, lease, kept, reservation, bus>>
    BY <1>6 DEF StoreRefuses
  <2>2. "done" \in Steps \ {"idle", "waiting"} /\ Held' = Held /\ (Reserved' <=> Reserved)
    BY <2>1 DEF Steps, Held, Reserved
  <2>3. /\ req' \in [Requests -> Requested]
        /\ \A x \in Requests : req'[x].pc = IF x = r THEN "done" ELSE req[x].pc
        /\ \A x \in Requests : /\ req'[x].generation = req[x].generation
                               /\ req'[x].revision = req[x].revision
        /\ \A x \in Requests : Past(x, req) => Past(x, req')
        /\ Tail(queue) \in Seq(Jobs) /\ QueueOK(Tail(queue), req', Held')
    BY <1>5, <2>1, <2>2
  <2> QED BY <1>1, <1>2, <2>1, <2>2, <2>3, Keeps DEF Typed
<1>7. CASE ReserveFails(r)
  <2>1. reservation = "none" /\ reservation' = r /\ UNCHANGED status
    BY <1>7 DEF ReserveFails
  <2>2. ~Reserved /\ ~Reserved' /\ Held' = "none" /\ Held' \notin Requests
    BY <2>1, NoneIsNoRequest, HeldOrNot DEF Reserved, Held
  <2>3. CASE status = "stopping"
    <3>1. /\ kept' = r /\ Go(r, "done") /\ queue' = Tail(queue) /\ lease' \in {r, lease}
      BY <1>7, <2>3 DEF ReserveFails
    <3>2. "done" \in Steps \ {"idle", "waiting"}
      BY DEF Steps
    <3>3. req' \in [Requests -> Requested] /\ Past(r, req') /\ Tail(queue) \in Seq(Jobs)
          /\ QueueOK(Tail(queue), req', Held') /\ ThisProcess'
      BY <1>5, <2>2, <3>1, <3>2
    <3>4. Typed'
      BY <1>1, <1>2, <1>3, <3>1, <3>3 DEF Typed, Somebody
    <3>5. KeptIsPast' /\ RevisionKept' /\ ReservationIsWhole'
      BY <2>2, <3>1, <3>3 DEF KeptIsPast, RevisionKept, ReservationIsWhole
    <3> QED BY <1>1, <3>1, <3>3, <3>4, <3>5 DEF IInv
  <2>4. CASE status # "stopping"
    <3> DEFINE j == Job("release", r, r)
    <3>1. Go(r, "unwinding") /\ queue' = Append(Tail(queue), j) /\ UNCHANGED <<lease, kept>>
      BY <1>7, <2>4 DEF ReserveFails
    <3>2. "unwinding" \in Steps \ {"idle", "waiting"}
      BY DEF Steps
    <3>3. req' \in [Requests -> Requested] /\ Past(r, req') /\ Tail(queue) \in Seq(Jobs)
          /\ QueueOK(Tail(queue), req', Held') /\ ThisProcess'
          /\ \A x \in Requests : Past(x, req) => Past(x, req')
      BY <1>5, <2>2, <3>1, <3>2
    <3>4. j \in Jobs /\ j.job = "release" /\ j.of = r /\ j.by = r
      BY <1>3 DEF Job, Jobs, Somebody
    <3>5. JobOK(j, req', Held')
      BY <1>3, <2>2, <3>3, <3>4 DEF JobOK
    <3>6. queue' \in Seq(Jobs) /\ QueueOK(queue', req', Held')
      BY <3>1, <3>3, <3>4, <3>5, JobJoins
    <3>7. Typed'
      BY <1>1, <1>2, <3>1, <3>3, <3>6 DEF Typed
    <3>8. KeptIsPast' /\ RevisionKept' /\ ReservationIsWhole'
      BY <2>2, <3>1, <3>3 DEF IInv, KeptIsPast, RevisionKept, ReservationIsWhole, Past
    <3> QED BY <1>1, <3>3, <3>6, <3>7, <3>8 DEF IInv
  <2> QED BY <2>3, <2>4
<1>8. CASE Reserve(r)
  <2>1. /\ reservation' = r /\ kept' = r /\ lease' = r /\ bus' = r /\ status' = "reserved"
        /\ queue' = Tail(queue) /\ req[r].revision = revision
    BY <1>8 DEF Reserve
  <2>2. Held' = r /\ Reserved'
    BY <2>1 DEF Held, Reserved
  <2>3. PICK pc \in {"done", "operating", "delivering"} : Go(r, pc)
    BY <1>8 DEF Reserve
  <2>4. pc \in Steps \ {"idle", "waiting"}
    BY DEF Steps, Waiting
  <2>5. /\ req' \in [Requests -> Requested] /\ Past(r, req') /\ Tail(queue) \in Seq(Jobs)
        /\ QueueOK(Tail(queue), req', Held') /\ ThisProcess' /\ req'[r].revision = req[r].revision
    BY <1>3, <1>5, <2>2, <2>3, <2>4
  <2>6. Typed'
    BY <1>1, <1>2, <1>3, <2>1, <2>5 DEF Typed, Somebody
  <2>7. KeptIsPast' /\ RevisionKept' /\ ReservationIsWhole'
    BY <1>1, <1>3, <2>1, <2>5, NoneIsNoRequest DEF KeptIsPast, RevisionKept, ReservationIsWhole
  <2> QED BY <1>1, <2>1, <2>5, <2>6, <2>7 DEF IInv
<1> QED BY <1>1, <1>6, <1>7, <1>8

LEMMA ReleaseJobStep ==
  ASSUME IInv, ReleaseJob
  PROVE  IInv'
<1> DEFINE j == Head(queue)
<1>1. /\ queue # <<>> /\ j.job = "release" /\ queue' = Tail(queue)
      /\ UNCHANGED <<status, lease, kept, revision, bus, generation>>
      /\ reservation' = IF reservation = j.of THEN "none" ELSE reservation
      /\ IF j.by = "none" THEN UNCHANGED req ELSE Go(j.by, "done")
  BY DEF ReleaseJob
<1>2. Typed /\ QueueOK(queue, req, Held) /\ queue \in Seq(Jobs)
  BY DEF IInv, Typed
<1>3. j.of \in Requests /\ j.of # Held /\ (j.by # "none" => Past(j.by, req))
  BY <1>1, <1>2, Rest DEF QueueOK, JobOK, Past
<1>4. (Reserved' <=> Reserved) /\ (Reserved => reservation' = reservation)
  BY <1>1, <1>3 DEF Reserved, Held
<1>5. Held' = Held
  BY <1>4 DEF Held
<1>6. /\ req' \in [Requests -> Requested]
      /\ \A x \in Requests : Past(x, req) => Past(x, req')
      /\ \A x \in Requests : req[x].pc = "waiting" => req'[x].pc = "waiting"
      /\ \A x \in Requests : /\ req'[x].generation = req[x].generation
                             /\ req'[x].revision = req[x].revision
      /\ \A x \in Requests : req'[x].pc \notin {"idle", "done"} => req[x].pc \notin {"idle", "done"}
  <2>1. CASE j.by = "none"
    BY <1>1, <1>2, <2>1 DEF Typed, Past
  <2>2. CASE j.by # "none"
    <3>1. j.by \in Requests /\ req[j.by].pc \notin {"idle", "waiting"} /\ Go(j.by, "done")
      BY <1>1, <1>3, <2>2 DEF Past
    <3>2. "done" \in Steps \ {"idle", "waiting"}
      BY DEF Steps
    <3> QED BY <1>2, <3>1, <3>2, Going
  <2> QED BY <2>1, <2>2
<1>7. queue' \in Seq(Jobs) /\ QueueOK(queue', req', Held')
  BY <1>1, <1>2, <1>5, <1>6, JobRuns
<1>8. Typed' /\ KeptIsPast' /\ ThisProcess'
  <2>1. Typed'
    BY <1>1, <1>2, <1>6, <1>7 DEF Typed
  <2>2. KeptIsPast'
    BY <1>1, <1>6 DEF IInv, KeptIsPast, Past
  <2>3. ThisProcess'
    BY <1>1, <1>6 DEF IInv, ThisProcess
  <2> QED BY <2>1, <2>2, <2>3
<1>9. RevisionKept' /\ ReservationIsWhole'
  BY <1>1, <1>4, <1>6, HeldOrNot DEF IInv, RevisionKept, ReservationIsWhole
<1> QED BY <1>7, <1>8, <1>9 DEF IInv

LEMMA OperationStep ==
  ASSUME IInv, NEW r \in Requests, OperationEnds(r)
  PROVE  IInv'
<1>1. req[r].pc = "operating" /\ UNCHANGED <<reservation, revision, generation>>
  BY DEF OperationEnds
<1>2. PICK pc \in {"done", "unwinding"} : Go(r, pc)
  BY DEF OperationEnds
<1>3. pc \in Steps \ {"idle", "waiting"}
  BY DEF Steps
<1>4. /\ req' \in [Requests -> Requested]
      /\ \A x \in Requests : Past(x, req) => Past(x, req')
      /\ \A x \in Requests : req[x].pc = "waiting" => req'[x].pc = "waiting"
      /\ \A x \in Requests : req'[x].generation = req[x].generation
      /\ \A x \in Requests : req'[x].pc \notin {"idle", "done"} => req[x].pc \notin {"idle", "done"}
      /\ Past(r, req')
  BY <1>1, <1>2, <1>3, Going DEF IInv
<1>5. CASE status = "stopping"
  <2>1. UNCHANGED <<status, lease, kept, bus, queue>> /\ ~Reserved'
    BY <1>5 DEF OperationEnds, Reserved
  <2> QED BY <1>1, <1>2, <1>3, <2>1, OneGoes
<1>6. CASE status # "stopping"
  <2>1. ReleaseBoth(queue, r) /\ ~Reserved'
    BY <1>6 DEF OperationEnds, Reserved
  <2>2. r \in Somebody
    BY NoneIsNoRequest
  <2>3. queue' \in Seq(Jobs) /\ QueueOK(queue', req', "none") /\ lease' = "none" /\ kept' = "none"
    BY <1>4, <2>1, <2>2, GivenUp
  <2>4. Held' = "none"
    BY <2>1 DEF Held
  <2>5. Typed'
    BY <1>1, <1>4, <2>3, NoneIsNoRequest DEF IInv, Typed
  <2>6. ThisProcess'
    BY <1>1, <1>4 DEF IInv, ThisProcess
  <2>7. KeptIsPast' /\ RevisionKept' /\ ReservationIsWhole'
    BY <2>1, <2>3 DEF KeptIsPast, RevisionKept, ReservationIsWhole
  <2> QED BY <2>3, <2>4, <2>5, <2>6, <2>7 DEF IInv
<1> QED BY <1>5, <1>6

LEMMA AskStep ==
  ASSUME IInv, NEW r \in Requests, Ask(r)
  PROVE  IInv'
<1>1. Typed /\ QueueOK(queue, req, Held) /\ queue \in Seq(Jobs) /\ req \in [Requests -> Requested]
      /\ revision \in Nat /\ generation \in Nat
  BY DEF IInv, Typed
<1>2. /\ req[r].pc = "idle"
      /\ UNCHANGED <<status, lease, kept, reservation, revision, bus, generation>>
  BY DEF Ask
<1>3. PICK kind \in Kinds, seenRevision \in 0..revision, seen \in 0..generation :
        req' = [req EXCEPT ![r] =
                 [pc |-> IF Refused(seen) THEN "done" ELSE "waiting", kind |-> kind,
                  revision |-> seenRevision, generation |-> seen, age |-> 0]]
  BY DEF Ask
<1>4. /\ req'[r].pc \in {"done", "waiting"} /\ (req'[r].pc = "waiting" => req'[r].generation = generation)
      /\ \A x \in Requests : x # r => req'[x] = req[x]
  BY <1>1, <1>3 DEF Refused
<1>5. req' \in [Requests -> Requested]
  <2>1. [pc |-> IF Refused(seen) THEN "done" ELSE "waiting", kind |-> kind,
         revision |-> seenRevision, generation |-> seen, age |-> 0] \in Requested
    BY <1>1 DEF Requested, Steps
  <2> QED BY <1>1, <1>3, <2>1
<1>6. /\ \A x \in Requests : Past(x, req) => Past(x, req')
      /\ \A x \in Requests : req[x].pc = "waiting" => req'[x].pc = "waiting"
  BY <1>2, <1>4 DEF Past
<1>7. Held' = Held /\ (Reserved' <=> Reserved)
  BY <1>2 DEF Held, Reserved
<1>8. QueueOK(queue, req', Held')
  BY <1>1, <1>6, <1>7, QueueStays
<1>9. queue' \in Seq(Jobs) /\ QueueOK(queue', req', Held')
  <2>1. CASE req'[r].pc = "done"
    BY <1>1, <1>8, <2>1 DEF Ask
  <2>2. CASE req'[r].pc = "waiting"
    <3> DEFINE j == Job("reserve", r, r)
    <3>1. queue' = Append(queue, j)
      BY <2>2 DEF Ask
    <3>2. j \in Jobs /\ j.job = "reserve" /\ j.by = r
      BY DEF Job, Jobs, Somebody
    <3>3. JobOK(j, req', Held')
      BY <2>2, <3>2 DEF JobOK
    <3>4. ASSUME NEW i \in DOMAIN queue, queue[i].job = "reserve" PROVE queue[i].by # r
      BY <1>1, <1>2, <3>4 DEF QueueOK, JobOK
    <3> QED BY <1>1, <1>8, <3>1, <3>2, <3>3, <3>4, JobJoins
  <2> QED BY <1>4, <2>1, <2>2
<1>10. Typed' /\ KeptIsPast' /\ ThisProcess'
  <2>1. Typed'
    BY <1>1, <1>2, <1>5, <1>9 DEF Typed
  <2>2. KeptIsPast'
    BY <1>2, <1>6 DEF IInv, KeptIsPast, Past
  <2>3. ThisProcess'
    BY <1>2, <1>4 DEF IInv, ThisProcess
  <2> QED BY <2>1, <2>2, <2>3
<1>11. RevisionKept' /\ ReservationIsWhole'
  <2>1. Reserved => lease # r
    <3>1. kept # "none" => req[kept].pc # "idle"
      BY DEF IInv, KeptIsPast, Past
    <3>2. Reserved => kept = lease /\ kept # "none"
      BY HeldOrNot, NoneIsNoRequest
    <3> QED BY <1>2, <3>1, <3>2
  <2>2. Reserved => req'[lease] = req[lease]
    BY <1>4, <2>1, HeldOrNot
  <2> QED BY <1>2, <1>7, <2>2 DEF IInv, RevisionKept, ReservationIsWhole
<1> QED BY <1>9, <1>10, <1>11 DEF IInv

(* The rest of deliverAndSchedule().                                           *)
LEMMA DeliveryStep ==
  ASSUME IInv, NEW r \in Requests, Delivered(r) \/ Flushed(r) \/ Scheduled(r) \/ ScheduleFails(r)
  PROVE  IInv'
<1>1. req[r].pc \notin {"idle", "waiting", "done"} /\ UNCHANGED <<reservation, revision, generation>>
  BY DEF Delivered, Flushed, Scheduled, ScheduleFails
<1>2. \E pc \in {"flushing", "scheduling", "done"} : Go(r, pc)
  BY DEF Delivered, Flushed, Scheduled, ScheduleFails, ScheduleOrGiveUp
<1>3. \E pc \in Steps \ {"idle", "waiting"} : Go(r, pc)
  BY <1>2 DEF Steps, Waiting
<1>4. CASE Delivered(r) \/ Flushed(r) \/ Scheduled(r)
  <2>1. UNCHANGED <<lease, kept, bus, queue>> /\ (Reserved' => Reserved)
    BY <1>4 DEF Delivered, Flushed, Scheduled, StillReserved, Reserved
  <2> QED BY <1>1, <1>3, <2>1, OneGoes
<1>5. CASE ScheduleFails(r)
  <2>1. CASE lease = r
    <3>1. Fail
      BY <1>5, <2>1 DEF ScheduleFails
    <3>2. /\ req' \in [Requests -> Requested]
          /\ \A x \in Requests : Past(x, req) => Past(x, req')
          /\ \A x \in Requests : req[x].pc = "waiting" => req'[x].pc = "waiting"
          /\ \A x \in Requests : req'[x].generation = req[x].generation
          /\ \A x \in Requests : req[x].pc = "idle" => req'[x].pc = "idle"
          /\ \A x \in Requests : req'[x].pc \notin {"idle", "done"} => req[x].pc \notin {"idle", "done"}
      BY <1>1, <1>3, Going DEF IInv
    <3> QED BY <1>1, <3>1, <3>2, Failed
  <2>2. CASE lease # r
    <3>1. UNCHANGED <<status, lease, kept, bus, queue>> /\ (Reserved' <=> Reserved)
      BY <1>5, <2>2 DEF ScheduleFails, Reserved
    <3> QED BY <1>1, <1>3, <3>1, OneGoes
  <2> QED BY <2>1, <2>2
<1> QED BY <1>4, <1>5

(* Nothing of the reservation moves, or only what is shown goes away.          *)
LEMMA Elsewhere ==
  ASSUME IInv, UNCHANGED <<req, lease, kept, reservation, generation>>, Reserved' => Reserved,
         Reserved' => bus' = bus /\ revision' = revision, revision' \in Nat,
         \/ UNCHANGED queue
         \/ queue # <<>> /\ queue' = Tail(queue)
         \/ queue' = Append(queue, Job("save", "none", "none"))
  PROVE  IInv'
<1>1. queue \in Seq(Jobs) /\ QueueOK(queue, req, Held) /\ req \in [Requests -> Requested]
  BY DEF IInv, Typed
<1>2. Held' = Held \/ Held' \notin Requests
  BY HeldStays
<1>3. QueueOK(queue, req, Held')
  BY <1>1, <1>2, QueueStays
<1>4. queue' \in Seq(Jobs) /\ QueueOK(queue', req', Held')
  <2>1. CASE UNCHANGED queue
    BY <1>1, <1>3, <2>1
  <2>2. CASE queue # <<>> /\ queue' = Tail(queue)
    BY <1>1, <1>2, <2>2, JobRuns
  <2>3. CASE queue' = Append(queue, Job("save", "none", "none"))
    <3>1. Job("save", "none", "none") \in Jobs /\ JobOK(Job("save", "none", "none"), req, Held')
          /\ Job("save", "none", "none").job = "save"
      BY DEF Job, Jobs, Somebody, JobOK
    <3> QED BY <1>1, <1>3, <2>3, <3>1, JobJoins
  <2> QED BY <2>1, <2>2, <2>3
<1> QED BY <1>1, <1>4, Keeps

LEMMA ExitStep ==
  ASSUME IInv, Exit
  PROVE  IInv'
<1>1. CASE UNCHANGED <<status, lease, kept, reserving, deadline, req, queue, reservation, bus, asked, generation>>
  <2>1. UNCHANGED revision /\ (Reserved' <=> Reserved) /\ revision \in Nat
    BY <1>1 DEF Exit, Reserved, IInv, Typed
  <2> QED BY <1>1, <2>1, Elsewhere
<1>2. CASE /\ status' = "idle" /\ lease' = "none" /\ kept' = "none"
           /\ req' = [r \in Requests |-> NoRequest] /\ queue' = <<>> /\ generation' = generation + 1
  <2>1. revision' = revision
    BY DEF Exit
  <2>2. Typed'
    <3>1. NoRequest \in Requested /\ generation' \in Nat
      BY <1>2 DEF NoRequest, Requested, Steps, Kinds, IInv, Typed
    <3> QED BY <1>2, <2>1, <3>1, EmptySeq DEF IInv, Typed, Somebody
  <2>3. QueueOK(queue', req', Held')
    BY <1>2 DEF QueueOK
  <2>4. KeptIsPast' /\ RevisionKept' /\ ReservationIsWhole'
    BY <1>2 DEF KeptIsPast, RevisionKept, ReservationIsWhole, Reserved
  <2>5. ThisProcess'
    BY <1>2 DEF ThisProcess, NoRequest
  <2> QED BY <2>2, <2>3, <2>4, <2>5 DEF IInv
<1> QED BY <1>1, <1>2 DEF Exit

LEMMA TickStep ==
  ASSUME IInv, Tick
  PROVE  IInv'
<1>1. /\ req \in [Requests -> Requested] /\ queue \in Seq(Jobs) /\ QueueOK(queue, req, Held) /\ revision \in Nat
      /\ UNCHANGED <<status, lease, kept, queue, reservation, revision, bus, generation>>
      /\ req' = [r \in Requests |-> IF req[r].pc \in Waiting
                               THEN [req[r] EXCEPT !.age = @ + 1] ELSE req[r]]
  BY DEF IInv, Typed, Tick
<1>2. \A x \in Requests : req[x] \in Requested /\ req[x].age + 1 \in Nat
  BY <1>1 DEF Requested
<1>3. /\ req' \in [Requests -> Requested]
      /\ \A x \in Requests : /\ req'[x].pc = req[x].pc /\ req'[x].generation = req[x].generation
                             /\ req'[x].revision = req[x].revision
  BY <1>1, <1>2 DEF Requested
<1>4. Reserved' <=> Reserved
  BY <1>1 DEF Reserved
<1>5. QueueOK(queue, req', Held')
  BY <1>1, <1>3, <1>4, HeldStays, QueueStays DEF Past
<1> QED BY <1>1, <1>3, <1>4, <1>5, Keeps DEF Past

LEMMA IInvStep == IInv /\ [Next]_vars => IInv'
<1> SUFFICES ASSUME IInv, [Next]_vars PROVE IInv'
  OBVIOUS
<1>0. revision \in Nat /\ revision + 1 \in Nat
  BY DEF IInv, Typed
<1>1. CASE ReserveJob
  BY <1>1, ReserveJobStep
<1>2. CASE ReleaseJob
  BY <1>2, ReleaseJobStep
<1>3. CASE DeadlineFires
  <2>1. UNCHANGED <<req, reservation, revision, generation>>
    BY <1>3 DEF DeadlineFires
  <2>2. CASE Fail
    BY <2>1, <2>2, Failed DEF IInv, Typed, Past
  <2>3. CASE UNCHANGED <<status, lease, kept, bus, queue>>
    <3>1. Reserved' <=> Reserved
      BY <2>3 DEF Reserved
    <3> QED BY <1>0, <2>1, <2>3, <3>1, Elsewhere
  <2> QED BY <1>3, <2>2, <2>3 DEF DeadlineFires
<1>4. ASSUME NEW r \in Requests, Reservation(r) PROVE IInv'
  BY <1>4, OperationStep, DeliveryStep DEF Reservation
<1>5. CASE SaveAsked \/ MotionChanges \/ OtherUsesBus \/ Signal
  <2>1. UNCHANGED <<req, lease, kept, reservation, generation, revision>>
        /\ (UNCHANGED queue \/ queue' = Append(queue, Job("save", "none", "none")))
    BY <1>5 DEF SaveAsked, MotionChanges, OtherUsesBus, Signal
  <2>2. Reserved' => Reserved
    BY <1>5 DEF SaveAsked, MotionChanges, OtherUsesBus, Signal, Reserved
  <2>3. Reserved' => bus' = bus
    <3>1. Reserved => bus \notin {"none", "other"}
      BY HeldOrNot, NoneIsNoRequest
    <3> QED BY <1>5, <2>2, <3>1 DEF SaveAsked, MotionChanges, OtherUsesBus, Signal
  <2> QED BY <1>0, <2>1, <2>2, <2>3, Elsewhere
<1>6. CASE SaveEnds
  <2>1. /\ UNCHANGED <<req, lease, kept, reservation, generation, bus, status>>
        /\ queue # <<>> /\ queue' = Tail(queue)
        /\ (reservation = "none" /\ revision' = revision + 1) \/ UNCHANGED revision
    BY <1>6 DEF SaveEnds
  <2>2. Reserved' <=> Reserved
    BY <2>1 DEF Reserved
  <2>3. Reserved => reservation # "none"
    BY HeldOrNot, NoneIsNoRequest
  <2> QED BY <1>0, <2>1, <2>2, <2>3, Elsewhere
<1>7. CASE Exit
  BY <1>7, ExitStep
<1>8. CASE Tick
  BY <1>8, TickStep
<1>9. ASSUME NEW r \in Requests, Ask(r) PROVE IInv'
  BY <1>9, AskStep
<1>10. CASE UNCHANGED vars
  <2>1. UNCHANGED <<req, lease, kept, reservation, generation, revision, bus, status, queue>>
    BY <1>10 DEF vars
  <2>2. Reserved' <=> Reserved
    BY <2>1 DEF Reserved
  <2> QED BY <1>0, <2>1, <2>2, Elsewhere
<1> QED BY <1>1, <1>2, <1>3, <1>4, <1>5, <1>6, <1>7, <1>8, <1>9, <1>10 DEF Next, Program, Environment

LEMMA IInvHolds == Spec => []IInv
  BY Starts, IInvStep, PTL DEF Spec

(* Whatever waits in the store's queue and whatever fails, a restart that is    *)
(* shown as reserved or scheduled has the bus and the settings                  *)
(* (restart.ts reserve, fail, release; store.ts reserveForRestart).             *)
THEOREM ReservedIsWhole == Spec => []ReservationIsWhole
<1>1. IInv => ReservationIsWhole
  BY DEF IInv
<1> QED BY <1>1, IInvHolds, PTL

(* Systemd is asked for a restart only with the process, the revision and the   *)
(* bus the owner confirmed, however many saves and events came between the      *)
(* confirmation and the call (restart.ts deliverAndSchedule).                   *)
THEOREM AskedIsConfirmed == Spec => AsksForConfirmed
<1>1. ASSUME NEW r \in Requests, IInv, Delivered(r) \/ Flushed(r) PROVE ConfirmedOnly
  <2>1. CASE asked' = asked
    BY <2>1 DEF ConfirmedOnly
  <2>2. CASE asked' = asked \cup {r} /\ StillReserved(r)
    <3>1. Reserved /\ lease = r /\ bus = r /\ req[r].revision = revision
      BY <2>2, <1>1, HeldOrNot DEF StillReserved, Reserved, IInv, RevisionKept
    <3>2. req[r].generation = generation
      BY <1>1 DEF IInv, ThisProcess, Delivered, Flushed
    <3> QED BY <2>2, <3>1, <3>2 DEF ConfirmedOnly
  <2> QED BY <1>1, <2>1, <2>2 DEF Delivered, Flushed, ScheduleOrGiveUp
<1>2. ASSUME asked' \subseteq asked PROVE ConfirmedOnly
  BY <1>2 DEF ConfirmedOnly
<1>3. IInv /\ [Next]_vars => [ConfirmedOnly]_vars
  <2> SUFFICES ASSUME IInv, Next PROVE ConfirmedOnly
    OBVIOUS
  <2>1. ASSUME NEW r \in Requests, Reservation(r) PROVE ConfirmedOnly
    BY <2>1, <1>1, <1>2 DEF Reservation, OperationEnds, Scheduled, ScheduleFails
  <2>2. ASSUME NEW r \in Requests, Ask(r) PROVE ConfirmedOnly
    BY <2>2, <1>2 DEF Ask
  <2>3. CASE ReserveJob \/ ReleaseJob \/ DeadlineFires
    BY <2>3, <1>2 DEF ReserveJob, ReleaseJob, DeadlineFires
  <2>4. CASE Environment
    BY <2>4, <1>2 DEF Environment, SaveAsked, SaveEnds, OtherUsesBus, MotionChanges, Signal, Exit, Tick
  <2> QED BY <2>1, <2>2, <2>3, <2>4 DEF Next, Program
<1> QED BY <1>3, IInvHolds, PTL DEF Spec, AsksForConfirmed
=============================================================================
