-------------------------- MODULE BleServerProofs ---------------------------
(* For any number of phones, slots, envelopes and frames: nothing of a session *)
(* is heard after it.  NothingOutlivesItsSession looks at what waits for the    *)
(* radio; what makes it inductive is the tasks behind it, which still may add    *)
(* to the queue: an envelope or a request that has not been overtaken by an end  *)
(* of its session has an owner, and a seal has a listener, but not always an      *)
(* owner, because a stream may outlive the session it was installed for.  The     *)
(* last part is about lookups: an answer ends the session it was asked about or   *)
(* none.                                                                          *)
EXTENDS BleServer, SequenceTheorems, TLAPS

Envelopes == [fresh : BOOLEAN]
Requests == [at : {"free", "head", "body", "end"}, sealing : BOOLEAN, fresh : BOOLEAN]
Sealings == [slot : Slots \union {0}, fresh : BOOLEAN]

TasksOK == /\ inbound \in Seq(Envelopes)
           /\ requests \in [Slots -> Requests]
           /\ seals \in Seq(Sealings)
           /\ queue \in Seq(Frames)

FreshHasOwner ==
  /\ \A i \in DOMAIN inbound : inbound[i].fresh => owner # NoPhone
  /\ \A r \in Slots : requests[r].fresh => owner # NoPhone
  /\ \A i \in DOMAIN seals : seals[i].fresh => subscribed

IInv == TasksOK /\ FreshHasOwner /\ NothingOutlivesItsSession

(* The invariant speaks of nothing else. *)
state == <<owner, subscribed, stopped, inbound, requests, seals, queue>>

LEMMA Stays == ASSUME IInv, UNCHANGED state PROVE IInv'
  BY DEF IInv, TasksOK, FreshHasOwner, NothingOutlivesItsSession, state

LEMMA Starts == Init => IInv
<1> SUFFICES ASSUME Init PROVE IInv
  OBVIOUS
<1>1. inbound = <<>> /\ seals = <<>> /\ queue = <<>> /\ requests = [r \in Slots |-> NoRequest]
      /\ ~stopped
  BY DEF Init
<1>2. TasksOK
  BY <1>1, EmptySeq DEF TasksOK, Requests, NoRequest
<1>3. FreshHasOwner
  BY <1>1 DEF FreshHasOwner, NoRequest
<1>4. NothingOutlivesItsSession
  BY <1>1 DEF NothingOutlivesItsSession
<1> QED BY <1>2, <1>3, <1>4 DEF IInv

(* What a task looks like once its session has ended. *)
LEMMA Overtaken ==
  ASSUME NEW S \in {Envelopes, Sealings}, NEW s \in Seq(S),
         NEW t, t = [i \in DOMAIN s |-> [s[i] EXCEPT !.fresh = FALSE]]
  PROVE  t \in Seq(S) /\ \A i \in DOMAIN t : ~t[i].fresh
<1>1. Len(s) \in Nat /\ DOMAIN s = 1..Len(s) /\ \A i \in 1..Len(s) : s[i] \in S
  BY LenProperties, ElementOfSeq
<1>2. \A e \in S : [e EXCEPT !.fresh = FALSE] \in S /\ ~[e EXCEPT !.fresh = FALSE].fresh
  <2>1. CASE S = Envelopes
    BY <2>1 DEF Envelopes
  <2>2. CASE S = Sealings
    BY <2>2 DEF Sealings
  <2> QED BY <2>1, <2>2
<1>3. t \in [1..Len(s) -> S] /\ DOMAIN t = DOMAIN s
  BY <1>1, <1>2
<1>4. t \in Seq(S)
  BY <1>1, <1>3, SeqDef
<1> QED BY <1>1, <1>2, <1>3, <1>4

LEMMA StaleTasks ==
  ASSUME NEW envelopes \in Seq(Envelopes), NEW slots \in [Slots -> Requests], NEW chain \in Seq(Sealings),
         inbound' = [i \in DOMAIN envelopes |-> [envelopes[i] EXCEPT !.fresh = FALSE]],
         requests' = StaleRequests(slots), seals' = StaleSeals(chain), queue' \in Seq(Frames)
  PROVE  TasksOK' /\ FreshHasOwner'
<1>1. inbound' \in Seq(Envelopes) /\ \A i \in DOMAIN inbound' : ~inbound'[i].fresh
  BY Overtaken
<1>2. seals' \in Seq(Sealings) /\ \A i \in DOMAIN seals' : ~seals'[i].fresh
  BY Overtaken DEF StaleSeals
<1>3. requests' \in [Slots -> Requests] /\ \A r \in Slots : ~requests'[r].fresh
  BY DEF StaleRequests, Requests
<1> QED BY <1>1, <1>2, <1>3 DEF TasksOK, FreshHasOwner

(* endSession, whoever calls it, and whether a stream is installed after it. *)
LEMMA SessionEnds ==
  ASSUME NEW tasks, NEW envelopes \in Seq(Envelopes), NEW slots \in [Slots -> Requests],
         NEW chain \in Seq(Sealings), SessionOver(tasks, envelopes, slots, chain)
  PROVE  IInv'
<1>1. queue' = <<>> /\ owner' = NoPhone
  BY DEF SessionOver
<1>2. TasksOK' /\ FreshHasOwner'
  BY <1>1, StaleTasks, EmptySeq DEF SessionOver
<1>3. NothingOutlivesItsSession'
  BY <1>1 DEF NothingOutlivesItsSession
<1> QED BY <1>2, <1>3 DEF IInv

LEMMA Rest ==
  ASSUME NEW S, NEW s \in Seq(S), s # <<>>
  PROVE  /\ Head(s) \in S /\ 1 \in DOMAIN s /\ s[1] = Head(s)
         /\ Tail(s) \in Seq(S)
         /\ \A i \in DOMAIN Tail(s) : i + 1 \in DOMAIN s /\ Tail(s)[i] = s[i + 1] /\ i \in Nat
         /\ \A i \in DOMAIN Tail(s) : 1..(i - 1) \subseteq DOMAIN Tail(s)
OBVIOUS

LEMMA OneMore ==
  ASSUME NEW S, NEW s \in Seq(S), NEW e \in S
  PROVE  /\ Append(s, e) \in Seq(S)
         /\ \A i \in DOMAIN Append(s, e) : \/ i \in DOMAIN s /\ Append(s, e)[i] = s[i]
                                           \/ i = Len(s) + 1 /\ Append(s, e)[i] = e
         /\ \A i \in DOMAIN s : Append(s, e)[i] = s[i] /\ 1..(i - 1) \subseteq DOMAIN s
OBVIOUS

(* The seals of one or two calls behind those that are pending, cut off where *)
(* they are too many.                                                           *)
LEMMA Chain ==
  ASSUME NEW s \in Seq(Sealings), NEW n \in Nat, NEW e \in Sealings,
         NEW chain, chain = s \o [i \in 1..n |-> e]
  PROVE  /\ chain \in Seq(Sealings)
         /\ \A i \in DOMAIN chain : (i \in DOMAIN s /\ chain[i] = s[i]) \/ chain[i] = e
         /\ Len(chain) > MaxSeals => SubSeq(chain, 1, MaxSeals) \in Seq(Sealings)
<1> DEFINE more == [i \in 1..n |-> e]
<1>1. more \in Seq(Sealings) /\ Len(more) = n /\ \A i \in 1..n : more[i] = e
  BY SeqDef
<1> HIDE DEF more
<1>2. chain = s \o more
  BY DEF more
<1>3. chain \in Seq(Sealings) /\ Len(chain) = Len(s) + n
      /\ \A i \in 1..Len(chain) : chain[i] = IF i <= Len(s) THEN s[i] ELSE more[i - Len(s)]
  BY <1>1, <1>2, ConcatProperties
<1>4. \A i \in DOMAIN chain : (i \in DOMAIN s /\ chain[i] = s[i]) \/ chain[i] = e
  <2>1. Len(s) \in Nat /\ DOMAIN s = 1..Len(s) /\ DOMAIN chain = 1..Len(chain)
    BY <1>3, LenProperties
  <2> QED BY <1>1, <1>3, <2>1
<1>5. MaxSeals \in Nat
  BY BleBounds
<1>6. ASSUME Len(chain) > MaxSeals PROVE SubSeq(chain, 1, MaxSeals) \in Seq(Sealings)
  <2>1. \A i \in 1..MaxSeals : chain[i] \in Sealings
    BY <1>3, <1>5, <1>6, ElementOfSeq
  <2> QED BY <1>5, <2>1, SubSeqProperties, <1>3, <1>6
<1> QED BY <1>3, <1>4, <1>6

(* sendSealed on behalf of a task. *)
LEMMA Sends ==
  ASSUME IInv, NEW r \in Slots \union {0}, NEW n \in Nat, NEW fresh, NEW streams,
         NEW slots \in [Slots -> Requests], \A s \in Slots : slots[s].fresh => owner # NoPhone,
         NEW envelopes \in Seq(Envelopes), \A i \in DOMAIN envelopes : envelopes[i].fresh => owner # NoPhone,
         SendSealed(r, n, fresh, slots, envelopes, streams), UNCHANGED <<subscribed, stopped>>
  PROVE  IInv'
<1> USE DEF IInv
<1> DEFINE e == [slot |-> r, fresh |-> TRUE]
           chain == seals \o [i \in 1..n |-> e]
<1>1. e \in Sealings /\ seals \in Seq(Sealings)
  BY DEF Sealings, TasksOK
<1>2. \/ requests' = slots /\ inbound' = envelopes /\ UNCHANGED <<owner, seals, queue>>
      \/ Len(chain) > MaxSeals /\ SessionOver(hellos, envelopes, slots, SubSeq(chain, 1, MaxSeals))
      \/ /\ subscribed /\ seals' = chain
         /\ requests' = IF r = 0 THEN slots ELSE [requests EXCEPT ![r].sealing = TRUE]
         /\ inbound' = envelopes /\ UNCHANGED <<owner, queue>>
  BY DEF SendSealed
<1> HIDE DEF e
<1>3. /\ chain \in Seq(Sealings)
      /\ \A i \in DOMAIN chain : (i \in DOMAIN seals /\ chain[i] = seals[i]) \/ chain[i] = e
      /\ Len(chain) > MaxSeals => SubSeq(chain, 1, MaxSeals) \in Seq(Sealings)
  BY <1>1, Chain
<1> HIDE DEF chain
<1>4. CASE requests' = slots /\ inbound' = envelopes /\ UNCHANGED <<owner, seals, queue>>
  <2>1. TasksOK' /\ FreshHasOwner'
    BY <1>4 DEF TasksOK, FreshHasOwner
  <2>2. NothingOutlivesItsSession'
    BY <1>4 DEF NothingOutlivesItsSession
  <2> QED BY <2>1, <2>2
<1>5. CASE Len(chain) > MaxSeals /\ SessionOver(hellos, envelopes, slots, SubSeq(chain, 1, MaxSeals))
  BY <1>3, <1>5, SessionEnds
<1>6. CASE /\ subscribed /\ seals' = chain
           /\ requests' = IF r = 0 THEN slots ELSE [requests EXCEPT ![r].sealing = TRUE]
           /\ inbound' = envelopes /\ UNCHANGED <<owner, queue>>
  <2>1. requests' \in [Slots -> Requests] /\ \A s \in Slots : requests'[s].fresh => owner # NoPhone
    <3>1. CASE r = 0
      BY <1>6, <3>1
    <3>2. CASE r # 0
      <4>1. requests[r] \in Requests /\ requests' = [requests EXCEPT ![r] = [@ EXCEPT !.sealing = TRUE]]
        BY <1>6, <3>2 DEF TasksOK
      <4>2. [requests[r] EXCEPT !.sealing = TRUE] \in Requests
            /\ [requests[r] EXCEPT !.sealing = TRUE].fresh = requests[r].fresh
        BY <4>1 DEF Requests
      <4> QED BY <3>2, <4>1, <4>2 DEF TasksOK, FreshHasOwner
    <3> QED BY <3>1, <3>2
  <2>2. TasksOK' /\ FreshHasOwner'
    BY <1>3, <1>6, <2>1 DEF TasksOK, FreshHasOwner
  <2>3. NothingOutlivesItsSession'
    BY <1>6 DEF NothingOutlivesItsSession
  <2> QED BY <2>2, <2>3
<1> QED BY <1>2, <1>4, <1>5, <1>6

(* report: a REFUSED behind what is queued. *)
LEMMA Refuses ==
  ASSUME IInv, Refused, ~stopped, UNCHANGED <<owner, subscribed, stopped, inbound, requests, seals>>
  PROVE  IInv'
<1> USE DEF IInv
<1> DEFINE e == [what |-> "refused", own |-> TRUE]
<1>1. CASE queue' = queue
  BY <1>1, Stays DEF state
<1>2. CASE queue' = Append(queue, e) /\ subscribed
  <2>1. e \in Frames /\ e.own /\ e.what = "refused"
    BY DEF Frames
  <2> HIDE DEF e
  <2>2. /\ queue' \in Seq(Frames)
        /\ \A i \in DOMAIN queue' : (i \in DOMAIN queue /\ queue'[i] = queue[i]) \/ queue'[i] = e
        /\ \A i \in DOMAIN queue : queue'[i] = queue[i] /\ 1..(i - 1) \subseteq DOMAIN queue
    BY <1>2, <2>1, OneMore DEF TasksOK
  <2>3. TasksOK' /\ FreshHasOwner'
    BY <2>2 DEF TasksOK, FreshHasOwner
  <2>4. NothingOutlivesItsSession'
    BY <1>2, <2>1, <2>2 DEF NothingOutlivesItsSession
  <2> QED BY <2>3, <2>4
<1> QED BY <1>1, <1>2 DEF Refused

LEMMA Verified == ASSUME IInv, NEW p \in Phones, NEW proof \in BOOLEAN, HelloVerified(p, proof) PROVE IInv'
<1>1. UNCHANGED <<owner, subscribed, stopped, inbound, requests, seals, stream>>
  BY DEF HelloVerified
<1>2. queue' = queue \/ (Refused /\ ~stopped)
  BY DEF HelloVerified, Live
<1> QED BY <1>1, <1>2, Refuses, Stays DEF state

LEMMA Looked == ASSUME IInv, NEW p \in Phones, NEW connected, LookupEnds(p, connected),
                       UNCHANGED <<subscribed, stopped>>
                PROVE IInv'
<1>1. CASE Evict(p)
  <2>1. queue' \in Seq(Frames)
    BY <1>1, EmptySeq DEF Evict
  <2>2. TasksOK' /\ FreshHasOwner'
    BY <1>1, <2>1, StaleTasks DEF Evict, StaleInbound, IInv, TasksOK
  <2>3. NothingOutlivesItsSession'
    BY <1>1 DEF Evict, NothingOutlivesItsSession
  <2> QED BY <2>2, <2>3 DEF IInv
<1>2. CASE Refused /\ ~stopped /\ UNCHANGED <<owner, inbound, requests, seals, stream>>
  BY <1>2, Refuses
<1>3. CASE UNCHANGED <<owner, inbound, requests, seals, stream, queue>>
  BY <1>3, Stays DEF state
<1> QED BY <1>1, <1>2, <1>3 DEF LookupEnds, Live

LEMMA Committed == ASSUME IInv, NEW p \in Phones, HelloCommits(p) PROVE IInv'
<1>1. CASE Live(p)
  <2> DEFINE e == [what |-> "welcome", own |-> TRUE]
  <2>1. e \in Frames /\ e.own
    BY DEF Frames
  <2>2. queue' = (IF subscribed THEN <<e>> ELSE <<>>)
        /\ owner' = p /\ stream' = FALSE /\ UNCHANGED <<subscribed, stopped>> /\ ~stopped
    BY <1>1 DEF HelloCommits, Live
  <2> HIDE DEF e
  <2>3. queue' \in Seq(Frames) /\ (\A i \in DOMAIN queue' : queue'[i] = e /\ i = 1)
        /\ (~subscribed => queue' = <<>>)
    BY <2>1, <2>2, EmptySeq
  <2>4. TasksOK' /\ FreshHasOwner'
    BY <1>1, <2>3, StaleTasks DEF HelloCommits, StaleInbound, IInv, TasksOK
  <2>5. NothingOutlivesItsSession'
    BY <2>1, <2>2, <2>3, BleBounds DEF NothingOutlivesItsSession
  <2> QED BY <2>4, <2>5 DEF IInv
<1>2. CASE ~Live(p)
  BY <1>2, Stays DEF HelloCommits, state, work
<1> QED BY <1>1, <1>2

LEMMA Enveloped == ASSUME IInv, NEW p \in Phones, Envelope(p) PROVE IInv'
<1> USE DEF IInv
<1> DEFINE e == [fresh |-> TRUE]
<1>1. e \in Envelopes /\ inbound' = Append(inbound, e) /\ owner # NoPhone
      /\ UNCHANGED <<owner, subscribed, stopped, requests, seals, queue, stream>>
  BY BleBounds DEF Envelope, Envelopes, work
<1>2. TasksOK'
  BY <1>1, OneMore DEF TasksOK
<1>3. FreshHasOwner'
  BY <1>1 DEF FreshHasOwner
<1>4. NothingOutlivesItsSession'
  BY <1>1 DEF NothingOutlivesItsSession
<1> QED BY <1>2, <1>3, <1>4

(* The rest of the inbound chain, its head being dispatched or dropped. *)
LEMMA Chained ==
  ASSUME IInv, inbound # <<>>
  PROVE  /\ Tail(inbound) \in Seq(Envelopes) /\ Head(inbound).fresh \in BOOLEAN
         /\ \A i \in DOMAIN Tail(inbound) : Tail(inbound)[i].fresh => owner # NoPhone
         /\ Head(inbound).fresh => owner # NoPhone
<1>1. inbound \in Seq(Envelopes) /\ \A i \in DOMAIN inbound : inbound[i].fresh => owner # NoPhone
  BY DEF IInv, TasksOK, FreshHasOwner
<1>2. Head(inbound) \in Envelopes
  BY <1>1, Rest
<1> QED BY <1>1, <1>2, Rest DEF Envelopes

LEMMA Dispatched == ASSUME IInv, NEW what \in Kinds, Dispatch(what) PROVE IInv'
<1> USE DEF IInv
<1>1. inbound # <<>> /\ UNCHANGED <<subscribed, stopped>>
  BY DEF Dispatch
<1> DEFINE free == {r \in Slots : requests[r].at = "free"}
<1>2. CASE /\ inbound' = Tail(inbound) /\ UNCHANGED <<owner, requests, seals, queue>>
  <2>1. TasksOK' /\ FreshHasOwner'
    BY <1>1, <1>2, Chained DEF TasksOK, FreshHasOwner
  <2>2. NothingOutlivesItsSession'
    BY <1>1, <1>2 DEF NothingOutlivesItsSession
  <2> QED BY <2>1, <2>2
<1>3. ASSUME NEW n \in Nat, NEW streams, SendSealed(0, n, TRUE, requests, Tail(inbound), streams) PROVE IInv'
  BY <1>1, <1>3, Chained, Sends DEF TasksOK, FreshHasOwner
<1>4. CASE Head(inbound).fresh /\ StartRequest
  <2>1. CASE SendSealed(0, 2, TRUE, requests, Tail(inbound), FALSE)
    BY <1>3, <2>1
  <2>2. CASE /\ free # {}
             /\ requests' = [requests EXCEPT ![CHOOSE r \in free : TRUE] =
                               [at |-> "head", sealing |-> FALSE, fresh |-> TRUE]]
             /\ inbound' = Tail(inbound) /\ UNCHANGED <<owner, asked, hellos, seals, queue, stream>>
    <3>1. PICK r \in Slots : requests' = [requests EXCEPT ![r] = [at |-> "head", sealing |-> FALSE, fresh |-> TRUE]]
      BY <2>2
    <3>2. requests' \in [Slots -> Requests] /\ \A s \in Slots : requests'[s].fresh => owner # NoPhone
      BY <1>1, <1>4, <2>2, <3>1, Chained DEF TasksOK, FreshHasOwner, Requests
    <3>3. TasksOK' /\ FreshHasOwner'
      BY <1>1, <1>4, <2>2, <3>2, Chained DEF TasksOK, FreshHasOwner
    <3>4. NothingOutlivesItsSession'
      BY <1>1, <2>2 DEF NothingOutlivesItsSession
    <3> QED BY <3>3, <3>4
  <2> QED BY <1>4, <2>1, <2>2 DEF StartRequest
<1>5. \/ inbound' = Tail(inbound) /\ UNCHANGED <<owner, requests, seals, queue>>
      \/ Head(inbound).fresh /\ StartRequest
      \/ SendSealed(0, 1, TRUE, requests, Tail(inbound), TRUE)
  BY DEF Dispatch, work
<1> QED BY <1>2, <1>3, <1>4, <1>5

LEMMA AdvancedKeeps ==
  ASSUME IInv, NEW r \in Slots
  PROVE  /\ Advanced(r) \in [Slots -> Requests]
         /\ \A s \in Slots : Advanced(r)[s].fresh => owner # NoPhone
<1>1. requests[r] \in Requests /\ NoRequest \in Requests /\ NoRequest.fresh = FALSE
  BY DEF IInv, TasksOK, NoRequest, Requests
<1>2. PICK q : /\ Advanced(r) = [requests EXCEPT ![r] = q]
               /\ \/ q = [requests[r] EXCEPT !.at = "body", !.sealing = FALSE]
                  \/ q = [requests[r] EXCEPT !.at = "end", !.sealing = FALSE]
                  \/ q = NoRequest
  BY DEF Advanced
<1>3. q \in Requests /\ (q.fresh => requests[r].fresh)
  BY <1>1, <1>2 DEF Requests
<1> QED BY <1>2, <1>3 DEF IInv, TasksOK, FreshHasOwner

LEMMA Answered == ASSUME IInv, NEW r \in Slots, Answer(r) PROVE IInv'
<1>1. /\ inbound \in Seq(Envelopes) /\ \A i \in DOMAIN inbound : inbound[i].fresh => owner # NoPhone
  BY DEF IInv, TasksOK, FreshHasOwner
<1>2. SendSealed(r, 1, requests[r].fresh, Advanced(r), inbound, FALSE) /\ UNCHANGED <<subscribed, stopped>>
  BY DEF Answer
<1> QED BY <1>1, <1>2, AdvancedKeeps, Sends

LEMMA Streamed == ASSUME IInv, StreamSends PROVE IInv'
<1>1. SendSealed(0, 1, TRUE, requests, inbound, FALSE) /\ UNCHANGED <<subscribed, stopped>>
  BY DEF StreamSends
<1> QED BY <1>1, Sends DEF IInv, TasksOK, FreshHasOwner

LEMMA Sealed == ASSUME IInv, Seal PROVE IInv'
<1> USE DEF IInv
<1> DEFINE head == Head(seals)
           slots == IF head.slot = 0 THEN requests ELSE Advanced(head.slot)
           e == [what |-> "sealed", own |-> head.fresh]
<1>1. seals # <<>> /\ UNCHANGED <<subscribed, stopped>>
  BY DEF Seal
<1>2. /\ head \in Sealings /\ Tail(seals) \in Seq(Sealings)
      /\ head.fresh => subscribed
      /\ \A i \in DOMAIN Tail(seals) : Tail(seals)[i].fresh => subscribed
  BY <1>1, Rest DEF TasksOK, FreshHasOwner
<1>3. slots \in [Slots -> Requests] /\ \A s \in Slots : slots[s].fresh => owner # NoPhone
  BY <1>2, AdvancedKeeps DEF TasksOK, FreshHasOwner, Sealings
<1>4. e \in Frames /\ e.own = head.fresh /\ e.what = "sealed"
  BY <1>2 DEF Frames, Sealings
<1>5. \/ seals' = Tail(seals) /\ requests' = slots /\ UNCHANGED <<owner, inbound, queue>>
      \/ /\ head.fresh /\ ~stopped /\ owner # NoPhone /\ queue' = Append(queue, e)
         /\ seals' = Tail(seals) /\ requests' = slots /\ UNCHANGED <<owner, inbound>>
      \/ SessionOver(hellos, inbound, slots, Tail(seals))
  BY DEF Seal, EndSession
<1> HIDE DEF head, slots, e
<1>6. CASE seals' = Tail(seals) /\ requests' = slots /\ UNCHANGED <<owner, inbound, queue>>
  <2>1. TasksOK' /\ FreshHasOwner'
    BY <1>1, <1>2, <1>3, <1>6 DEF TasksOK, FreshHasOwner
  <2>2. NothingOutlivesItsSession'
    BY <1>1, <1>6 DEF NothingOutlivesItsSession
  <2> QED BY <2>1, <2>2
<1>7. CASE /\ head.fresh /\ ~stopped /\ owner # NoPhone /\ queue' = Append(queue, e)
           /\ seals' = Tail(seals) /\ requests' = slots /\ UNCHANGED <<owner, inbound>>
  <2>1. /\ queue' \in Seq(Frames)
        /\ \A i \in DOMAIN queue' : (i \in DOMAIN queue /\ queue'[i] = queue[i]) \/ queue'[i] = e
        /\ \A i \in DOMAIN queue : queue'[i] = queue[i] /\ 1..(i - 1) \subseteq DOMAIN queue
    BY <1>4, <1>7, OneMore DEF TasksOK
  <2>2. TasksOK' /\ FreshHasOwner'
    BY <1>1, <1>2, <1>3, <1>7, <2>1 DEF TasksOK, FreshHasOwner
  <2>3. \A i \in DOMAIN queue' : queue'[i].own
    BY <1>4, <1>7, <2>1 DEF NothingOutlivesItsSession
  <2>4. \A i \in DOMAIN queue' : queue'[i].what = "welcome" =>
          \A k \in 1..(i - 1) : queue'[k].what = "refused"
    BY <1>4, <2>1 DEF NothingOutlivesItsSession
  <2>5. owner' # NoPhone /\ subscribed' /\ ~stopped'
    BY <1>1, <1>2, <1>7
  <2>6. NothingOutlivesItsSession'
    BY <2>3, <2>4, <2>5 DEF NothingOutlivesItsSession
  <2> QED BY <2>2, <2>6
<1>8. CASE SessionOver(hellos, inbound, slots, Tail(seals))
  BY <1>2, <1>3, <1>8, SessionEnds DEF TasksOK
<1> QED BY <1>5, <1>6, <1>7, <1>8

LEMMA Emitted == ASSUME IInv, Emit PROVE IInv'
<1> USE DEF IInv
<1>1. queue # <<>> /\ queue' = Tail(queue)
      /\ UNCHANGED <<owner, subscribed, stopped, inbound, requests, seals, stream>>
  BY DEF Emit
<1>2. /\ queue' \in Seq(Frames)
      /\ \A i \in DOMAIN queue' : i + 1 \in DOMAIN queue /\ queue'[i] = queue[i + 1] /\ i \in Nat
      /\ \A i \in DOMAIN queue' : 1..(i - 1) \subseteq DOMAIN queue'
  BY <1>1, Rest DEF TasksOK
<1>3. TasksOK' /\ FreshHasOwner'
  BY <1>1, <1>2 DEF TasksOK, FreshHasOwner
<1>4. ASSUME NEW i \in DOMAIN queue', queue'[i].what = "welcome", NEW k \in 1..(i - 1)
      PROVE  queue'[k].what = "refused"
  <2>1. i + 1 \in DOMAIN queue /\ queue[i + 1].what = "welcome" /\ k + 1 \in 1..((i + 1) - 1)
        /\ queue'[k] = queue[k + 1]
    BY <1>2, <1>4
  <2> QED BY <2>1 DEF NothingOutlivesItsSession
<1>5. NothingOutlivesItsSession'
  BY <1>1, <1>2, <1>4, EmptySeq DEF NothingOutlivesItsSession
<1> QED BY <1>3, <1>5

LEMMA Step == IInv /\ [Next]_vars => IInv'
<1> SUFFICES ASSUME IInv, [Next]_vars PROVE IInv'
  OBVIOUS
<1>1. CASE UNCHANGED vars
  BY <1>1, Stays DEF vars, state
<1>2. ASSUME NEW p \in Phones, LinkUp(p) \/ LinkLost(p) \/ SignalLost(p) \/ Hello(p) PROVE IInv'
  BY <1>2, Stays DEF LinkUp, LinkLost, SignalLost, Hello, work, state
<1>3. ASSUME NEW p \in Phones, DeviceDisconnected(p) PROVE IInv'
  <2>1. CASE EndSession(hellos, inbound, requests, seals)
    BY <2>1, SessionEnds DEF EndSession, IInv, TasksOK
  <2>2. CASE UNCHANGED <<owner, asked, hellos, inbound, work>>
    BY <1>3, <2>2, Stays DEF DeviceDisconnected, work, state
  <2> QED BY <1>3, <2>1, <2>2 DEF DeviceDisconnected
<1>4. ASSUME NEW p \in Phones, HelloSteps(p) PROVE IInv'
  BY <1>4, Verified, Looked, Committed DEF HelloSteps, LookupAnswers, LookupFails
<1>5. ASSUME NEW p \in Phones, Envelope(p) PROVE IInv'
  BY <1>5, Enveloped
<1>6. CASE Subscribed
  <2>1. subscribed' /\ UNCHANGED <<owner, stopped, inbound, requests, seals, queue, stream>>
    BY <1>6 DEF Subscribed, work
  <2> QED BY <2>1 DEF IInv, TasksOK, FreshHasOwner, NothingOutlivesItsSession
<1>7. CASE Reset \/ Stop
  BY <1>7, SessionEnds DEF Reset, Stop, EndSession, IInv, TasksOK
<1>8. ASSUME NEW what \in Kinds, Dispatch(what) PROVE IInv'
  BY <1>8, Dispatched
<1>9. CASE StreamSends \/ Seal \/ Emit \/ \E r \in Slots : Answer(r)
  BY <1>9, Streamed, Sealed, Emitted, Answered
<1> QED BY <1>1, <1>2, <1>3, <1>4, <1>5, <1>6, <1>7, <1>8, <1>9 DEF Next

(* NothingOutlivesItsSession: whatever is awaited when a session ends, and      *)
(* whatever streams on, nothing of it is queued for the radio afterwards          *)
(* (server.ts endSession, commitHello, sendSealed, session.ts seal, and the epoch *)
(* and generation every task compares).                                            *)
THEOREM SessionsEndOnTheRadio == Spec => []NothingOutlivesItsSession
<1>1. IInv => NothingOutlivesItsSession
  BY DEF IInv
<1> QED BY <1>1, Starts, Step, PTL DEF Spec

-----------------------------------------------------------------------------
(* The question a lookup asks.  A HELLO that waits for an answer and has not been *)
(* overtaken asked about the session there is now: whatever changes the owner     *)
(* overtakes every HELLO, the one being committed or evicting included.            *)
Hellos == [at : {"none", "verify", "lookup", "commit"}, about : Phones \union {NoPhone}, fresh : BOOLEAN]

Asking ==
  /\ hellos \in [Phones -> Hellos] /\ owner \in Phones \union {NoPhone} /\ disturbances \in Nat
  /\ \A p \in Phones : hellos[p].at = "lookup" /\ hellos[p].fresh =>
                         owner \in Phones /\ hellos[p].about = owner /\ asked

(* A step that leaves the HELLOs alone, or overtakes all of them. *)
AllOvertaken == hellos' \in [Phones -> Hellos] /\ owner' \in Phones \union {NoPhone}
             /\ \A p \in Phones : hellos'[p].at = "lookup" => ~hellos'[p].fresh

LEMMA AskingKept ==
  ASSUME Asking, disturbances' \in Nat, UNCHANGED <<owner, asked, hellos>> \/ AllOvertaken
  PROVE  Asking'
  BY DEF Asking, AllOvertaken

LEMMA EndOvertakes ==
  ASSUME Asking, NEW envelopes, NEW slots, NEW chain, SessionOver(hellos, envelopes, slots, chain)
  PROVE  AllOvertaken
  BY DEF SessionOver, StaleHellos, Asking, AllOvertaken, Hellos

LEMMA SendingAsks ==
  ASSUME Asking, NEW r, NEW n, NEW fresh, NEW slots, NEW envelopes, NEW streams,
         SendSealed(r, n, fresh, slots, envelopes, streams)
  PROVE  UNCHANGED <<owner, asked, hellos>> \/ AllOvertaken
  BY EndOvertakes DEF SendSealed

LEMMA HelloAsks == ASSUME Asking, NEW p \in Phones, HelloSteps(p) PROVE Asking'
<1>1. hellos[p] \in Hellos /\ NoHello \in Hellos /\ NoHello.at = "none"
  BY DEF Asking, Hellos, NoHello
<1>2. CASE /\ UNCHANGED <<owner, asked>> /\ disturbances' \in Nat /\ hellos' = Done(p)
  BY <1>1, <1>2 DEF Asking, Done
<1>3. CASE \E proof \in BOOLEAN : HelloVerified(p, proof)
  <2>1. CASE hellos' = At(p, "commit") /\ UNCHANGED <<owner, asked, disturbances>>
    BY <1>1, <2>1 DEF Asking, At, Hellos
  <2>2. CASE /\ owner \in Phones /\ asked' /\ UNCHANGED <<owner, disturbances>>
             /\ hellos' = [hellos EXCEPT ![p].at = "lookup", ![p].about = owner]
    BY <1>1, <2>2 DEF Asking, Hellos
  <2>3. CASE hellos' = Done(p) /\ UNCHANGED <<owner, asked, disturbances>>
    BY <1>2, <2>3 DEF Asking
  <2>4. owner \in Phones \union {NoPhone}
    BY DEF Asking
  <2> QED BY <1>3, <2>1, <2>2, <2>3, <2>4 DEF HelloVerified, radio
<1>4. CASE Evict(p) /\ disturbances' \in Nat
  <2>1. \A q \in Phones : hellos[q] \in Hellos
    BY DEF Asking
  <2>2. /\ hellos' = [q \in Phones |-> IF q = p THEN [hellos[p] EXCEPT !.at = "commit", !.about = NoPhone]
                                              ELSE [hellos[q] EXCEPT !.fresh = FALSE]]
        /\ owner' = NoPhone
    BY <1>4 DEF Evict, StaleHellos
  <2>3. AllOvertaken
    BY <2>1, <2>2 DEF AllOvertaken, Hellos
  <2> QED BY <1>4, <2>3, AskingKept
<1>5. CASE LookupAnswers(p) \/ LookupFails(p)
  BY <1>2, <1>4, <1>5 DEF LookupAnswers, LookupFails, LookupEnds, radio, Asking
<1>6. CASE HelloCommits(p)
  <2>1. disturbances' \in Nat
    BY <1>6 DEF HelloCommits, Asking
  <2>2. CASE Live(p)
    <3>1. Done(p) \in [Phones -> Hellos]
      BY <1>1 DEF Done, Asking
    <3>2. hellos' = StaleHellos(Done(p)) /\ owner' = p
      BY <1>6, <2>2 DEF HelloCommits
    <3>3. AllOvertaken
      BY <3>1, <3>2 DEF StaleHellos, AllOvertaken, Hellos
    <3> QED BY <2>1, <3>3, AskingKept
  <2>3. CASE ~Live(p)
    BY <1>2, <1>6, <2>1, <2>3 DEF HelloCommits
  <2> QED BY <2>2, <2>3
<1> QED BY <1>3, <1>5, <1>6 DEF HelloSteps

LEMMA AskingStep == Asking /\ [Next]_vars => Asking'
<1> SUFFICES ASSUME Asking, [Next]_vars PROVE Asking'
  OBVIOUS
<1>1. CASE UNCHANGED vars
  BY <1>1, AskingKept DEF vars, Asking
<1>2. ASSUME NEW p \in Phones, LinkUp(p) \/ LinkLost(p) \/ SignalLost(p) \/ Envelope(p) PROVE Asking'
  BY <1>2, AskingKept DEF LinkUp, LinkLost, SignalLost, Envelope, radio, Asking
<1>3. ASSUME NEW p \in Phones, DeviceDisconnected(p) PROVE Asking'
  BY <1>3, AskingKept, EndOvertakes DEF DeviceDisconnected, EndSession, Asking
<1>4. ASSUME NEW p \in Phones, Hello(p) PROVE Asking'
  BY <1>4 DEF Hello, NoHello, Asking, Hellos, radio
<1>5. ASSUME NEW p \in Phones, HelloSteps(p) PROVE Asking'
  BY <1>5, HelloAsks
<1>6. CASE Subscribed \/ Emit
  BY <1>6, AskingKept DEF Subscribed, Emit, radio, Asking
<1>7. CASE Reset \/ Stop
  <2>1. SessionOver(hellos, inbound, requests, seals) /\ disturbances' = disturbances + 1
    BY <1>7 DEF Reset, Stop, EndSession
  <2>2. disturbances' \in Nat
    BY <2>1 DEF Asking
  <2> QED BY <2>1, <2>2, AskingKept, EndOvertakes
<1>8. ASSUME NEW what \in Kinds, Dispatch(what) PROVE Asking'
  <2>1. \/ UNCHANGED <<owner, asked, hellos>>
        \/ \E n, streams : SendSealed(0, n, TRUE, requests, Tail(inbound), streams)
    BY <1>8 DEF Dispatch, StartRequest
  <2> QED BY <1>8, <2>1, AskingKept, SendingAsks DEF Dispatch, radio, Asking
<1>9. CASE StreamSends \/ \E r \in Slots : Answer(r)
  BY <1>9, AskingKept, SendingAsks DEF StreamSends, Answer, radio, Asking
<1>10. CASE Seal
  <2>1. UNCHANGED <<owner, asked, hellos>>
        \/ \E slots : SessionOver(hellos, inbound, slots, Tail(seals))
    BY <1>10 DEF Seal, EndSession
  <2> QED BY <1>10, <2>1, AskingKept, EndOvertakes DEF Seal, radio, Asking
<1> QED BY <1>1, <1>2, <1>3, <1>4, <1>5, <1>6, <1>7, <1>8, <1>9, <1>10 DEF Next

(* Only the end of a lookup puts the flag down, and only an answer of "no link", *)
(* or none, ends a session then.                                                   *)
LEMMA Evictions ==
  ASSUME Asking, [Next]_vars, owner # NoPhone, owner' = NoPhone, checking, ~checking'
  PROVE  asked /\ (~linked[owner] \/ disturbances' # disturbances)
<1>1. PICK p \in Phones : LookupAnswers(p) \/ LookupFails(p)
  BY DEF Next, vars, LinkUp, LinkLost, SignalLost, DeviceDisconnected, Envelope, Hello, HelloSteps,
         HelloVerified, HelloCommits, Subscribed, Emit, Reset, Stop, Dispatch, StreamSends, Answer, Seal
<1>2. PICK connected : /\ LookupEnds(p, connected)
                       /\ connected = linked[hellos[p].about] \/ disturbances' = disturbances + 1
  BY <1>1 DEF LookupAnswers, LookupFails
<1>3. Live(p) /\ ~connected /\ hellos[p].at = "lookup"
  BY <1>2 DEF LookupEnds
<1> QED BY <1>2, <1>3 DEF Asking, Live

(* EvictsWhomItAskedAbout: the answer about an owner's link ends that owner's    *)
(* session or none, whatever came and went while bluetoothd was asked               *)
(* (server.ts receiveHello, owner.ts connected).                                     *)
THEOREM AnswersEndTheirOwn == Spec => EvictsWhomItAskedAbout
<1>1. Init => Asking
  BY DEF Init, Asking, NoHello, Hellos
<1>2. Asking /\ [Next]_vars =>
        [owner # NoPhone /\ owner' = NoPhone /\ checking /\ ~checking' =>
           asked /\ (~linked[owner] \/ disturbances' # disturbances)]_vars
  BY Evictions
<1> QED BY <1>1, <1>2, AskingStep, PTL DEF Spec, EvictsWhomItAskedAbout
=============================================================================
