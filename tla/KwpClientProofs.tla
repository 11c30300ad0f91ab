--------------------------- MODULE KwpClientProofs ---------------------------
(* For any number of items, of frames in a reply, of frames on the wire and of *)
(* frames lost: what is filed as a record is whole and is filed under its own  *)
(* name, and a stopped client sends nothing.                                   *)
(*                                                                            *)
(* The reassembler counts frames and cannot see whose they are.  That it never *)
(* joins the frames of two replies is the order of the wire: behind a First    *)
(* Frame come only frames of its reply until the next First Frame, so what     *)
(* comes first on the wire continues what is being assembled, and what the     *)
(* micro still sends continues what comes last.                                *)
EXTENDS KwpClient, SequenceTheorems, TLAPS

Replies == [n : Nat, about : Nat, says : {"nothing", "session", "record", "refused", "none"}]
WireFrames == [kind : {"single", "first", "next"}, of : Replies, seq : Nat]
Asks == [kind : {"session", "read", "flow control"}, n : Nat, about : Nat]
Failures == {"none", "opened", "no-session", "not-sent", "no-response", "stalled", "abandoned", "cancelled"}
Statuses == Failures \cup {"read", "mismatch", "refused", "no record", "unrecognised"}
Results == [kind : Failures \cup {"payload"}, reply : Replies, whole : {TRUE}]
Entries == [status : Statuses, about : Nat, whole : {TRUE}]

Typed == /\ item \in Nat /\ asked \in Nat
         /\ inbox \in Seq(Asks) /\ toPi \in Seq(WireFrames) /\ filed \in Seq(Entries)
         /\ result \in Results
         /\ sending \in [of : Replies, next : Nat, go : BOOLEAN]
         /\ assembly \in [of : Replies, next : Nat, whole : {TRUE}]

(* No reply begins strictly between two places of the wire. *)
Unbroken(s, i, j) == \A k \in DOMAIN s : i < k /\ k < j => s[k].kind # "first"
InOrder(s) == \A i, j \in DOMAIN s :
                (s[i].kind = "first" /\ s[j].kind = "next" /\ i < j /\ Unbroken(s, i, j))
                  => s[j].of = s[i].of
(* The frames before the first beginning continue this reply, *)
Continues(s, reply) == \A j \in DOMAIN s : s[j].kind = "next" /\ Unbroken(s, 0, j) => s[j].of = reply
(* and the last beginning is of this one. *)
EndsWith(s, reply) ==
  \A i \in DOMAIN s : s[i].kind = "first" /\ Unbroken(s, i, Len(s) + 1) => s[i].of = reply
NoFirst(s) == Unbroken(s, 0, Len(s) + 1)

Wire == /\ InOrder(toPi)
        /\ assembly # Nothing => Continues(toPi, assembly.of)
        /\ sending # Idle => EndsWith(toPi, sending.of)
        /\ sending # Idle /\ assembly # Nothing /\ NoFirst(toPi) => sending.of = assembly.of

Assembling == assembly # Nothing => step = "reading"
Listed == step # "done" => Len(filed) = item - 1
Quiet == stopped => step \notin {"opening", "reading"}

IInv == Typed /\ Wire /\ Assembling /\ Listed /\ Quiet /\ RecordsAreTheirOwn

(* Frames leave the wire at one end and join it at the other.                  *)
LEMMA Rest ==
  ASSUME NEW S, NEW s \in Seq(S), s # <<>>
  PROVE  /\ Head(s) \in S /\ 1 \in DOMAIN s /\ s[1] = Head(s)
         /\ Tail(s) \in Seq(S) /\ Len(Tail(s)) = Len(s) - 1 /\ Len(s) \in Nat
         /\ \A i \in DOMAIN Tail(s) : i \in Nat /\ i > 0 /\ i + 1 \in DOMAIN s /\ Tail(s)[i] = s[i + 1]
         /\ \A i \in DOMAIN s : i \in Nat /\ (i = 1 \/ (i > 1 /\ i - 1 \in DOMAIN Tail(s)))
<1>1. Len(s) \in Nat /\ Len(s) > 0 /\ DOMAIN s = 1..Len(s) /\ Head(s) = s[1] /\ Head(s) \in S
  OBVIOUS
<1>2. Tail(s) \in Seq(S) /\ Len(Tail(s)) = Len(s) - 1 /\ DOMAIN Tail(s) = 1..(Len(s) - 1)
  OBVIOUS
<1>3. \A i \in 1..(Len(s) - 1) : Tail(s)[i] = s[i + 1]
  OBVIOUS
<1> QED BY <1>1, <1>2, <1>3

LEMMA OneMore ==
  ASSUME NEW S, NEW s \in Seq(S), NEW e \in S
  PROVE  /\ Append(s, e) \in Seq(S) /\ Len(Append(s, e)) = Len(s) + 1 /\ Len(s) \in Nat
         /\ \A i \in DOMAIN Append(s, e) : \/ i \in DOMAIN s /\ i <= Len(s) /\ Append(s, e)[i] = s[i]
                                           \/ i = Len(s) + 1 /\ Append(s, e)[i] = e
         /\ \A i \in DOMAIN s : /\ Append(s, e)[i] = s[i] /\ i \in DOMAIN Append(s, e)
                                /\ i \in Nat /\ 0 < i /\ i <= Len(s)
         /\ Len(s) + 1 \in DOMAIN Append(s, e) /\ Append(s, e)[Len(s) + 1] = e
OBVIOUS

LEMMA UnbrokenTail ==
  ASSUME NEW s \in Seq(WireFrames), s # <<>>, NEW i \in Nat, NEW j \in Nat,
         Unbroken(Tail(s), i, j), i > 0 \/ Head(s).kind # "first"
  PROVE  Unbroken(s, i + 1, j + 1) /\ (i = 0 => Unbroken(s, 0, j + 1))
<1> SUFFICES ASSUME NEW k \in DOMAIN s, k < j + 1,
                    i + 1 < k \/ (i = 0 /\ 0 < k)
             PROVE  s[k].kind # "first"
  BY DEF Unbroken
<1>1. k \in Nat /\ s[1] = Head(s) /\ (k = 1 \/ (k > 1 /\ k - 1 \in DOMAIN Tail(s)))
  BY Rest
<1>2. CASE k = 1
  BY <1>1, <1>2
<1>3. CASE k > 1
  <2>1. k - 1 \in DOMAIN Tail(s) /\ i < k - 1 /\ k - 1 < j
    BY <1>1, <1>3
  <2>2. Tail(s)[k - 1] = s[k]
    BY <2>1, <1>1, Rest, (k - 1) + 1 = k
  <2> QED BY <2>1, <2>2 DEF Unbroken
<1> QED BY <1>1, <1>2, <1>3

LEMMA HeadHeard ==
  ASSUME NEW s \in Seq(WireFrames), s # <<>>, InOrder(s)
  PROVE  /\ InOrder(Tail(s))
         /\ Head(s).kind = "first" => Continues(Tail(s), Head(s).of)
         /\ \A r : Head(s).kind # "first" /\ Continues(s, r) => Continues(Tail(s), r)
         /\ \A r : EndsWith(s, r) => EndsWith(Tail(s), r)
         /\ \A r : EndsWith(s, r) /\ Head(s).kind = "first" /\ NoFirst(Tail(s)) => r = Head(s).of
         /\ Head(s).kind # "first" /\ NoFirst(Tail(s)) => NoFirst(s)
<1> DEFINE t == Tail(s)
<1>1. /\ s[1] = Head(s) /\ 1 \in DOMAIN s /\ Len(t) = Len(s) - 1 /\ Len(s) \in Nat /\ Len(t) \in Nat
      /\ \A i \in DOMAIN t : i \in Nat /\ i > 0 /\ i + 1 \in DOMAIN s /\ t[i] = s[i + 1]
  BY Rest, LenProperties
<1>2. InOrder(t)
  <2> SUFFICES ASSUME NEW i \in DOMAIN t, NEW j \in DOMAIN t, t[i].kind = "first", t[j].kind = "next",
                      i < j, Unbroken(t, i, j)
               PROVE  t[j].of = t[i].of
    BY DEF InOrder
  <2>1. Unbroken(s, i + 1, j + 1)
    BY <1>1, UnbrokenTail
  <2> QED BY <2>1, <1>1 DEF InOrder
<1>3. ASSUME Head(s).kind = "first" PROVE Continues(t, Head(s).of)
  <2> SUFFICES ASSUME NEW j \in DOMAIN t, t[j].kind = "next", Unbroken(t, 0, j)
               PROVE  t[j].of = s[1].of
    BY <1>1 DEF Continues
  <2>1. Unbroken(s, 1, j + 1)
    <3> SUFFICES ASSUME NEW k \in DOMAIN s, 1 < k, k < j + 1 PROVE s[k].kind # "first"
      BY DEF Unbroken
    <3>1. k \in Nat /\ k - 1 \in DOMAIN t
      BY Rest
    <3>2. t[k - 1] = s[k] /\ 0 < k - 1 /\ k - 1 < j
      BY <3>1, <1>1, (k - 1) + 1 = k
    <3> QED BY <3>1, <3>2 DEF Unbroken
  <2> QED BY <2>1, <1>1, <1>3 DEF InOrder
<1>4. ASSUME NEW r, Head(s).kind # "first", Continues(s, r) PROVE Continues(t, r)
  <2> SUFFICES ASSUME NEW j \in DOMAIN t, t[j].kind = "next", Unbroken(t, 0, j)
               PROVE  t[j].of = r
    BY DEF Continues
  <2>1. Unbroken(s, 0, j + 1)
    BY <1>1, <1>4, UnbrokenTail
  <2> QED BY <2>1, <1>1, <1>4 DEF Continues
<1>5. ASSUME NEW r, EndsWith(s, r) PROVE EndsWith(t, r)
  <2> SUFFICES ASSUME NEW i \in DOMAIN t, t[i].kind = "first", Unbroken(t, i, Len(t) + 1)
               PROVE  t[i].of = r
    BY DEF EndsWith
  <2>1. Unbroken(s, i + 1, Len(s) + 1)
    BY <1>1, UnbrokenTail, (Len(t) + 1) + 1 = Len(s) + 1
  <2> QED BY <2>1, <1>1, <1>5 DEF EndsWith
<1>6. ASSUME NEW r, EndsWith(s, r), Head(s).kind = "first", NoFirst(t) PROVE r = Head(s).of
  <2>1. Unbroken(s, 1, Len(s) + 1)
    <3> SUFFICES ASSUME NEW k \in DOMAIN s, 1 < k, k < Len(s) + 1 PROVE s[k].kind # "first"
      BY DEF Unbroken
    <3>1. k \in Nat /\ k - 1 \in DOMAIN t
      BY Rest
    <3>2. t[k - 1] = s[k] /\ 0 < k - 1 /\ k - 1 < Len(t) + 1
      BY <3>1, <1>1, (k - 1) + 1 = k
    <3> QED BY <3>1, <3>2, <1>6 DEF Unbroken, NoFirst
  <2> QED BY <2>1, <1>1, <1>6 DEF EndsWith
<1>7. ASSUME Head(s).kind # "first", NoFirst(t) PROVE NoFirst(s)
  BY <1>1, <1>7, UnbrokenTail, (Len(t) + 1) + 1 = Len(s) + 1 DEF NoFirst
<1> QED BY <1>2, <1>3, <1>4, <1>5, <1>6, <1>7

LEMMA Joins ==
  ASSUME NEW s \in Seq(WireFrames), NEW f \in WireFrames, InOrder(s),
         f.kind = "next" => EndsWith(s, f.of)
  PROVE  /\ InOrder(Append(s, f))
         /\ \A r : Continues(s, r) /\ (f.kind = "next" /\ NoFirst(s) => r = f.of) => Continues(Append(s, f), r)
         /\ \A r : f.kind # "first" /\ EndsWith(s, r) => EndsWith(Append(s, f), r)
         /\ f.kind = "first" => EndsWith(Append(s, f), f.of)
         /\ NoFirst(Append(s, f)) => NoFirst(s) /\ f.kind # "first"
<1> DEFINE t == Append(s, f)
           n == Len(s) + 1
<1>1. /\ n \in Nat /\ n \in DOMAIN t /\ t[n] = f /\ Len(t) = n
      /\ \A i \in DOMAIN t : (i \in DOMAIN s /\ i < n /\ t[i] = s[i]) \/ (i = n /\ t[i] = f)
      /\ \A i \in DOMAIN s : i \in DOMAIN t /\ t[i] = s[i] /\ i \in Nat /\ 0 < i /\ i < n
  BY OneMore
<1>2. ASSUME NEW i \in Nat, NEW j \in Nat, Unbroken(t, i, j) PROVE Unbroken(s, i, j)
  BY <1>1, <1>2 DEF Unbroken
<1>3. ASSUME NEW i \in Nat, Unbroken(t, i, n + 1) PROVE Unbroken(s, i, n) /\ (i < n => f.kind # "first")
  BY <1>1, <1>3 DEF Unbroken
<1>4. InOrder(t)
  <2> SUFFICES ASSUME NEW i \in DOMAIN t, NEW j \in DOMAIN t, t[i].kind = "first", t[j].kind = "next",
                      i < j, Unbroken(t, i, j)
               PROVE  t[j].of = t[i].of
    BY DEF InOrder
  <2>0. i \in DOMAIN s /\ t[i] = s[i] /\ i \in Nat /\ j \in Nat
    BY <1>1
  <2>1. CASE j \in DOMAIN s
    BY <2>0, <2>1, <1>1, <1>2 DEF InOrder
  <2>2. CASE j = n
    <3>1. Unbroken(s, i, n)
      BY <2>0, <2>2, <1>2
    <3> QED BY <3>1, <2>0, <2>2, <1>1 DEF EndsWith
  <2> QED BY <2>1, <2>2, <1>1
<1>5. ASSUME NEW r, Continues(s, r), f.kind = "next" /\ NoFirst(s) => r = f.of PROVE Continues(t, r)
  <2> SUFFICES ASSUME NEW j \in DOMAIN t, t[j].kind = "next", Unbroken(t, 0, j)
               PROVE  t[j].of = r
    BY DEF Continues
  <2>1. CASE j \in DOMAIN s
    BY <2>1, <1>1, <1>2, <1>5 DEF Continues
  <2>2. CASE j = n
    BY <2>2, <1>1, <1>2, <1>5 DEF NoFirst
  <2> QED BY <2>1, <2>2, <1>1
<1>6. ASSUME NEW r, f.kind # "first", EndsWith(s, r) PROVE EndsWith(t, r)
  <2> SUFFICES ASSUME NEW i \in DOMAIN t, t[i].kind = "first", Unbroken(t, i, n + 1)
               PROVE  t[i].of = r
    BY <1>1 DEF EndsWith
  <2>1. i \in DOMAIN s /\ t[i] = s[i] /\ i \in Nat
    BY <1>1, <1>6
  <2>2. Unbroken(s, i, n)
    BY <2>1, <1>3
  <2> QED BY <2>1, <2>2, <1>6 DEF EndsWith
<1>7. ASSUME f.kind = "first" PROVE EndsWith(t, f.of)
  <2> SUFFICES ASSUME NEW i \in DOMAIN t, t[i].kind = "first", Unbroken(t, i, n + 1)
               PROVE  t[i].of = f.of
    BY <1>1 DEF EndsWith
  <2>1. i = n \/ (i \in DOMAIN s /\ i \in Nat /\ i < n)
    BY <1>1
  <2> QED BY <2>1, <1>1, <1>3, <1>7
<1>8. ASSUME NoFirst(t) PROVE NoFirst(s) /\ f.kind # "first"
  <2>1. Unbroken(t, 0, n + 1)
    BY <1>1, <1>8 DEF NoFirst
  <2>2. 0 < n
    BY OneMore
  <2> QED BY <2>1, <2>2, <1>3 DEF NoFirst
<1> QED BY <1>4, <1>5, <1>6, <1>7, <1>8

LEMMA NoReply == None \in Replies /\ Opened \in Replies /\ Nothing \in [of : Replies, next : Nat, whole : {TRUE}]
                 /\ Idle \in [of : Replies, next : Nat, go : BOOLEAN]
BY DEF None, Opened, Nothing, Idle, Replies

LEMMA Starts == Init => IInv
<1> SUFFICES ASSUME Init PROVE IInv
  OBVIOUS
<1>1. Typed
  BY NoReply, EmptySeq DEF Init, Typed, Results, Result, Failures
<1>2. Wire /\ Assembling /\ Listed /\ Quiet /\ RecordsAreTheirOwn
  BY DEF Init, Wire, InOrder, Assembling, Listed, Quiet, RecordsAreTheirOwn
<1> QED BY <1>1, <1>2 DEF IInv

(* The end of an exchange: the reassembler is empty, and what is heard later   *)
(* belongs to no reply that is being put together.                             *)
LEMMA Settled ==
  ASSUME Typed, Wire, NEW kind \in Failures \cup {"payload"}, NEW reply \in Replies,
         Settle(kind, reply, TRUE), UNCHANGED sending, toPi' = toPi \/ (toPi # <<>> /\ toPi' = Tail(toPi))
  PROVE  /\ result' \in Results /\ result'.kind = kind /\ assembly' = Nothing
         /\ step' = "settled" /\ Wire' /\ toPi' \in Seq(WireFrames)
<1>1. result' \in Results /\ result'.kind = kind /\ assembly' = Nothing /\ step' = "settled"
  BY DEF Settle, Result, Results
<1>2. toPi' \in Seq(WireFrames) /\ InOrder(toPi') /\ (sending # Idle => EndsWith(toPi', sending.of))
  <2>1. CASE toPi' = toPi
    BY <2>1 DEF Typed, Wire
  <2>2. CASE toPi # <<>> /\ toPi' = Tail(toPi)
    <3>1. toPi \in Seq(WireFrames) /\ InOrder(toPi) /\ (sending # Idle => EndsWith(toPi, sending.of))
      BY DEF Typed, Wire
    <3>2. Tail(toPi) \in Seq(WireFrames)
      BY <3>1, <2>2, Rest
    <3> QED BY <3>1, <3>2, <2>2, HeadHeard
  <2> QED BY <2>1, <2>2
<1> QED BY <1>1, <1>2 DEF Wire

(* The client's two requests, made when nothing is being assembled.            *)
LEMMA Requests ==
  ASSUME Typed, Wire, assembly = Nothing, openSession \/ runTransfer, UNCHANGED <<item, sending, toPi>>
  PROVE  /\ asked' \in Nat /\ inbox' \in Seq(Asks) /\ result' \in Results /\ assembly' = Nothing
         /\ step' \in {"opening", "reading", "settled"} /\ Wire'
         /\ stopped => step' = "settled" /\ inbox' = inbox
<1>1. \A q \in Asks : Append(inbox, q) \in Seq(Asks)
  BY OneMore DEF Typed
<1>2. Ask("session") \in Asks /\ AskRead \in Asks
  <2>1. Ask("session") \in Asks
    BY DEF Asks, Ask
  <2>2. asked + 1 \in Nat /\ item \in Nat
    BY DEF Typed
  <2> QED BY <2>1, <2>2 DEF Asks, AskRead
<1>3. CASE Fails("not-sent") /\ asked' = asked /\ inbox' = inbox
  BY <1>3, Settled, NoReply DEF Fails, Typed, Failures
<1>4. CASE openSession /\ openedOrNot /\ ~stopped
  BY <1>4, <1>1, <1>2 DEF openSession, openedOrNot, Typed, Wire
<1>5. CASE runTransfer /\ ~stopped /\ asked' = asked + 1 /\ inbox' = Append(inbox, AskRead)
           /\ step' = "reading" /\ UNCHANGED <<assembly, result>>
  BY <1>5, <1>1, <1>2 DEF Typed, Wire
<1> QED BY <1>3, <1>4, <1>5 DEF openSession, runTransfer

LEMMA Files ==
  ASSUME IInv, step = "settled", File, UNCHANGED <<stopped, micro, toPi>>
  PROVE  IInv'
<1> DEFINE e == Stored(result)
<1>1. Typed /\ Wire /\ Len(filed) = item - 1 /\ item \in Nat /\ filed \in Seq(Entries) /\ RecordsAreTheirOwn
  BY DEF IInv, Listed, Typed
<1>2. e \in Entries /\ (e.status = "read" => e.about = item)
  <2>1. result \in Results
    BY <1>1 DEF Typed
  <2>2. result.reply.about \in Nat /\ result.whole = TRUE /\ result.kind \in Failures \cup {"payload"}
    BY <2>1 DEF Results, Replies
  <2>3. Status(result) \in Statuses /\ (Status(result) = "read" => result.reply.about = item)
    BY <2>2 DEF Status, Statuses, Failures
  <2> QED BY <2>2, <2>3 DEF Stored, Entries
<1>3. /\ step' \in {"done", "call"} /\ item' = item + 1
      /\ UNCHANGED <<assembly, result, asked, inbox, stopped, sending, toPi>>
      /\ filed' = Append(filed, e) \/ (filed' = filed /\ step' = "done")
  BY DEF File, micro
<1>4. assembly = Nothing
  BY DEF IInv, Assembling
<1>7. item' - 1 = item
  BY <1>1, <1>3
<1>8. ASSUME filed' \in Seq(Entries) PROVE Typed'
  <2>1. item' \in Nat
    BY <1>1, <1>3
  <2>2. result' = result /\ asked' = asked /\ inbox' = inbox /\ toPi' = toPi
        /\ sending' = sending /\ assembly' = assembly
    BY <1>3
  <2> QED BY <1>1, <1>8, <2>1, <2>2 DEF Typed
<1>5. CASE filed' = Append(filed, e)
  <2>1. /\ filed' \in Seq(Entries) /\ Len(filed') = item
        /\ \A i \in DOMAIN filed' : (i \in DOMAIN filed /\ filed'[i] = filed[i])
                                    \/ (i = item /\ filed'[i] = e)
    BY <1>1, <1>2, <1>5, OneMore
  <2>2. RecordsAreTheirOwn'
    BY <2>1, <1>1, <1>2 DEF RecordsAreTheirOwn, Entries
  <2>3. Typed' /\ Listed'
    BY <2>1, <1>3, <1>7, <1>8 DEF Listed
  <2>4. Wire'
    BY <1>1, <1>3 DEF Wire
  <2>5. Assembling' /\ Quiet'
    BY <1>3, <1>4 DEF Assembling, Quiet
  <2> QED BY <2>2, <2>3, <2>4, <2>5 DEF IInv
<1>6. CASE filed' = filed /\ step' = "done"
  <2>1. Typed' /\ Listed'
    BY <1>1, <1>3, <1>6, <1>8 DEF Listed
  <2>2. Wire'
    BY <1>1, <1>3 DEF Wire
  <2>3. Assembling' /\ Quiet' /\ RecordsAreTheirOwn'
    BY <1>1, <1>3, <1>4, <1>6 DEF Assembling, Quiet, RecordsAreTheirOwn
  <2> QED BY <2>1, <2>2, <2>3 DEF IInv
<1> QED BY <1>3, <1>5, <1>6

(* What a step of the client leaves to show, when it files nothing.            *)
LEMMA Goes ==
  ASSUME IInv, Typed', Wire', Assembling', Quiet', UNCHANGED <<item, filed>>, step # "done"
  PROVE  IInv'
BY DEF IInv, Listed, RecordsAreTheirOwn

LEMMA Asked ==
  ASSUME IInv, step \in {"call", "settled"}, openSession \/ runTransfer,
         UNCHANGED <<item, filed, stopped, sending, toPi>>
  PROVE  IInv' /\ (stopped => inbox' = inbox)
<1>1. Typed /\ Wire /\ assembly = Nothing
  BY DEF IInv, Assembling
<1>2. /\ asked' \in Nat /\ inbox' \in Seq(Asks) /\ result' \in Results /\ assembly' = Nothing
      /\ step' \in {"opening", "reading", "settled"} /\ Wire'
      /\ stopped => step' = "settled" /\ inbox' = inbox
  BY <1>1, Requests
<1>3. Typed'
  BY <1>1, <1>2 DEF Typed
<1>4. Assembling' /\ Quiet'
  BY <1>2 DEF Assembling, Quiet
<1> QED BY <1>2, <1>3, <1>4, Goes

(* An exchange settles before its time.                                        *)
LEMMA Ended ==
  ASSUME IInv, NEW kind \in Failures \cup {"payload"}, NEW reply \in Replies, step # "done",
         Settle(kind, reply, TRUE), toPi' = toPi \/ (toPi # <<>> /\ toPi' = Tail(toPi)),
         UNCHANGED <<item, filed, asked, inbox, sending>>
  PROVE  IInv'
<1>1. Typed /\ Wire
  BY DEF IInv
<1>2. result' \in Results /\ assembly' = Nothing /\ step' = "settled" /\ Wire' /\ toPi' \in Seq(WireFrames)
  BY <1>1, Settled
<1>3. Typed'
  BY <1>1, <1>2, NoReply DEF Typed
<1>4. Assembling' /\ Quiet'
  BY <1>2 DEF Assembling, Quiet
<1> QED BY <1>2, <1>3, <1>4, Goes

(* Somebody else's frame, or one the reassembler has no use for.               *)
LEMMA Ignored ==
  ASSUME IInv, toPi # <<>>, toPi' = Tail(toPi), assembly = Nothing,
         UNCHANGED <<item, filed, asked, inbox, sending, result, step, stopped, assembly>>
  PROVE  IInv'
<1>1. toPi \in Seq(WireFrames) /\ InOrder(toPi) /\ (sending # Idle => EndsWith(toPi, sending.of))
  BY DEF IInv, Typed, Wire
<1>2. Tail(toPi) \in Seq(WireFrames)
  BY <1>1, Rest
<1>3. Typed'
  BY <1>2 DEF IInv, Typed
<1>4. Wire'
  BY <1>1, HeadHeard DEF Wire
<1> QED BY <1>3, <1>4 DEF IInv, Assembling, Quiet, Listed, RecordsAreTheirOwn

LEMMA Hears ==
  ASSUME IInv, Hear
  PROVE  IInv' /\ (stopped => inbox' = inbox)
<1> DEFINE f == Head(toPi)
<1>1. /\ toPi # <<>> /\ toPi' = Tail(toPi)
      /\ UNCHANGED <<item, filed, asked, sending, stopped>>
  BY DEF Hear, caller, micro
<1>2. /\ toPi \in Seq(WireFrames) /\ InOrder(toPi) /\ Typed /\ Wire
      /\ f \in WireFrames /\ toPi[1] = f /\ 1 \in DOMAIN toPi /\ Tail(toPi) \in Seq(WireFrames)
  BY <1>1, Rest DEF IInv, Typed, Wire
<1>3. f.of \in Replies /\ f.seq \in Nat /\ f.kind \in {"single", "first", "next"}
  BY <1>2 DEF WireFrames
<1>4. CASE step = "opening"
  <2>1. HearInOpening(f) /\ assembly = Nothing /\ ~stopped
    BY <1>4 DEF Hear, IInv, Assembling, Quiet
  <2>2. CASE UNCHANGED <<client, inbox>>
    BY <1>1, <2>1, <2>2, Ignored DEF client
  <2>3. CASE Fails("opened") \/ Fails("no-session")
    <3>1. UNCHANGED inbox
      BY <2>1, <2>3, <1>4 DEF HearInOpening, client
    <3>2. "opened" \in Failures /\ "no-session" \in Failures
      BY DEF Failures
    <3> QED BY <1>1, <1>4, <2>1, <2>3, <3>1, <3>2, Ended, NoReply DEF Fails
  <2> QED BY <2>1, <2>2, <2>3 DEF HearInOpening
<1>5. CASE step = "reading" /\ f.kind = "single"
  <2>1. Settle("payload", f.of, TRUE) /\ UNCHANGED inbox
    BY <1>5 DEF Hear, HearSingle
  <2> QED BY <1>1, <1>3, <1>5, <2>1, Ended
<1>6. CASE step = "reading" /\ f.kind = "first"
  <2>1. HearFirst(f) /\ ~stopped
    BY <1>6 DEF Hear, IInv, Quiet
  <2>2. CASE Fails("abandoned") /\ UNCHANGED inbox
    <3>1. "abandoned" \in Failures
      BY DEF Failures
    <3> QED BY <1>1, <1>6, <2>1, <2>2, <3>1, Ended, NoReply DEF Fails
  <2>3. CASE assembly' = Begun(f) /\ inbox' = Append(inbox, Ask("flow control")) /\ UNCHANGED <<step, result>>
    <3>1. assembly' \in [of : Replies, next : Nat, whole : {TRUE}] /\ assembly'.of = f.of
      BY <1>3, <2>3 DEF Begun
    <3>2. Ask("flow control") \in Asks
      BY DEF Asks, Ask
    <3>3. inbox' \in Seq(Asks)
      BY <1>2, <2>3, <3>2, OneMore DEF Typed
    <3>4. Typed'
      BY <1>1, <1>2, <2>3, <3>1, <3>3 DEF Typed
    <3>5. InOrder(toPi') /\ Continues(toPi', f.of)
      BY <1>1, <1>2, <1>6, HeadHeard
    <3>6. (sending # Idle => EndsWith(toPi', sending.of))
          /\ (sending # Idle /\ NoFirst(toPi') => sending.of = f.of)
      BY <1>1, <1>2, <1>6, HeadHeard DEF Wire
    <3>7. Wire'
      BY <1>1, <3>1, <3>5, <3>6 DEF Wire
    <3>8. Assembling' /\ Quiet'
      BY <1>1, <1>6, <2>1, <2>3 DEF Assembling, Quiet
    <3> QED BY <1>1, <1>6, <2>1, <2>3, <3>4, <3>7, <3>8, Goes
  <2> QED BY <2>1, <2>2, <2>3 DEF HearFirst, FlowControl
<1>7. CASE step = "reading" /\ f.kind = "next"
  <2>1. HearNext(f) /\ ~stopped /\ UNCHANGED inbox
    BY <1>7 DEF Hear, HearNext, IInv, Quiet
  <2>2. CASE assembly = Nothing
    BY <1>1, <2>1, <2>2, Ignored DEF HearNext, client
  <2>3. CASE assembly # Nothing
    <3>1. Unbroken(toPi, 0, 1)
      BY <1>2 DEF Unbroken
    <3>2. f.of = assembly.of /\ assembly.whole = TRUE /\ assembly.of \in Replies /\ assembly.next \in Nat
      BY <1>2, <1>7, <2>3, <3>1 DEF Wire, Continues, Typed
    <3>3. CASE Fails("abandoned")
      <4>1. "abandoned" \in Failures
        BY DEF Failures
      <4> QED BY <1>1, <1>7, <2>1, <3>3, <4>1, Ended, NoReply DEF Fails
    <3>4. CASE Settle("payload", assembly.of, TRUE)
      BY <1>1, <1>7, <2>1, <3>2, <3>4, Ended
    <3>5. CASE assembly' = [assembly EXCEPT !.next = @ + 1, !.whole = TRUE] /\ UNCHANGED <<step, result>>
      <4>1. assembly' \in [of : Replies, next : Nat, whole : {TRUE}] /\ assembly'.of = assembly.of
        <5>1. assembly \in [of : Replies, next : Nat, whole : {TRUE}]
          BY <1>2 DEF Typed
        <5>2. assembly.next + 1 \in Nat
          BY <3>2
        <5> QED BY <5>1, <5>2, <3>5
      <4>2. Typed'
        BY <1>1, <1>2, <2>1, <3>5, <4>1 DEF Typed
      <4>3. InOrder(toPi') /\ Continues(toPi', assembly.of)
            /\ (sending # Idle => EndsWith(toPi', sending.of))
            /\ (sending # Idle /\ NoFirst(toPi') => sending.of = assembly.of)
        BY <1>1, <1>2, <1>7, <2>3, HeadHeard DEF Wire
      <4>4. Wire'
        BY <1>1, <4>1, <4>3 DEF Wire
      <4>5. Assembling' /\ Quiet'
        BY <1>1, <1>7, <2>1, <3>5 DEF Assembling, Quiet
      <4> QED BY <1>1, <1>7, <2>1, <3>5, <4>2, <4>4, <4>5, Goes
    <3> QED BY <2>1, <2>3, <3>2, <3>3, <3>4, <3>5 DEF HearNext
  <2> QED BY <2>2, <2>3
<1>8. CASE step \notin {"opening", "reading"}
  <2>1. UNCHANGED <<client, inbox>> /\ assembly = Nothing
    BY <1>8 DEF Hear, IInv, Assembling
  <2> QED BY <1>1, <2>1, Ignored DEF client
<1> QED BY <1>3, <1>4, <1>5, <1>6, <1>7, <1>8

(* The micro's side of the wire.                                               *)
LEMMA Sent ==
  ASSUME IInv, NEW f \in WireFrames, Says(f), f.kind = "next" => sending # Idle /\ f.of = sending.of,
         sending' \in [of : Replies, next : Nat, go : BOOLEAN], inbox' \in Seq(Asks),
         \/ sending' = Idle
         \/ sending # Idle /\ sending'.of = sending.of /\ f.kind # "first"
         \/ sending = Idle /\ sending' = Idle
         \/ f.kind = "first" /\ sending'.of = f.of,
         UNCHANGED <<item, filed, asked, result, step, stopped, assembly>>
  PROVE  IInv'
<1>1. toPi \in Seq(WireFrames) /\ InOrder(toPi) /\ toPi' = Append(toPi, f)
      /\ (f.kind = "next" => EndsWith(toPi, f.of))
  BY DEF IInv, Typed, Wire, Says
<1>2. toPi' \in Seq(WireFrames)
  BY <1>1, OneMore
<1>3. Typed'
  BY <1>2 DEF IInv, Typed
<1>4. InOrder(toPi')
  BY <1>1, Joins
<1>5. assembly # Nothing => Continues(toPi', assembly.of)
  BY <1>1, Joins DEF IInv, Wire
<1>6. sending' # Idle => EndsWith(toPi', sending'.of)
  BY <1>1, Joins DEF IInv, Wire
<1>7. sending' # Idle /\ assembly # Nothing /\ NoFirst(toPi') => sending'.of = assembly.of
  BY <1>1, Joins DEF IInv, Wire
<1>8. Wire'
  BY <1>4, <1>5, <1>6, <1>7 DEF Wire
<1> QED BY <1>3, <1>8 DEF IInv, Assembling, Quiet, Listed, RecordsAreTheirOwn

(* The micro says nothing. *)
LEMMA Silent ==
  ASSUME IInv, sending' \in [of : Replies, next : Nat, go : BOOLEAN], inbox' \in Seq(Asks),
         sending' = Idle \/ (sending # Idle /\ sending'.of = sending.of),
         UNCHANGED <<item, filed, asked, result, step, stopped, assembly, toPi>>
  PROVE  IInv'
<1>1. Typed'
  BY DEF IInv, Typed
<1>2. Wire'
  BY DEF IInv, Wire
<1> QED BY <1>1, <1>2 DEF IInv, Assembling, Quiet, Listed, RecordsAreTheirOwn

LEMMA MicroSteps ==
  ASSUME IInv, MicroHears \/ MicroSends
  PROVE  IInv' /\ (Len(inbox') <= Len(inbox))
<1>1. sending \in [of : Replies, next : Nat, go : BOOLEAN] /\ inbox \in Seq(Asks) /\ Len(inbox) \in Nat
  BY LenProperties DEF IInv, Typed
<1>2. CASE MicroHears
  <2> DEFINE m == Head(inbox)
  <2>1. /\ inbox # <<>> /\ inbox' = Tail(inbox)
        /\ UNCHANGED <<item, filed, asked, result, step, stopped, assembly>>
    BY <1>2 DEF MicroHears, caller, client
  <2>2. m \in Asks /\ inbox' \in Seq(Asks) /\ Len(inbox') = Len(inbox) - 1
    BY <1>1, <2>1, Rest
  <2>3. m.n \in Nat /\ m.about \in Nat
    BY <2>2 DEF Asks
  <2>4. ASSUME Says(Frame("single", Opened, 0)), UNCHANGED sending PROVE IInv'
    <3>1. Frame("single", Opened, 0) \in WireFrames /\ Frame("single", Opened, 0).kind = "single"
      BY NoReply DEF Frame, WireFrames
    <3> QED BY <1>1, <2>1, <2>2, <2>4, <3>1, Sent
  <2>5. ASSUME NEW a \in Answers(m), Says(Frame("single", a, 0)), sending' = Idle PROVE IInv'
    <3>1. a \in Replies
      BY <2>3 DEF Answers, Replies
    <3>2. Frame("single", a, 0) \in WireFrames /\ Frame("single", a, 0).kind = "single"
      BY <3>1 DEF Frame, WireFrames
    <3> QED BY <2>1, <2>2, <2>5, <3>2, NoReply, Sent
  <2>6. ASSUME Says(Frame("first", Record(m), 0)),
               sending' = [of |-> Record(m), next |-> 0, go |-> FALSE] PROVE IInv'
    <3>1. Record(m) \in Replies
      BY <2>3 DEF Record, Replies
    <3>2. /\ Frame("first", Record(m), 0) \in WireFrames /\ Frame("first", Record(m), 0).kind = "first"
          /\ Frame("first", Record(m), 0).of = Record(m)
      BY <3>1 DEF Frame, WireFrames
    <3>3. sending' \in [of : Replies, next : Nat, go : BOOLEAN] /\ sending'.of = Record(m)
      BY <2>6, <3>1
    <3> QED BY <2>1, <2>2, <2>6, <3>2, <3>3, Sent
  <2>7. ASSUME UNCHANGED toPi, sending' = [sending EXCEPT !.go = sending # Idle] PROVE IInv'
    <3>1. sending' \in [of : Replies, next : Nat, go : BOOLEAN] /\ sending'.of = sending.of
      BY <1>1, <2>7
    <3>2. ASSUME sending = Idle PROVE sending' = Idle
      <4>1. sending' = [Idle EXCEPT !.go = FALSE]
        BY <2>7, <3>2
      <4> QED BY <4>1 DEF Idle
    <3> QED BY <2>1, <2>2, <2>7, <3>1, <3>2, Silent
  <2>8. ASSUME UNCHANGED toPi, sending' \in {sending, Idle} PROVE IInv'
    BY <1>1, <2>1, <2>2, <2>8, NoReply, Silent
  <2>9. IInv'
    BY <1>2, <2>4, <2>5, <2>6, <2>7, <2>8 DEF MicroHears
  <2> QED BY <1>1, <2>2, <2>9
<1>3. CASE MicroSends
  <2> DEFINE f == Frame("next", sending.of, sending.next)
  <2>1. /\ sending.go /\ UNCHANGED <<item, filed, asked, result, step, stopped, assembly, inbox>>
        /\ sending' = IF sending.next + 1 = Nexts THEN Idle ELSE [sending EXCEPT !.next = @ + 1]
        /\ Says(f) \/ UNCHANGED toPi
    BY <1>3 DEF MicroSends, caller, client
  <2>2. sending # Idle
    BY <2>1 DEF Idle
  <2>3. sending' \in [of : Replies, next : Nat, go : BOOLEAN] /\ (sending' = Idle \/ sending'.of = sending.of)
    <3>1. sending.next + 1 \in Nat
      BY <1>1
    <3>2. [sending EXCEPT !.next = @ + 1] \in [of : Replies, next : Nat, go : BOOLEAN]
          /\ [sending EXCEPT !.next = @ + 1].of = sending.of
      BY <1>1, <3>1
    <3> QED BY <2>1, <3>2, NoReply
  <2>4. f \in WireFrames /\ f.kind = "next" /\ f.of = sending.of
    BY <1>1 DEF Frame, WireFrames
  <2>5. IInv'
    BY <1>1, <2>1, <2>2, <2>3, <2>4, Sent, Silent
  <2> QED BY <1>1, <2>1, <2>5
<1> QED BY <1>2, <1>3

(* A timer runs only for an exchange in flight. *)
Timed == timer # "none" => /\ timer \in {"session", "first-reply", "reply-transfer"}
                           /\ step \in {"opening", "reading"}

LEMMA TimedStep == Timed /\ [Next]_vars => Timed'
<1> SUFFICES ASSUME Timed, [Next]_vars PROVE Timed'
  OBVIOUS
<1>1. ASSUME UNCHANGED <<step, timer>> PROVE Timed'
  BY <1>1 DEF Timed
<1>2. ASSUME NEW kind, NEW reply, NEW whole, Settle(kind, reply, whole) PROVE Timed'
  BY <1>2 DEF Settle, Timed
<1>3. ASSUME openSession \/ runTransfer PROVE Timed'
  BY <1>3, <1>2 DEF openSession, openedOrNot, runTransfer, Fails, Timed
<1>4. CASE NextCall
  BY <1>4, <1>3 DEF NextCall, ensureSession, Timed
<1>5. CASE Continue
  BY <1>5, <1>3 DEF Continue, RunOpened, AskAgain, ensureSession, File, Timed
<1>6. CASE Hear
  <2> DEFINE f == Head(toPi)
  <2>1. CASE step = "opening"
    BY <1>6, <2>1, <1>1, <1>2 DEF Hear, HearInOpening, client, Fails
  <2>2. CASE step = "reading" /\ HearSingle(f)
    BY <2>2, <1>2 DEF HearSingle
  <2>3. CASE step = "reading" /\ HearFirst(f)
    BY <2>3, <1>2 DEF HearFirst, FlowControl, Fails, Timed
  <2>4. CASE step = "reading" /\ HearNext(f)
    BY <2>4, <1>1, <1>2 DEF HearNext, client, Fails
  <2>5. CASE UNCHANGED client
    BY <2>5, <1>1 DEF client
  <2> QED BY <1>6, <2>1, <2>2, <2>3, <2>4, <2>5 DEF Hear
<1>7. CASE TimerFires
  BY <1>7, <1>2 DEF TimerFires, Fails
<1>8. CASE stop
  BY <1>8, <1>1, <1>2 DEF stop, Fails, client
<1>9. CASE GoStale \/ MicroHears \/ MicroSends \/ UNCHANGED vars
  BY <1>9, <1>1 DEF GoStale, MicroHears, MicroSends, vars, client
<1> QED BY <1>4, <1>5, <1>6, <1>7, <1>8, <1>9 DEF Next

LEMMA Steps ==
  ASSUME IInv, Timed, [Next]_vars
  PROVE  IInv' /\ (stopped => Len(inbox') <= Len(inbox))
<1>0. Len(inbox) \in Nat
  BY LenProperties DEF IInv, Typed
<1>1. CASE UNCHANGED vars
  <2>1. UNCHANGED <<item, filed, asked, result, step, stopped, assembly, toPi, sending, inbox>>
    BY <1>1 DEF vars, caller, client, micro
  <2>2. Typed' /\ Wire'
    BY <2>1 DEF IInv, Typed, Wire
  <2> QED BY <1>0, <2>1, <2>2 DEF IInv, Assembling, Quiet, Listed, RecordsAreTheirOwn
<1>2. CASE NextCall
  <2>1. UNCHANGED <<item, filed, stopped, toPi, sending>> /\ step = "call"
    BY <1>2 DEF NextCall, caller, micro
  <2>2. CASE openSession \/ runTransfer
    BY <1>0, <2>1, <2>2, Asked
  <2>3. CASE step' = "done" /\ UNCHANGED <<assembly, result, asked, inbox>>
    <3>1. Typed' /\ Wire'
      BY <2>1, <2>3 DEF IInv, Typed, Wire
    <3>2. Assembling' /\ Quiet'
      BY <2>1, <2>3 DEF IInv, Assembling, Quiet
    <3> QED BY <1>0, <2>1, <2>3, <3>1, <3>2, Goes
  <2> QED BY <1>2, <2>2, <2>3 DEF NextCall, ensureSession
<1>3. CASE Continue
  <2>1. UNCHANGED <<stopped, micro, toPi>> /\ step = "settled" /\ sending' = sending
    BY <1>3 DEF Continue, micro
  <2>2. CASE RunOpened
    BY <1>0, <2>1, <2>2, Asked DEF RunOpened, caller
  <2>3. CASE AskAgain
    BY <1>0, <2>1, <2>3, Asked DEF AskAgain, ensureSession
  <2>4. CASE File
    <3>1. inbox' = inbox
      BY <2>4 DEF File
    <3> QED BY <1>0, <2>1, <2>4, <3>1, Files
  <2> QED BY <1>3, <2>2, <2>3, <2>4 DEF Continue
<1>4. CASE Hear
  BY <1>0, <1>4, Hears
<1>5. CASE TimerFires
  <2>1. UNCHANGED <<item, filed, asked, inbox, sending, toPi, stopped>>
    BY <1>5 DEF TimerFires, caller, micro
  <2>0. step # "done"
    BY <1>5 DEF TimerFires, Timed
  <2>2. PICK kind \in {"no-session", "no-response", "stalled"} : Fails(kind)
    BY <1>5 DEF TimerFires, Timed
  <2>3. kind \in Failures
    BY DEF Failures
  <2>4. IInv'
    BY <2>0, <2>1, <2>2, <2>3, Ended, NoReply DEF Fails
  <2> QED BY <1>0, <2>1, <2>4
<1>6. CASE GoStale
  <2>1. UNCHANGED <<item, filed, asked, result, step, stopped, assembly, toPi, sending, inbox>>
    BY <1>6 DEF GoStale, caller, micro
  <2>2. Typed' /\ Wire'
    BY <2>1 DEF IInv, Typed, Wire
  <2> QED BY <1>0, <2>1, <2>2 DEF IInv, Assembling, Quiet, Listed, RecordsAreTheirOwn
<1>7. CASE stop
  <2>1. UNCHANGED <<item, filed, asked, inbox, sending, toPi>> /\ step # "done" /\ stopped' = TRUE
    BY <1>7 DEF stop, caller, micro
  <2>2. CASE step \in {"opening", "reading"}
    <3>1. PICK kind \in {"not-sent", "cancelled"} : Fails(kind)
      BY <1>7, <2>2 DEF stop
    <3>2. kind \in Failures
      BY DEF Failures
    <3>3. IInv'
      BY <2>1, <3>1, <3>2, Ended, NoReply DEF Fails
    <3> QED BY <1>0, <2>1, <3>3
  <2>3. CASE step \notin {"opening", "reading"}
    <3>1. UNCHANGED client
      BY <1>7, <2>3 DEF stop
    <3>2. Typed' /\ Wire'
      BY <2>1, <3>1 DEF IInv, Typed, Wire, client
    <3>3. Assembling' /\ Quiet'
      BY <2>1, <2>3, <3>1 DEF IInv, Assembling, Quiet, client
    <3> QED BY <1>0, <2>1, <3>2, <3>3, Goes
  <2> QED BY <2>2, <2>3
<1>8. CASE MicroHears \/ MicroSends
  BY <1>8, MicroSteps
<1> QED BY <1>1, <1>2, <1>3, <1>4, <1>5, <1>6, <1>7, <1>8 DEF Next

LEMMA Holds == Spec => [](IInv /\ Timed)
<1>1. Init => IInv /\ Timed
  BY Starts DEF Init, Timed
<1>2. IInv /\ Timed /\ [Next]_vars => (IInv /\ Timed)'
  BY Steps, TimedStep
<1> QED BY <1>1, <1>2, PTL DEF Spec

(* For every number of items, frames and losses, a record is filed under the   *)
(* identifier or the component that was asked for, and all its frames are of    *)
(* one reply (param-codec.ts decodeParameterReply, lifetime-read.ts             *)
(* toStoredReply, extended-iso-tp.ts #pushFirstFrame).                          *)
THEOREM RecordsHold == Spec => []RecordsAreTheirOwn
<1>1. IInv => RecordsAreTheirOwn
  BY DEF IInv
<1> QED BY Holds, <1>1, PTL

(* And a stopped client puts nothing on the bus, whichever await stop() found   *)
(* it in (kwp-client.ts stop, exchange).                                        *)
THEOREM NothingAfterStop == Spec => QuietAfterStop
<1>1. IInv /\ Timed /\ [Next]_vars => [stopped => Len(inbox') <= Len(inbox)]_vars
  BY Steps
<1> QED BY Holds, <1>1, PTL DEF Spec, QuietAfterStop
=============================================================================
