---------------------------- MODULE BleServer ----------------------------
(* The dashboard over Bluetooth of src/ble-server: phones say HELLO, one of     *)
(* them owns the session, its requests are tunnelled to the loopback server and  *)
(* the answers sealed, queued and notified.  Every crypto step and every call to  *)
(* bluetoothd is awaited, and the session may end or be replaced meanwhile.        *)
(*                                                                                 *)
(* The code compares the epoch and the generation a task began in with the         *)
(* present ones, and both move together; here a task carries `fresh`, which         *)
(* turns FALSE at every such move.                                                  *)
EXTENDS Naturals, Sequences

CONSTANTS Phones, NoPhone,
          Kinds,            \* what the owner's envelopes ask for
          MaxInbound,       \* Admission.take, for the owner's envelopes
          MaxRequests,      \* MAX_REQUESTS_IN_FLIGHT
          MaxSeals,         \* pending seals before a session is ended
          MaxQueued,        \* MAX_QUEUED_BYTES, in frames
          HighWater,        \* RESPONSE_HIGH_WATER_BYTES, in frames
          MaxDisturbances   \* resets, unsubscriptions, lost signals, failed lookups and stops
                            \* (a bound of the model)

ASSUME BleBounds ==
  /\ Kinds \subseteq {"request", "subscribe", "unsubscribe"}
  /\ NoPhone \notin Phones
  /\ {MaxInbound, MaxRequests, MaxSeals, MaxQueued} \subseteq Nat \ {0}
  /\ HighWater \in Nat /\ HighWater < MaxQueued /\ MaxDisturbances \in Nat

VARIABLES owner, checking, subscribed, stopped,   \* ServerContext, Owner
          hellos, inbound, requests, seals,       \* tasks under way
          queue, stream,                          \* OutboundQueue; the telemetry of a session
          linked, signals,                        \* the radio; disconnections bluetoothd has yet to tell
          asked,                                  \* history: a lookup asked after this session's phone
          disturbances                            \* the budget

radio == <<linked, signals, disturbances>>
work == <<requests, seals, queue, stream>>
vars == <<owner, checking, subscribed, stopped, hellos, inbound, requests, seals,
          queue, stream, linked, signals, asked, disturbances>>

Slots == 1..MaxRequests
NoHello == [at |-> "none", about |-> NoPhone, fresh |-> FALSE]
NoRequest == [at |-> "free", sealing |-> FALSE, fresh |-> FALSE]
(* `own`: of the session that has the radio. *)
Frames == [what : {"refused", "welcome", "sealed"}, own : BOOLEAN]

TypeOK ==
  /\ owner \in Phones \union {NoPhone} /\ checking \in BOOLEAN
  /\ subscribed \in BOOLEAN /\ stopped \in BOOLEAN
  /\ hellos \in [Phones -> [at : {"none", "verify", "lookup", "commit"}, about : Phones \union {NoPhone},
                            fresh : BOOLEAN]]
  /\ inbound \in Seq([fresh : BOOLEAN])
  /\ requests \in [Slots -> [at : {"free", "head", "body", "end"}, sealing : BOOLEAN, fresh : BOOLEAN]]
  /\ seals \in Seq([slot : Slots \union {0}, fresh : BOOLEAN])
  /\ queue \in Seq(Frames) /\ stream \in BOOLEAN
  /\ linked \in [Phones -> BOOLEAN] /\ signals \subseteq Phones
  /\ asked \in BOOLEAN /\ disturbances \in 0..MaxDisturbances

Init ==
  /\ owner = NoPhone /\ checking = FALSE /\ subscribed = FALSE /\ stopped = FALSE
  /\ hellos = [p \in Phones |-> NoHello] /\ inbound = <<>>
  /\ requests = [r \in Slots |-> NoRequest] /\ seals = <<>> /\ queue = <<>> /\ stream = FALSE
  /\ linked = [p \in Phones |-> FALSE] /\ signals = {}
  /\ asked = FALSE /\ disturbances = 0

-----------------------------------------------------------------------------
(* What every task looks like once the epoch and the generation have moved. *)
StaleHellos(tasks) == [p \in Phones |-> [tasks[p] EXCEPT !.fresh = FALSE]]
StaleInbound == [i \in DOMAIN inbound |-> [inbound[i] EXCEPT !.fresh = FALSE]]
StaleRequests(slots) == [r \in Slots |-> [slots[r] EXCEPT !.fresh = FALSE]]
StaleSeals(chain) == [i \in DOMAIN chain |-> [chain[i] EXCEPT !.fresh = FALSE]]

(* endSession but for the stream, with the tasks as the caller leaves them. *)
SessionOver(tasks, envelopes, slots, chain) ==
  /\ owner' = NoPhone /\ asked' = FALSE
  /\ queue' = <<>>
  /\ hellos' = StaleHellos(tasks)
  /\ inbound' = [i \in DOMAIN envelopes |-> [envelopes[i] EXCEPT !.fresh = FALSE]]
  /\ requests' = StaleRequests(slots) /\ seals' = StaleSeals(chain)

(* endSession: it stops the stream there is. *)
EndSession(tasks, envelopes, slots, chain) ==
  SessionOver(tasks, envelopes, slots, chain) /\ stream' = FALSE

(* report: a clear REFUSED, if anybody listens and the queue has room. *)
Refused ==
  queue' = IF subscribed /\ Len(queue) < MaxQueued
           THEN Append(queue, [what |-> "refused", own |-> TRUE]) ELSE queue

-----------------------------------------------------------------------------
(* The radio: links come and go, and bluetoothd tells of a lost one before   *)
(* anything the phone says on the next.                                        *)
LinkUp(p) ==
  /\ ~linked[p] /\ p \notin signals
  /\ linked' = [linked EXCEPT ![p] = TRUE]
  /\ UNCHANGED <<owner, checking, subscribed, stopped, hellos, inbound, work, signals, asked, disturbances>>

LinkLost(p) ==
  /\ linked[p]
  /\ linked' = [linked EXCEPT ![p] = FALSE] /\ signals' = signals \union {p}
  /\ UNCHANGED <<owner, checking, subscribed, stopped, hellos, inbound, work, asked, disturbances>>

(* onDeviceDisconnected. *)
DeviceDisconnected(p) ==
  /\ p \in signals /\ signals' = signals \ {p}
  /\ IF owner = p
     THEN EndSession(hellos, inbound, requests, seals)
     ELSE UNCHANGED <<owner, asked, hellos, inbound, work>>
  /\ UNCHANGED <<checking, subscribed, stopped, linked, disturbances>>

SignalLost(p) ==
  /\ p \in signals /\ signals' = signals \ {p}
  /\ disturbances < MaxDisturbances /\ disturbances' = disturbances + 1
  /\ UNCHANGED <<owner, checking, subscribed, stopped, hellos, inbound, work, linked, asked>>

(* StartNotify. *)
Subscribed ==
  /\ ~subscribed /\ subscribed' = TRUE
  /\ UNCHANGED <<owner, checking, stopped, hellos, inbound, work, radio, asked>>

(* StopNotify and the bus's error unsubscribe; a registration replaced leaves the *)
(* subscription alone.  Each ends the session.                                      *)
Reset ==
  /\ disturbances < MaxDisturbances /\ disturbances' = disturbances + 1
  /\ subscribed' \in {FALSE, subscribed}
  /\ EndSession(hellos, inbound, requests, seals)
  /\ UNCHANGED <<checking, stopped, linked, signals>>

Stop ==
  /\ disturbances < MaxDisturbances /\ disturbances' = disturbances + 1
  /\ ~stopped /\ stopped' = TRUE
  /\ EndSession(hellos, inbound, requests, seals)
  /\ UNCHANGED <<checking, subscribed, linked, signals>>

-----------------------------------------------------------------------------
(* receiveFrame with a complete HELLO. *)
Hello(p) ==
  /\ linked[p] /\ ~stopped /\ hellos[p] = NoHello
  /\ hellos' = [hellos EXCEPT ![p] = [NoHello EXCEPT !.at = "verify", !.fresh = TRUE]]
  /\ UNCHANGED <<owner, checking, subscribed, stopped, inbound, work, radio, asked>>

Done(p) == [hellos EXCEPT ![p] = NoHello]
At(p, step) == [hellos EXCEPT ![p].at = step]
Live(p) == hellos[p].fresh /\ ~stopped

(* receiveHello once verifyHello has checked the proof, which fits unless the    *)
(* phone read its INFO before the last commit, or has another key: dropped,        *)
(* refused, on to ask about another owner (one question at a time), or on to commit. *)
HelloVerified(p, proof) ==
  /\ hellos[p].at = "verify"
  /\ LET refuse == proof => owner \notin {NoPhone, p} /\ checking
     IN IF Live(p) /\ ~refuse
        THEN IF owner \in {NoPhone, p}
             THEN hellos' = At(p, "commit") /\ UNCHANGED <<checking, asked, queue>>
             ELSE /\ hellos' = [hellos EXCEPT ![p].at = "lookup", ![p].about = owner]
                  /\ checking' = TRUE /\ asked' = TRUE /\ UNCHANGED queue
        ELSE /\ hellos' = Done(p)
             /\ IF Live(p) THEN Refused ELSE UNCHANGED queue
             /\ UNCHANGED <<checking, asked>>
  /\ UNCHANGED <<owner, subscribed, stopped, inbound, requests, seals, stream, radio>>

(* The previous owner goes; the HELLO is verified again in the epoch that begins. *)
Evict(p) == /\ owner' = NoPhone /\ asked' = FALSE /\ stream' = FALSE /\ queue' = <<>>
            /\ hellos' = [StaleHellos(hellos) EXCEPT ![p] = [hellos[p] EXCEPT !.at = "commit", !.about = NoPhone]]
            /\ inbound' = StaleInbound
            /\ requests' = StaleRequests(requests) /\ seals' = StaleSeals(seals)

\* Mutant: whoever owns the session when the answer comes is meant.
LookupEndsStale(p, connected) ==
  /\ hellos[p].at = "lookup" /\ checking' = FALSE
  /\ IF ~connected /\ ~stopped
     THEN Evict(p)
     ELSE /\ hellos' = Done(p)
          /\ IF Live(p) THEN Refused ELSE UNCHANGED queue
          /\ UNCHANGED <<owner, inbound, requests, seals, stream, asked>>

(* Owner.connected has an answer, or none in time: an epoch that moved makes it *)
(* nobody's, a live owner refuses the HELLO.                                      *)
LookupEnds(p, connected) ==
  /\ hellos[p].at = "lookup" /\ checking' = FALSE
  /\ IF Live(p) /\ ~connected
     THEN Evict(p)
     ELSE /\ hellos' = Done(p)
          /\ IF Live(p) THEN Refused ELSE UNCHANGED queue
          /\ UNCHANGED <<owner, inbound, requests, seals, stream, asked>>

(* readConnected; bluetoothd has told of a lost link before it answers for it. *)
LookupAnswers(p) ==
  /\ hellos[p].about \in Phones \ signals
  /\ LookupEnds(p, linked[hellos[p].about])
  /\ UNCHANGED <<subscribed, stopped, radio>>

\* Mutant: the flag is put down by an answer only.
LookupFailsChecking(p) ==
  /\ disturbances < MaxDisturbances /\ disturbances' = disturbances + 1
  /\ hellos[p].at = "lookup" /\ UNCHANGED checking
  /\ IF Live(p)
     THEN Evict(p)
     ELSE hellos' = Done(p) /\ UNCHANGED <<owner, inbound, requests, seals, stream, asked, queue>>
  /\ UNCHANGED <<subscribed, stopped, linked, signals>>

(* The lookup fails, or takes longer than its 3 s. *)
LookupFails(p) ==
  /\ disturbances < MaxDisturbances /\ disturbances' = disturbances + 1
  /\ LookupEnds(p, FALSE)
  /\ UNCHANGED <<subscribed, stopped, linked, signals>>

\* Mutant: what was queued for the session before stays.
HelloCommitsQueueKept(p) ==
  /\ hellos[p].at = "commit"
  /\ IF Live(p)
     THEN /\ owner' = p /\ asked' = FALSE
          /\ hellos' = StaleHellos(Done(p)) /\ inbound' = StaleInbound
          /\ requests' = StaleRequests(requests) /\ seals' = StaleSeals(seals)
          /\ stream' = FALSE
          /\ queue' = [i \in DOMAIN queue |-> [queue[i] EXCEPT !.own = FALSE]]
     ELSE /\ hellos' = Done(p)
          /\ UNCHANGED <<owner, asked, inbound, work>>
  /\ UNCHANGED <<checking, subscribed, stopped, linked, signals, disturbances>>

(* commitHello and what follows it: the session is replaced, the nonce rotated, *)
(* the stream stopped, the queue cleared for the WELCOME.                         *)
HelloCommits(p) ==
  /\ hellos[p].at = "commit"
  /\ IF Live(p)
     THEN /\ owner' = p /\ asked' = FALSE
          /\ hellos' = StaleHellos(Done(p)) /\ inbound' = StaleInbound
          /\ requests' = StaleRequests(requests) /\ seals' = StaleSeals(seals)
          /\ stream' = FALSE
          /\ queue' = IF subscribed THEN <<[what |-> "welcome", own |-> TRUE]>> ELSE <<>>
     ELSE /\ hellos' = Done(p)
          /\ UNCHANGED <<owner, asked, inbound, work>>
  /\ UNCHANGED <<checking, subscribed, stopped, linked, signals, disturbances>>

-----------------------------------------------------------------------------
(* receiveFrame with an envelope of the owner's. *)
Envelope(p) ==
  /\ linked[p] /\ owner = p /\ ~stopped /\ Len(inbound) < MaxInbound
  /\ inbound' = Append(inbound, [fresh |-> TRUE])
  /\ UNCHANGED <<owner, checking, subscribed, stopped, hellos, work, radio, asked>>

Advanced(r) ==
  [requests EXCEPT ![r] = CASE @.at = "head" -> [@ EXCEPT !.at = "body", !.sealing = FALSE]
                            [] @.at = "body" -> [@ EXCEPT !.at = "end", !.sealing = FALSE]
                            [] OTHER -> NoRequest]

(* sendSealed, `n` times in a row, `slots` being the requests once it has        *)
(* returned: dropped for a session that ended, queued for sealing, or one too      *)
(* many.  A caller that `streams` installs its stream when it has returned.         *)
SendSealed(r, n, fresh, slots, envelopes, streams) ==
  LET chain == seals \o [i \in 1..n |-> [slot |-> r, fresh |-> TRUE]]
  IN IF stopped \/ ~fresh \/ ~subscribed
     THEN /\ requests' = slots /\ inbound' = envelopes /\ stream' = (stream \/ streams)
          /\ UNCHANGED <<owner, asked, hellos, seals, queue>>
     ELSE IF Len(chain) > MaxSeals
     THEN /\ SessionOver(hellos, envelopes, slots, SubSeq(chain, 1, MaxSeals))
          /\ stream' = streams
     ELSE /\ seals' = chain /\ stream' = (stream \/ streams)
          /\ requests' = IF r = 0 THEN slots ELSE [requests EXCEPT ![r].sealing = TRUE]
          /\ inbound' = envelopes
          /\ UNCHANGED <<owner, asked, hellos, queue>>

(* startRequest: a free slot, or an answer, head and end, that there is none. *)
StartRequest ==
  LET free == {r \in Slots : requests[r].at = "free"}
  IN IF free = {}
     THEN SendSealed(0, 2, TRUE, requests, Tail(inbound), FALSE)
     ELSE /\ requests' = [requests EXCEPT ![CHOOSE r \in free : TRUE] =
                            [at |-> "head", sealing |-> FALSE, fresh |-> TRUE]]
          /\ inbound' = Tail(inbound) /\ UNCHANGED <<owner, asked, hellos, seals, queue, stream>>

(* The head of the inbound chain is opened and dispatched.  A subscription      *)
(* sends its first snapshot before its stream is anybody's to stop.               *)
Dispatch(what) ==
  /\ inbound # <<>>
  /\ LET live == Head(inbound).fresh /\ ~stopped
     IN \/ /\ ~live \/ (what = "subscribe" /\ stream)
           /\ inbound' = Tail(inbound) /\ UNCHANGED <<owner, asked, hellos, work>>
        \/ live /\ what = "request" /\ StartRequest
        \/ /\ live /\ what = "subscribe" /\ ~stream
           /\ SendSealed(0, 1, TRUE, requests, Tail(inbound), TRUE)
        \/ /\ live /\ what = "unsubscribe" /\ stream' = FALSE
           /\ inbound' = Tail(inbound) /\ UNCHANGED <<owner, asked, hellos, requests, seals, queue>>
  /\ UNCHANGED <<checking, subscribed, stopped, radio>>

(* startTelemetryStream: heartbeats and patches, until it is stopped. *)
StreamSends ==
  /\ stream
  /\ SendSealed(0, 1, TRUE, requests, inbound, FALSE)
  /\ UNCHANGED <<checking, subscribed, stopped, radio>>

(* forwardRequest: head, body and end of the loopback's answer, each once the one *)
(* before is queued; a body waits for room unless the session ended (waitForRoom). *)
Answer(r) ==
  /\ requests[r].at # "free" /\ ~requests[r].sealing
  /\ requests[r].at = "body" /\ requests[r].fresh => Len(queue) <= HighWater
  /\ SendSealed(r, 1, requests[r].fresh, Advanced(r), inbound, FALSE)
  /\ UNCHANGED <<checking, subscribed, stopped, radio>>

(* The next of the outbound chain is sealed and queued, in the order of the     *)
(* counters; a session without an owner seals nothing, and an output that is full *)
(* ends the session.                                                              *)
Seal ==
  /\ seals # <<>>
  /\ LET head == Head(seals)
         slots == IF head.slot = 0 THEN requests ELSE Advanced(head.slot)
     IN IF ~head.fresh \/ stopped \/ owner = NoPhone
        THEN /\ seals' = Tail(seals) /\ requests' = slots
             /\ UNCHANGED <<owner, asked, hellos, inbound, queue, stream>>
        ELSE IF Len(queue) < MaxQueued
        THEN /\ queue' = Append(queue, [what |-> "sealed", own |-> head.fresh])
             /\ seals' = Tail(seals) /\ requests' = slots
             /\ UNCHANGED <<owner, asked, hellos, inbound, stream>>
        ELSE EndSession(hellos, inbound, slots, Tail(seals))
  /\ UNCHANGED <<checking, subscribed, stopped, radio>>

(* The paced queue gives a frame to bluetoothd. *)
Emit ==
  /\ queue # <<>> /\ queue' = Tail(queue)
  /\ UNCHANGED <<owner, checking, subscribed, stopped, hellos, inbound, requests, seals, stream, radio, asked>>

HelloSteps(p) == \/ \E proof \in BOOLEAN : HelloVerified(p, proof)
                 \/ LookupAnswers(p) \/ LookupFails(p) \/ HelloCommits(p)

Next ==
  \/ \E p \in Phones : \/ LinkUp(p) \/ LinkLost(p) \/ DeviceDisconnected(p) \/ SignalLost(p)
                       \/ Hello(p) \/ HelloSteps(p) \/ Envelope(p)
  \/ Subscribed \/ Reset \/ Stop
  \/ (\E what \in Kinds : Dispatch(what)) \/ StreamSends \/ (\E r \in Slots : Answer(r)) \/ Seal \/ Emit

(* A phone in range retries (the page's reconnection); timers and promises run. *)
Spec ==
  /\ Init /\ [][Next]_vars
  /\ \A p \in Phones : /\ WF_vars(Hello(p)) /\ WF_vars(HelloSteps(p)) /\ SF_vars(HelloVerified(p, TRUE))
                       /\ WF_vars(DeviceDisconnected(p) \/ SignalLost(p))

-----------------------------------------------------------------------------
(* Nothing of a session is heard after it: every frame that waits for the radio  *)
(* was sealed for the phone that owns the session now, and without an owner, a     *)
(* listener or a running service there is no backlog, whatever still streams.        *)
(* A WELCOME is ahead of everything sealed after it.                                  *)
NothingOutlivesItsSession ==
  /\ \A i \in DOMAIN queue :
       queue[i].own /\ (queue[i].what = "welcome" => \A k \in 1..(i - 1) : queue[k].what = "refused")
  /\ owner = NoPhone => \A i \in DOMAIN queue : queue[i].what = "refused"
  /\ stopped => owner = NoPhone
  /\ stopped \/ ~subscribed => queue = <<>>

(* docs/ble-server.md: output overflow ends the session, and its stream with it. *)
StreamHasItsOwner == stream => owner # NoPhone

(* A lookup ends only the session it was asked about: one whose phone has no      *)
(* link, or whose lookup failed; never the session the same phone, or another, has  *)
(* begun while the question was with bluetoothd.                                     *)
EvictsWhomItAskedAbout ==
  [][owner # NoPhone /\ owner' = NoPhone /\ checking /\ ~checking' =>
       asked /\ (~linked[owner] \/ disturbances' # disturbances)]_vars

(* Once the phone before has gone for good, told or not, the phone that keeps   *)
(* trying gets its session.                                                        *)
NextPhoneGetsIn ==
  \A p \in Phones :
    <>[](~stopped /\ linked[p] /\ \A q \in Phones \ {p} : ~linked[q]) => []<>(owner = p)
=============================================================================
