------------------------------ MODULE KwpClient ------------------------------
(* One read job over the KWP client: a parameter sweep, or the freeze-frame   *)
(* components of a list, each read over src/vcu/kwp-client.ts and             *)
(* multiframe-transfer.ts from a micro that answers late, in several frames,  *)
(* or not at all.  Every reply comes on one CAN id and names no request: what *)
(* a reply answers is decided by what it says.                                *)
(*                                                                            *)
(* Identifiers and components are numbered in the order they are asked for.   *)
(* Timers may fire at any moment between arming and settling; what they bound *)
(* in milliseconds is abstracted, and so is the pace after an exchange.       *)
EXTENDS Naturals, Sequences

CONSTANTS Items,     \* how many identifiers or components the job asks for
          Nexts,     \* consecutive frames of a reply that needs several
          WireLimit, \* bound: frames from the micro not heard yet
          MaxLost    \* bound: consecutive frames the socket may drop

ASSUME ClientAssumption ==
  Items \in Nat \ {0} /\ Nexts \in Nat \ {0} /\ WireLimit \in Nat \ {0} /\ MaxLost \in Nat

VARIABLES job,      \* "parameters" (performRead) or "components" (readOneComponent)
          item,     \* what is asked for now
          attempt,  \* the first try or the second
          step,     \* where the job waits: for its next call, for a session to
                    \* open, for a transfer, or for the promise of either
          timer,    \* the one timer of the exchange in flight
          assembly, \* the reassembler
          result,   \* what the exchange came to
          fresh,    \* lastExchangeAt is younger than SESSION_IDLE_LIMIT_MS
          stopped,  \* context.stopped
          filed,    \* what the store was told, in order
          asked,    \* history: reads put on the bus so far
          inbox,    \* frames the micro has not acted on
          sending,  \* the reply in several frames the micro is giving
          toPi,     \* its frames this process has not read
          lost      \* frames dropped so far

caller == <<job, item, attempt, filed>>
client == <<step, timer, assembly, result, fresh>>
micro == <<sending, lost>>
vars == <<caller, client, stopped, asked, inbox, micro, toPi>>

None == [n |-> 0, about |-> 0, says |-> "nothing"]
Opened == [n |-> 0, about |-> 0, says |-> "session"]
Idle == [of |-> None, next |-> 0, go |-> FALSE]
Nothing == [of |-> None, next |-> 0, whole |-> TRUE]
Result(kind, reply, whole) == [kind |-> kind, reply |-> reply, whole |-> whole]
Frame(kind, reply, seq) == [kind |-> kind, of |-> reply, seq |-> seq]

Init == /\ job \in {"parameters", "components"}
        /\ item = 1 /\ attempt = 1 /\ step = "call" /\ timer = "none"
        /\ assembly = Nothing /\ result = Result("none", None, TRUE)
        /\ fresh = FALSE /\ stopped = FALSE
        /\ filed = <<>> /\ asked = 0
        /\ inbox = <<>> /\ sending = Idle /\ toPi = <<>> /\ lost = 0

(***************************************************************************)
(* The exchange in flight settles: the slot, its timer and the reassembler *)
(* are given up at once, and the caller hears of it after the pace.        *)
(***************************************************************************)
Settle(kind, reply, whole) == /\ step' = "settled"
                              /\ result' = Result(kind, reply, whole)
                              /\ assembly' = Nothing
                              /\ timer' = "none"

Fails(kind) == Settle(kind, None, TRUE)

(***************************************************************************)
(* What the client asks.                                                   *)
(***************************************************************************)
Ask(kind) == [kind |-> kind, n |-> 0, about |-> 0]
AskRead == [kind |-> "read", n |-> asked + 1, about |-> item]

openedOrNot == /\ inbox' = Append(inbox, Ask("session"))
               /\ step' = "opening" /\ timer' = "session"
               /\ UNCHANGED <<assembly, result, fresh>>
\* Mutant: a stopped client is not looked for.
openSessionAnyway == /\ UNCHANGED asked
                     /\ openedOrNot
\* exchange of 10 81: refused by a stopped client, or by the socket.
openSession ==
  /\ UNCHANGED asked
  /\ \/ ~stopped /\ openedOrNot
     \/ Fails("not-sent") /\ fresh' = FALSE /\ UNCHANGED inbox

\* The request of a read is one frame, and nothing is retried below this line.
runTransfer ==
  \/ /\ ~stopped
     /\ asked' = asked + 1
     /\ inbox' = Append(inbox, AskRead)
     /\ step' = "reading" /\ timer' = "first-reply"
     /\ UNCHANGED <<assembly, result, fresh>>
  \/ Fails("not-sent") /\ UNCHANGED <<fresh, asked, inbox>>

ensureSession == IF fresh THEN runTransfer ELSE openSession

(***************************************************************************)
(* The callers.                                                            *)
(***************************************************************************)
\* Mutant: a record is taken for whatever was asked.
StatusUnread(r) == CASE r.kind # "payload" -> r.kind
                     [] r.reply.says = "record" -> "read"
                     [] r.reply.says = "refused" -> "refused"
                     [] r.reply.says = "none" -> "no record"
                     [] OTHER -> "unrecognised"
\* decodeParameterReply, and toStoredReply: the echo in a record is compared with
\* what was asked for; neither a refusal nor `57 00` has one.
Status(r) == CASE r.kind # "payload" -> r.kind
               [] r.reply.says = "record" -> IF r.reply.about = item THEN "read"
                                                                     ELSE "mismatch"
               [] r.reply.says = "refused" -> "refused"
               [] r.reply.says = "none" -> "no record"
               [] OTHER -> "unrecognised"

Stored(r) == [status |-> Status(r), about |-> r.reply.about, whole |-> r.whole]

\* performRead repeats a silence; readOneComponent also a reply it had to discard.
shouldRetry == /\ attempt = 1
               /\ result.kind \in IF job = "parameters" THEN {"no-response"}
                                  ELSE {"no-response", "stalled", "abandoned"}

NextCall == /\ step = "call"
            /\ IF stopped
               THEN step' = "done" /\ UNCHANGED <<timer, assembly, result, fresh, asked, inbox>>
               ELSE ensureSession
            /\ UNCHANGED <<caller, stopped, micro, toPi>>

RunOpened == /\ result.kind = "opened"
             /\ runTransfer
             /\ UNCHANGED caller

\* A row whose first try was met with silence opens a session of its own.
AskAgain == /\ shouldRetry
            /\ attempt' = 2
            /\ IF job = "parameters" THEN openSession ELSE ensureSession
            /\ UNCHANGED <<job, item, filed>>

\* A sweep that was stopped files nothing of the row it was stopped in.
File == /\ result.kind # "opened" /\ ~shouldRetry
        /\ LET dropped == stopped /\ job = "parameters"
           IN  /\ filed' = IF dropped THEN filed ELSE Append(filed, Stored(result))
               /\ step' = IF dropped \/ item = Items THEN "done" ELSE "call"
        /\ item' = item + 1 /\ attempt' = 1
        /\ UNCHANGED <<job, timer, assembly, result, fresh, asked, inbox>>

\* The pace is over and the promise of the exchange resolves.
Continue == /\ step = "settled"
            /\ RunOpened \/ AskAgain \/ File
            /\ UNCHANGED <<stopped, micro, toPi>>

(***************************************************************************)
(* What it hears.                                                          *)
(***************************************************************************)
\* Any frame but a consecutive one answers the single-frame exchange.
HearInOpening(f) ==
  IF f.kind = "next" THEN UNCHANGED <<client, inbox>>
  ELSE /\ fresh' = (f.kind = "single" /\ f.of.says = "session")
       /\ Fails(IF fresh' THEN "opened" ELSE "no-session")
       /\ UNCHANGED inbox

HearSingle(f) == /\ Settle("payload", f.of, TRUE)
                 /\ fresh' = TRUE
                 /\ UNCHANGED inbox

\* Mutant: the time a transfer may take is not limited.
FlowControlUntimed == /\ inbox' = Append(inbox, Ask("flow control"))
                      /\ timer' = "none"
\* The flow control that lets the micro go on, and the timer of the transfer.
FlowControl == /\ inbox' = Append(inbox, Ask("flow control"))
               /\ timer' = "reply-transfer"

\* A First Frame begins a reply anew, whatever was being assembled.
Begun(f) == [of |-> f.of, next |-> 0, whole |-> TRUE]

HearFirst(f) == \/ /\ assembly' = Begun(f)
                   /\ FlowControl
                   /\ UNCHANGED <<step, result, fresh>>
                \/ Fails("abandoned") /\ UNCHANGED <<fresh, inbox>>   \* it cannot be sent

HearNext(f) ==
  LET whole == assembly.whole /\ f.of = assembly.of
  IN  /\ UNCHANGED inbox
      /\ CASE assembly = Nothing -> UNCHANGED client
           [] assembly # Nothing /\ f.seq # assembly.next -> Fails("abandoned") /\ UNCHANGED fresh
           [] assembly # Nothing /\ f.seq = assembly.next /\ f.seq + 1 = Nexts ->
                Settle("payload", assembly.of, whole) /\ fresh' = TRUE
           [] OTHER -> /\ assembly' = [assembly EXCEPT !.next = @ + 1, !.whole = whole]
                       /\ UNCHANGED <<step, timer, result, fresh>>

\* handleFrame: with nothing in flight a frame is somebody else's.
Hear == /\ toPi # <<>>
        /\ toPi' = Tail(toPi)
        /\ LET f == Head(toPi)
           IN  CASE step = "opening" -> HearInOpening(f)
                 [] step = "reading" /\ f.kind = "single" -> HearSingle(f)
                 [] step = "reading" /\ f.kind = "first" -> HearFirst(f)
                 [] step = "reading" /\ f.kind = "next" -> HearNext(f)
                 [] OTHER -> UNCHANGED <<client, inbox>>
        /\ UNCHANGED <<caller, stopped, asked, micro>>

TimerFires == /\ timer # "none"
              /\ fresh' = (fresh /\ timer # "session")
              /\ Fails(CASE timer = "session" -> "no-session"
                         [] timer = "first-reply" -> "no-response"
                         [] timer = "reply-transfer" -> "stalled")
              /\ UNCHANGED <<caller, stopped, asked, inbox, micro, toPi>>

GoStale == /\ fresh /\ step \in {"call", "settled"}
           /\ fresh' = FALSE
           /\ UNCHANGED <<caller, step, timer, assembly, result, stopped, asked, inbox, micro, toPi>>

\* abort: the watchdog, or a shutdown.  What is in flight settles at once.
stop == /\ ~stopped /\ step # "done"
        /\ stopped' = TRUE
        /\ CASE step = "opening" -> Fails("not-sent") /\ fresh' = FALSE
             [] step = "reading" -> /\ Fails(IF job = "parameters" THEN "not-sent" ELSE "cancelled")
                                    /\ UNCHANGED fresh
             [] OTHER -> UNCHANGED client
        /\ UNCHANGED <<caller, asked, inbox, micro, toPi>>

(***************************************************************************)
(* The micro.                                                              *)
(***************************************************************************)
\* A parameter's record may be short; a component's never is.
Answers(m) == {[n |-> m.n, about |-> m.about, says |-> says] :
               says \in IF job = "parameters" THEN {"record", "refused"} ELSE {"none", "refused"}}
Record(m) == [n |-> m.n, about |-> m.about, says |-> "record"]

Says(f) == Len(toPi) < WireLimit /\ toPi' = Append(toPi, f)

\* It may be silent, and a new request ends the reply it was giving, or does not.
MicroHears ==
  /\ inbox # <<>>
  /\ inbox' = Tail(inbox)
  /\ LET m == Head(inbox)
     IN  \/ m.kind = "session" /\ Says(Frame("single", Opened, 0)) /\ UNCHANGED sending
         \/ /\ m.kind = "read" /\ sending' = Idle
            /\ \E a \in Answers(m) : Says(Frame("single", a, 0))
         \/ /\ m.kind = "read" /\ Says(Frame("first", Record(m), 0))
            /\ sending' = [of |-> Record(m), next |-> 0, go |-> FALSE]
         \/ /\ m.kind = "flow control" /\ UNCHANGED toPi
            /\ sending' = [sending EXCEPT !.go = sending # Idle]
         \/ m.kind # "flow control" /\ UNCHANGED toPi /\ sending' \in {sending, Idle}
  /\ UNCHANGED <<caller, client, stopped, asked, lost>>

MicroSends ==
  /\ sending.go
  /\ sending' = IF sending.next + 1 = Nexts THEN Idle ELSE [sending EXCEPT !.next = @ + 1]
  /\ \/ Says(Frame("next", sending.of, sending.next)) /\ UNCHANGED lost
     \/ lost < MaxLost /\ lost' = lost + 1 /\ UNCHANGED toPi
  /\ UNCHANGED <<caller, client, stopped, asked, inbox>>

Next == NextCall \/ Continue \/ Hear \/ TimerFires \/ GoStale \/ stop
        \/ MicroHears \/ MicroSends

Spec == Init /\ [][Next]_vars
\* Timers fire and promises resolve; the micro owes nothing.
FairSpec == /\ Spec
            /\ WF_vars(NextCall) /\ WF_vars(Continue) /\ WF_vars(TimerFires)

(***************************************************************************)
(* Properties.                                                             *)
(***************************************************************************)
Reply == [n : 0..asked, about : 0..Items, says : {"nothing", "session", "record", "refused", "none"}]

TypeOK ==
  /\ item \in 1..(Items + 1) /\ attempt \in {1, 2}
  /\ step \in {"call", "opening", "reading", "settled", "done"}
  /\ timer \in {"none", "session", "first-reply", "reply-transfer"}
  /\ (timer = "session" <=> step = "opening")
  /\ (timer \in {"first-reply", "reply-transfer"} <=> step = "reading")
  /\ assembly.of \in Reply /\ assembly.next \in 0..(Nexts - 1)
  /\ result.reply \in Reply /\ {fresh, stopped} \subseteq BOOLEAN
  /\ Len(filed) <= Items /\ asked <= 2 * Items
  /\ \A i \in DOMAIN toPi : toPi[i].of \in Reply /\ toPi[i].seq \in 0..(Nexts - 1)
  /\ sending.of \in Reply /\ sending.next \in 0..(Nexts - 1) /\ lost \in 0..MaxLost

(* A record is filed under the identifier or the component it belongs to,    *)
(* and is never put together from the frames of two replies, although the    *)
(* answer to a request that timed out may arrive as its retry's or the next  *)
(* one's (param-codec.ts decodeParameterReply, lifetime-read.ts              *)
(* toStoredReply, extended-iso-tp.ts #pushFirstFrame).                       *)
RecordsAreTheirOwn ==
  \A i \in DOMAIN filed :
    filed[i].status = "read" => filed[i].about = i /\ filed[i].whole

(* Everything counted as an answer for a component is an answer to the       *)
(* question about that component (lifetime-read.ts toStoredReply: "The echo  *)
(* is checked HERE so there is one definition of answered").                 *)
AnswersAreTheirOwn ==
  job = "components" =>
    \A i \in DOMAIN filed : filed[i].status \in {"read", "no record"} => filed[i].about = i

(* Nothing reaches the bus after stop(): no retry, no session, no flow       *)
(* control, whichever await was in progress (kwp-client.ts stop, exchange).  *)
QuietAfterStop == [][stopped => Len(inbox') <= Len(inbox)]_vars

(* The job ends, although the micro may leave any reply unfinished.          *)
JobEnds == <>(step = "done")
=============================================================================
