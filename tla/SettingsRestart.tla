--------------------------- MODULE SettingsRestart ---------------------------
(* The reservation behind a restart of the service (settings/restart.ts): the *)
(* settings revision in the store's serial queue (settings/store.ts) and the   *)
(* one lease of the bus, from the confirming request through the delivery of   *)
(* its reply and the call to systemd, to SIGTERM (shutdown.ts).                *)
(*                                                                            *)
(* A request stands for its own reservation token and lease.  JavaScript runs  *)
(* the jobs of the queue that wait for nothing before any other event, which   *)
(* is what Drained says.                                                       *)
EXTENDS Naturals, Sequences

CONSTANTS Requests,
          DeliveryTicks, FlushTicks, ScheduleTicks, \* bounds of the awaited steps
          StopTicks,                                \* stopTimeoutMs
          MaxRevision, MaxGeneration                \* bounds of the counters

ASSUME RestartAssumption ==
  /\ {DeliveryTicks, FlushTicks, ScheduleTicks, StopTicks, MaxRevision, MaxGeneration}
       \subseteq Nat
  /\ "none" \notin Requests /\ "other" \notin Requests

VARIABLES status,      \* what settingsReply shows of the restart
          lease,       \* the lease this module holds, by its request
          kept,        \* releaseSettings: the reservation it would give back
          reserving,   \* the request inside reserve()
          deadline,    \* the lease it watches and the ticks it has left
          req,         \* request -> what it confirmed and where it has got to
          queue,       \* jobs of the settings store, the first one running
          reservation, \* the reservation the store honours
          revision,    \* of the saved settings
          bus,         \* who holds the lease of the bus
          motion,      \* "parked" or "moving"
          asked,       \* requests whose restart systemd may have been given
          term,        \* who sent the SIGTERM that is being obeyed
          generation   \* of the running process

vars == <<status, lease, kept, reserving, deadline, req, queue, reservation,
          revision, bus, motion, asked, term, generation>>

Kinds == {"apply", "update", "stop", "queue"}
Waiting == {"delivering", "flushing", "scheduling", "operating"}
NoRequest == [pc |-> "idle", kind |-> "apply", revision |-> 0, generation |-> 0, age |-> 0]
NoDeadline == [of |-> "none", left |-> 0]
Somebody == Requests \cup {"none"}

TypeOK ==
  /\ status \in {"idle", "reserved", "scheduled", "stopping", "failed"}
  /\ {lease, kept, reserving, reservation} \subseteq Somebody
  /\ asked \subseteq Requests
  /\ deadline \in [of : Somebody, left : 0..StopTicks]
  /\ req \in [Requests -> [pc : Waiting \cup {"idle", "waiting", "unwinding", "done"},
                           kind : Kinds, revision : 0..MaxRevision,
                           generation : 0..MaxGeneration, age : Nat]]
  /\ queue \in Seq([job : {"save", "reserve", "release"}, by : Somebody, of : Somebody])
  /\ revision \in 0..MaxRevision /\ generation \in 0..MaxGeneration
  /\ bus \in Somebody \cup {"other"}
  /\ motion \in {"parked", "moving"}
  /\ term \in {"no", "systemd", "operator", "exited"}

Init ==
  /\ status = "idle" /\ lease = "none" /\ kept = "none" /\ reserving = "none"
  /\ deadline = NoDeadline
  /\ req = [r \in Requests |-> NoRequest]
  /\ queue = <<>> /\ reservation = "none" /\ bus = "none"
  /\ asked = {} /\ term = "no"
  /\ revision = 0 /\ motion = "parked" /\ generation = 0

----------------------------------------------------------------------------
(* The pieces reserve, fail and release are made of.                         *)

Job(job, by, of) == [job |-> job, by |-> by, of |-> of]
Drained == queue # <<>> => Head(queue).job = "save"
\* The event loop takes its next event.
Turn == Drained /\ term # "exited"

Go(r, pc) == req' = [req EXCEPT ![r].pc = pc, ![r].age = 0]

\* release(): the lease at once, the settings by a job of the store; "by" is the
\* request that awaits the job.
ReleaseBoth(jobs, by) ==
  /\ lease' = "none" /\ kept' = "none"
  /\ bus' = IF lease = "none" THEN bus ELSE "none"
  /\ queue' = IF kept = "none" THEN jobs ELSE Append(jobs, Job("release", by, kept))

\* The failure is not shown.
FailQuietly ==
  IF status = "stopping"
  THEN UNCHANGED <<status, deadline, lease, kept, bus, queue>>
  ELSE /\ status' = status /\ deadline' = NoDeadline
       /\ ReleaseBoth(queue, "none")
\* fail(): a process that is stopping keeps what it holds.
Fail ==
  IF status = "stopping"
  THEN UNCHANGED <<status, deadline, lease, kept, bus, queue>>
  ELSE /\ status' = "failed" /\ deadline' = NoDeadline
       /\ ReleaseBoth(queue, "none")

----------------------------------------------------------------------------
(* reserve().                                                                *)

\* A request of the dashboard or of the updater, with the process generation and
\* the revision the owner saw when confirming.
RefusedAnyGeneration(seen) ==
  reserving # "none" \/ kept # "none" \/ status = "stopping" \/ motion = "moving"
Refused(seen) ==
  \/ seen # generation
  \/ reserving # "none" \/ kept # "none" \/ status = "stopping" \/ motion = "moving"

Ask(r) ==
  /\ Turn /\ req[r].pc = "idle"
  /\ \E kind \in Kinds, seenRevision \in 0..revision, seen \in 0..generation :
       req' = [req EXCEPT ![r] =
                 [pc |-> IF Refused(seen) THEN "done" ELSE "waiting", kind |-> kind,
                  revision |-> seenRevision, generation |-> seen, age |-> 0]]
  /\ IF req'[r].pc = "done"
     THEN UNCHANGED <<reserving, queue>>
     ELSE reserving' = r /\ queue' = Append(queue, Job("reserve", r, r))
  /\ UNCHANGED <<status, lease, kept, deadline, reservation, revision, bus,
                 motion, asked, term, generation>>

\* What reserve() does when the store has refused it, after catch and finally.
StoreRefuses(r) ==
  /\ reservation # "none" \/ req[r].revision # revision
  /\ Go(r, "done") /\ reserving' = "none"
  /\ queue' = Tail(queue)
  /\ UNCHANGED <<status, lease, kept, deadline, reservation, bus>>

\* The bus is busy, or the motorcycle started to move while the store was busy:
\* the error gives everything back, unless the process is stopping.
ReserveFails(r) ==
  /\ reservation = "none" /\ req[r].revision = revision
  /\ bus # "none" \/ motion = "moving"
  /\ reservation' = r
  /\ IF status = "stopping"
     THEN /\ kept' = r /\ Go(r, "done") /\ reserving' = "none"
          /\ IF bus = "none" THEN lease' = r /\ bus' = r ELSE UNCHANGED <<lease, bus>>
          /\ queue' = Tail(queue)
     ELSE /\ queue' = Append(Tail(queue), Job("release", r, r))
          /\ Go(r, "unwinding")
          /\ UNCHANGED <<lease, kept, reserving, bus>>
  /\ UNCHANGED <<status, deadline>>

\* Reserved.  The updater's stop request then waits for SIGTERM, its first request
\* runs its operation under the reservation, and the dashboard's go on to
\* deliverAndSchedule.
Reserve(r) ==
  /\ reservation = "none" /\ req[r].revision = revision
  /\ bus = "none" /\ motion = "parked"
  /\ reservation' = r /\ kept' = r /\ lease' = r /\ bus' = r
  /\ status' = "reserved"
  /\ deadline' = [of |-> r, left |-> StopTicks]
  /\ LET kind == req[r].kind IN
       /\ Go(r, CASE kind = "stop" -> "done" [] kind = "queue" -> "operating"
                  [] OTHER -> "delivering")
       /\ reserving' = IF kind = "queue" THEN r ELSE "none"
  /\ queue' = Tail(queue)

ReserveJob ==
  /\ term # "exited" /\ queue # <<>> /\ Head(queue).job = "reserve"
  /\ LET r == Head(queue).by IN StoreRefuses(r) \/ ReserveFails(r) \/ Reserve(r)
  /\ UNCHANGED <<revision, motion, asked, term, generation>>

ReleaseJob ==
  /\ term # "exited" /\ queue # <<>> /\ Head(queue).job = "release"
  /\ LET job == Head(queue) IN
       /\ reservation' = IF reservation = job.of THEN "none" ELSE reservation
       /\ IF job.by = "none" THEN UNCHANGED <<req, reserving>>
          ELSE Go(job.by, "done") /\ reserving' = "none"
  /\ queue' = Tail(queue)
  /\ UNCHANGED <<status, lease, kept, deadline, revision, bus, motion, asked,
                 term, generation>>

\* The operation returns, throws or is given up: nothing stays reserved after it.
OperationEnds(r) ==
  /\ Turn /\ req[r].pc = "operating"
  /\ IF status = "stopping"
     THEN /\ Go(r, "done") /\ reserving' = "none"
          /\ UNCHANGED <<status, deadline, lease, kept, bus, queue>>
     ELSE /\ status' = "idle" /\ deadline' = NoDeadline
          /\ ReleaseBoth(queue, r)
          /\ IF kept = "none" THEN Go(r, "done") /\ reserving' = "none"
             ELSE Go(r, "unwinding") /\ UNCHANGED reserving
  /\ UNCHANGED <<reservation, revision, motion, asked, term, generation>>

----------------------------------------------------------------------------
(* deliverAndSchedule().                                                     *)

StillReserved(r) == status = "reserved" /\ lease = r

ScheduleOrGiveUp(r) ==
  IF StillReserved(r)
  THEN Go(r, "scheduling") /\ asked' = asked \cup {r}
  ELSE Go(r, "done") /\ UNCHANGED asked

\* The reply is out, or failed, or took too long: all the same.
Delivered(r) ==
  /\ Turn /\ req[r].pc = "delivering"
  /\ IF req[r].kind = "update"
     THEN Go(r, "flushing") /\ UNCHANGED asked
     ELSE ScheduleOrGiveUp(r)
  /\ UNCHANGED <<status, lease, kept, reserving, deadline, queue, reservation,
                 revision, bus, motion, term, generation>>

Flushed(r) ==
  /\ Turn /\ req[r].pc = "flushing"
  /\ ScheduleOrGiveUp(r)
  /\ UNCHANGED <<status, lease, kept, reserving, deadline, queue, reservation,
                 revision, bus, motion, term, generation>>

Scheduled(r) ==
  /\ Turn /\ req[r].pc = "scheduling"
  /\ Go(r, "done")
  /\ status' = IF StillReserved(r) THEN "scheduled" ELSE status
  /\ UNCHANGED <<lease, kept, reserving, deadline, queue, reservation, revision,
                 bus, motion, asked, term, generation>>

ScheduleFails(r) ==
  /\ Turn /\ req[r].pc = "scheduling"
  /\ Go(r, "done")
  /\ IF lease = r THEN Fail
     ELSE UNCHANGED <<status, deadline, lease, kept, bus, queue>>
  /\ UNCHANGED <<reserving, reservation, revision, motion, asked, term, generation>>

\* The timer only forgets itself.
DeadlineForgets ==
  /\ Turn /\ deadline.of # "none" /\ deadline.left = 0
  /\ deadline' = NoDeadline
  /\ UNCHANGED <<status, lease, kept, bus, queue, reserving, req, reservation, revision,
                 motion, asked, term, generation>>

DeadlineFires ==
  /\ Turn /\ deadline.of # "none" /\ deadline.left = 0
  /\ IF lease = deadline.of THEN Fail
     ELSE deadline' = NoDeadline /\ UNCHANGED <<status, lease, kept, bus, queue>>
  /\ UNCHANGED <<reserving, req, reservation, revision, motion, asked, term,
                 generation>>
----------------------------------------------------------------------------
(* The store, the bus, the motorcycle, time and signals.                     *)

\* store.update waits for a disk; while a restart is reserved it is refused.
SaveAsked ==
  /\ Turn /\ revision < MaxRevision
  /\ \A i \in DOMAIN queue : queue[i].job # "save"
  /\ queue' = Append(queue, Job("save", "none", "none"))
  /\ UNCHANGED <<status, lease, kept, reserving, deadline, req, reservation, revision, bus,
                 motion, asked, term, generation>>

SaveEnds ==
  /\ Turn /\ queue # <<>>
  /\ queue' = Tail(queue)
  /\ \/ reservation = "none" /\ revision' = revision + 1
     \/ UNCHANGED revision
  /\ UNCHANGED <<status, lease, kept, reserving, deadline, req, reservation, bus, motion,
                 asked, term, generation>>

\* Another service-mode operation takes the bus and gives it back.
OtherUsesBus ==
  /\ Turn
  /\ \/ bus = "none" /\ bus' = "other"
     \/ bus = "other" /\ bus' = "none"
  /\ UNCHANGED <<status, lease, kept, reserving, deadline, req, queue, reservation, revision,
                 motion, asked, term, generation>>

MotionChanges ==
  /\ Turn
  /\ motion' = IF motion = "parked" THEN "moving" ELSE "parked"
  /\ UNCHANGED <<status, lease, kept, reserving, deadline, req, queue, reservation, revision,
                 bus, asked, term, generation>>

\* The process is told to stop, by the restart it asked for or by an operator:
\* consume().
Signal ==
  /\ Turn /\ term = "no"
  /\ \/ asked # {} /\ term' = "systemd"
     \/ term' = "operator"
  /\ status' = "stopping" /\ deadline' = NoDeadline
  /\ UNCHANGED <<lease, kept, reserving, req, queue, reservation, revision, bus, motion, asked,
                 generation>>

\* The last step of the shutdown has run.  A restart that is still wanted starts
\* the next process, with everything in memory gone and a generation of its own.
Exit ==
  /\ Turn /\ term \in {"systemd", "operator"}
  /\ IF asked # {} /\ generation < MaxGeneration
     THEN /\ status' = "idle" /\ lease' = "none" /\ kept' = "none" /\ reserving' = "none"
          /\ deadline' = NoDeadline
          /\ req' = [r \in Requests |-> NoRequest]
          /\ queue' = <<>> /\ reservation' = "none" /\ bus' = "none"
          /\ asked' = {} /\ term' = "no"
          /\ generation' = generation + 1
     ELSE /\ term' = "exited"
          /\ UNCHANGED <<status, lease, kept, reserving, deadline, req, queue, reservation, bus,
                         asked, generation>>
  /\ UNCHANGED <<revision, motion>>

BoundOf(pc) == CASE pc = "delivering" -> DeliveryTicks
                 [] pc = "flushing" -> FlushTicks
                 [] pc \in {"scheduling", "operating"} -> ScheduleTicks
Due == \/ \E r \in Requests : req[r].pc \in Waiting /\ req[r].age = BoundOf(req[r].pc)
       \/ deadline.of # "none" /\ deadline.left = 0

\* No timer waits past its time: bounded() gives each awaited step up at its bound.
Tick ==
  /\ Turn /\ ~Due
  /\ req' = [r \in Requests |-> IF req[r].pc \in Waiting
                               THEN [req[r] EXCEPT !.age = @ + 1] ELSE req[r]]
  /\ deadline' = IF deadline.of = "none" THEN deadline
                 ELSE [deadline EXCEPT !.left = @ - 1]
  /\ deadline' # deadline \/ req' # req
  /\ UNCHANGED <<status, lease, kept, reserving, queue, reservation, revision, bus, motion,
                 asked, term, generation>>

Reservation(r) == OperationEnds(r) \/ Delivered(r) \/ Flushed(r) \/ Scheduled(r) \/ ScheduleFails(r)
Program == ReserveJob \/ ReleaseJob \/ DeadlineFires \/ \E r \in Requests : Reservation(r)
Environment == SaveAsked \/ SaveEnds \/ OtherUsesBus \/ MotionChanges \/ Signal \/ Exit \/ Tick
Next == Program \/ Environment \/ \E r \in Requests : Ask(r)

Spec == Init /\ [][Next]_vars
\* The event loop turns, timers fire and a save of the settings comes to an end.
FairSpec == Spec /\ WF_vars(Program) /\ WF_vars(SaveEnds) /\ WF_vars(Tick)

----------------------------------------------------------------------------
(* Properties.                                                               *)

\* A restart shown as reserved or scheduled has both: the bus and the settings.
Reserved == status \in {"reserved", "scheduled"}
ReservationIsWhole ==
  Reserved => lease # "none" /\ bus = lease /\ reservation = lease /\ kept = lease

\* And one that is over has neither, whatever failed on the way.
NothingLeaks ==
  (status \in {"idle", "failed"} /\ reserving = "none" /\ queue = <<>>)
    => lease = "none" /\ kept = "none" /\ reservation = "none" /\ bus \notin Requests

\* Systemd is asked only for what the owner confirmed: this process, these saved
\* settings, and nobody else is on the bus.
ConfirmedOnly ==
  \A r \in asked' \ asked : /\ req[r].generation = generation
                           /\ req[r].revision = revision
                           /\ bus = r
AsksForConfirmed == [][ConfirmedOnly]_vars

\* The bus a restart holds when the process is told to stop stays held until the
\* process is gone: nothing starts on it during the shutdown.
KeepsBus == (term # "no" /\ status = "stopping" /\ lease # "none")
              => bus' = bus \/ generation' # generation
StoppingKeepsBus == [][KeepsBus]_vars

\* A reservation no signal consumes does not keep the bus for good.
BusComesBack == (lease # "none") ~> (lease = "none" \/ term # "no")

\* "A requested stop deliberately remains stopped": once an operator's stop is
\* being obeyed, no restart is asked for.
NoRestartDuringStop == term = "operator" => asked' \subseteq asked
StopRemainsStopped == [][NoRestartDuringStop]_vars
=============================================================================
