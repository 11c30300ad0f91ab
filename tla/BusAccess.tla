------------------------------ MODULE BusAccess ------------------------------
(***************************************************************************)
(* What the lease and the poller hold promise together, with no lease, no  *)
(* hold, no timer and no gate in sight: one owner at a time, only the      *)
(* owner talks, and the poller and a talk that asked for quiet are never   *)
(* on the bus at once.                                                     *)
(***************************************************************************)
CONSTANTS Ops, NoOp

VARIABLES owner,      \* who has the bus, or NoOp
          talking,    \* the operations with a request out
          undisturbed,\* the talk going on asked for a quiet bus
          pollerTalks \* the poller has a request out

accessVars == <<owner, talking, undisturbed, pollerTalks>>

AccessInit ==
  /\ owner = NoOp /\ talking = {}
  /\ undisturbed = FALSE /\ pollerTalks = FALSE

Take(o) ==
  /\ owner = NoOp /\ owner' = o
  /\ UNCHANGED <<talking, undisturbed, pollerTalks>>

Give ==
  /\ owner # NoOp /\ talking = {}
  /\ owner' = NoOp
  /\ UNCHANGED <<talking, undisturbed, pollerTalks>>

Talk(o) ==
  /\ owner = o /\ talking = {}
  /\ talking' = {o}
  /\ undisturbed' \in {u \in BOOLEAN : u => ~pollerTalks}
  /\ UNCHANGED <<owner, pollerTalks>>

Hush ==
  /\ talking # {}
  /\ talking' = {} /\ undisturbed' = FALSE
  /\ UNCHANGED <<owner, pollerTalks>>

PollerTalk ==
  /\ ~undisturbed
  /\ pollerTalks' = TRUE
  /\ UNCHANGED <<owner, talking, undisturbed>>

PollerHush ==
  /\ pollerTalks' = FALSE
  /\ UNCHANGED <<owner, talking, undisturbed>>

AccessNext ==
  \/ \E o \in Ops : Take(o) \/ Talk(o)
  \/ Give \/ Hush \/ PollerTalk \/ PollerHush

AccessSpec == AccessInit /\ [][AccessNext]_accessVars
==============================================================================
