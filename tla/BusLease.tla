------------------------------ MODULE BusLease ------------------------------
(***************************************************************************)
(* src/vcu/bus-lease.ts: the one module-level `holder` that keeps two      *)
(* service-mode users off the diagnostic pair of CAN identifiers.  It is   *)
(* not a queue: a caller is refused while somebody else has the bus.       *)
(* An acquisition is an object of its own in the code (`mine`); here it is *)
(* the operation that acquires, and every operation acquires at most once. *)
(***************************************************************************)
CONSTANTS Ops,    \* the service operations that may ask for the bus
          NoOp    \* nobody

VARIABLE holder

LeaseInit == holder = NoOp

(* acquireBus: refused while anybody holds the bus. *)
AcquireBus(o) == holder = NoOp /\ holder' = o

(* lease.release: only clears a lease that is still this caller's own. *)
ReleaseBus(o) == holder' = IF holder = o THEN NoOp ELSE holder
=============================================================================
