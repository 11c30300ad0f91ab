---------------------------- MODULE MCServiceBus ----------------------------
(* Small instances of ServiceBus: which kinds of operation meet.           *)
EXTENDS ServiceBus, TLC

CONSTANTS a, b, c, d, e, f

(* A sweep and a one-shot read that both want the poller, and the clear. *)
ReadersAndClear == a :> "sweep" @@ b :> "oneshot" @@ c :> "clear"

(* Everything that writes: the command the gate does not govern, the clear, *)
(* the two writes whose gate is read before a file is, and the broadcast    *)
(* nobody answers; and a user of the lease that neither talks nor is gated. *)
Commands == a :> "charge" @@ b :> "clear" @@ c :> "parameter" @@ d :> "stamp"
            @@ e :> "restart" @@ f :> "clock"
=============================================================================
