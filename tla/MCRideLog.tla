----------------------------- MODULE MCRideLog -----------------------------
(* The ride log with a buffer of two readings and three readings in a ride: a    *)
(* seal that fails leaves several runs in the buffer of the next, and a buffer    *)
(* that is full gives a reading up.                                              *)
EXTENDS RideLog
=============================================================================
