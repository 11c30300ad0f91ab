---------------------------- MODULE MCClockGate ----------------------------
(* The GPS clock with every count of readings and every age cut down in        *)
(* proportion: three readings corroborate, four displace a contested anchor.    *)
EXTENDS ClockGate

Cold == -1000000
=============================================================================
