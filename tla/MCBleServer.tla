---------------------------- MODULE MCBleServer ----------------------------
(* Two phones with one HELLO each under way, one request, one seal and one frame *)
(* at a time, and one disturbance of any kind.  A request too many is answered     *)
(* with two seals, so that here it ends the session; MCBleServerStream.cfg has two. *)
EXTENDS BleServer
=============================================================================
