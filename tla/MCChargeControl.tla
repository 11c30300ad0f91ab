--------------------------- MODULE MCChargeControl ---------------------------
(* One unit of current is one step of the rule: the ceiling is a step or two  *)
(* above the least an automatic command asks for.                             *)
EXTENDS ChargeControl
=============================================================================
