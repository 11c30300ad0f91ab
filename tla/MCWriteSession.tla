--------------------------- MODULE MCWriteSession ---------------------------
(* Small instances of WriteSession: which batches are asked for.           *)
EXTENDS WriteSession

CONSTANTS p, q

Plan(n, v, e) == [param |-> n, value |-> v, expected |-> e]

(* A single write, a batch of two parameters, and one of three plans, the  *)
(* last of which names the first one's parameter again.                    *)
TwoParameters == {<<Plan(p, 1, 0)>>, <<Plan(p, 1, 0), Plan(q, 1, 0)>>,
                  <<Plan(p, 1, 0), Plan(q, 1, 0), Plan(p, 2, 0)>>}
OneParameter == {<<Plan(p, 1, 0)>>}
=============================================================================
