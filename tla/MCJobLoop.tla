----------------------------- MODULE MCJobLoop -----------------------------
(* The instance of JobLoop for TLC: recycled identities are model values. *)
EXTENDS JobLoop
=============================================================================
