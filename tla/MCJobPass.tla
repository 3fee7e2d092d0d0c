----------------------------- MODULE MCJobPass -----------------------------
(* The instance of JobPass for TLC. *)
EXTENDS JobPass
=============================================================================
