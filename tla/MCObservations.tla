----------------------------- MODULE MCObservations -----------------------------
(* The exchange of observations, on a small instance; the bounds are in the
   configurations. *)
EXTENDS Observations
=============================================================================
