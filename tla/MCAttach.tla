-------------------------------- MODULE MCAttach --------------------------------
(* Sidecars that attach, on a small instance; the bounds are in the configuration. *)
EXTENDS Attach
=============================================================================
