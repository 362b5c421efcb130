------------------------------ MODULE MCDispatch ------------------------------
(* The loop, the engine and the mod on a small instance. *)
EXTENDS Dispatch

MCCmd == 1..2
MCLosableDriven == {"driven"}
=============================================================================
