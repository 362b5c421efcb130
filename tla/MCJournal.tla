------------------------------ MODULE MCJournal ------------------------------
(* Both journals on a small instance. *)
EXTENDS Journal

MCBoth == {"commands", "acks"}
MCTorn == {"torn ack", "torn command"}
=============================================================================
