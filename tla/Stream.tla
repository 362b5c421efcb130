-------------------------------- MODULE Stream --------------------------------
(***************************************************************************)
(* What a journal of the exchange directory promises its reader.           *)
(*                                                                         *)
(* A stream is a sequence of generations, each a set of records: the       *)
(* writer adds to the last one, and now and then begins another.  The      *)
(* reader stands in one generation.  It may move on to a later one, but    *)
(* only when every record of the generations it leaves has been delivered  *)
(* or is one it has been told it will not get.                             *)
(***************************************************************************)
EXTENDS Naturals, Sequences

CONSTANT Record     \* what can be committed

VARIABLES
    log,        \* log[g] is the set of records committed to generation g
    at,         \* the generation the reader stands in, 0 before it joins
    got,        \* the records delivered to the reader at least once
    gone        \* the records the reader has been told it will not get

vars == <<log, at, got, gone>>

Sent == UNION {log[g] : g \in 1..Len(log)}
Before(g) == UNION {log[h] : h \in 1..(g - 1)}

Init == log = <<>> /\ at = 0 /\ got = {} /\ gone = {}

Commit ==
    /\ Len(log) > 0
    /\ \E r \in Record \ Sent : log' = [log EXCEPT ![Len(log)] = @ \cup {r}]
    /\ UNCHANGED <<at, got, gone>>

Begin ==
    /\ log' = Append(log, {})
    /\ UNCHANGED <<at, got, gone>>

\* Records are handed over, or given up with a report.  The reader stays, moves
\* on, or loses its place and says so.
Read ==
    /\ at' \in {0} \cup at..Len(log)
    /\ got \subseteq got' /\ got' \subseteq Sent
    /\ gone \subseteq gone' /\ gone' \subseteq Sent
    /\ Before(at') \subseteq got' \cup gone'
    /\ UNCHANGED log

Next == Commit \/ Begin \/ Read

Spec == Init /\ [][Next]_vars
===============================================================================
