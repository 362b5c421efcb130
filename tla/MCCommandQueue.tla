--------------------------- MODULE MCCommandQueue ---------------------------
EXTENDS CommandQueue
CONSTANTS move, eat, probe, halt, stray, kMove, kEat, kProbe, kHalt

\* Two world-touching commands, a read-only probe that shares no key with
\* them, a stop, and a command built for a session that has been replaced but
\* carries the key of the move.
MCCmd == {move, eat, probe, halt, stray}
MCKey == {kMove, kEat, kProbe, kHalt}
MCKeyOf == [c \in MCCmd |->
    CASE c \in {move, stray} -> kMove [] c = eat -> kEat [] c = probe -> kProbe [] OTHER -> kHalt]
MCOccupying == {move, eat}
MCStop == {halt}
MCForeign == {stray}
MCDeadline == [c \in MCCmd |-> IF c = move THEN 0 ELSE 1]
=============================================================================
