---------------------------- MODULE MCModRuntime ----------------------------
EXTENDS ModRuntime
CONSTANTS arm, rearm, walk, again, late, eat, halt, peek, quit, drop, clear

MCKind == [c \in {arm, rearm, walk, again, late, eat, halt, peek, quit, drop, clear} |->
    CASE c \in {walk, again, eat, late} -> "work" [] c \in {arm, rearm} -> "arm"
      [] c = peek -> "look" [] c = halt -> "stop" [] c = quit -> "disarm" [] OTHER -> "cancel"]

\* walk and again carry one key, and late carries it into the second session;
\* eat competes with them for the slot and has a shorter lease.
MCCmd == {arm, rearm, walk, again, late, eat, halt}
MCKindOf == [c \in MCCmd |-> MCKind[c]]
MCKeyOf == [c \in MCCmd |-> IF c \in {again, late} THEN walk ELSE c]
MCSessionOf == [c \in MCCmd |-> IF c = late THEN 2 ELSE 1]
MCUntil == [c \in MCCmd |-> IF c = eat THEN 0 ELSE 1]
MCTargetOf == [c \in MCCmd |-> NoCmd]

\* One session whose sidecar also looks, disarms and cancels: drop names walk,
\* clear names nothing.
MCDayCmd == {arm, walk, eat, peek, quit, drop, clear}
MCDayKindOf == [c \in MCDayCmd |-> MCKind[c]]
MCDayKeyOf == [c \in MCDayCmd |-> c]
MCDaySessionOf == [c \in MCDayCmd |-> 1]
MCDayUntil == [c \in MCDayCmd |-> 2]
MCDayTargetOf == [c \in MCDayCmd |-> IF c = drop THEN walk ELSE NoCmd]
=============================================================================
