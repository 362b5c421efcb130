--------------------------- MODULE MCActionChannel ---------------------------
(* The action channel on a small instance. *)
EXTENDS ActionChannel, FiniteSetsExt, TLC

CONSTANTS k1, k2, k3

MCThreeKeys == {k1, k2, k3}

\* No action and no property names a key, so the keys are taken in one order: a behaviour in
\* which they come in another is one of these with its keys renamed.
MCFirstUse(k) ==
    Min({i \in DOMAIN records : records[i].key = k}
        \cup {IF rpc = k THEN MaxIds + 1 ELSE MaxIds + 2})

MCKeysInOrder == MCFirstUse(k1) <= MCFirstUse(k2) /\ MCFirstUse(k2) <= MCFirstUse(k3)
=============================================================================
