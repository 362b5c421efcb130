------------------------------ MODULE MCArming ------------------------------
EXTENDS Arming
CONSTANT assisted

MCOneMode == {assisted}

\* Past the end of the last process no property says anything more.
MCSomeoneIsLeft == life = "up" \/ proc < MaxProcs
=============================================================================
