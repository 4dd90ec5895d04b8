-------------------------- MODULE MCResponderQueue --------------------------
EXTENDS ResponderQueue

CONSTANTS e1, e2
=============================================================================
