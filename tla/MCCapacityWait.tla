--------------------------- MODULE MCCapacityWait ---------------------------
EXTENDS CapacityWait

CONSTANTS h1, h2

TwoHandlers == {h1, h2}
=============================================================================
