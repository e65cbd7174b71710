------------------------------ MODULE MCBarrier ------------------------------
EXTENDS Barrier
CONSTANTS event, timer, pms
MCOpeners == {event, timer}
=============================================================================
