----------------------------- MODULE MCLprLink -----------------------------
EXTENDS LprLink
CONSTANTS front, rear
BothCameras == {front, rear}
=============================================================================
