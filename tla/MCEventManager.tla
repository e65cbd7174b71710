--------------------------- MODULE MCEventManager ---------------------------
EXTENDS EventManager
CONSTANTS dio, lpr
MCProducers == {dio, lpr}
=============================================================================
