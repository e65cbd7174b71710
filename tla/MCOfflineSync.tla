--------------------------- MODULE MCOfflineSync ---------------------------
EXTENDS OfflineSync
CONSTANTS r1, r2, b1, v1, v2
MCOwn == {r1, r2}
MCOthers == {b1}
MCVehicle == [r \in {r1, r2, b1} |-> IF r = r2 THEN v2 ELSE v1]
=============================================================================
