----------------------------- MODULE MCConvert -----------------------------
EXTENDS Convert

CONSTANTS c1, c2, p1, host1, host2, app, t1, t2

MCProcOf == [t \in Tasks |-> IF t = c1 THEN host1 ELSE IF t = c2 THEN host2 ELSE app]

\* t1 is a tile of the car profile, t2 of the profile built after it.
MCTurn == [t \in Tiles |-> IF t = t1 THEN 1 ELSE 2]
=============================================================================
