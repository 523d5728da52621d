--------------------------- MODULE MCSnapshotPush ---------------------------
EXTENDS SnapshotPush
CONSTANTS c1, c2
\* One client plays; the other, opened too, has little to do.
Mostly == [c \in Clients |-> IF c = c1 THEN 2 ELSE 1]
=============================================================================
