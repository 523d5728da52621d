--------------------------- MODULE MCServerFleet ---------------------------
EXTENDS ServerFleet
CONSTANTS s1, s2
OneEach == [s \in Servers |-> 1]
TwoSizes == [s \in Servers |-> IF s = s1 THEN 0 ELSE 1]
=============================================================================
