----------------------------- MODULE MCPresence -----------------------------
(* Model values for Presence: a player who reconnects, and another one.    *)
EXTENDS Presence

CONSTANTS p1, p2, s1, s2

TwoAndOne == [p \in Players |-> IF p = p1 THEN {s1, s2} ELSE {s1}]
=============================================================================
