--------------------------- MODULE SessionPromise ---------------------------
(***************************************************************************)
(* What the players and spectators of a session may rely on, with none of  *)
(* the processes, requests and countdowns that bring it about.             *)
(*                                                                         *)
(* A session is in the lobby, in play, over, or gone.  It is finished for  *)
(* good unless somebody had decided on a write while it was not yet over   *)
(* and has still to carry it out: `decisions` are those writes, and they   *)
(* are spent one by one.  The judge-and-award chain starts in the very     *)
(* step that takes the session from play to its end, and in no other.      *)
(***************************************************************************)
EXTENDS Naturals

VARIABLES phase,      \* "lobby", "play", "over" or "gone"
          decisions,  \* writes decided before the end and not carried out
          chains      \* judge-and-award chains started

vars == <<phase, decisions, chains>>

Init == phase = "lobby" /\ decisions = {} /\ chains = 0

Decide ==
  /\ phase \in {"lobby", "play"}
  /\ decisions \subseteq decisions'
  /\ UNCHANGED <<phase, chains>>

Forget ==
  /\ decisions' \subseteq decisions
  /\ UNCHANGED <<phase, chains>>

\* A start, a pause, an end, or the undoing of one.
CarryOut ==
  /\ phase # "gone" /\ phase' \in {"lobby", "play", "over"}
  /\ decisions' \subseteq decisions /\ decisions' # decisions
  /\ UNCHANGED chains

Finish ==
  /\ phase = "play" /\ phase' = "over"
  /\ chains' = chains + 1
  /\ UNCHANGED decisions

\* Cancelled, or finished by the main server: no judges.
EndUnjudged ==
  /\ phase \in {"lobby", "play"} /\ phase' = "over"
  /\ UNCHANGED <<decisions, chains>>

Delete ==
  /\ phase # "gone" /\ phase' = "gone"
  /\ UNCHANGED <<decisions, chains>>

Next == Decide \/ Forget \/ CarryOut \/ Finish \/ EndUnjudged \/ Delete

Spec == Init /\ [][Next]_vars
=============================================================================
