------------------------- MODULE MCArtifactRequests -------------------------
(* Two judges: one asks for a capture, the other for the same in its own   *)
(* words or for a command.                                                 *)
EXTENDS ArtifactRequests

CONSTANTS ux, code, shot, reshot, lint

OneEach    == [j \in Judges |-> 1]
Distinct   == [j \in Judges |-> IF j = ux THEN {shot, reshot} ELSE {reshot, lint}]
AllImages  == [a \in Captures |-> "image"]

\* A state constraint.  One request may be polled twice, or meet one trouble:
\* the participant moves on, the session is interrupted, a run fails; no run
\* insists then.  A second request stays in the queue, and is a capture or
\* follows a command.  No step that Fairness promises leads out of it, so it
\* leaves no behaviour of EveryWaitEnds without its continuation.
Moving   == moved \/ session # "running"
Broken   == \E j \in Judges : row[j] = "failed"
Insists  == \E j \in Judges : run[j].confirm
Few ==
  /\ moved => session = "running"
  /\ Moving => ~Broken /\ ~Insists /\ file[1] = "no" /\ \A n \in Existing : Capture(n)
  /\ Insists => count = 1 /\ polls[1] <= 1
  /\ Moving \/ Broken \/ count = 2 \/ watchers # {} => polls[1] <= 1
  /\ count = 2 => ~Moving /\ ~Broken /\ polls[2] = 0 /\ (Capture(1) => Capture(2))
=============================================================================
