------------------------------ MODULE TaskOrder ------------------------------
(***************************************************************************)
(* What a player may rely on: the tasks of the project close one after the *)
(* other, each only when it is completed or its work window has run out,   *)
(* and the player is told to be done only after the last one.              *)
(* Connections, handlers, probes and rows do not exist here.  A fault (a   *)
(* failed read, or a task whose test rows were not all there) suspends the *)
(* promise: then a task may close, and a player be told, too early.        *)
(***************************************************************************)
EXTENDS Integers

CONSTANTS Players,    \* the players of the session
          Projects    \* [sections |-> sections per task, open |-> open-ended tasks]

VARIABLES project,    \* the session's project
          passed,     \* player -> the <<task, section>> the player passed
          windows,    \* player -> the open-ended tasks whose window has run out
          closed,     \* player -> the number of tasks closed
          told,       \* players who were told to be done
          faulty      \* something was read wrongly

vars == <<project, passed, windows, closed, told, faulty>>

Tasks == DOMAIN project.sections
Sections(t) == {<<t, s>> : s \in 1 .. project.sections[t]}

\* An open-ended task is completed by its last section, the contract.
Needed(t) == IF t \in project.open THEN {<<t, project.sections[t]>>} ELSE Sections(t)

Init ==
  /\ project \in Projects
  /\ passed = [p \in Players |-> {}] /\ windows = [p \in Players |-> {}]
  /\ closed = [p \in Players |-> 0] /\ told = {} /\ faulty = FALSE

Pass(p) ==
  /\ \E x \in UNION {Sections(t) : t \in Tasks} : passed' = [passed EXCEPT ![p] = @ \cup {x}]
  /\ UNCHANGED <<project, windows, closed, told, faulty>>

RunOut(p) ==
  /\ \E t \in project.open : windows' = [windows EXCEPT ![p] = @ \cup {t}]
  /\ UNCHANGED <<project, passed, closed, told, faulty>>

\* A fault; it may also end the project for a player.
Fault ==
  /\ faulty' = TRUE
  /\ \E p \in Players : told' \in {told, told \cup {p}}
  /\ UNCHANGED <<project, passed, windows, closed>>

\* The next task, and only when it is done; the last one ends the project.
Close(p) ==
  LET t == closed[p] + 1
  IN /\ t \in Tasks
     /\ faulty' \in {faulty, TRUE}
     /\ Needed(t) \subseteq passed[p] \/ t \in windows[p] \/ faulty'
     /\ closed' = [closed EXCEPT ![p] = t]
     /\ told' \in {told, told \cup {p}}
     /\ told' # told => t + 1 \notin Tasks \/ faulty'
     /\ UNCHANGED <<project, passed, windows>>

Next == (\E p \in Players : Pass(p) \/ RunOut(p) \/ Close(p)) \/ Fault
Spec == Init /\ [][Next]_vars
=============================================================================
