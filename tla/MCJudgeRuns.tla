----------------------------- MODULE MCJudgeRuns -----------------------------
(* Model values for JudgeRuns: two task-scoped pairs, one of a completed    *)
(* task and one of the task the player was on, and one session pass.        *)
EXTENDS JudgeRuns

CONSTANTS done, current, wide, s1, s2

OnePass == [s \in Passes |-> {s1, s2}]
ShortPass == [s \in Passes |-> {s1}]
=============================================================================
