-------------------------- MODULE MCTaskScheduler ---------------------------
(* Model values and projects for TaskScheduler.                            *)
EXTENDS TaskScheduler

CONSTANTS a, b, a1, a2, b1

OfA == [c \in Conns |-> IF c = b1 THEN b ELSE a]

\* One task of two sections; the same with the first as the setup.
Single == [last |-> 1, sections |-> <<2>>, setup |-> <<0>>, open |-> {}, requests |-> <<0>>]
Script == [Single EXCEPT !.setup = <<1>>]
\* Two classic tasks; a task that moves on while its judges may ask.
Pair   == [last |-> 2, sections |-> <<1, 1>>, setup |-> <<0, 0>>, open |-> {}, requests |-> <<0, 0>>]
Opens  == [Pair EXCEPT !.open = {1}, !.requests = <<1, 0>>]
\* One held task whose judges may ask for an artifact.
HeldOnly == [last |-> 1, sections |-> <<1>>, setup |-> <<0>>, open |-> {1}, requests |-> <<1>>]

All == {Single, Script, Pair, Opens, HeldOnly}
Holding == {HeldOnly}

Count(x) == IF x THEN 1 ELSE 0

\* A state constraint: one failed read or crash (in Pair: or end of the
\* session) where no judges take part; a second connection overlaps the first
\* in Single and follows it elsewhere; the window may run out in HeldOnly;
\* judges that can ask for nothing are left out.
OneDisturbance ==
  /\ faults + crashes + Count(over) <= (IF project \in {Single, Pair} THEN 1 ELSE 0)
  /\ project = Single => ~over
  /\ project = Opens => windows = {}
  /\ count <= (IF project = Script THEN 4 ELSE IF project = HeldOnly THEN 2 ELSE 3)
  /\ project # Single => pc[a2] = "off" \/ (pc[a1] = "ended" /\ project # Opens)
  /\ \A p \in Players : \A t \in Tasks :
       verdict[<<p, t>>] # "none" => project.requests[t] > 0 \/ Held(t)

\* Liveness: a second connection is opened only after the first has ended.
OneAfterTheOther == pc'[a2] # "off" => pc[a1] = "ended"
SuccessiveSpec   == Init /\ [][Next /\ OneAfterTheOther]_vars /\ Fairness
=============================================================================
