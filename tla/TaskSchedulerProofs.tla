------------------------- MODULE TaskSchedulerProofs -------------------------
(***************************************************************************)
(* What holds of TaskScheduler for every project, any number of players,   *)
(* connections, probes, faults and crashes.                                *)
(***************************************************************************)
EXTENDS TaskScheduler, FiniteSetTheorems, WellFoundedInduction, TLAPS

Faulty  == short \/ faults > 0
Sent(c) == {n \in 1 .. count : probes[n].by = c}

\* The table holds the probes sent, in order.
RowsInv == \A n \in Numbers : probes[n] = Unsent <=> n > count

\* A superseded handler that has sent its probe is on its way out.
LateInv == \A c \in Conns :
  /\ late[c] <= 1
  /\ late[c] # 0 => ~Current(c) /\ pc[c] \in {"wait", "sleep", "top", "ended"}
  /\ Current(c) => pc[c] # "off"

\* A handler waits for the last probe it has sent.
WaitInv == \A c \in Conns :
  pc[c] = "wait" => seen[c] \in Sent(c) /\ \A n \in Sent(c) : n <= seen[c]

\* A task's rows can be counted.
CountInv == \A t \in Tasks : IsFiniteSet(tests[t])

\* Probes are of tasks that have rows; who inserts the rows of a task has sent
\* nothing of it yet.
TestsInv ==
  /\ \A n \in 1 .. count : tests[probes[n].task] # {}
  /\ \A c \in Conns : pc[c] = "adapt" =>
       /\ \A n \in Sent(c) : probes[n].task # at[c]
       /\ seen[c] > 0 => tests[at[c]] # {}

\* Nobody is at a task before the one below it is closed.
PlaceInv ==
  /\ \A c \in Conns :
       /\ pc[c] \in {"pick", "adapt", "close", "advance", "reward"} => at[c] > 0
       /\ at[c] <= closed[Owner[c]] + 1
  /\ \A p \in Players : /\ sched[p].task <= closed[p] + 1
                        /\ closed[p] = project.last => p \in told

\* A task that is being closed is completed, or its window has run out.
Closing(c) == pc[c] \in {"close", "advance", "reward"}
CloseInv == \A c \in Conns : \A t \in Tasks : Closing(c) /\ at[c] = t =>
  IF via[c] THEN Complete(Owner[c], t) \/ Faulty ELSE <<Owner[c], t>> \in windows

\* The bonus of a closed task is paid, or is about to be.
Rewards(c, p, t) == Owner[c] = p /\ at[c] = t /\ pc[c] = "reward" /\ via[c]
PaidInv == \A p \in Players : \A t \in Tasks :
  /\ <<p, t>> \in bonus => Complete(p, t) \/ Faulty
  /\ t <= closed[p] => \/ <<p, t>> \in bonus \/ crashes > 0 \/ <<p, t>> \in windows
                       \/ \E c \in Conns : Rewards(c, p, t)

\* A classic section that a handler has sent twice had not been passed.
Again(m, n) ==
  /\ probes[n].player = probes[m].player /\ probes[n].task = probes[m].task
  /\ probes[n].item = probes[m].item /\ probes[n].item \in Own(probes[n].task)
  /\ project.setup[probes[n].task] = 0 /\ ~Open(probes[n].task)
TwiceInv == \A n \in 1 .. count : \A m \in 1 .. n - 1 :
  Again(m, n) /\ probes[n].by = probes[m].by => probes[m].outcome # "pass"

IInv == /\ TypeOK /\ CountInv /\ RowsInv /\ LateInv /\ WaitInv /\ TestsInv /\ PlaceInv /\ CloseInv
        /\ PaidInv /\ TwiceInv /\ PassMeansAnswer

-----------------------------------------------------------------------------
(* Operators *)

LEMMA LowestIsIn ==
  ASSUME NEW S, S \subseteq Nat, S # {}
  PROVE  Lowest(S) \in S
<1>1. PICK x \in S : \A y \in S : ~ (<<y, x>> \in OpToRel(<, Nat))
  BY WFMin, NatLessThanWellFounded
<1>a. \A y \in S : ~ (y < x)  BY <1>1 DEF OpToRel
<1>2. \A y \in S : x <= y  BY <1>a
<1> QED  BY <1>2 DEF Lowest

LEMMA NewestIsIn ==
  ASSUME NEW S, S \subseteq Numbers
  PROVE  Newest(S) \in S \cup {0}
<1> DEFINE Below == {MaxProbes - n : n \in S}
<1>1. CASE S = {}  BY <1>1 DEF Newest
<1>2. CASE S # {}
  <2>1. MaxProbes \in Nat /\ \A n \in S : n \in Nat /\ n <= MaxProbes
    BY BoundsAssumption DEF Numbers
  <2>2. Below \subseteq Nat /\ Below # {}  BY <1>2, <2>1
  <2>3. PICK x \in Below : \A y \in Below : ~ (<<y, x>> \in OpToRel(<, Nat))
    <3> HIDE DEF Below
    <3> QED  BY <2>2, WFMin, NatLessThanWellFounded
  <2>4. \A y \in Below : ~ (y < x)  BY <2>2, <2>3 DEF OpToRel
  <2>5. PICK n \in S : x = MaxProbes - n  OBVIOUS
  <2>6. ASSUME NEW m \in S PROVE m <= n
    <3>1. ~ (MaxProbes - m < MaxProbes - n)  BY <2>4, <2>5
    <3> QED  BY <2>1, <3>1
  <2> QED  BY <2>6 DEF Newest
<1> QED  BY <1>1, <1>2

LEMMA ProjectFacts ==
  ASSUME TypeOK
  PROVE  /\ project.last \in Nat \ {0} /\ 1 \in Tasks /\ FirstRequest \in Nat
         /\ MaxFaults \in Nat /\ MaxCrashes \in Nat /\ MaxProbes \in Nat
         /\ DOMAIN project.sections = Tasks /\ project.open \subseteq Tasks
         /\ \A t \in Tasks : /\ project.sections[t] \in 1 .. FirstRequest
                             /\ project.sections[t] \in Own(t) /\ 1 \in Own(t)
                             /\ Own(t) \subseteq 1 .. FirstRequest
                             /\ project.setup[t] \in Nat
         /\ \A c \in Conns : Owner[c] \in Players
<1>1. project \in Projects  BY DEF TypeOK
<1>2. /\ project.last \in Nat \ {0}
      /\ project.sections \in [1 .. project.last -> 1 .. FirstRequest]
      /\ project.open \subseteq 1 .. project.last
      /\ project.setup \in [1 .. project.last -> 0 .. FirstRequest]
  BY <1>1, ProjectsAssumption
<1>3. FirstRequest \in Nat /\ MaxFaults \in Nat /\ MaxCrashes \in Nat /\ MaxProbes \in Nat
  BY BoundsAssumption
<1> QED  BY <1>2, <1>3, OwnerAssumption DEF Tasks, Own

\* A probe of the table, by what is in its row.
LEMMA RowFacts ==
  ASSUME TypeOK, NEW n \in Numbers
  PROVE  /\ probes[n] # Unsent =>
              /\ probes[n].player \in Players /\ probes[n].task \in Tasks
              /\ probes[n].item \in Ordinals /\ probes[n].by \in Conns
              /\ probes[n].outcome \in Outcomes
              /\ \A out \in Outcomes : [probes[n] EXCEPT !.outcome = out] \in ProbeRow
         /\ probes[n] = Unsent => probes[n].outcome = "unsent" /\ probes[n].task = 0
                                  /\ probes[n].by \notin Conns
<1>1. probes[n] \in ProbeRow  BY DEF TypeOK
<1> QED  BY <1>1, NobodyAssumption DEF ProbeRow, Unsent

-----------------------------------------------------------------------------
(* What the picking of a probe comes to *)

\* A probe is sent: of a task with rows, and of a classic section only one
\* that this handler has not seen passed.
Asks(c, t, o) ==
  /\ pc[c] \in {"pick", "adapt"} /\ Dispatch(c, t, o)
  /\ tests[t] # {}
  /\ \A n \in Sent(c) :
       /\ probes[n].player = Owner[c] /\ probes[n].task = t /\ probes[n].item = o
       /\ o \in Own(t) /\ project.setup[t] = 0 /\ ~Open(t)
       => probes[n].outcome # "pass"

\* The task is to be closed.
Closes(c, completed) ==
  /\ pc[c] = "pick" /\ Close(c, completed)
  /\ short' \in BOOLEAN /\ faults' \in Nat /\ (Faulty => Faulty')
  /\ IF completed THEN Complete(Owner[c], at[c]) \/ Faulty'
                  ELSE <<Owner[c], at[c]>> \in windows

\* The task has no rows.
Adapts(c) ==
  /\ pc[c] = "pick" /\ tests[at[c]] = {} /\ Goto(c, "adapt") /\ seen' = [seen EXCEPT ![c] = 0]
  /\ UNCHANGED <<project, registry, at, via, hold, tables, agent, judges, ages, over, history>>

Picking(c) ==
  \/ PickElsewhere(c) \/ PickOpen(c) \/ PickClassic(c) \/ PickFails(c)
  \/ AdaptFound(c) \/ AdaptDone(c)

LEMMA OpenFacts ==
  ASSUME TypeOK, NEW p \in Players, NEW t \in Tasks, NEW o \in OpenRequests(p, t)
  PROVE  o \in tests[t] /\ o \in Ordinals /\ o \notin Own(t)
<1>1. o \in tests[t] /\ o > FirstRequest  BY DEF OpenRequests
<1>2. o \in Ordinals  BY <1>1 DEF TypeOK
<1> QED  BY <1>1, <1>2, ProjectFacts DEF Ordinals

LEMMA ClassicPick ==
  ASSUME IInv, NEW p \in Players, NEW t \in Tasks, Unpassed(p, t) # {}
  PROVE  /\ ClassicNext(p, t) \in Ordinals
         /\ project.setup[t] = 0 => ~Passed(p, t, ClassicNext(p, t))
<1> DEFINE o == Lowest(Unpassed(p, t))
           n == Newest(Resolved(p, t))
           s == project.setup[t]
<1>1. tests[t] \subseteq Nat /\ tests[t] \subseteq Ordinals  BY DEF IInv, TypeOK, Ordinals
<1>2. o \in Unpassed(p, t)
  <2>1. Unpassed(p, t) \subseteq Nat  BY <1>1 DEF Unpassed
  <2> QED  BY <2>1, LowestIsIn
<1>3. o \in Ordinals /\ ~Passed(p, t, o)  BY <1>1, <1>2 DEF Unpassed
<1>4. s \in Nat  BY ProjectFacts DEF IInv
<1>5. n \in Resolved(p, t) \cup {0}
  <2>1. Resolved(p, t) \subseteq Numbers  BY DEF Resolved
  <2> QED  BY <2>1, NewestIsIn
<1>6. n # 0 => probes[n].item \in Own(t)  BY <1>5 DEF Resolved
<1>7. n # 0 => probes[n].item \in Nat  BY <1>6 DEF Own
<1> HIDE DEF o, n
<1>8. ClassicNext(p, t) =
        IF o > FirstRequest \/ s = 0 \/ s >= o \/ n = 0 THEN o
        ELSE IF probes[n].outcome # "pass" THEN s
        ELSE IF probes[n].item >= s /\ probes[n].item + 1 < o THEN probes[n].item + 1
        ELSE o
  BY DEF ClassicNext, o, n
<1> QED  BY <1>3, <1>4, <1>7, <1>8 DEF Ordinals

\* Every way to pick sends a probe, closes the task, or finds it without rows.
LEMMA PickComesTo ==
  ASSUME IInv, NEW c \in Conns, Picking(c)
  PROVE  \/ \E t \in Tasks, o \in Ordinals : Asks(c, t, o)
         \/ Closes(c, TRUE) \/ Closes(c, FALSE)
         \/ Adapts(c)
<1> DEFINE p == Owner[c]
           t == at[c]
<1>1. p \in Players /\ TypeOK  BY ProjectFacts DEF IInv
<1>2. t \in Tasks
  <2>1. pc[c] \in {"pick", "adapt"}
    BY DEF Picking, PickElsewhere, PickOpen, PickClassic, PickFails, AdaptFound, AdaptDone
  <2> QED  BY <2>1 DEF IInv, TypeOK, PlaceInv, Tasks
<1>3. \A n \in Sent(c) : n \in Numbers
  BY BoundsAssumption DEF Sent, Numbers, IInv, TypeOK
<1>4. short \in BOOLEAN /\ faults \in Nat  BY DEF IInv, TypeOK
<1>5. \A u \in Tasks : tests[u] \subseteq Ordinals  BY DEF IInv, TypeOK
<1>6. \A u \in Tasks : \A o \in Turn(p, u) : o \in tests[u] /\ o \in Ordinals /\ o \notin Own(u)
  BY <1>1, OpenFacts DEF Turn
<1>7. CASE PickElsewhere(c)
  <2>1. PICK u \in Tasks \ {t} : \E o \in Turn(p, u) : Dispatch(c, u, o)
    BY <1>7 DEF PickElsewhere
  <2>a. PICK o \in Turn(p, u) : Dispatch(c, u, o)  BY <2>1
  <2>2. Asks(c, u, o)  BY <1>6, <1>7, <2>a DEF PickElsewhere, Asks
  <2> QED  BY <1>6, <2>2
<1>8. CASE PickOpen(c)
  <2> USE <1>8 DEF PickOpen
  <2>1. CASE \E o \in Turn(p, t) : Dispatch(c, t, o)
    BY <1>2, <1>6, <2>1 DEF Asks
  <2>2. CASE /\ OpenRequests(p, t) = {} /\ (CompletionPassed(p, t) \/ <<p, t>> \in windows)
             /\ Close(c, CompletionPassed(p, t)) /\ UNCHANGED <<short, faults>>
    <3>1. Complete(p, t) <=> CompletionPassed(p, t)  BY DEF Complete
    <3>2. CompletionPassed(p, t) \in {TRUE, FALSE}  BY DEF CompletionPassed
    <3>3. CASE CompletionPassed(p, t) = TRUE  BY <1>4, <2>2, <3>1, <3>3 DEF Closes, Faulty
    <3>4. CASE CompletionPassed(p, t) = FALSE  BY <1>4, <2>2, <3>1, <3>4 DEF Closes, Faulty
    <3> QED  BY <3>2, <3>3, <3>4
  <2>3. CASE \E o \in Own(t) \cap tests[t] : Dispatch(c, t, o)
    BY <1>2, <1>5, <2>3 DEF Asks
  <2> QED  BY <2>1, <2>2, <2>3
<1>9. CASE PickClassic(c)
  <2> USE <1>9 DEF PickClassic
  <2>1. CASE tests[t] = {} /\ Goto(c, "adapt") /\ seen' = [seen EXCEPT ![c] = 0]
    BY <2>1 DEF Adapts
  <2>2. CASE tests[t] # {} /\ Unpassed(p, t) # {} /\ Dispatch(c, t, ClassicNext(p, t))
    <3> DEFINE o == ClassicNext(p, t)
    <3>1. o \in Ordinals /\ (project.setup[t] = 0 => ~Passed(p, t, o))
      BY <1>1, <1>2, <2>2, ClassicPick
    <3> HIDE DEF o
    <3>2. Asks(c, t, o)
      BY <1>3, <2>2, <3>1 DEF Asks, Passed, Of, o
    <3> QED  BY <1>2, <3>1, <3>2
  <2>3. CASE /\ tests[t] # {} /\ Unpassed(p, t) = {} /\ Close(c, TRUE)
             /\ short' = (short \/ ~(Own(t) \subseteq tests[t])) /\ UNCHANGED faults
    <3>1. Own(t) \subseteq tests[t] => Complete(p, t)
      BY <1>1, <1>2, <2>3, ProjectFacts DEF Unpassed, Complete
    <3>2. short' \in BOOLEAN /\ faults' \in Nat /\ (Faulty => Faulty')
      BY <1>4, <2>3 DEF Faulty
    <3>3. Complete(p, t) \/ Faulty'  BY <2>3, <3>1 DEF Faulty
    <3>4. Closes(c, TRUE)  BY <2>3, <3>2, <3>3 DEF Closes
    <3> QED  BY <3>4
  <2> QED  BY <2>1, <2>2, <2>3
<1>10. CASE PickFails(c)
  <2>1. short' \in BOOLEAN /\ faults' \in Nat /\ Faulty'
    BY <1>4, <1>10 DEF PickFails, Faulty
  <2>2. Closes(c, TRUE)  BY <1>10, <2>1 DEF PickFails, Closes
  <2> QED  BY <2>2
<1>11. CASE AdaptFound(c)
  <2>1. Lowest(tests[t]) \in Ordinals
    BY <1>2, <1>5, <1>11, LowestIsIn DEF AdaptFound, Ordinals
  <2>2. \A n \in Sent(c) : probes[n].task # t  BY <1>11 DEF AdaptFound, IInv, TestsInv
  <2>3. Asks(c, t, Lowest(tests[t]))  BY <1>11, <2>2 DEF AdaptFound, Asks
  <2> QED  BY <1>2, <2>1, <2>3
<1>12. CASE AdaptDone(c)
  <2>1. \A n \in Sent(c) : probes[n].task # t  BY <1>12 DEF AdaptDone, IInv, TestsInv
  <2>2. tests[t] # {}
    <3>1. seen[c] > 0  BY <1>1, <1>2, <1>12, ProjectFacts DEF AdaptDone
    <3> QED  BY <1>12, <3>1 DEF AdaptDone, IInv, TestsInv
  <2>3. Asks(c, t, 1)  BY <1>12, <2>1, <2>2 DEF AdaptDone, Asks
  <2>4. 1 \in Ordinals  BY DEF Ordinals
  <2> QED  BY <1>2, <2>3, <2>4
<1> QED  BY <1>7, <1>8, <1>9, <1>10, <1>11, <1>12 DEF Picking

-----------------------------------------------------------------------------
(* Types *)

\* The steps of Next, with the picking as what it comes to.
Leaving(c) == Leave(c) \/ TopEnds(c) \/ IdleEnds(c) \/ AdaptFails(c)
Looping(c) ==
  \/ TopResolves(c) \/ Bootstrap(c) \/ AdaptInserts(c) \/ Timeout(c) \/ Wake(c)
  \/ CloseUnheld(c) \/ HoldStarts(c) \/ HoldGoesOn(c) \/ HoldEnds(c)
  \/ Advance(c) \/ Reward(c) \/ Connect(c) \/ Elapse(c)
  \/ \E n \in Numbers : \/ \E correct \in BOOLEAN : Answer(c, n, correct)
                        \/ Receive(c, n)

LEMMA NextIs ==
  ASSUME Next
  PROVE  \/ \E c \in Conns : Picking(c) \/ Leaving(c) \/ Looping(c)
         \/ \E p \in Players : \E t \in Tasks : Judging(p, t) \/ Time(p, t)
         \/ EndSession \/ Crash
BY DEF Next, Step, Client, Picking, Leaving, Looping

LEMMA EndTyped ==
  ASSUME TypeOK, NEW c \in Conns, End(c)
  PROVE  /\ registry' \in [Players -> Conns \cup {Nobody}]
         /\ pc' = [pc EXCEPT ![c] = "ended"]
         /\ at' \in [Conns -> 0 .. project.last] /\ seen' \in [Conns -> Nat]
         /\ via' \in [Conns -> BOOLEAN]
         /\ hold' \in [Conns -> [task : 0 .. project.last, elapsed : BOOLEAN]]
         /\ wire' \in [Conns -> SUBSET Numbers] /\ inbox' \in [Conns -> SUBSET Numbers]
<1>1. project.last \in Nat  BY ProjectFacts
<1>2. NoHold \in [task : 0 .. project.last, elapsed : BOOLEAN]  BY <1>1 DEF NoHold
<1>3. registry' \in [Players -> Conns \cup {Nobody}]  BY DEF End, TypeOK
<1>4. pc' = [pc EXCEPT ![c] = "ended"]  BY DEF End, Goto
<1>5. at' \in [Conns -> 0 .. project.last]  BY <1>1 DEF End, TypeOK
<1>6. seen' \in [Conns -> Nat] /\ via' \in [Conns -> BOOLEAN]  BY DEF End, TypeOK
<1>7. hold' \in [Conns -> [task : 0 .. project.last, elapsed : BOOLEAN]]
  BY <1>2 DEF End, TypeOK
<1>8. wire' \in [Conns -> SUBSET Numbers]  BY DEF End, TypeOK
<1>9. inbox' \in [Conns -> SUBSET Numbers]  BY DEF End, TypeOK
<1> QED  BY <1>3, <1>4, <1>5, <1>6, <1>7, <1>8, <1>9

LEMMA LeavingTyped ==
  ASSUME TypeOK, NEW c \in Conns, Leaving(c)
  PROVE  TypeOK'
<1> USE DEF tables, judges, ages, history, Tasks, PT, ProbeRow
<1>1. End(c) /\ UNCHANGED <<project, tables, right, judges, ages, over, late, closed, told, short, crashes>>
      /\ faults' \in Nat
  BY DEF Leaving, Leave, TopEnds, IdleEnds, AdaptFails, TypeOK
<1> QED  BY <1>1, EndTyped DEF TypeOK, Places

LEMMA AsksTyped ==
  ASSUME TypeOK, NEW c \in Conns, NEW t \in Tasks, NEW o \in Ordinals, Dispatch(c, t, o)
  PROVE  TypeOK'
<1> DEFINE n == count + 1
           new == [player |-> Owner[c], task |-> t, item |-> o, by |-> c, outcome |-> "open"]
<1>1. n \in Numbers /\ n \in Nat /\ count' \in 0 .. MaxProbes
  BY BoundsAssumption DEF Dispatch, TypeOK, Numbers
<1>2. new \in ProbeRow  BY ProjectFacts DEF ProbeRow, Outcomes
<1>3. probes' \in [Numbers -> ProbeRow]  BY <1>2 DEF Dispatch, TypeOK
<1>4. seen' \in [Conns -> Nat] /\ wire' \in [Conns -> SUBSET Numbers]
  BY <1>1 DEF Dispatch, TypeOK
<1>5. late' \in [Conns -> Nat]  BY DEF Dispatch, TypeOK
<1>6. pc' = [pc EXCEPT ![c] = "wait"]  BY DEF Dispatch, Goto
<1>7. UNCHANGED <<project, registry, at, via, hold, sched, tests, bonus, inbox, right, judges, ages,
                  over, closed, told, short, faults, crashes>>
  BY DEF Dispatch
<1>8. pc' \in [Conns -> Places]  BY <1>6 DEF TypeOK, Places
<1>9. UNCHANGED <<verdict, commits, delivered, quiet, expired, windows>>
  BY <1>7 DEF judges, ages
<1>10. Tasks' = Tasks /\ PT' = PT /\ ProbeRow' = ProbeRow  BY <1>7 DEF Tasks, PT, ProbeRow
<1>11. /\ project' \in Projects /\ registry' \in [Players -> Conns \cup {Nobody}]
       /\ at' \in [Conns -> 0 .. project'.last] /\ via' \in [Conns -> BOOLEAN]
       /\ hold' \in [Conns -> [task : 0 .. project'.last, elapsed : BOOLEAN]]
       /\ sched' \in [Players -> [state : {"none", "idle", "judging", "completed"},
                                  task : 0 .. project'.last]]
       /\ inbox' \in [Conns -> SUBSET Numbers] /\ right' \subseteq Numbers
       /\ closed' \in [Players -> 0 .. project'.last]
  BY <1>7 DEF TypeOK
<1>12. /\ tests' \in [Tasks' -> SUBSET Ordinals] /\ bonus' \subseteq PT'
       /\ commits' \in [PT' -> Nat] /\ verdict' \in [PT' -> {"none", "running", "concluded"}]
       /\ delivered' \subseteq Players \X Tasks' \X Ordinals
       /\ expired' \subseteq Players \X Tasks' \X Ordinals
       /\ quiet' \subseteq PT' /\ windows' \subseteq PT'
  BY <1>7, <1>9, <1>10 DEF TypeOK
<1>13. over' \in BOOLEAN /\ told' \subseteq Players /\ short' \in BOOLEAN /\ faults' \in Nat
       /\ crashes' \in Nat
  BY <1>7 DEF TypeOK
<1>14. probes' \in [Numbers -> ProbeRow'] /\ count' \in 0 .. MaxProbes
  BY <1>1, <1>3, <1>10
<1> QED  BY <1>4, <1>5, <1>8, <1>11, <1>12, <1>13, <1>14 DEF TypeOK

LEMMA SchedTyped ==
  ASSUME TypeOK, NEW p \in Players
  PROVE  /\ MarkJudging(p) => sched' \in [Players -> [state : {"none", "idle", "judging", "completed"},
                                                      task : 0 .. project.last]]
         /\ sched[p].task \in 0 .. project.last
<1>1. sched \in [Players -> [state : {"none", "idle", "judging", "completed"}, task : 0 .. project.last]]
  BY DEF TypeOK
<1>2. sched[p] \in [state : {"none", "idle", "judging", "completed"}, task : 0 .. project.last]
  BY <1>1
<1>3. [sched[p] EXCEPT !.state = "judging"]
        \in [state : {"none", "idle", "judging", "completed"}, task : 0 .. project.last]
  BY <1>2
<1>4. PICK s : s = IF sched[p].state = "completed" THEN sched[p]
                                                   ELSE [sched[p] EXCEPT !.state = "judging"]
  OBVIOUS
<1>5. s \in [state : {"none", "idle", "judging", "completed"}, task : 0 .. project.last]
  BY <1>2, <1>3, <1>4
<1>6. MarkJudging(p) => sched' = [sched EXCEPT ![p] = s]  BY <1>4 DEF MarkJudging
<1> QED  BY <1>1, <1>2, <1>5, <1>6

LEMMA FiringTyped ==
  ASSUME TypeOK, NEW p, NEW t
  PROVE  /\ FireJudges(p, t) => commits' \in [PT -> Nat]
         /\ FireUnlessStarted(p, t) => commits' \in [PT -> Nat]
<1> DEFINE x == <<p, t>>
<1>1. commits \in [PT -> Nat]  BY DEF TypeOK
<1>2. [commits EXCEPT ![x] = @ + 1] \in [PT -> Nat]
  <2> HIDE DEF x
  <2>1. CASE x \in PT
    <3>1. commits[x] + 1 \in Nat  BY <1>1, <2>1
    <3> QED  BY <1>1, <3>1
  <2>2. CASE x \notin PT
    <3>1. [commits EXCEPT ![x] = @ + 1] = commits  BY <1>1, <2>2
    <3> QED  BY <1>1, <3>1
  <2> QED  BY <2>1, <2>2
<1> QED  BY <1>1, <1>2 DEF FireJudges, FireUnlessStarted

LEMMA ResolveTyped ==
  ASSUME TypeOK, NEW n \in Nat, NEW out \in Outcomes, Resolve(n, out)
  PROVE  probes' \in [Numbers -> ProbeRow]
<1>1. CASE n \in Numbers /\ probes[n].outcome = "open"
  <2>1. probes' = [probes EXCEPT ![n] = [probes[n] EXCEPT !.outcome = out]]
    BY <1>1 DEF Resolve, TypeOK
  <2>2. [probes[n] EXCEPT !.outcome = out] \in ProbeRow  BY <1>1, RowFacts
  <2> QED  BY <2>1, <2>2 DEF TypeOK
<1>2. CASE n \in Numbers /\ probes[n].outcome # "open"
  <2>1. probes' = [probes EXCEPT ![n] = [probes[n] EXCEPT !.outcome = probes[n].outcome]]
    BY <1>2 DEF Resolve, TypeOK
  <2>2. [probes[n] EXCEPT !.outcome = probes[n].outcome] = probes[n]
    BY <1>2 DEF TypeOK, ProbeRow, Unsent
  <2> QED  BY <2>1, <2>2 DEF TypeOK
<1>3. CASE n \notin Numbers
  BY <1>3 DEF Resolve, TypeOK
<1> QED  BY <1>1, <1>2, <1>3

LEMMA LoopingTyped ==
  ASSUME TypeOK, NEW c \in Conns, Looping(c), pc[c] = "reward" => at[c] > 0
  PROVE  TypeOK'
<1> USE DEF handler, tables, agent, judges, ages, history, Tasks, PT, ProbeRow
<1>0. project.last \in Nat \ {0} /\ Owner[c] \in Players  BY ProjectFacts
<1>a. \A l \in Places : Goto(c, l) => pc' \in [Conns -> Places]
  BY DEF Goto, TypeOK
<1>b. Rest(c) => /\ pc' \in [Conns -> Places] /\ at' \in [Conns -> 0 .. project.last]
                 /\ seen' \in [Conns -> Nat]
  BY <1>0, <1>a DEF Rest, Places, TypeOK
<1>c. hold' = [hold EXCEPT ![c] = NoHold] =>
        hold' \in [Conns -> [task : 0 .. project.last, elapsed : BOOLEAN]]
  BY <1>0 DEF NoHold, TypeOK
<1>d. at[c] \in 0 .. project.last /\ seen[c] \in Nat  BY DEF TypeOK
<1>1. CASE TopResolves(c)
  <2>1. pc' \in [Conns -> Places]  BY <1>1, <1>a DEF TopResolves, Places
  <2>2. at' \in [Conns -> 0 .. project.last]
    <3>1. sched[Owner[c]].task \in 0 .. project.last  BY <1>0, SchedTyped
    <3> QED  BY <1>0, <1>1, <3>1 DEF TopResolves, TypeOK
  <2> QED  BY <1>1, <2>1, <2>2 DEF TopResolves, TypeOK
<1>2. CASE Bootstrap(c)
  <2>1. pc' \in [Conns -> Places]  BY <1>2, <1>a DEF Bootstrap, Places
  <2>2. at' \in [Conns -> 0 .. project.last]  BY <1>0, <1>2 DEF Bootstrap, TypeOK
  <2>3. sched' \in [Players -> [state : {"none", "idle", "judging", "completed"}, task : 0 .. project.last]]
    BY <1>0, <1>2 DEF Bootstrap, TypeOK
  <2> QED  BY <1>2, <2>1, <2>2, <2>3 DEF Bootstrap, TypeOK
<1>3. CASE AdaptInserts(c)
  <2>1. CASE End(c) /\ UNCHANGED <<tests, right>>
    <3>1. UNCHANGED <<project, tests, right, sched, probes, count, bonus, judges, ages, over, history>>
      BY <1>3, <2>1 DEF AdaptInserts
    <3>2. pc' \in [Conns -> Places]  BY <2>1, EndTyped DEF TypeOK, Places
    <3> QED  BY <2>1, <3>1, <3>2, EndTyped DEF TypeOK
  <2>2. CASE /\ tests' = [tests EXCEPT ![at[c]] = @ \cup {seen[c] + 1}]
             /\ seen' = [seen EXCEPT ![c] = seen[c] + 1]
             /\ UNCHANGED <<pc, at, via, hold, registry, agent>>
    <3> DEFINE s == seen[c] + 1
    <3>1. s \in Ordinals  BY <1>d DEF Ordinals
    <3>2. tests' = [tests EXCEPT ![at[c]] = @ \cup {s}] /\ seen' = [seen EXCEPT ![c] = s]
      BY <2>2
    <3>5. UNCHANGED <<project, pc, at, via, hold, registry, agent, sched, probes, count, bonus,
                      judges, ages, over, history>>
      BY <1>3, <2>2 DEF AdaptInserts
    <3>3. tests' \in [Tasks -> SUBSET Ordinals]  BY <3>1, <3>2 DEF TypeOK
    <3>4. seen' \in [Conns -> Nat]  BY <1>d, <3>2 DEF TypeOK
    <3> QED  BY <3>3, <3>4, <3>5 DEF TypeOK
  <2> QED  BY <1>3, <2>1, <2>2 DEF AdaptInserts
<1>4. CASE Timeout(c)
  <2>1. probes' \in [Numbers -> ProbeRow]  BY <1>4, <1>d, ResolveTyped DEF Timeout, Outcomes
  <2> QED  BY <1>4, <1>b, <2>1 DEF Timeout, TypeOK
<1>5. CASE Wake(c)
  <2>1. pc' \in [Conns -> Places]  BY <1>5, <1>a DEF Wake, Places
  <2> QED  BY <1>5, <2>1 DEF Wake, TypeOK
<1>6. CASE CloseUnheld(c)
  <2>1. pc' \in [Conns -> Places]  BY <1>6, <1>a DEF CloseUnheld, Places
  <2>2. commits' \in [PT -> Nat]  BY <1>6, FiringTyped DEF CloseUnheld, TypeOK
  <2> QED  BY <1>6, <1>c, <2>1, <2>2 DEF CloseUnheld, TypeOK
<1>7. CASE HoldStarts(c)
  <2>1. commits' \in [PT -> Nat]  BY <1>7, FiringTyped DEF HoldStarts
  <2>2. sched' \in [Players -> [state : {"none", "idle", "judging", "completed"}, task : 0 .. project.last]]
    BY <1>0, <1>7, SchedTyped DEF HoldStarts
  <2>3. hold' \in [Conns -> [task : 0 .. project.last, elapsed : BOOLEAN]]
    BY <1>d, <1>7 DEF HoldStarts, TypeOK
  <2> QED  BY <1>7, <1>b, <2>1, <2>2, <2>3 DEF HoldStarts, TypeOK
<1>8. CASE HoldGoesOn(c)
  <2>1. sched' \in [Players -> [state : {"none", "idle", "judging", "completed"}, task : 0 .. project.last]]
    BY <1>0, <1>8, SchedTyped DEF HoldGoesOn
  <2> QED  BY <1>8, <1>b, <2>1 DEF HoldGoesOn, TypeOK
<1>9. CASE HoldEnds(c)
  <2>1. pc' \in [Conns -> Places]  BY <1>9, <1>a DEF HoldEnds, Places
  <2>2. ASSUME NEW n \in Numbers, probes[n].outcome = "open"
        PROVE  [probes[n] EXCEPT !.outcome = "no_response"] \in ProbeRow
    BY <2>2, RowFacts DEF Outcomes
  <2>3. probes' \in [Numbers -> ProbeRow]  BY <1>9, <2>2 DEF HoldEnds, TypeOK
  <2> QED  BY <1>9, <1>c, <2>1, <2>3 DEF HoldEnds, TypeOK
<1>10. CASE Advance(c)
  <2>1. pc' \in [Conns -> Places]  BY <1>10, <1>a DEF Advance, Places
  <2>2. sched' \in [Players -> [state : {"none", "idle", "judging", "completed"}, task : 0 .. project.last]]
    BY <1>0, <1>d, <1>10 DEF Advance, After, Completed, TypeOK
  <2>3. seen' \in [Conns -> Nat]  BY <1>10 DEF Advance, TypeOK
  <2>4. closed' \in [Players -> 0 .. project.last]  BY <1>0, <1>d, <1>10 DEF Advance, TypeOK
  <2>5. told' \subseteq Players /\ faults' \in Nat  BY <1>0, <1>10 DEF Advance, TypeOK
  <2> QED  BY <1>10, <2>1, <2>2, <2>3, <2>4, <2>5 DEF Advance, TypeOK
<1>11. CASE Reward(c)
  <2>1. pc' \in [Conns -> Places]  BY <1>11, <1>a DEF Reward, Places
  <2>2. at' \in [Conns -> 0 .. project.last] /\ seen' \in [Conns -> Nat] /\ via' \in [Conns -> BOOLEAN]
    BY <1>0, <1>11 DEF Reward, TypeOK
  <2>3. commits' \in [PT -> Nat]  BY <1>11, FiringTyped DEF Reward, TypeOK
  <2>4. bonus' \subseteq PT  BY <1>0, <1>11 DEF Reward, TypeOK
  <2> QED  BY <1>11, <2>1, <2>2, <2>3, <2>4 DEF Reward, TypeOK
<1>12. CASE Connect(c)
  <2>1. pc' \in [Conns -> Places]  BY <1>12, <1>a DEF Connect, Places
  <2>2. registry' \in [Players -> Conns \cup {Nobody}]  BY <1>12 DEF Connect, TypeOK
  <2>3. wire' \in [Conns -> SUBSET Numbers]  BY <1>12 DEF Connect, TypeOK
  <2> QED  BY <1>12, <2>1, <2>2, <2>3 DEF Connect, TypeOK
<1>13. CASE Elapse(c)
  <2>1. hold' = [hold EXCEPT ![c] = [hold[c] EXCEPT !.elapsed = TRUE]]
    BY <1>13 DEF Elapse, TypeOK
  <2>a. hold[c] \in [task : 0 .. project.last, elapsed : BOOLEAN]  BY DEF TypeOK
  <2>2. [hold[c] EXCEPT !.elapsed = TRUE] \in [task : 0 .. project.last, elapsed : BOOLEAN]
    BY <2>a
  <2>3. hold' \in [Conns -> [task : 0 .. project.last, elapsed : BOOLEAN]]
    BY <2>1, <2>2 DEF TypeOK
  <2> QED  BY <1>13, <2>3 DEF Elapse, TypeOK
<1>14. ASSUME NEW n \in Numbers, NEW correct \in BOOLEAN, Answer(c, n, correct) PROVE TypeOK'
  <2>1. wire' \in [Conns -> SUBSET Numbers]  BY <1>14 DEF Answer, TypeOK
  <2>2. inbox' \in [Conns -> SUBSET Numbers]  BY <1>14 DEF Answer, TypeOK
  <2>3. right' \subseteq Numbers  BY <1>14 DEF Answer, TypeOK
  <2> QED  BY <1>14, <2>1, <2>2, <2>3 DEF Answer, TypeOK
<1>15. ASSUME NEW n \in Numbers, Receive(c, n) PROVE TypeOK'
  <2>1. inbox' \in [Conns -> SUBSET Numbers]  BY <1>15 DEF Receive, TypeOK
  <2>2. CASE Rest(c) /\ Resolve(seen[c], Grade(seen[c], n))
    <3>1. Grade(seen[c], n) \in Outcomes  BY DEF Grade, Outcomes
    <3>2. probes' \in [Numbers -> ProbeRow]  BY <1>d, <2>2, <3>1, ResolveTyped
    <3> QED  BY <1>15, <1>b, <2>1, <2>2, <3>2 DEF Receive, TypeOK
  <2>3. CASE UNCHANGED <<pc, at, seen, probes>>
    BY <1>15, <2>1, <2>3 DEF Receive, TypeOK
  <2> QED  BY <1>15, <2>2, <2>3 DEF Receive
<1> QED  BY <1>1, <1>2, <1>3, <1>4, <1>5, <1>6, <1>7, <1>8, <1>9, <1>10, <1>11, <1>12, <1>13,
            <1>14, <1>15 DEF Looping

LEMMA RequestIsNew ==
  ASSUME TypeOK, CountInv, NEW t \in Tasks
  PROVE  FirstRequest + Cardinality({q \in tests[t] : q > FirstRequest}) + 1 \in Ordinals
<1> DEFINE Requests == {q \in tests[t] : q > FirstRequest}
<1>1. IsFiniteSet(tests[t]) /\ Requests \subseteq tests[t]  BY DEF CountInv
<1>2. Cardinality(Requests) \in Nat  BY <1>1, FS_Subset, FS_CardinalityType
<1> QED  BY <1>2, BoundsAssumption DEF Ordinals

LEMMA JudgingTyped ==
  ASSUME TypeOK, CountInv, NEW p \in Players, NEW t \in Tasks, Judging(p, t) \/ Time(p, t)
  PROVE  TypeOK'
<1> USE DEF handler, tables, agent, judges, ages, history, Tasks, PT, ProbeRow
<1> DEFINE x == <<p, t>>
<1>0. x \in PT  OBVIOUS
<1>1. CASE CommitSeen(p, t)
  <2>1. commits[x] \in Nat /\ commits[x] > 0 /\ commits' = [commits EXCEPT ![x] = commits[x] - 1]
        /\ verdict' = [verdict EXCEPT ![x] = "running"]
    BY <1>0, <1>1 DEF CommitSeen, TypeOK
  <2>2. commits' \in [PT -> Nat]
    <3> HIDE DEF x, PT
    <3>1. commits \in [PT -> Nat] /\ commits[x] - 1 \in Nat  BY <2>1 DEF TypeOK
    <3> QED  BY <2>1, <3>1
  <2>3. verdict' \in [PT -> {"none", "running", "concluded"}]
    <3> HIDE DEF x, PT
    <3> QED  BY <2>1 DEF TypeOK
  <2> QED  BY <1>1, <2>2, <2>3 DEF CommitSeen, TypeOK
<1>2. CASE JudgeConcludes(p, t)
  <2>1. verdict' = [verdict EXCEPT ![x] = "concluded"]  BY <1>2 DEF JudgeConcludes
  <2>2. verdict' \in [PT -> {"none", "running", "concluded"}]
    <3> HIDE DEF x, PT
    <3> QED  BY <2>1 DEF TypeOK
  <2> QED  BY <1>2, <2>2 DEF JudgeConcludes, TypeOK
<1>3. CASE Register(p, t)
  <2> DEFINE o == FirstRequest + Cardinality({q \in tests[t] : q > FirstRequest}) + 1
  <2>1. tests' = [tests EXCEPT ![t] = @ \cup {o}]  BY <1>3 DEF Register
  <2>2. o \in Ordinals  BY RequestIsNew
  <2> HIDE DEF o
  <2>3. tests' \in [Tasks -> SUBSET Ordinals]  BY <2>1, <2>2 DEF TypeOK
  <2> QED  BY <1>3, <2>3 DEF Register, TypeOK
<1>4. ASSUME NEW o \in tests[t], Deliver(p, t, o) PROVE TypeOK'
  <2>1. o \in Ordinals  BY DEF TypeOK
  <2>2. ASSUME NEW n \in Numbers, probes[n].outcome \in {"open", "error"}
        PROVE  [probes[n] EXCEPT !.outcome = "pass"] \in ProbeRow
    <3>1. probes[n] # Unsent  BY <2>2 DEF Unsent
    <3> HIDE DEF ProbeRow
    <3> QED  BY <3>1, RowFacts DEF Outcomes
  <2>3. probes' \in [Numbers -> ProbeRow]  BY <1>4, <2>2 DEF Deliver, TypeOK
  <2>4. /\ delivered' \subseteq Players \X Tasks \X Ordinals
        /\ expired' \subseteq Players \X Tasks \X Ordinals
        /\ quiet' \subseteq PT
    BY <1>4, <2>1 DEF Deliver, TypeOK
  <2> QED  BY <1>4, <2>3, <2>4 DEF Deliver, TypeOK
<1>5. CASE GoQuiet(p, t)
  <2>1. quiet' \subseteq PT  BY <1>0, <1>5 DEF GoQuiet, TypeOK
  <2> QED  BY <1>5, <2>1 DEF GoQuiet, TypeOK
<1>6. CASE RunOut(p, t)
  <2>1. windows' \subseteq PT  BY <1>0, <1>6 DEF RunOut, TypeOK
  <2> QED  BY <1>6, <2>1 DEF RunOut, TypeOK
<1>7. ASSUME NEW o \in tests[t], Expire(p, t, o) PROVE TypeOK'
  <2>1. o \in Ordinals  BY DEF TypeOK
  <2>2. expired' \subseteq Players \X Tasks \X Ordinals  BY <1>7, <2>1 DEF Expire, TypeOK
  <2> QED  BY <1>7, <2>2 DEF Expire, TypeOK
<1> QED  BY <1>1, <1>2, <1>3, <1>4, <1>5, <1>6, <1>7 DEF Judging, Time

LEMMA PickingTyped ==
  ASSUME TypeOK, NEW c \in Conns,
         \/ \E v \in {TRUE, FALSE} : Closes(c, v)
         \/ Adapts(c)
  PROVE  TypeOK'
<1> USE DEF handler, tables, agent, judges, ages, history, Tasks, PT, ProbeRow
<1>1. ASSUME NEW v \in {TRUE, FALSE}, Closes(c, v) PROVE TypeOK'
  <2>1. pc' \in [Conns -> Places] /\ via' \in [Conns -> BOOLEAN]
    BY <1>1 DEF Closes, Close, Goto, Places, TypeOK
  <2> QED  BY <1>1, <2>1 DEF Closes, Close, TypeOK
<1>2. CASE Adapts(c)
  <2>1. pc' \in [Conns -> Places] /\ seen' \in [Conns -> Nat]
    BY <1>2 DEF Adapts, Goto, Places, TypeOK
  <2> QED  BY <1>2, <2>1 DEF Adapts, TypeOK
<1> QED  BY <1>1, <1>2

LEMMA CrashTyped == ASSUME TypeOK, Crash PROVE TypeOK'
<1> USE DEF handler, tables, agent, judges, ages, history, Tasks, PT, ProbeRow
<1>1. project.last \in Nat  BY ProjectFacts
<1>2. pc' \in [Conns -> Places]  BY DEF Crash, Places, TypeOK
<1>3. /\ registry' \in [Players -> Conns \cup {Nobody}]
      /\ at' \in [Conns -> 0 .. project.last] /\ seen' \in [Conns -> Nat]
      /\ via' \in [Conns -> BOOLEAN]
  BY <1>1 DEF Crash
<1>4. hold' \in [Conns -> [task : 0 .. project.last, elapsed : BOOLEAN]]
  BY <1>1 DEF Crash, NoHold
<1>5. wire' \in [Conns -> SUBSET Numbers] /\ inbox' \in [Conns -> SUBSET Numbers]
  BY DEF Crash
<1>6. commits' \in [PT -> Nat] /\ crashes' \in Nat  BY DEF Crash, TypeOK
<1> QED  BY <1>2, <1>3, <1>4, <1>5, <1>6 DEF Crash, TypeOK

LEMMA TypeStep == ASSUME IInv, [Next]_vars PROVE TypeOK'
<1>0. TypeOK /\ CountInv /\ \A c \in Conns : pc[c] = "reward" => at[c] > 0
  BY DEF IInv, PlaceInv
<1>1. ASSUME NEW c \in Conns, Picking(c) PROVE TypeOK'
  BY <1>0, <1>1, PickComesTo, PickingTyped, AsksTyped DEF Asks
<1>2. ASSUME NEW c \in Conns, Leaving(c) PROVE TypeOK'
  BY <1>0, <1>2, LeavingTyped
<1>3. ASSUME NEW c \in Conns, Looping(c) PROVE TypeOK'
  BY <1>0, <1>3, LoopingTyped
<1>4. ASSUME NEW p \in Players, NEW t \in Tasks, Judging(p, t) \/ Time(p, t) PROVE TypeOK'
  BY <1>0, <1>4, JudgingTyped
<1>5. CASE EndSession
  BY <1>0, <1>5 DEF EndSession, handler, tables, agent, judges, ages, history, Tasks, PT, ProbeRow, TypeOK
<1>6. CASE Crash
  BY <1>0, <1>6, CrashTyped
<1>7. CASE UNCHANGED vars
  BY <1>0, <1>7 DEF vars, handler, tables, agent, judges, ages, history, Tasks, PT, ProbeRow, TypeOK
<1> QED  BY <1>1, <1>2, <1>3, <1>4, <1>5, <1>6, <1>7, NextIs

-----------------------------------------------------------------------------
(* The rows of the probes table: what is never taken back                   *)

SameProbe(n) ==
  /\ probes'[n].player = probes[n].player /\ probes'[n].task = probes[n].task
  /\ probes'[n].item = probes[n].item /\ probes'[n].by = probes[n].by

\* A row may come to be passed in two ways: the handler that waits for it reads
\* the right answer, or the file that a judge asked for arrives.
BecomesPassed(n) ==
  \/ n \in right /\ \E c \in Conns : pc[c] = "wait" /\ seen[c] = n
  \/ /\ <<probes[n].player, probes[n].task, probes[n].item>> \in delivered'
     /\ probes[n].item > FirstRequest

RowStep(n) ==
  /\ SameProbe(n)
  /\ probes[n].outcome = "pass" => probes'[n].outcome = "pass"
  /\ probes[n].outcome # "pass" /\ probes'[n].outcome = "pass" => BecomesPassed(n)
  /\ probes[n] = Unsent => probes'[n] = Unsent
  /\ probes'[n] = Unsent => probes[n] = Unsent

LEMMA ResolveRows ==
  ASSUME TypeOK, NEW k, NEW out, Resolve(k, out), NEW n \in Numbers
  PROVE  /\ SameProbe(n)
         /\ n # k => probes'[n] = probes[n]
         /\ probes'[n].outcome = IF n = k /\ probes[n].outcome = "open" THEN out ELSE probes[n].outcome
<1>1. probes[n] \in ProbeRow /\ DOMAIN probes = Numbers  BY DEF TypeOK
<1>2. probes' = [probes EXCEPT ![k] = [probes[k] EXCEPT !.outcome =
                    IF probes[k].outcome = "open" THEN out ELSE probes[k].outcome]]
  BY DEF Resolve
<1>3. CASE n # k  BY <1>1, <1>2, <1>3 DEF SameProbe
<1>4. CASE n = k
  <2>1. probes'[n] = [probes[n] EXCEPT !.outcome =
                        IF probes[n].outcome = "open" THEN out ELSE probes[n].outcome]
    BY <1>1, <1>2, <1>4
  <2> QED  BY <1>1, <1>4, <2>1 DEF SameProbe, ProbeRow, Unsent
<1> QED  BY <1>3, <1>4

LEMMA ResolveStep ==
  ASSUME IInv, NEW c \in Conns, pc[c] = "wait", NEW out \in Outcomes \ {"open"}, Resolve(seen[c], out),
         out = "pass" => seen[c] \in right, NEW n \in Numbers
  PROVE  RowStep(n)
<1>1. /\ SameProbe(n)
      /\ n # seen[c] => probes'[n] = probes[n]
      /\ probes'[n].outcome = IF n = seen[c] /\ probes[n].outcome = "open" THEN out ELSE probes[n].outcome
  BY ResolveRows DEF IInv
<1>2. probes'[n].outcome = "pass" => probes[n].outcome = "pass" \/ BecomesPassed(n)
  BY <1>1 DEF BecomesPassed
<1>3. probes[n] = Unsent => probes'[n] = Unsent
  <2> SUFFICES ASSUME probes[n] = Unsent PROVE probes'[n] = Unsent
    OBVIOUS
  <2>1. n # seen[c]
    BY BoundsAssumption DEF IInv, RowsInv, WaitInv, Sent, TypeOK
  <2> QED  BY <1>1, <2>1
<1>4. probes'[n] = Unsent => probes[n] = Unsent
  BY <1>1, RowFacts, NobodyAssumption DEF SameProbe, Unsent, IInv
<1> QED  BY <1>1, <1>2, <1>3, <1>4 DEF RowStep

\* A step that sets the outcome of open and failed rows by what is asked for.
LEMMA SweepStep ==
  ASSUME IInv, NEW out \in Outcomes, NEW n \in Numbers, probes[n].outcome # "unsent",
         probes'[n] = [probes[n] EXCEPT !.outcome = out] \/ probes'[n] = probes[n],
         probes'[n] # probes[n] => probes[n].outcome # "pass",
         probes'[n] # probes[n] /\ out = "pass" => BecomesPassed(n)
  PROVE  RowStep(n)
<1>1. probes[n] # Unsent  BY DEF Unsent
<1>2. probes[n] \in ProbeRow /\ probes[n].by \in Conns /\ Unsent.by \notin Conns
  BY <1>1, RowFacts, NobodyAssumption DEF IInv, TypeOK, Unsent
<1>3. SameProbe(n)  BY <1>1, <1>2 DEF SameProbe, ProbeRow
<1>4. probes'[n] # Unsent  BY <1>2, <1>3 DEF SameProbe
<1>5. probes'[n] # probes[n] => probes'[n].outcome = out
  BY <1>1, <1>2 DEF ProbeRow
<1> QED  BY <1>1, <1>3, <1>4, <1>5 DEF RowStep

LEMMA SameRows == ASSUME NEW n, probes'[n] = probes[n] PROVE RowStep(n)
BY DEF RowStep, SameProbe

\* The rows that are there, after any step; there may be one more.
RowsStep ==
  \/ /\ count' = count /\ \A n \in Numbers : RowStep(n)
     /\ \A c \in Conns : pc'[c] = "wait" => pc[c] = "wait" /\ seen'[c] = seen[c]
  \/ \E c \in Conns, t \in Tasks, o \in Ordinals : Asks(c, t, o)

Quiet == UNCHANGED <<probes, count>>

LEMMA RowsMove == ASSUME IInv, [Next]_vars PROVE RowsStep
<1> USE DEF handler, tables, agent, judges, ages, history
<1>0. /\ TypeOK /\ pc \in [Conns -> Places] /\ seen \in [Conns -> Nat] /\ "wait" \notin {"off", "top"}
      /\ \A n \in Numbers : probes[n] \in ProbeRow
  BY DEF IInv, TypeOK
<1>1. ASSUME Quiet, \A c \in Conns : pc'[c] = "wait" => pc[c] = "wait" /\ seen'[c] = seen[c]
      PROVE RowsStep
  BY <1>1, SameRows DEF Quiet, RowsStep
<1>2. ASSUME NEW c \in Conns, NEW l \in Places \ {"wait"}, Goto(c, l), Quiet,
             \A d \in Conns \ {c} : seen'[d] = seen[d]
      PROVE  RowsStep
  BY <1>0, <1>1, <1>2 DEF Goto
<1>3. ASSUME NEW c \in Conns, Picking(c) PROVE RowsStep
  <2>1. CASE \E t \in Tasks, o \in Ordinals : Asks(c, t, o)  BY <2>1 DEF RowsStep
  <2>2. CASE Closes(c, TRUE) \/ Closes(c, FALSE)
    BY <1>0, <1>2, <2>2 DEF Closes, Close, Quiet, Places
  <2>3. CASE Adapts(c)
    BY <1>0, <1>2, <2>3 DEF Adapts, Quiet, Places
  <2> QED  BY <1>3, <2>1, <2>2, <2>3, PickComesTo
<1>4. ASSUME NEW c \in Conns, Leaving(c) PROVE RowsStep
  BY <1>0, <1>2, <1>4 DEF Leaving, Leave, TopEnds, IdleEnds, AdaptFails, End, Quiet, Places
<1>5. ASSUME NEW c \in Conns, Looping(c) PROVE RowsStep
  <2>1. CASE TopResolves(c) \/ Bootstrap(c) \/ Wake(c) \/ CloseUnheld(c) \/ Advance(c) \/ Reward(c)
             \/ Connect(c)
    BY <1>0, <1>2, <2>1 DEF TopResolves, Bootstrap, Wake, CloseUnheld, Advance, Reward, Connect,
                            Quiet, Places
  <2>2. CASE HoldStarts(c) \/ HoldGoesOn(c)
    BY <1>0, <1>2, <2>2 DEF HoldStarts, HoldGoesOn, Rest, Quiet, Places
  <2>3. CASE AdaptInserts(c)
    <3>1. CASE End(c)
      BY <1>0, <1>2, <2>3, <3>1 DEF AdaptInserts, End, Quiet, Places
    <3>2. CASE UNCHANGED pc
      <4>1. pc[c] # "wait" /\ Quiet /\ \A d \in Conns \ {c} : seen'[d] = seen[d]
        BY <1>0, <2>3, <3>2 DEF AdaptInserts, Quiet, End
      <4> QED  BY <1>1, <3>2, <4>1
    <3> QED  BY <2>3, <3>1, <3>2 DEF AdaptInserts
  <2>4. CASE Elapse(c) \/ \E n \in Numbers : \E correct \in BOOLEAN : Answer(c, n, correct)
    BY <1>0, <1>1, <2>4 DEF Elapse, Answer, Quiet
  <2>5. ASSUME Rest(c), NEW out \in Outcomes \ {"open"}, pc[c] = "wait", Resolve(seen[c], out),
               out = "pass" => seen[c] \in right, count' = count
        PROVE RowsStep
    <3>1. \A n \in Numbers : RowStep(n)  BY <2>5, ResolveStep
    <3>2. \A d \in Conns : pc'[d] = "wait" => pc[d] = "wait" /\ seen'[d] = seen[d]
      BY <1>0, <2>5 DEF Rest, Goto
    <3> QED  BY <2>5, <3>1, <3>2 DEF RowsStep
  <2>6. CASE Timeout(c)
    BY <2>5, <2>6 DEF Timeout, Outcomes
  <2>7. ASSUME NEW m \in Numbers, Receive(c, m) PROVE RowsStep
    <3>1. CASE pc[c] = "wait"
      <4>1. /\ Rest(c) /\ Resolve(seen[c], Grade(seen[c], m)) /\ count' = count
        BY <2>7, <3>1 DEF Receive
      <4>2. Grade(seen[c], m) \in Outcomes \ {"open"}
            /\ (Grade(seen[c], m) = "pass" => seen[c] \in right)
        BY DEF Grade, Outcomes
      <4> QED  BY <2>5, <3>1, <4>1, <4>2
    <3>2. CASE pc[c] # "wait"
      BY <1>0, <1>1, <2>7, <3>2 DEF Receive, Quiet
    <3> QED  BY <3>1, <3>2
  <2>8. CASE HoldEnds(c)
    <3>1. ASSUME NEW n \in Numbers PROVE RowStep(n)
      <4>1. CASE probes[n].outcome = "open"
        <5>1. \/ probes'[n] = [probes[n] EXCEPT !.outcome = "no_response"]
              \/ probes'[n] = probes[n]
          BY <1>0, <2>8 DEF HoldEnds
        <5> QED  BY <4>1, <5>1, SweepStep DEF Outcomes
      <4>2. CASE probes[n].outcome # "open"
        BY <2>8, <4>2, SameRows DEF HoldEnds
      <4> QED  BY <4>1, <4>2
    <3>2. count' = count /\ \A d \in Conns : pc'[d] = "wait" => pc[d] = "wait" /\ seen'[d] = seen[d]
      BY <1>0, <2>8 DEF HoldEnds, Goto
    <3> QED  BY <3>1, <3>2 DEF RowsStep
  <2> QED  BY <1>5, <2>1, <2>2, <2>3, <2>4, <2>6, <2>7, <2>8 DEF Looping
<1>6. ASSUME NEW p \in Players, NEW t \in Tasks, Judging(p, t) \/ Time(p, t) PROVE RowsStep
  <2>1. ASSUME NEW o \in tests[t], Deliver(p, t, o) PROVE RowsStep
    <3>1. ASSUME NEW n \in Numbers PROVE RowStep(n)
      <4>1. CASE n \in Of(p, t, o) /\ probes[n].outcome \in {"open", "error"}
        <5>1. probes'[n] = [probes[n] EXCEPT !.outcome = "pass"]  BY <2>1, <4>1 DEF Deliver
        <5>2. BecomesPassed(n)  BY <2>1, <4>1 DEF Deliver, Of, BecomesPassed
        <5> QED  BY <4>1, <5>1, <5>2, SweepStep DEF Outcomes
      <4>2. CASE ~(n \in Of(p, t, o) /\ probes[n].outcome \in {"open", "error"})
        BY <2>1, <4>2, SameRows DEF Deliver
      <4> QED  BY <4>1, <4>2
    <3> QED  BY <2>1, <3>1 DEF Deliver, RowsStep
  <2>2. CASE \/ CommitSeen(p, t) \/ JudgeConcludes(p, t) \/ Register(p, t) \/ GoQuiet(p, t)
             \/ RunOut(p, t) \/ \E o \in tests[t] : Expire(p, t, o)
    <3>1. UNCHANGED <<probes, count, pc, seen>>
      BY <2>2 DEF CommitSeen, JudgeConcludes, Register, GoQuiet, RunOut, Expire
    <3> QED  BY <1>1, <3>1 DEF Quiet
  <2> QED  BY <1>6, <2>1, <2>2 DEF Judging, Time
<1>7. CASE EndSession
  BY <1>1, <1>7 DEF EndSession, Quiet
<1>8. CASE Crash
  BY <1>0, <1>1, <1>8 DEF Crash, Quiet
<1>9. CASE UNCHANGED vars
  BY <1>1, <1>9 DEF vars, Quiet
<1> QED  BY <1>3, <1>4, <1>5, <1>6, <1>7, <1>8, <1>9, NextIs

-----------------------------------------------------------------------------
(* What only grows *)

Grows ==
  /\ project' = project
  /\ right \subseteq right' /\ delivered \subseteq delivered' /\ windows \subseteq windows'
  /\ bonus \subseteq bonus' /\ told \subseteq told'
  /\ Faulty => Faulty'
  /\ crashes > 0 => crashes' > 0
  /\ \A t \in Tasks : tests[t] \subseteq tests'[t]
  /\ \A p \in Players : closed[p] <= closed'[p]

LEMMA Growing ==
  ASSUME IInv, [Next]_vars
  PROVE  Grows /\ CountInv'
<1> USE DEF handler, tables, agent, judges, ages, history
<1>0. /\ TypeOK /\ faults \in Nat /\ crashes \in Nat /\ short \in BOOLEAN
      /\ \A p \in Players : closed[p] \in Nat
      /\ tests \in [Tasks -> SUBSET Ordinals] /\ \A t \in Tasks : IsFiniteSet(tests[t])
      /\ closed \in [Players -> 0 .. project.last]
  BY ProjectFacts DEF IInv, TypeOK, CountInv
<1>1. ASSUME NEW t, NEW o, project' = project, tests' = [tests EXCEPT ![t] = @ \cup {o}]
      PROVE  CountInv' /\ \A u \in Tasks : tests[u] \subseteq tests'[u]
  <2>1. ASSUME NEW u \in Tasks PROVE IsFiniteSet(tests'[u]) /\ tests[u] \subseteq tests'[u]
    <3>1. tests'[u] = tests[u] \cup {o} \/ tests'[u] = tests[u]  BY <1>0, <1>1
    <3>2. IsFiniteSet(tests[u] \cup {o})  BY <1>0, FS_AddElement
    <3> QED  BY <1>0, <3>1, <3>2
  <2> QED  BY <1>1, <2>1 DEF CountInv, Tasks
<1>2. ASSUME UNCHANGED <<project, tests, closed, right, delivered, windows, bonus, told, crashes>>,
             Faulty => Faulty'
      PROVE  Grows /\ CountInv'
  BY <1>0, <1>2 DEF Grows, CountInv, Tasks
<1>3. ASSUME NEW c \in Conns, Picking(c) PROVE Grows /\ CountInv'
  <2>1. CASE \E t \in Tasks, o \in Ordinals : Asks(c, t, o)
    BY <1>2, <2>1 DEF Asks, Dispatch, Faulty
  <2>2. CASE Closes(c, TRUE) \/ Closes(c, FALSE)
    BY <1>2, <2>2 DEF Closes, Close
  <2>3. CASE Adapts(c)
    BY <1>2, <2>3 DEF Adapts, Faulty
  <2> QED  BY <1>3, <2>1, <2>2, <2>3, PickComesTo
<1>4. ASSUME NEW c \in Conns, Leaving(c) PROVE Grows /\ CountInv'
  <2>1. UNCHANGED <<project, tests, closed, right, delivered, windows, bonus, told, crashes, short>>
        /\ faults' >= faults
    BY <1>0, <1>4 DEF Leaving, Leave, TopEnds, IdleEnds, AdaptFails
  <2>2. faults' \in Nat  BY TypeStep DEF TypeOK, IInv
  <2> QED  BY <1>0, <1>2, <2>1, <2>2 DEF Faulty
<1>5. ASSUME NEW c \in Conns, Looping(c) PROVE Grows /\ CountInv'
  <2>1. CASE AdaptInserts(c)
    <3>1. UNCHANGED <<project, closed, right, delivered, windows, bonus, told, crashes, short, faults>>
          /\ (tests' = tests \/ tests' = [tests EXCEPT ![at[c]] = @ \cup {seen[c] + 1}])
      BY <2>1 DEF AdaptInserts
    <3>2. CASE tests' = tests  BY <1>2, <3>1, <3>2 DEF Faulty
    <3>3. CASE tests' = [tests EXCEPT ![at[c]] = @ \cup {seen[c] + 1}]
      <4>1. CountInv' /\ \A u \in Tasks : tests[u] \subseteq tests'[u]
        BY <1>1, <3>1, <3>3
      <4> QED  BY <1>0, <3>1, <4>1 DEF Grows, Faulty
    <3> QED  BY <3>1, <3>2, <3>3
  <2>2. CASE Advance(c)
    <3>1. /\ UNCHANGED <<project, tests, right, delivered, windows, bonus, crashes, short>>
          /\ told \subseteq told'
          /\ closed' = [closed EXCEPT ![Owner[c]] = IF at[c] > @ THEN at[c] ELSE @]
          /\ faults' >= faults
      BY <1>0, <2>2 DEF Advance
    <3>2. faults' \in Nat  BY TypeStep DEF TypeOK, IInv
    <3>3. \A p \in Players : closed[p] <= closed'[p]
      BY <1>0, <3>1 DEF TypeOK
    <3> QED  BY <1>0, <3>1, <3>2, <3>3 DEF Grows, CountInv, Tasks, Faulty
  <2>3. CASE Reward(c)
    <3>1. /\ UNCHANGED <<project, tests, closed, right, delivered, windows, told, crashes, short, faults>>
          /\ bonus \subseteq bonus'
      BY <2>3 DEF Reward
    <3> QED  BY <1>0, <3>1 DEF Grows, CountInv, Tasks, Faulty
  <2>4. ASSUME NEW n \in Numbers, NEW correct \in BOOLEAN, Answer(c, n, correct)
        PROVE  Grows /\ CountInv'
    <3>1. /\ UNCHANGED <<project, tests, closed, delivered, windows, bonus, told, crashes, short, faults>>
          /\ right \subseteq right'
      BY <2>4 DEF Answer
    <3> QED  BY <1>0, <3>1 DEF Grows, CountInv, Tasks, Faulty
  <2>5. CASE \/ TopResolves(c) \/ Bootstrap(c) \/ Timeout(c) \/ Wake(c) \/ CloseUnheld(c)
             \/ HoldStarts(c) \/ HoldGoesOn(c) \/ HoldEnds(c) \/ Connect(c) \/ Elapse(c)
             \/ \E n \in Numbers : Receive(c, n)
    <3>1. UNCHANGED <<project, tests, closed, right, delivered, windows, bonus, told, crashes,
                      short, faults>>
      BY <2>5 DEF TopResolves, Bootstrap, Timeout, Wake, CloseUnheld, HoldStarts, HoldGoesOn,
                  HoldEnds, Connect, Elapse, Receive
    <3> QED  BY <1>2, <3>1 DEF Faulty
  <2> QED  BY <1>5, <2>1, <2>2, <2>3, <2>4, <2>5 DEF Looping
<1>6. ASSUME NEW p \in Players, NEW t \in Tasks, Judging(p, t) \/ Time(p, t)
      PROVE  Grows /\ CountInv'
  <2>1. CASE Register(p, t)
    <3> DEFINE o == FirstRequest + Cardinality({q \in tests[t] : q > FirstRequest}) + 1
    <3>1. UNCHANGED <<project, closed, right, delivered, windows, bonus, told, crashes, short, faults>>
          /\ tests' = [tests EXCEPT ![t] = @ \cup {o}]
      BY <2>1 DEF Register
    <3> HIDE DEF o
    <3>2. CountInv' /\ \A u \in Tasks : tests[u] \subseteq tests'[u]
      BY <1>1, <3>1
    <3> QED  BY <1>0, <3>1, <3>2 DEF Grows, Faulty
  <2>2. CASE ~Register(p, t)
    <3>1. /\ UNCHANGED <<project, tests, closed, right, bonus, told, crashes, short, faults>>
          /\ windows \subseteq windows' /\ delivered \subseteq delivered'
      BY <1>6, <2>2 DEF Judging, Time, CommitSeen, JudgeConcludes, Deliver, GoQuiet, RunOut, Expire
    <3> QED  BY <1>0, <3>1 DEF Grows, CountInv, Tasks, Faulty
  <2> QED  BY <2>1, <2>2
<1>7. CASE EndSession
  BY <1>2, <1>7 DEF EndSession, Faulty
<1>8. CASE Crash
  <2>1. UNCHANGED <<project, tests, closed, right, delivered, windows, bonus, told, short, faults>>
        /\ crashes' > 0
    BY <1>0, <1>8 DEF Crash
  <2> QED  BY <1>0, <2>1 DEF Grows, CountInv, Tasks, Faulty
<1>9. CASE UNCHANGED vars
  BY <1>2, <1>9 DEF vars, Faulty
<1> QED  BY <1>3, <1>4, <1>5, <1>6, <1>7, <1>8, <1>9, NextIs

-----------------------------------------------------------------------------
(* The rows: answers, repetitions, and the probe that is waited for          *)

LEMMA SentFacts ==
  ASSUME IInv
  PROVE  /\ count \in Nat /\ count <= MaxProbes /\ MaxProbes \in Nat
         /\ 1 .. count \subseteq Numbers
         /\ \A n \in Numbers : n \in 1 .. count <=> probes[n] # Unsent
         /\ \A n \in 1 .. count : n \in Nat
BY BoundsAssumption DEF IInv, TypeOK, RowsInv, Numbers

\* The row of a probe that is being sent, and the others.
AsksRow(c, t, o) ==
  /\ count' = count + 1 /\ count' \in Numbers
  /\ /\ probes'[count'].player = Owner[c] /\ probes'[count'].task = t /\ probes'[count'].item = o
     /\ probes'[count'].by = c /\ probes'[count'].outcome = "open"
  /\ \A n \in Numbers : n # count' => probes'[n] = probes[n]
  /\ 1 .. count' = (1 .. count) \cup {count'}
  /\ pc' = [pc EXCEPT ![c] = "wait"] /\ seen' = [seen EXCEPT ![c] = count']

LEMMA AsksRows ==
  ASSUME IInv, NEW c \in Conns, NEW t \in Tasks, NEW o \in Ordinals, Asks(c, t, o)
  PROVE  AsksRow(c, t, o)
<1>1. count \in Nat /\ MaxProbes \in Nat /\ count < MaxProbes /\ count' = count + 1
  BY SentFacts DEF Asks, Dispatch
<1>2. DOMAIN probes = Numbers  BY DEF IInv, TypeOK
<1> QED  BY <1>1, <1>2 DEF Asks, Dispatch, Goto, Numbers, AsksRow

LEMMA RowsKept == ASSUME IInv, RowsStep PROVE RowsInv'
<1>1. CASE count' = count /\ \A n \in Numbers : RowStep(n)
  BY <1>1 DEF IInv, RowsInv, RowStep
<1>2. ASSUME NEW c \in Conns, NEW t \in Tasks, NEW o \in Ordinals, Asks(c, t, o) PROVE RowsInv'
  <2>0. AsksRow(c, t, o)  BY <1>2, AsksRows
  <2>1. probes'[count'] # Unsent
    <3>1. probes'[count'].outcome # Unsent.outcome  BY <2>0 DEF Unsent, AsksRow
    <3> QED  BY <3>1
  <2>2. \A n \in Numbers : n \in Nat  BY DEF Numbers
  <2> QED  BY <2>0, <2>1, <2>2, SentFacts DEF IInv, RowsInv, AsksRow
<1> QED  BY <1>1, <1>2 DEF RowsStep

LEMMA AnswersKept == ASSUME IInv, RowsStep, Grows PROVE PassMeansAnswer'
<1>1. CASE count' = count /\ \A n \in Numbers : RowStep(n)
  <2>1. ASSUME NEW n \in 1 .. count, probes'[n].outcome = "pass"
        PROVE  n \in right' \/ <<probes'[n].player, probes'[n].task, probes'[n].item>> \in delivered'
    <3>1. RowStep(n)  BY <1>1, SentFacts
    <3>2. SameProbe(n)  BY <3>1 DEF RowStep
    <3>3. CASE probes[n].outcome = "pass"
      BY <3>2, <3>3 DEF IInv, PassMeansAnswer, SameProbe, Grows
    <3>4. CASE probes[n].outcome # "pass"
      <4>1. BecomesPassed(n)  BY <2>1, <3>1, <3>4 DEF RowStep
      <4> QED  BY <3>2, <4>1 DEF BecomesPassed, SameProbe, Grows
    <3> QED  BY <3>3, <3>4
  <2> QED  BY <1>1, <2>1 DEF PassMeansAnswer
<1>2. ASSUME NEW c \in Conns, NEW t \in Tasks, NEW o \in Ordinals, Asks(c, t, o)
      PROVE  PassMeansAnswer'
  <2>0. AsksRow(c, t, o)  BY <1>2, AsksRows
  <2>1. probes'[count'].outcome = "open"  BY <2>0 DEF AsksRow
  <2>2. \A n \in 1 .. count : n # count'  BY <2>0, SentFacts DEF AsksRow
  <2> QED  BY <2>0, <2>1, <2>2, SentFacts DEF IInv, PassMeansAnswer, Grows, AsksRow
<1> QED  BY <1>1, <1>2 DEF RowsStep

LEMMA WaitKept == ASSUME IInv, RowsStep PROVE WaitInv'
<1>1. CASE /\ count' = count /\ \A n \in Numbers : RowStep(n)
           /\ \A c \in Conns : pc'[c] = "wait" => pc[c] = "wait" /\ seen'[c] = seen[c]
  <2>1. \A n \in 1 .. count : probes'[n].by = probes[n].by
    BY <1>1, SentFacts DEF RowStep, SameProbe
  <2> QED  BY <1>1, <2>1 DEF IInv, WaitInv, Sent
<1>2. ASSUME NEW c \in Conns, NEW t \in Tasks, NEW o \in Ordinals, Asks(c, t, o) PROVE WaitInv'
  <2>0. AsksRow(c, t, o)  BY <1>2, AsksRows
  <2>1. count' \in Sent(c)' /\ \A n \in Sent(c)' : n <= count'
    BY <2>0, SentFacts DEF Sent, AsksRow
  <2>2. \A d \in Conns \ {c} : Sent(d)' = Sent(d)
    BY <2>0, SentFacts DEF Sent, AsksRow
  <2>3. pc \in [Conns -> Places] /\ seen \in [Conns -> Nat]  BY DEF IInv, TypeOK
  <2> QED  BY <2>0, <2>1, <2>2, <2>3 DEF IInv, WaitInv, AsksRow
<1> QED  BY <1>1, <1>2 DEF RowsStep

LEMMA TwiceKept == ASSUME IInv, RowsStep, Grows PROVE TwiceInv'
<1>0. \A n \in Numbers : n \in Nat  BY DEF Numbers
<1>1. CASE count' = count /\ \A n \in Numbers : RowStep(n)
  <2>1. ASSUME NEW n \in 1 .. count, NEW m \in 1 .. n - 1, Again(m, n)', probes'[n].by = probes'[m].by
        PROVE  probes'[m].outcome # "pass"
    <3>1. n \in Numbers /\ m \in Numbers /\ m \in 1 .. count /\ m < n /\ n \in Nat /\ m \in Nat
      BY SentFacts
    <3>2. RowStep(m) /\ SameProbe(m) /\ SameProbe(n)  BY <1>1, <3>1 DEF RowStep
    <3>3. Again(m, n) /\ probes[n].by = probes[m].by
      BY <2>1, <3>2 DEF Again, SameProbe, Grows, Own, Open
    <3>4. probes[m].outcome # "pass"  BY <3>3 DEF IInv, TwiceInv
    <3>5. ~BecomesPassed(m)
      <4>1. ASSUME NEW c \in Conns, pc[c] = "wait", seen[c] = m PROVE FALSE
        <5>1. probes[m].by = c /\ \A k \in Sent(c) : k <= m
          BY <4>1 DEF IInv, WaitInv, Sent
        <5>2. n \in Sent(c)  BY <3>3, <5>1 DEF Sent
        <5> QED  BY <3>1, <5>1, <5>2
      <4>2. ~(probes[m].item > FirstRequest)
        <5>1. probes[m].item \in Own(probes[n].task)  BY <3>3 DEF Again
        <5>2. probes[n].task \in Tasks  BY <3>1, RowFacts, SentFacts DEF IInv
        <5>3. Own(probes[n].task) \subseteq 1 .. FirstRequest /\ FirstRequest \in Nat
          BY <5>2, ProjectFacts DEF IInv
        <5> QED  BY <5>1, <5>3
      <4> QED  BY <4>1, <4>2 DEF BecomesPassed
    <3> QED  BY <3>2, <3>4, <3>5 DEF RowStep
  <2> QED  BY <1>1, <2>1 DEF TwiceInv
<1>2. ASSUME NEW c \in Conns, NEW t \in Tasks, NEW o \in Ordinals, Asks(c, t, o) PROVE TwiceInv'
  <2>0. AsksRow(c, t, o)  BY <1>2, AsksRows
  <2>1. ASSUME NEW n \in 1 .. count', NEW m \in 1 .. n - 1, Again(m, n)', probes'[n].by = probes'[m].by
        PROVE  probes'[m].outcome # "pass"
    <3>1. n \in Numbers /\ m \in 1 .. count /\ m \in Numbers /\ m # count' /\ n \in Nat
      BY <2>0, SentFacts DEF Numbers, AsksRow
    <3>2. probes'[m] = probes[m]  BY <2>0, <3>1 DEF AsksRow
    <3>3. CASE n # count'
      <4>1. probes'[n] = probes[n] /\ n \in 1 .. count  BY <2>0, <3>1, <3>3 DEF AsksRow
      <4>2. Again(m, n) /\ probes[n].by = probes[m].by
        BY <2>1, <3>2, <4>1 DEF Again, Grows, Own, Open
      <4> QED  BY <3>2, <4>1, <4>2 DEF IInv, TwiceInv
    <3>4. CASE n = count'
      <4>1. /\ probes'[n].player = Owner[c] /\ probes'[n].task = t /\ probes'[n].item = o
            /\ probes'[n].by = c
        BY <2>0, <3>4 DEF AsksRow
      <4>2. m \in Sent(c)  BY <2>1, <3>1, <3>2, <4>1 DEF Sent
      <4>3. /\ probes[m].player = Owner[c] /\ probes[m].task = t /\ probes[m].item = o
            /\ o \in Own(t) /\ project.setup[t] = 0 /\ ~Open(t)
        BY <2>1, <3>2, <4>1 DEF Again, Grows, Own, Open
      <4> QED  BY <1>2, <3>2, <4>2, <4>3 DEF Asks
    <3> QED  BY <3>3, <3>4
  <2> QED  BY <2>1 DEF TwiceInv
<1> QED  BY <1>1, <1>2 DEF RowsStep

\* A section that is passed stays passed, a task that is completed completed.
LEMMA PassedStays ==
  ASSUME IInv, RowsStep, NEW p \in Players, NEW t \in Tasks, NEW o, Passed(p, t, o)
  PROVE  Passed(p, t, o)'
<1>1. PICK n \in Of(p, t, o) : probes[n].outcome = "pass"  BY DEF Passed
<1>2. /\ n \in Numbers /\ n \in 1 .. count
      /\ probes[n].player = p /\ probes[n].task = t /\ probes[n].item = o
  BY <1>1, SentFacts DEF Of, Unsent
<1>3. probes'[n].outcome = "pass" /\ SameProbe(n)
  <2>1. CASE \A k \in Numbers : RowStep(k)  BY <1>1, <1>2, <2>1 DEF RowStep
  <2>2. ASSUME NEW c \in Conns, NEW u \in Tasks, NEW q \in Ordinals, Asks(c, u, q)
        PROVE  probes'[n].outcome = "pass" /\ SameProbe(n)
    <3>1. AsksRow(c, u, q)  BY <2>2, AsksRows
    <3>2. probes'[n] = probes[n]  BY <1>2, <3>1, SentFacts DEF AsksRow
    <3> QED  BY <1>1, <3>2 DEF SameProbe
  <2> QED  BY <2>1, <2>2 DEF RowsStep
<1> QED  BY <1>2, <1>3 DEF Passed, Of, SameProbe, Numbers

LEMMA StaysComplete ==
  ASSUME IInv, RowsStep, Grows, NEW p \in Players, NEW t \in Tasks, Complete(p, t)
  PROVE  Complete(p, t)'
<1>1. \A o : Passed(p, t, o) => Passed(p, t, o)'  BY PassedStays
<1> QED  BY <1>1 DEF Complete, CompletionPassed, Grows, Open, Own

-----------------------------------------------------------------------------
(* What a step does to a handler                                           *)

Keeps(d) == late'[d] = late[d] /\ (Current(d)' => Current(d))

Stays(d) ==
  Keeps(d) /\ pc'[d] = pc[d] /\ at'[d] = at[d] /\ seen'[d] = seen[d] /\ via'[d] = via[d]

\* It is gone, by its own end or a crash.
Leaves(d) ==
  /\ late'[d] = late[d] /\ at'[d] = 0 /\ ~Current(d)'
  /\ pc'[d] = "ended" \/ (pc[d] = "off" /\ pc'[d] = "off")
  /\ pc[d] = "reward" => crashes' > 0

\* It inserts the rows of its task.
Inserts(d) ==
  /\ Keeps(d) /\ pc[d] = "adapt" /\ pc'[d] = "adapt" /\ at'[d] = at[d]
  /\ tests'[at[d]] # {}

\* It goes round its loop.
Rounds(d) ==
  /\ Keeps(d) /\ at'[d] \in {0, at[d]}
  /\ \/ pc[d] \in {"wait", "close"} /\ pc'[d] = "sleep"
     \/ pc[d] = "sleep" /\ pc'[d] = "top"

Starts(d) ==
  \/ pc[d] = "off" /\ pc'[d] = "top" /\ late'[d] = late[d] /\ at'[d] = at[d]
  \/ /\ Keeps(d) /\ pc[d] = "top" /\ Current(d)
     /\ \/ pc'[d] \in {"idle", "bootstrap"} /\ at'[d] = 0
        \/ pc'[d] = "pick" /\ at'[d] = sched[Owner[d]].task /\ at'[d] # 0
  \/ Keeps(d) /\ pc[d] = "bootstrap" /\ pc'[d] = "pick" /\ at'[d] = 1

\* It is past the hold.
Releases(d) ==
  /\ Keeps(d) /\ pc[d] = "close" /\ pc'[d] = "advance" /\ at'[d] = at[d] /\ via'[d] = via[d]

Advances(d) ==
  /\ Keeps(d) /\ pc[d] = "advance" /\ pc'[d] = "reward" /\ at'[d] = at[d] /\ via'[d] = via[d]

Rewarded(d) ==
  /\ Keeps(d) /\ pc[d] = "reward" /\ pc'[d] \in {"idle", "top"} /\ at'[d] = 0
  /\ via[d] => <<Owner[d], at[d]>> \in bonus'

Moves(d) ==
  \/ Stays(d) \/ Leaves(d) \/ Inserts(d) \/ Rounds(d) \/ Starts(d)
  \/ \E t \in Tasks, o \in Ordinals : Asks(d, t, o)
  \/ Closes(d, TRUE) \/ Closes(d, FALSE) \/ Adapts(d)
  \/ Releases(d) \/ Advances(d) \/ Rewarded(d)

\* A step of one handler leaves the others as they are.
LEMMA Apart ==
  ASSUME IInv, NEW c \in Conns, Picking(c) \/ Leaving(c) \/ Looping(c), NEW d \in Conns \ {c}
  PROVE  Stays(d)
<1> USE DEF handler, tables, agent, judges, ages, history
<1>0. /\ pc \in [Conns -> Places] /\ DOMAIN at = Conns /\ DOMAIN seen = Conns /\ DOMAIN via = Conns
      /\ DOMAIN late = Conns /\ DOMAIN registry = Players
      /\ Owner[d] \in Players /\ d # Nobody /\ d # c
  BY ProjectFacts, NobodyAssumption DEF IInv, TypeOK
<1>1. CASE Picking(c)
  <2>1. ASSUME NEW t \in Tasks, NEW o \in Ordinals, Asks(c, t, o) PROVE Stays(d)
    BY <1>0, <2>1 DEF Asks, Dispatch, Goto, Stays, Keeps, Current
  <2>2. CASE Closes(c, TRUE) \/ Closes(c, FALSE)
    BY <1>0, <2>2 DEF Closes, Close, Goto, Stays, Keeps, Current
  <2>3. CASE Adapts(c)
    BY <1>0, <2>3 DEF Adapts, Goto, Stays, Keeps, Current
  <2> QED  BY <1>1, <2>1, <2>2, <2>3, PickComesTo
<1>2. ASSUME End(c), late' = late PROVE Stays(d)
  BY <1>0, <1>2 DEF End, Goto, Stays, Keeps, Current
<1>3. CASE Leaving(c)
  BY <1>2, <1>3 DEF Leaving, Leave, TopEnds, IdleEnds, AdaptFails
<1>4. CASE Looping(c)
  <2>1. CASE TopResolves(c) \/ Bootstrap(c) \/ Wake(c) \/ CloseUnheld(c) \/ HoldEnds(c)
             \/ Advance(c) \/ Reward(c)
    BY <1>0, <2>1 DEF TopResolves, Bootstrap, Wake, CloseUnheld, HoldEnds, Advance, Reward,
                      Goto, Stays, Keeps, Current
  <2>2. CASE AdaptInserts(c)
    <3>1. CASE End(c)  BY <1>2, <2>2, <3>1 DEF AdaptInserts
    <3>2. CASE UNCHANGED <<pc, at, via, registry>> /\ seen' = [seen EXCEPT ![c] = seen[c] + 1]
      BY <1>0, <2>2, <3>2 DEF AdaptInserts, Stays, Keeps, Current
    <3> QED  BY <2>2, <3>1, <3>2 DEF AdaptInserts
  <2>3. CASE Timeout(c) \/ HoldStarts(c) \/ HoldGoesOn(c)
    BY <1>0, <2>3 DEF Timeout, HoldStarts, HoldGoesOn, Rest, Goto, Stays, Keeps, Current
  <2>4. ASSUME NEW m \in Numbers, Receive(c, m) PROVE Stays(d)
    BY <1>0, <2>4 DEF Receive, Rest, Goto, Stays, Keeps, Current
  <2>5. CASE Elapse(c) \/ \E n \in Numbers : \E correct \in BOOLEAN : Answer(c, n, correct)
    BY <2>5 DEF Elapse, Answer, Stays, Keeps, Current
  <2>6. CASE Connect(c)
    BY <1>0, <2>6 DEF Connect, Goto, Stays, Keeps, Current
  <2> QED  BY <1>4, <2>1, <2>2, <2>3, <2>4, <2>5, <2>6 DEF Looping
<1> QED  BY <1>1, <1>3, <1>4

LEMMA HandlerMoves == ASSUME IInv, [Next]_vars, NEW d \in Conns PROVE Moves(d)
<1> USE DEF handler, tables, agent, judges, ages, history
<1>0. /\ TypeOK /\ pc \in [Conns -> Places] /\ at \in [Conns -> 0 .. project.last]
      /\ seen \in [Conns -> Nat]
      /\ DOMAIN via = Conns /\ DOMAIN late = Conns /\ registry \in [Players -> Conns \cup {Nobody}]
      /\ Owner[d] \in Players /\ d # Nobody /\ project.last \in Nat \ {0} /\ Tasks = 1 .. project.last
  BY ProjectFacts, NobodyAssumption DEF IInv, TypeOK, Tasks
<1>1. CASE UNCHANGED <<pc, at, seen, via, late, registry>>
  BY <1>1 DEF Moves, Stays, Keeps, Current
<1>2. CASE Picking(d)
  BY <1>2, PickComesTo DEF Moves
<1>3. ASSUME End(d), late' = late, pc[d] # "reward" PROVE Moves(d)
  <2>1. registry'[Owner[d]] # d  BY <1>0, <1>3 DEF End
  <2>2. pc'[d] = "ended" /\ at'[d] = 0  BY <1>0, <1>3 DEF End, Goto
  <2>3. Leaves(d)  BY <1>3, <2>1, <2>2 DEF Leaves, Current
  <2> QED  BY <2>3 DEF Moves
<1>4. CASE Leaving(d)
  BY <1>3, <1>4 DEF Leaving, Leave, TopEnds, IdleEnds, AdaptFails
<1>5. CASE Looping(d)
  <2>1. CASE TopResolves(d) \/ Bootstrap(d) \/ Connect(d)
    BY <1>0, <2>1 DEF TopResolves, Bootstrap, Connect, Goto, Moves, Starts, Keeps, Current
  <2>2. CASE CloseUnheld(d) \/ HoldEnds(d)
    BY <1>0, <2>2 DEF CloseUnheld, HoldEnds, Goto, Moves, Releases, Keeps, Current
  <2>3. CASE AdaptInserts(d)
    <3>1. CASE End(d)  BY <1>3, <2>3, <3>1 DEF AdaptInserts
    <3>2. CASE /\ UNCHANGED <<pc, at, via, hold, registry>>
               /\ tests' = [tests EXCEPT ![at[d]] = @ \cup {seen[d] + 1}]
      <4>1. at[d] \in Tasks  BY <1>0, <2>3 DEF AdaptInserts, IInv, PlaceInv
      <4>2. tests'[at[d]] # {}  BY <1>0, <3>2, <4>1 DEF TypeOK
      <4> QED  BY <2>3, <3>2, <4>2 DEF AdaptInserts, Moves, Inserts, Keeps, Current
    <3> QED  BY <2>3, <3>1, <3>2 DEF AdaptInserts
  <2>4. CASE Timeout(d) \/ HoldStarts(d) \/ HoldGoesOn(d) \/ Wake(d)
    BY <1>0, <2>4 DEF Timeout, HoldStarts, HoldGoesOn, Wake, Rest, Goto, Moves, Rounds, Keeps, Current
  <2>5. ASSUME NEW m \in Numbers, Receive(d, m) PROVE Moves(d)
    <3>1. CASE pc[d] = "wait"
      BY <1>0, <2>5, <3>1 DEF Receive, Rest, Goto, Moves, Rounds, Keeps, Current
    <3>2. CASE pc[d] # "wait"
      BY <1>1, <2>5, <3>2 DEF Receive
    <3> QED  BY <3>1, <3>2
  <2>6. CASE Elapse(d) \/ \E n \in Numbers : \E correct \in BOOLEAN : Answer(d, n, correct)
    BY <1>1, <2>6 DEF Elapse, Answer
  <2>7. CASE Advance(d)
    BY <1>0, <2>7 DEF Advance, Goto, Moves, Advances, Keeps, Current
  <2>8. CASE Reward(d)
    BY <1>0, <2>8 DEF Reward, Goto, Moves, Rewarded, Keeps, Current
  <2> QED  BY <1>5, <2>1, <2>2, <2>3, <2>4, <2>5, <2>6, <2>7, <2>8 DEF Looping
<1>6. ASSUME NEW c \in Conns, Picking(c) \/ Leaving(c) \/ Looping(c) PROVE Moves(d)
  <2>1. CASE c = d  BY <1>2, <1>4, <1>5, <1>6, <2>1
  <2>2. CASE c # d  BY <1>6, <2>2, Apart DEF Moves
  <2> QED  BY <2>1, <2>2
<1>7. ASSUME NEW p \in Players, NEW t \in Tasks, Judging(p, t) \/ Time(p, t) PROVE Moves(d)
  BY <1>1, <1>7 DEF Judging, Time, CommitSeen, JudgeConcludes, Register, Deliver, GoQuiet, RunOut, Expire
<1>8. CASE EndSession
  BY <1>1, <1>8 DEF EndSession
<1>9. CASE Crash
  <2>1. crashes' > 0  BY <1>9, <1>0 DEF Crash, TypeOK
  <2>2. registry'[Owner[d]] # d /\ at'[d] = 0 /\ late' = late  BY <1>0, <1>9 DEF Crash
  <2>3. pc'[d] = "ended" \/ (pc[d] = "off" /\ pc'[d] = "off")  BY <1>0, <1>9 DEF Crash
  <2>4. Leaves(d)  BY <2>1, <2>2, <2>3 DEF Leaves, Current
  <2> QED  BY <2>4 DEF Moves
<1>10. CASE UNCHANGED vars
  BY <1>1, <1>10 DEF vars
<1> QED  BY <1>6, <1>7, <1>8, <1>9, <1>10, NextIs

\* What else is written: the scheduler rows, the closed tasks, the bonus rows.
Writes ==
  /\ \/ /\ UNCHANGED <<closed, told>>
        /\ \A p \in Players : sched'[p].task \in {sched[p].task, 1}
     \/ \E c \in Conns : Advance(c)
  /\ \/ bonus' = bonus
     \/ \E c \in Conns : Closing(c) /\ via[c] /\ bonus' = bonus \cup {<<Owner[c], at[c]>>}

LEMMA WritesAre == ASSUME IInv, [Next]_vars PROVE Writes
<1> USE DEF handler, tables, agent, judges, ages, history
<1>0. TypeOK /\ sched \in [Players -> [state : {"none", "idle", "judging", "completed"}, task : 0 .. project.last]]
  BY DEF IInv, TypeOK
<1>1. ASSUME UNCHANGED <<sched, closed, told, bonus>> PROVE Writes
  BY <1>1 DEF Writes
<1>2. ASSUME NEW c \in Conns, Picking(c) PROVE Writes
  BY <1>1, <1>2, PickComesTo DEF Asks, Dispatch, Closes, Close, Adapts
<1>3. ASSUME NEW c \in Conns, Leaving(c) PROVE Writes
  BY <1>1, <1>3 DEF Leaving, Leave, TopEnds, IdleEnds, AdaptFails
<1>4. ASSUME NEW c \in Conns, Looping(c) PROVE Writes
  <2>1. CASE Bootstrap(c)
    BY <1>0, <2>1 DEF Bootstrap, Writes
  <2>2. CASE HoldStarts(c) \/ HoldGoesOn(c)
    <3>1. MarkJudging(Owner[c]) /\ UNCHANGED <<closed, told, bonus>>
      BY <2>2 DEF HoldStarts, HoldGoesOn
    <3>2. \A p \in Players : sched'[p].task = sched[p].task
      BY <1>0, <3>1 DEF MarkJudging
    <3> QED  BY <3>1, <3>2 DEF Writes
  <2>3. CASE Advance(c)
    BY <2>3 DEF Advance, Writes
  <2>4. CASE Reward(c)
    BY <2>4 DEF Reward, Writes, Closing
  <2>5. CASE \/ TopResolves(c) \/ AdaptInserts(c) \/ Timeout(c) \/ Wake(c) \/ CloseUnheld(c)
             \/ HoldEnds(c) \/ Connect(c) \/ Elapse(c)
             \/ \E n \in Numbers : \/ \E correct \in BOOLEAN : Answer(c, n, correct)
                                   \/ Receive(c, n)
    BY <1>1, <2>5 DEF TopResolves, AdaptInserts, Timeout, Wake, CloseUnheld, HoldEnds, Connect, Elapse,
                      Answer, Receive
  <2> QED  BY <1>4, <2>1, <2>2, <2>3, <2>4, <2>5 DEF Looping
<1>5. ASSUME NEW p \in Players, NEW t \in Tasks, Judging(p, t) \/ Time(p, t) PROVE Writes
  BY <1>1, <1>5 DEF Judging, Time, CommitSeen, JudgeConcludes, Register, Deliver, GoQuiet, RunOut, Expire
<1>6. CASE EndSession
  BY <1>1, <1>6 DEF EndSession
<1>7. CASE Crash
  BY <1>1, <1>7 DEF Crash
<1>8. CASE UNCHANGED vars
  BY <1>1, <1>8 DEF vars
<1> QED  BY <1>2, <1>3, <1>4, <1>5, <1>6, <1>7, <1>8, NextIs

-----------------------------------------------------------------------------
(* The other parts of the invariant                                        *)

LEMMA LateKept ==
  ASSUME IInv, TypeOK', \A d \in Conns : Moves(d)
  PROVE  LateInv'
<1> SUFFICES ASSUME NEW d \in Conns
             PROVE  /\ late'[d] <= 1
                    /\ late'[d] # 0 => ~Current(d)' /\ pc'[d] \in {"wait", "sleep", "top", "ended"}
                    /\ Current(d)' => pc'[d] # "off"
  BY DEF LateInv, Current
<1>0. /\ late[d] \in Nat /\ late[d] <= 1
      /\ late[d] # 0 => ~Current(d) /\ pc[d] \in {"wait", "sleep", "top", "ended"}
      /\ Current(d) => pc[d] # "off"
      /\ Moves(d)
  BY DEF IInv, TypeOK, LateInv
<1>1. ASSUME NEW t \in Tasks, NEW o \in Ordinals, Asks(d, t, o)
      PROVE  /\ late'[d] <= 1 /\ pc'[d] = "wait"
             /\ late'[d] # 0 => ~Current(d)'
  <2>1. late[d] = 0 /\ DOMAIN pc = Conns /\ DOMAIN late = Conns
    BY <1>0, <1>1 DEF Asks, IInv, TypeOK
  <2>2. late'[d] = (IF Current(d) THEN 0 ELSE 1) /\ pc'[d] = "wait" /\ registry' = registry
    BY <1>1, <2>1 DEF Asks, Dispatch, Goto, Current
  <2> QED  BY <2>2 DEF Current
<1>2. CASE Closes(d, TRUE) \/ Closes(d, FALSE) \/ Adapts(d)
  <2>1. pc[d] = "pick" /\ late' = late /\ registry' = registry /\ pc'[d] \in {"close", "adapt"}
    BY <1>2 DEF Closes, Close, Adapts, Goto, IInv, TypeOK, history
  <2> QED  BY <1>0, <2>1
<1>3. CASE Stays(d) \/ Inserts(d) \/ Rounds(d) \/ Releases(d) \/ Advances(d) \/ Rewarded(d)
  BY <1>0, <1>3 DEF Stays, Inserts, Rounds, Releases, Advances, Rewarded, Keeps
<1>4. CASE Leaves(d)
  BY <1>0, <1>4 DEF Leaves
<1>5. CASE Starts(d)
  BY <1>0, <1>5 DEF Starts, Keeps
<1> QED  BY <1>0, <1>1, <1>2, <1>3, <1>4, <1>5 DEF Moves

LEMMA TestsKept ==
  ASSUME IInv, TypeOK', RowsStep, Grows, \A d \in Conns : Moves(d)
  PROVE  TestsInv'
<1>0. /\ \A n \in 1 .. count : tests[probes[n].task] # {} /\ probes[n].task \in Tasks /\ n \in Numbers
      /\ project' = project
  BY SentFacts, RowFacts DEF IInv, TestsInv, Grows
<1>1. \A n \in 1 .. count' : tests'[probes'[n].task] # {}
  <2>1. CASE count' = count /\ \A n \in Numbers : RowStep(n)
    BY <1>0, <2>1 DEF RowStep, SameProbe, Grows
  <2>2. ASSUME NEW c \in Conns, NEW t \in Tasks, NEW o \in Ordinals, Asks(c, t, o)
        PROVE  \A n \in 1 .. count' : tests'[probes'[n].task] # {}
    <3>0. AsksRow(c, t, o)  BY <2>2, AsksRows
    <3>1. tests'[probes'[count'].task] # {}  BY <2>2, <3>0 DEF Asks, AsksRow, Grows
    <3>2. \A n \in 1 .. count : n # count' /\ probes'[n] = probes[n]
      BY <1>0, <3>0, SentFacts DEF AsksRow
    <3>3. \A n \in 1 .. count : tests'[probes'[n].task] # {}
      BY <1>0, <3>2 DEF Grows
    <3> QED  BY <3>0, <3>1, <3>3 DEF AsksRow
  <2> QED  BY <2>1, <2>2 DEF RowsStep
<1>2. ASSUME NEW d \in Conns, pc'[d] = "adapt"
      PROVE  /\ \A n \in Sent(d)' : probes'[n].task # at'[d]
             /\ seen'[d] > 0 => tests'[at'[d]] # {}
  <2>0. Moves(d)  OBVIOUS
  <2>1. ASSUME NEW t \in Tasks, NEW o \in Ordinals, Asks(d, t, o) PROVE FALSE
    BY <1>2, <2>1, AsksRows DEF AsksRow, IInv, TypeOK
  <2>2. CASE Stays(d) \/ Inserts(d)
    <3>1. /\ pc[d] = "adapt" /\ at'[d] = at[d]
          /\ \A n \in Sent(d) : probes[n].task # at[d]
      BY <1>2, <2>2 DEF Stays, Inserts, IInv, TestsInv
    <3>2. at[d] \in Tasks  BY <3>1 DEF IInv, TypeOK, PlaceInv, Tasks
    <3>3. seen'[d] > 0 => tests'[at[d]] # {}
      BY <1>2, <2>2, <3>1, <3>2 DEF Stays, Inserts, IInv, TestsInv, Grows
    <3>4. ASSUME NEW n \in Sent(d)' PROVE probes'[n].task # at[d]
      <4>1. CASE count' = count /\ \A k \in Numbers : RowStep(k)
        BY <3>1, <4>1, SentFacts DEF RowStep, SameProbe, Sent
      <4>2. ASSUME NEW c \in Conns, NEW t \in Tasks, NEW o \in Ordinals, Asks(c, t, o)
            PROVE  probes'[n].task # at[d]
        <5>0. AsksRow(c, t, o)  BY <4>2, AsksRows
        <5>1. c # d  BY <1>2, <5>0 DEF AsksRow, IInv, TypeOK
        <5>2. n # count'  BY <5>0, <5>1 DEF AsksRow, Sent
        <5> QED  BY <3>1, <5>0, <5>2, SentFacts DEF AsksRow, Sent
      <4> QED  BY <4>1, <4>2 DEF RowsStep
    <3> QED  BY <3>1, <3>3, <3>4
  <2>3. CASE Adapts(d)
    <3>1. /\ pc[d] = "pick" /\ tests[at[d]] = {} /\ at' = at /\ probes' = probes /\ count' = count
          /\ seen'[d] = 0
      BY <2>3 DEF Adapts, tables, IInv, TypeOK
    <3>2. \A n \in Sent(d) : probes[n].task # at[d]  BY <1>0, <3>1 DEF Sent
    <3> QED  BY <3>1, <3>2 DEF Sent
  <2>4. CASE Closes(d, TRUE) \/ Closes(d, FALSE)
    BY <1>2, <2>4 DEF Closes, Close, Goto, IInv, TypeOK
  <2>5. CASE Leaves(d) \/ Rounds(d) \/ Starts(d) \/ Releases(d) \/ Advances(d) \/ Rewarded(d)
    BY <1>2, <2>5 DEF Leaves, Rounds, Starts, Releases, Advances, Rewarded
  <2> QED  BY <2>0, <2>1, <2>2, <2>3, <2>4, <2>5 DEF Moves
<1> QED  BY <1>1, <1>2 DEF TestsInv

\* A task is closed by the handler that is at it, or had been closed before.
Closed(c) ==
  /\ at[c] \in Tasks /\ Owner[c] \in Players
  /\ closed'[Owner[c]] = IF at[c] > closed[Owner[c]] THEN at[c] ELSE closed[Owner[c]]
  /\ \A p \in Players \ {Owner[c]} : closed'[p] = closed[p] /\ sched'[p] = sched[p]
  /\ sched'[Owner[c]].task \in {0, at[c] + 1}
  /\ at[c] = project.last => Owner[c] \in told'

LEMMA AdvanceCloses == ASSUME IInv, NEW c \in Conns, Advance(c) PROVE Closed(c)
<1> DEFINE p == Owner[c]
           t == at[c]
<1>0. /\ p \in Players /\ DOMAIN closed = Players /\ DOMAIN sched = Players
      /\ t \in Tasks
  <2>1. pc[c] = "advance"  BY DEF Advance
  <2>2. at[c] \in 0 .. project.last /\ at[c] > 0  BY <2>1 DEF IInv, TypeOK, PlaceInv
  <2>3. DOMAIN closed = Players /\ DOMAIN sched = Players /\ TypeOK  BY DEF IInv, TypeOK
  <2>4. project.last \in Nat /\ p \in Players  BY <2>3, ProjectFacts
  <2>5. t \in Tasks  BY <2>2, <2>4 DEF Tasks
  <2> QED  BY <2>3, <2>4, <2>5
<1>1. PICK failed \in BOOLEAN :
        /\ sched' = [sched EXCEPT ![p] = After(t, failed)]
        /\ closed' = [closed EXCEPT ![p] = IF t > @ THEN t ELSE @]
        /\ told' = IF After(t, failed) = Completed THEN told \cup {p} ELSE told
  BY DEF Advance
<1>2. After(t, failed).task \in {0, t + 1} /\ (t = project.last => After(t, failed) = Completed)
  BY DEF After, Completed
<1> QED  BY <1>0, <1>1, <1>2 DEF Closed

LEMMA PlaceKept ==
  ASSUME IInv, TypeOK', Grows, Writes, \A d \in Conns : Moves(d)
  PROVE  PlaceInv'
<1>a. TypeOK /\ project.last \in Nat \ {0} /\ project' = project /\ told \subseteq told'
  BY ProjectFacts DEF IInv, Grows
<1>b. \A c \in Conns : /\ Owner[c] \in Players /\ at[c] <= closed[Owner[c]] + 1
                      /\ at[c] \in Nat /\ at'[c] \in Nat
  BY <1>a, ProjectFacts DEF IInv, TypeOK, PlaceInv
<1>c. \A p \in Players : closed[p] \in Nat /\ closed'[p] \in Nat /\ closed[p] <= closed'[p]
  BY <1>a DEF TypeOK, Grows
<1>d. ASSUME NEW p \in Players
      PROVE  /\ sched[p].task \in Nat
             /\ sched[p].task <= closed[p] + 1
             /\ closed[p] = project.last => p \in told
  BY <1>a, SchedTyped DEF IInv, PlaceInv
<1>0. DOMAIN at = Conns  BY <1>a DEF TypeOK
<1>1. ASSUME NEW d \in Conns
      PROVE  /\ pc'[d] \in {"pick", "adapt", "close", "advance", "reward"} => at'[d] > 0
             /\ at'[d] <= closed'[Owner[d]] + 1
  <2>0. Moves(d) /\ (pc[d] \in {"pick", "adapt", "close", "advance", "reward"} => at[d] > 0)
    BY DEF IInv, PlaceInv
  <2>1. ASSUME NEW t \in Tasks, NEW o \in Ordinals, Asks(d, t, o)
        PROVE  at'[d] = at[d] /\ pc'[d] = "wait"
    BY <2>1 DEF Asks, Dispatch, Goto, IInv, TypeOK
  <2>2. CASE Closes(d, TRUE) \/ Closes(d, FALSE) \/ Adapts(d)
    <3>1. pc[d] = "pick" /\ at' = at  BY <2>2 DEF Closes, Close, Adapts
    <3> QED  BY <1>b, <1>c, <2>0, <3>1
  <2>a. at[d] \in Nat /\ at'[d] \in Nat /\ at[d] <= closed[Owner[d]] + 1 /\ Owner[d] \in Players
    BY <1>b
  <2>c. closed[Owner[d]] \in Nat /\ closed'[Owner[d]] \in Nat /\ closed[Owner[d]] <= closed'[Owner[d]]
    BY <1>c, <2>a
  <2>d. sched[Owner[d]].task <= closed[Owner[d]] + 1 /\ sched[Owner[d]].task \in Nat
    BY <1>d, <2>a
  <2>b. /\ closed[Owner[d]] \in Nat /\ closed'[Owner[d]] \in Nat /\ closed[Owner[d]] <= closed'[Owner[d]]
        /\ sched[Owner[d]].task <= closed[Owner[d]] + 1 /\ sched[Owner[d]].task \in Nat
    BY <2>c, <2>d
  <2>e. CASE at'[d] = at[d] /\ pc'[d] = "wait"  BY <2>a, <2>c, <2>e
  <2>3. CASE \/ Stays(d) \/ Inserts(d) \/ Releases(d) \/ Advances(d) \/ Rewarded(d) \/ Leaves(d)
             \/ Rounds(d)
    BY <2>a, <2>b, <2>0, <2>3 DEF Stays, Inserts, Releases, Advances, Rewarded, Leaves, Rounds
  <2>4. CASE Starts(d)
    BY <2>a, <2>b, <2>0, <2>4 DEF Starts
  <2> QED  BY <2>e, <2>0, <2>1, <2>2, <2>3, <2>4 DEF Moves
<1>2. ASSUME NEW p \in Players
      PROVE  /\ sched'[p].task <= closed'[p] + 1
             /\ closed'[p] = project.last => p \in told'
  <2>b. closed[p] \in Nat /\ closed'[p] \in Nat /\ closed[p] <= closed'[p]  BY <1>c
  <2>c. /\ sched[p].task \in Nat /\ sched[p].task <= closed[p] + 1
        /\ closed[p] = project.last => p \in told
    BY <1>d
  <2>a. /\ closed[p] \in Nat /\ closed'[p] \in Nat /\ closed[p] <= closed'[p]
        /\ sched[p].task \in Nat /\ sched[p].task <= closed[p] + 1
        /\ closed[p] = project.last => p \in told
    BY <2>b, <2>c
  <2>1. CASE UNCHANGED <<closed, told>> /\ sched'[p].task \in {sched[p].task, 1}
    BY <2>a, <2>1
  <2>2. ASSUME NEW c \in Conns, Advance(c)
        PROVE  /\ sched'[p].task <= closed'[p] + 1
               /\ closed'[p] = project.last => p \in told'
    <3>1. Closed(c)  BY <2>2, AdvanceCloses
    <3>2. CASE p # Owner[c]
      <4>1. closed'[p] = closed[p] /\ sched'[p] = sched[p]  BY <3>1, <3>2 DEF Closed
      <4> QED  BY <1>a, <2>a, <4>1
    <3>3. CASE p = Owner[c]
      <4>1. /\ closed'[p] = (IF at[c] > closed[p] THEN at[c] ELSE closed[p])
            /\ sched'[p].task \in {0, at[c] + 1}
            /\ at[c] = project.last => p \in told'
        BY <3>1, <3>3 DEF Closed
      <4>2. at[c] \in Nat  BY <1>b
      <4> QED  BY <1>a, <2>a, <4>1, <4>2
    <3> QED  BY <3>2, <3>3
  <2> QED  BY <2>1, <2>2 DEF Writes
<1> QED  BY <1>a, <1>1, <1>2 DEF PlaceInv

LEMMA CloseKept ==
  ASSUME IInv, TypeOK', RowsStep, Grows, \A d \in Conns : Moves(d)
  PROVE  CloseInv'
<1> SUFFICES ASSUME NEW d \in Conns, NEW t \in Tasks, Closing(d)', at'[d] = t
             PROVE  IF via'[d] THEN Complete(Owner[d], t)' \/ Faulty' ELSE <<Owner[d], t>> \in windows'
  BY DEF CloseInv, Grows, Tasks
<1>0. Owner[d] \in Players /\ DOMAIN pc = Conns /\ DOMAIN via = Conns /\ Moves(d)
      /\ (Complete(Owner[d], t) => Complete(Owner[d], t)')
  BY ProjectFacts, StaysComplete DEF IInv, TypeOK
<1>2. CASE Closing(d) /\ at[d] = t /\ via'[d] = via[d]
  BY <1>0, <1>2 DEF IInv, CloseInv, Grows
<1>3. ASSUME NEW v \in {TRUE, FALSE}, Closes(d, v)
      PROVE  IF via'[d] THEN Complete(Owner[d], t)' \/ Faulty' ELSE <<Owner[d], t>> \in windows'
  <2>1. via'[d] = v /\ at' = at  BY <1>0, <1>3 DEF Closes, Close
  <2> QED  BY <1>0, <1>3, <2>1 DEF Closes, Grows
<1>4. ASSUME NEW u \in Tasks, NEW o \in Ordinals, Asks(d, u, o) PROVE FALSE
  BY <1>0, <1>4 DEF Asks, Dispatch, Goto, Closing
<1>5. CASE Adapts(d)
  BY <1>0, <1>5 DEF Adapts, Goto, Closing
<1>6. CASE \/ Inserts(d) \/ Rewarded(d) \/ Leaves(d) \/ Rounds(d) \/ Starts(d)
  BY <1>6 DEF Inserts, Rewarded, Leaves, Rounds, Starts, Closing
<1>7. CASE Stays(d) \/ Releases(d) \/ Advances(d)
  BY <1>2, <1>7 DEF Stays, Releases, Advances, Closing
<1> QED  BY <1>0, <1>3, <1>4, <1>5, <1>6, <1>7 DEF Moves

LEMMA PaidKept ==
  ASSUME IInv, TypeOK', RowsStep, Grows, Writes, \A d \in Conns : Moves(d)
  PROVE  PaidInv'
<1> SUFFICES ASSUME NEW p \in Players, NEW t \in Tasks
             PROVE  /\ <<p, t>> \in bonus' => Complete(p, t)' \/ Faulty'
                    /\ t <= closed'[p] => \/ <<p, t>> \in bonus' \/ crashes' > 0 \/ <<p, t>> \in windows'
                                          \/ \E c \in Conns : Rewards(c, p, t)'
  BY DEF PaidInv, Grows, Tasks
<1>0. /\ Complete(p, t) => Complete(p, t)'
      /\ <<p, t>> \in bonus => Complete(p, t) \/ Faulty
      /\ t <= closed[p] => \/ <<p, t>> \in bonus \/ crashes > 0 \/ <<p, t>> \in windows
                           \/ \E c \in Conns : Rewards(c, p, t)
      /\ closed[p] \in Nat /\ t \in Nat
  <2>1. Complete(p, t) => Complete(p, t)'  BY StaysComplete
  <2>2. PaidInv  BY DEF IInv
  <2>3. closed[p] \in Nat  BY DEF IInv, TypeOK
  <2>4. t \in Nat  BY DEF Tasks
  <2>5. /\ <<p, t>> \in bonus => Complete(p, t) \/ Faulty
        /\ t <= closed[p] => \/ <<p, t>> \in bonus \/ crashes > 0 \/ <<p, t>> \in windows
                             \/ \E c \in Conns : Rewards(c, p, t)
    BY <2>2 DEF PaidInv
  <2> QED  BY <2>1, <2>3, <2>4, <2>5
<1>1. ASSUME <<p, t>> \in bonus' PROVE Complete(p, t)' \/ Faulty'
  <2>1. ASSUME NEW c \in Conns, Closing(c), via[c], <<p, t>> = <<Owner[c], at[c]>>
        PROVE  Complete(p, t) \/ Faulty
    <3>1. Owner[c] = p /\ at[c] = t  BY <2>1
    <3> QED  BY <2>1, <3>1 DEF IInv, CloseInv
  <2>2. Complete(p, t) \/ Faulty  BY <1>0, <1>1, <2>1 DEF Writes
  <2> QED  BY <1>0, <2>2 DEF Grows
<1>2. ASSUME NEW c \in Conns, Rewards(c, p, t)
      PROVE  <<p, t>> \in bonus' \/ crashes' > 0 \/ Rewards(c, p, t)'
  <2>1. pc[c] = "reward" /\ via[c] /\ Owner[c] = p /\ at[c] = t /\ Moves(c)
    BY <1>2 DEF Rewards
  <2>2. \A u \in Tasks, o \in Ordinals : ~Asks(c, u, o)  BY <2>1 DEF Asks
  <2>3. ~Closes(c, TRUE) /\ ~Closes(c, FALSE) /\ ~Adapts(c)  BY <2>1 DEF Closes, Adapts
  <2>4. Stays(c) \/ Leaves(c) \/ Rewarded(c)
    BY <2>1, <2>2, <2>3 DEF Moves, Inserts, Rounds, Starts, Releases, Advances
  <2> QED  BY <2>1, <2>4 DEF Stays, Leaves, Rewarded, Rewards
<1>3. ASSUME t <= closed'[p], ~(t <= closed[p])
      PROVE  <<p, t>> \in windows' \/ \E c \in Conns : Rewards(c, p, t)'
  <2>1. PICK c \in Conns : Advance(c)  BY <1>3 DEF Writes
  <2>2. Closed(c)  BY <2>1, AdvanceCloses
  <2>3. Owner[c] = p /\ at[c] = t
    <3>1. at[c] \in Nat /\ at[c] <= closed[Owner[c]] + 1
      BY DEF IInv, TypeOK, PlaceInv
    <3> QED  BY <1>0, <1>3, <2>2, <3>1 DEF Closed
  <2>4. pc[c] = "advance" /\ pc'[c] = "reward" /\ at' = at /\ via' = via /\ windows' = windows
    BY <2>1 DEF Advance, Goto, ages, IInv, TypeOK
  <2>5. via[c] \/ <<p, t>> \in windows  BY <2>3, <2>4 DEF IInv, CloseInv, Closing
  <2> QED  BY <2>3, <2>4, <2>5 DEF Rewards
<1> QED  BY <1>0, <1>1, <1>2, <1>3 DEF Grows

-----------------------------------------------------------------------------
(* The invariant                                                           *)

LEMMA StartIsSound == ASSUME Init PROVE IInv
<1>1. project.last \in Nat \ {0}  BY ProjectsAssumption DEF Init
<1>2. TypeOK
  <2>1. [task |-> 0, elapsed |-> FALSE] \in [task : 0 .. project.last, elapsed : BOOLEAN]  BY <1>1
  <2>2. hold \in [Conns -> [task : 0 .. project.last, elapsed : BOOLEAN]]  BY <2>1 DEF Init
  <2>3. [state |-> "none", task |-> 0]
          \in [state : {"none", "idle", "judging", "completed"}, task : 0 .. project.last]
    BY <1>1
  <2>4. sched \in [Players -> [state : {"none", "idle", "judging", "completed"}, task : 0 .. project.last]]
    BY <2>3 DEF Init
  <2>5. probes \in [Numbers -> ProbeRow]  BY DEF Init, ProbeRow
  <2>6. count \in 0 .. MaxProbes  BY BoundsAssumption DEF Init
  <2>7. /\ at \in [Conns -> 0 .. project.last] /\ closed \in [Players -> 0 .. project.last]
        /\ pc \in [Conns -> Places]
    BY <1>1 DEF Init, Places
  <2>8. /\ registry \in [Players -> Conns \cup {Nobody}] /\ seen \in [Conns -> Nat]
        /\ via \in [Conns -> BOOLEAN] /\ tests \in [Tasks -> SUBSET Ordinals]
        /\ wire \in [Conns -> SUBSET Numbers] /\ inbox \in [Conns -> SUBSET Numbers]
        /\ late \in [Conns -> Nat]
    BY DEF Init
  <2>9. commits \in [PT -> Nat] /\ verdict \in [PT -> {"none", "running", "concluded"}]
    BY DEF Init
  <2> QED  BY <2>2, <2>4, <2>5, <2>6, <2>7, <2>8, <2>9 DEF Init, TypeOK
<1>3. CountInv  BY FS_EmptySet DEF Init, CountInv
<1>4. 1 .. count = {} /\ \A n \in Numbers : n > count  BY DEF Init, Numbers
<1>5. RowsInv  BY <1>4 DEF RowsInv, Init
<1>6. LateInv
  BY NobodyAssumption, OwnerAssumption DEF LateInv, Init, Current
<1>7. WaitInv /\ TestsInv /\ TwiceInv /\ PassMeansAnswer /\ CloseInv
  BY <1>4 DEF WaitInv, TestsInv, TwiceInv, PassMeansAnswer, CloseInv, Closing, Init
<1>8. PlaceInv  BY <1>1, ProjectFacts, <1>2 DEF PlaceInv, Init
<1>9. PaidInv  BY <1>1 DEF PaidInv, Init, Tasks
<1> QED  BY <1>2, <1>3, <1>5, <1>6, <1>7, <1>8, <1>9 DEF IInv

LEMMA StepIsSound == ASSUME IInv, [Next]_vars PROVE IInv'
<1>1. TypeOK'  BY TypeStep
<1>2. RowsStep /\ Grows /\ CountInv' /\ Writes /\ \A d \in Conns : Moves(d)
  BY RowsMove, Growing, WritesAre, HandlerMoves
<1>3. RowsInv' /\ PassMeansAnswer' /\ WaitInv' /\ TwiceInv'
  BY <1>2, RowsKept, AnswersKept, WaitKept, TwiceKept
<1>4. LateInv' /\ TestsInv'  BY <1>1, <1>2, LateKept, TestsKept
<1>5. PlaceInv' /\ CloseInv' /\ PaidInv'  BY <1>1, <1>2, PlaceKept, CloseKept, PaidKept
<1> QED  BY <1>1, <1>2, <1>3, <1>4, <1>5 DEF IInv

LEMMA Sound == Spec => []IInv
BY StartIsSound, StepIsSound, PTL DEF Spec

(* The types of TaskScheduler, for every project and any number of         *)
(* handlers, probes and crashes.                                           *)
THEOREM TaskTyped == Spec => []TypeOK
<1>1. IInv => TypeOK  BY DEF IInv
<1> QED  BY <1>1, Sound, PTL

(* Whatever crosses whichever wait, a probe is passed only by the agent's   *)
(* own right answer to it, or by the files its judge asked for              *)
(* (grade_test_result, the conditional update of the probes row).           *)
THEOREM PassesAreEarned == Spec => []PassMeansAnswer
<1>1. IInv => PassMeansAnswer  BY DEF IInv
<1> QED  BY <1>1, Sound, PTL

(* A handler that another connection has superseded sends one more probe at *)
(* most, wherever in its loop it was (is_current_connection at the top).    *)
THEOREM SupersededStops == Spec => []OneProbeOnceSuperseded
<1>1. IInv => OneProbeOnceSuperseded  BY DEF IInv, LateInv, OneProbeOnceSuperseded
<1> QED  BY <1>1, Sound, PTL

(* A classic section without setup is paid for twice only when two handlers *)
(* of the player had it in flight at once.                                  *)
THEOREM TwicePaidOverlaps == Spec => []PaidTwiceOnlyByOverlap
<1>1. IInv => PaidTwiceOnlyByOverlap
  BY DEF IInv, TwiceInv, Again, PaidTwiceOnlyByOverlap
<1> QED  BY <1>1, Sound, PTL

(* The completion bonus and the completion of the task go together, up to   *)
(* the faults and crashes the property names (the close and its payment).   *)
THEOREM BonusIsEarned == Spec => []BonusIsForCompleting
<1>1. ASSUME IInv, NEW p \in Players, NEW t \in Tasks
      PROVE  /\ <<p, t>> \in bonus => Complete(p, t) \/ Faulty
             /\ t <= closed[p] => \/ <<p, t>> \in bonus \/ crashes > 0 \/ <<p, t>> \in windows
                                  \/ \E c \in Conns : Rewards(c, p, t)
             /\ closed[p] >= t <=> t <= closed[p]
  BY <1>1 DEF IInv, TypeOK, PaidInv, Tasks
<1>2. IInv => BonusIsForCompleting
  BY <1>1 DEF Rewards, Faulty, BonusIsForCompleting
<1> QED  BY <1>2, Sound, PTL

-----------------------------------------------------------------------------
(* TaskOrder is implemented                                                *)

LEMMA CompleteIsNeeded ==
  ASSUME IInv, NEW p \in Players, NEW t \in Tasks, Complete(p, t)
  PROVE  Order!Needed(t) \subseteq PassedSections(p)
<1>1. ASSUME NEW o \in Own(t), Passed(p, t, o) PROVE <<t, o>> \in PassedSections(p)
  <2>1. PICK n \in Of(p, t, o) : probes[n].outcome = "pass"  BY <1>1 DEF Passed
  <2>2. n \in 1 .. count /\ probes[n].player = p /\ probes[n].task = t /\ probes[n].item = o
    BY <2>1, SentFacts DEF Of, Unsent
  <2> QED  BY <2>1, <2>2 DEF PassedSections
<1>2. project.sections[t] \in Own(t)  BY ProjectFacts DEF IInv
<1>3. CASE Open(t)
  BY <1>1, <1>2, <1>3 DEF Complete, CompletionPassed, Order!Needed, Open
<1>4. CASE ~Open(t)
  BY <1>1, <1>4 DEF Complete, Order!Needed, Order!Sections, Open, Own
<1> QED  BY <1>3, <1>4

SamePassed == \A p \in Players : PassedSections(p)' = PassedSections(p)

LEMMA RowsThatDoNotPass ==
  ASSUME IInv, count' = count, project' = project,
         \A n \in 1 .. count :
           /\ SameProbe(n)
           /\ probes[n].item \in Own(probes[n].task) => (probes'[n].outcome = "pass" <=> probes[n].outcome = "pass")
  PROVE  SamePassed
<1>1. \A t : Own(t)' = Own(t)  BY DEF Own
<1> QED  BY <1>1 DEF SamePassed, PassedSections, SameProbe, Own

LEMMA RowSentDoesNotPass ==
  ASSUME IInv, NEW c \in Conns, NEW t \in Tasks, NEW o \in Ordinals, Asks(c, t, o)
  PROVE  SamePassed
<1>0. AsksRow(c, t, o)  BY AsksRows
<1>1. \A n \in 1 .. count : probes'[n] = probes[n]  BY <1>0, SentFacts DEF AsksRow
<1>2. project' = project  BY DEF Asks, Dispatch
<1> QED  BY <1>0, <1>1, <1>2, SentFacts DEF AsksRow, SamePassed, PassedSections, Own

LEMMA Stutters ==
  ASSUME SamePassed, UNCHANGED <<project, windows, closed, told>>, Faulty' <=> Faulty
  PROVE  UNCHANGED Order!vars
<1>1. (short \/ faults > 0)' = (short \/ faults > 0)  BY DEF Faulty
<1> QED  BY <1>1 DEF SamePassed, Order!vars, Tasks

LEMMA Faults ==
  ASSUME SamePassed, UNCHANGED <<project, windows, closed>>, Faulty', NEW p \in Players,
         told' \in {told, told \cup {p}}
  PROVE  Order!Next
<1>1. (short \/ faults > 0)' = TRUE  BY DEF Faulty
<1>2. Order!Fault  BY <1>1 DEF SamePassed, Order!Fault, Tasks
<1> QED  BY <1>2 DEF Order!Next

Orders == Order!Next \/ UNCHANGED Order!vars

\* The answer to a probe may pass one section.
LEMMA SectionsAre ==
  ASSUME project' = project, count' = count, NEW q
  PROVE  PassedSections(q)' =
           {<<probes'[n].task, probes'[n].item>> :
              n \in {m \in 1 .. count : /\ probes'[m].player = q /\ probes'[m].outcome = "pass"
                                        /\ probes'[m].item \in Own(probes'[m].task)}}
BY DEF PassedSections, Own

LEMMA ResolveOrders ==
  ASSUME IInv, NEW c \in Conns, pc[c] = "wait", NEW out, Resolve(seen[c], out),
         UNCHANGED <<project, count, windows, closed, told, short, faults>>
  PROVE  Orders
<1>k. PICK k \in 1 .. count : k = seen[c]  BY DEF IInv, WaitInv, Sent
<1>0. /\ k \in Numbers /\ probes[k] # Unsent
      /\ \A n \in 1 .. count : n \in Numbers
      /\ (Faulty' <=> Faulty)
  BY SentFacts DEF Faulty
<1>1. /\ probes[k].player \in Players /\ probes[k].task \in Tasks
  BY <1>0, RowFacts DEF IInv
<1>p. PICK p \in Players : p = probes[k].player  BY <1>1
<1>x. PICK x : x = <<probes[k].task, probes[k].item>>  OBVIOUS
<1>2. ASSUME NEW n \in 1 .. count
      PROVE  /\ SameProbe(n)
             /\ probes'[n].outcome = IF n = k /\ probes[n].outcome = "open" THEN out ELSE probes[n].outcome
  BY <1>0, <1>k, ResolveRows DEF IInv
<1>3. CASE out = "pass" /\ probes[k].outcome = "open" /\ probes[k].item \in Own(probes[k].task)
  <2>1. ASSUME NEW q \in Players, NEW y
        PROVE  y \in PassedSections(q)' <=> y \in PassedSections(q) \/ (q = p /\ y = x)
    <3>1. ASSUME y \in PassedSections(q)' PROVE y \in PassedSections(q) \/ (q = p /\ y = x)
      <4>1. PICK n \in 1 .. count : /\ probes'[n].player = q /\ probes'[n].outcome = "pass"
                                    /\ probes'[n].item \in Own(probes'[n].task)
                                    /\ y = <<probes'[n].task, probes'[n].item>>
        BY <3>1, SectionsAre
      <4>2. CASE n = k  BY <1>2, <1>p, <1>x, <4>1, <4>2 DEF SameProbe
      <4>3. CASE n # k  BY <1>2, <4>1, <4>3 DEF PassedSections, SameProbe
      <4> QED  BY <4>2, <4>3
    <3>2. ASSUME q = p, y = x PROVE y \in PassedSections(q)'
      <4>1. /\ probes'[k].player = q /\ probes'[k].outcome = "pass"
            /\ probes'[k].item \in Own(probes'[k].task)
            /\ y = <<probes'[k].task, probes'[k].item>>
        BY <1>2, <1>3, <1>p, <1>x, <3>2 DEF SameProbe
      <4> QED  BY <4>1, SectionsAre
    <3>3. ASSUME y \in PassedSections(q) PROVE y \in PassedSections(q)'
      <4>1. PICK n \in 1 .. count : /\ probes[n].player = q /\ probes[n].outcome = "pass"
                                    /\ probes[n].item \in Own(probes[n].task)
                                    /\ y = <<probes[n].task, probes[n].item>>
        BY <3>3 DEF PassedSections
      <4>2. /\ probes'[n].player = q /\ probes'[n].outcome = "pass"
            /\ probes'[n].item \in Own(probes'[n].task)
            /\ y = <<probes'[n].task, probes'[n].item>>
        BY <1>2, <1>3, <4>1 DEF SameProbe
      <4> QED  BY <4>2, SectionsAre
    <3> QED  BY <3>1, <3>2, <3>3
  <2>2. /\ PassedSections(p)' = PassedSections(p) \cup {x}
        /\ \A q \in Players \ {p} : PassedSections(q)' = PassedSections(q)
    BY <2>1
  <2>3. [q \in Players |-> PassedSections(q)]' =
          [[q \in Players |-> PassedSections(q)] EXCEPT ![p] = @ \cup {x}]
    <3>1. [q \in Players |-> PassedSections(q)]' = [q \in Players |-> PassedSections(q)']
      OBVIOUS
    <3>2. [q \in Players |-> PassedSections(q)'] =
            [[q \in Players |-> PassedSections(q)] EXCEPT ![p] = @ \cup {x}]
      BY <2>2
    <3> QED  BY <3>1, <3>2
  <2>4. x \in UNION {Order!Sections(t) : t \in Order!Tasks}
    <3>1. DOMAIN project.sections = Tasks  BY ProjectFacts DEF IInv
    <3>2. x \in Order!Sections(probes[k].task)  BY <1>3, <1>x DEF Order!Sections, Own
    <3> QED  BY <1>1, <3>1, <3>2 DEF Order!Tasks
  <2>5. Order!Pass(p)  BY <2>3, <2>4 DEF Order!Pass, Tasks
  <2> QED  BY <2>5 DEF Orders, Order!Next
<1>4. CASE ~(out = "pass" /\ probes[k].outcome = "open" /\ probes[k].item \in Own(probes[k].task))
  <2>1. SamePassed  BY <1>2, <1>4, RowsThatDoNotPass
  <2> QED  BY <1>0, <2>1, Stutters DEF Orders
<1> QED  BY <1>3, <1>4

LEMMA AdvanceOrders == ASSUME IInv, NEW c \in Conns, Advance(c) PROVE Orders
<1> DEFINE p == Owner[c]
           t == at[c]
<1>0. /\ p \in Players /\ t \in Tasks /\ closed[p] \in Nat /\ t \in Nat /\ t <= closed[p] + 1
      /\ DOMAIN project.sections = Tasks /\ Tasks = 1 .. project.last /\ project.last \in Nat
      /\ closed[p] <= project.last /\ closed \in [Players -> 0 .. project.last]
  <2>1. TypeOK  BY DEF IInv
  <2>2. p \in Players /\ t \in Tasks  BY AdvanceCloses DEF Closed
  <2>3. closed \in [Players -> 0 .. project.last] /\ t <= closed[p] + 1
    BY DEF IInv, TypeOK, PlaceInv
  <2> QED  BY <2>1, <2>2, <2>3, ProjectFacts DEF Tasks
<1>1. PICK failed \in {FALSE} \cup (IF faults < MaxFaults THEN {TRUE} ELSE {}) :
        /\ closed' = [closed EXCEPT ![p] = IF t > @ THEN t ELSE @]
        /\ told' = IF After(t, failed) = Completed THEN told \cup {p} ELSE told
        /\ faults' = IF failed THEN faults + 1 ELSE faults
  BY DEF Advance
<1>2. UNCHANGED <<project, probes, count, windows, short>>  BY DEF Advance, ages
<1>3. SamePassed  BY <1>2 DEF SamePassed, PassedSections, Own
<1>4. (failed => Faulty') /\ (~failed => (Faulty' <=> Faulty))
  BY <1>1, <1>2 DEF Faulty, IInv, TypeOK
<1>5. After(t, failed) = Completed => failed \/ t = project.last
  BY DEF After, Completed
<1>6. CASE t > closed[p]
  <2>1. t = closed[p] + 1 /\ closed' = [closed EXCEPT ![p] = t]  BY <1>0, <1>1, <1>6
  <2>2. Complete(p, t) \/ Faulty \/ <<p, t>> \in windows
    BY <1>0 DEF Advance, IInv, CloseInv, Closing
  <2>3. Faulty => Faulty'  BY <1>1, <1>2 DEF Faulty, IInv, TypeOK
  <2>4. \/ Order!Needed(t) \subseteq [q \in Players |-> PassedSections(q)][p]
        \/ t \in [q \in Players |-> {u \in Tasks : <<q, u>> \in windows}][p]
        \/ (short \/ faults > 0)'
    BY <1>0, <2>2, <2>3, CompleteIsNeeded DEF Faulty
  <2>5. (short \/ faults > 0)' \in {(short \/ faults > 0), TRUE}
    BY <2>3 DEF Faulty
  <2>6. told' \in {told, told \cup {p}}  BY <1>1
  <2>7. told' # told => t + 1 \notin Order!Tasks \/ (short \/ faults > 0)'
    BY <1>0, <1>1, <1>4, <1>5 DEF Order!Tasks, Faulty
  <2>8. UNCHANGED <<project, [q \in Players |-> PassedSections(q)],
                    [q \in Players |-> {u \in Tasks : <<q, u>> \in windows}]>>
    BY <1>2, <1>3 DEF SamePassed, Tasks
  <2>9. t \in Order!Tasks  BY <1>0 DEF Order!Tasks
  <2>10. Order!Close(p)
    BY <2>1, <2>4, <2>5, <2>6, <2>7, <2>8, <2>9 DEF Order!Close
  <2> QED  BY <1>0, <2>10 DEF Orders, Order!Next
<1>7. CASE ~(t > closed[p])
  <2>1. closed' = closed  BY <1>0, <1>1, <1>7
  <2>2. CASE failed
    BY <1>0, <1>1, <1>2, <1>3, <1>4, <2>1, <2>2, Faults DEF Orders
  <2>3. CASE ~failed
    <3>1. After(t, failed) = Completed => p \in told
      BY <1>0, <1>5, <1>7, <2>3 DEF IInv, PlaceInv
    <3>2. told' = told  BY <1>1, <3>1
    <3> QED  BY <1>2, <1>3, <1>4, <2>1, <2>3, <3>2, Stutters DEF Orders
  <2> QED  BY <2>2, <2>3
<1> QED  BY <1>6, <1>7

LEMMA EveryStepOrders == ASSUME IInv, [Next]_vars PROVE Orders
<1> USE DEF handler, tables, agent, judges, ages, history
<1>0. \A n \in 1 .. count : n \in Numbers  BY SentFacts
<1>1. ASSUME UNCHANGED <<project, probes, count, windows, closed, told, short, faults>> PROVE Orders
  <2>1. SamePassed /\ (Faulty' <=> Faulty)  BY <1>1 DEF SamePassed, PassedSections, Own, Faulty
  <2> QED  BY <1>1, <2>1, Stutters DEF Orders
<1>2. ASSUME NEW c \in Conns, UNCHANGED <<project, probes, count, windows, closed, told>>,
             Faulty => Faulty'
      PROVE  Orders
  <2>1. SamePassed /\ Owner[c] \in Players
    BY <1>2, ProjectFacts DEF SamePassed, PassedSections, Own, IInv
  <2> QED  BY <1>2, <2>1, Stutters, Faults DEF Orders
<1>3. ASSUME NEW c \in Conns, Picking(c) PROVE Orders
  <2>1. ASSUME NEW t \in Tasks, NEW o \in Ordinals, Asks(c, t, o) PROVE Orders
    <3>1. UNCHANGED <<project, windows, closed, told, short, faults>>  BY <2>1 DEF Asks, Dispatch
    <3> QED  BY <2>1, <3>1, RowSentDoesNotPass, Stutters DEF Orders, Faulty
  <2>2. CASE Closes(c, TRUE) \/ Closes(c, FALSE)
    BY <1>2, <2>2 DEF Closes, Close
  <2>3. CASE Adapts(c)
    BY <1>1, <2>3 DEF Adapts
  <2> QED  BY <1>3, <2>1, <2>2, <2>3, PickComesTo
<1>4. ASSUME NEW c \in Conns, Leaving(c) PROVE Orders
  <2>1. Faulty => Faulty'  BY Growing DEF Grows
  <2> QED  BY <1>2, <1>4, <2>1 DEF Leaving, Leave, TopEnds, IdleEnds, AdaptFails
<1>5. ASSUME NEW c \in Conns, Looping(c) PROVE Orders
  <2>1. CASE Advance(c)  BY <2>1, AdvanceOrders
  <2>2. CASE Timeout(c)
    BY <2>2, ResolveOrders DEF Timeout
  <2>3. ASSUME NEW m \in Numbers, Receive(c, m) PROVE Orders
    <3>1. CASE pc[c] = "wait"
      BY <2>3, <3>1, ResolveOrders DEF Receive
    <3>2. CASE pc[c] # "wait"
      BY <1>1, <2>3, <3>2 DEF Receive
    <3> QED  BY <3>1, <3>2
  <2>4. CASE HoldEnds(c)
    <3>1. ASSUME NEW n \in 1 .. count
          PROVE  SameProbe(n) /\ (probes'[n].outcome = "pass" <=> probes[n].outcome = "pass")
      <4>1. probes[n] \in ProbeRow /\ probes[n] # Unsent  BY <1>0, SentFacts DEF IInv, TypeOK
      <4>2. probes'[n] = probes[n] \/ (probes[n].outcome = "open" /\
              probes'[n] = [probes[n] EXCEPT !.outcome = "no_response"])
        BY <1>0, <2>4 DEF HoldEnds
      <4> QED  BY <4>1, <4>2 DEF SameProbe, ProbeRow
    <3>2. UNCHANGED <<project, count, windows, closed, told, short, faults>>  BY <2>4 DEF HoldEnds
    <3>3. SamePassed  BY <3>1, <3>2, RowsThatDoNotPass
    <3> QED  BY <3>2, <3>3, Stutters DEF Orders, Faulty
  <2>5. CASE \/ TopResolves(c) \/ Bootstrap(c) \/ AdaptInserts(c) \/ Wake(c) \/ CloseUnheld(c)
             \/ HoldStarts(c) \/ HoldGoesOn(c) \/ Reward(c) \/ Connect(c) \/ Elapse(c)
             \/ \E n \in Numbers : \E correct \in BOOLEAN : Answer(c, n, correct)
    BY <1>1, <2>5 DEF TopResolves, Bootstrap, AdaptInserts, Wake, CloseUnheld, HoldStarts, HoldGoesOn,
                      Reward, Connect, Elapse, Answer
  <2> QED  BY <1>5, <2>1, <2>2, <2>3, <2>4, <2>5 DEF Looping
<1>6. ASSUME NEW p \in Players, NEW t \in Tasks, Judging(p, t) \/ Time(p, t) PROVE Orders
  <2>1. ASSUME NEW o \in tests[t], Deliver(p, t, o) PROVE Orders
    <3>1. ASSUME NEW n \in 1 .. count
          PROVE  /\ SameProbe(n)
                 /\ probes[n].item \in Own(probes[n].task) =>
                      (probes'[n].outcome = "pass" <=> probes[n].outcome = "pass")
      <4>1. probes[n] \in ProbeRow /\ probes[n] # Unsent /\ probes[n].task \in Tasks
        BY <1>0, SentFacts, RowFacts DEF IInv, TypeOK
      <4>2. probes'[n] = probes[n] \/ (probes[n].item = o /\
              probes'[n] = [probes[n] EXCEPT !.outcome = "pass"])
        BY <1>0, <2>1 DEF Deliver, Of
      <4>3. o \notin Own(probes[n].task)
        <5>1. o > FirstRequest /\ FirstRequest \in Nat  BY <2>1, BoundsAssumption DEF Deliver
        <5>2. Own(probes[n].task) \subseteq 1 .. FirstRequest  BY <4>1, ProjectFacts DEF IInv
        <5> QED  BY <5>1, <5>2
      <4> QED  BY <4>1, <4>2, <4>3 DEF SameProbe, ProbeRow
    <3>2. UNCHANGED <<project, count, windows, closed, told, short, faults>>  BY <2>1 DEF Deliver
    <3>3. SamePassed  BY <3>1, <3>2, RowsThatDoNotPass
    <3> QED  BY <3>2, <3>3, Stutters DEF Orders, Faulty
  <2>2. CASE RunOut(p, t)
    <3>1. UNCHANGED <<project, probes, count, closed, told, short, faults>> /\ Open(t)
          /\ windows' = windows \cup {<<p, t>>}
      BY <2>2 DEF RunOut
    <3>2. SamePassed  BY <3>1 DEF SamePassed, PassedSections, Own
    <3>3. [q \in Players |-> {u \in Tasks : <<q, u>> \in windows}]' =
            [[q \in Players |-> {u \in Tasks : <<q, u>> \in windows}] EXCEPT ![p] = @ \cup {t}]
      BY <3>1 DEF Tasks
    <3>4. Order!RunOut(p)
      BY <3>1, <3>2, <3>3 DEF Order!RunOut, SamePassed, Open
    <3> QED  BY <3>4 DEF Orders, Order!Next
  <2>3. CASE \/ CommitSeen(p, t) \/ JudgeConcludes(p, t) \/ Register(p, t) \/ GoQuiet(p, t)
             \/ \E o \in tests[t] : Expire(p, t, o)
    BY <1>1, <2>3 DEF CommitSeen, JudgeConcludes, Register, GoQuiet, Expire
  <2> QED  BY <1>6, <2>1, <2>2, <2>3 DEF Judging, Time
<1>7. CASE EndSession
  BY <1>1, <1>7 DEF EndSession
<1>8. CASE Crash
  BY <1>1, <1>8 DEF Crash
<1>9. CASE UNCHANGED vars
  BY <1>1, <1>9 DEF vars
<1> QED  BY <1>3, <1>4, <1>5, <1>6, <1>7, <1>8, <1>9, NextIs

(* The loop implements TaskOrder: tasks close one after the other, each     *)
(* only when it is completed or its window has run out, and the player is   *)
(* told to be done after the last (the scheduler row and its advance).      *)
THEOREM ImplementsOrder == Spec => KeepsOrder
<1>1. Init => Order!Init
  <2> SUFFICES ASSUME Init PROVE Order!Init
    OBVIOUS
  <2>1. 1 .. count = {}  BY DEF Init
  <2>2. \A p \in Players : PassedSections(p) = {}  BY <2>1 DEF PassedSections
  <2>3. (short \/ faults > 0) = FALSE  BY DEF Init
  <2> QED  BY <2>2, <2>3 DEF Init, Order!Init
<1>2. IInv /\ [Next]_vars => [Order!Next]_Order!vars
  BY EveryStepOrders DEF Orders
<1> QED  BY <1>1, <1>2, Sound, PTL DEF Spec, KeepsOrder, Order!Spec
=============================================================================
