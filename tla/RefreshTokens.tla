--------------------------- MODULE RefreshTokens ---------------------------
(***************************************************************************)
(* The rotation of a browser's refresh token.  The server's hook, a timer, *)
(* a retry and a second tab share one cookie and refresh it independently; *)
(* each request is a transaction that reads the token's row first and      *)
(* writes later, and another's may commit in between.                      *)
(***************************************************************************)
EXTENDS Integers, FiniteSets

CONSTANTS Callers,   \* who may refresh at once
          Tokens,    \* rows at one time
          Grace,     \* REUSE_GRACE_SECS
          MaxDelay   \* bound: a request and its answer

\* A refresh and its answer together take less than the grace; MCParts assumes it.
TokensAssumption ==
  /\ IsFiniteSet(Callers) /\ IsFiniteSet(Tokens) /\ Tokens # {}
  /\ Grace \in Nat /\ MaxDelay \in Nat /\ 2 * MaxDelay <= Grace

VARIABLES
  live,     \* tokens that are not revoked
  age,      \* of the others, since revoked_at; Grace + 1 stands for longer,
            \* and for a token nobody holds
  cookie,   \* the browser's
  call,     \* idle, sent, live, fresh, stale (what the row said), answered
  holds,    \* the token a request presents, then the one its answer brings
  waited,   \* since it was sent
  refused,  \* the family was revoked
  strayed   \* history: an answer was lost

vars == <<live, age, cookie, call, holds, waited, refused, strayed>>

TypeOK ==
  /\ live \subseteq Tokens /\ age \in [Tokens -> 0..Grace + 1] /\ cookie \in Tokens
  /\ call \in [Callers -> {"idle", "sent", "live", "fresh", "stale", "answered"}]
  /\ holds \in [Callers -> Tokens] /\ waited \in [Callers -> 0..MaxDelay]
  /\ refused \in BOOLEAN /\ strayed \in BOOLEAN

\* Rows are told apart by their ids and by nothing else.
Fresh(rows) == CHOOSE t \in rows : TRUE

Init ==
  /\ cookie = Fresh(Tokens) /\ live = {cookie} /\ age = [t \in Tokens |-> Grace + 1]
  /\ call = [c \in Callers |-> "idle"] /\ holds = [c \in Callers |-> cookie]
  /\ waited = [c \in Callers |-> 0] /\ refused = FALSE /\ strayed = FALSE

Known == {cookie} \cup {holds[c] : c \in {d \in Callers : call[d] # "idle"}}
Spare == Tokens \ (live \cup Known)
Becomes(c, st) == call' = [call EXCEPT ![c] = st]

-----------------------------------------------------------------------------
Send(c) ==
  /\ call[c] = "idle" /\ ~refused
  /\ Cardinality({d \in Callers : call[d] # "idle"}) < Cardinality(Spare)
  /\ Becomes(c, "sent") /\ holds' = [holds EXCEPT ![c] = cookie]
  /\ waited' = [waited EXCEPT ![c] = 0]
  /\ UNCHANGED <<live, age, cookie, refused, strayed>>

\* Mutant: a token is read as revoked whenever it was.
LookUnforgiving(c) ==
  /\ call[c] = "sent"
  /\ Becomes(c, IF holds[c] \in live THEN "live" ELSE "stale")
  /\ UNCHANGED <<live, age, cookie, holds, waited, refused, strayed>>

\* The row is read, and compared with the time.
Look(c) ==
  /\ call[c] = "sent"
  /\ Becomes(c, IF holds[c] \in live THEN "live"
                ELSE IF age[holds[c]] <= Grace THEN "fresh" ELSE "stale")
  /\ UNCHANGED <<live, age, cookie, holds, waited, refused, strayed>>

\* Revoked, by another too perhaps, and replaced.
Rotate(c) ==
  /\ call[c] = "live" /\ Becomes(c, "answered")
  /\ LET new == Fresh(Spare) IN
       /\ live' = (live \ {holds[c]}) \cup {new}
       /\ age' = [age EXCEPT ![holds[c]] = 0]
       /\ holds' = [holds EXCEPT ![c] = new]
  /\ UNCHANGED <<cookie, waited, refused, strayed>>

\* The race that the comment tells of: the winner's token is live.
Reissue(c) ==
  /\ call[c] = "fresh" /\ live # {} /\ Becomes(c, "answered")
  /\ LET new == Fresh(Spare) IN
       live' = live \cup {new} /\ holds' = [holds EXCEPT ![c] = new]
  /\ UNCHANGED <<age, cookie, waited, refused, strayed>>

RevokeAll(c) ==
  /\ \/ call[c] = "stale"
     \/ call[c] = "fresh" /\ live = {}
  /\ Becomes(c, "idle") /\ refused' = TRUE /\ live' = {}
  /\ age' = [t \in Tokens |-> IF t \in live THEN 0 ELSE age[t]]
  /\ UNCHANGED <<cookie, holds, waited, strayed>>

Receive(c) ==
  /\ call[c] = "answered" /\ Becomes(c, "idle")
  /\ \/ cookie' = holds[c] /\ UNCHANGED strayed
     \/ strayed' = TRUE /\ UNCHANGED cookie
  /\ holds' = [holds EXCEPT ![c] = cookie] /\ waited' = [waited EXCEPT ![c] = 0]
  /\ UNCHANGED <<live, age, refused>>

\* A token nobody holds runs out.
Expire(t) ==
  /\ t \in live \ Known /\ live' = live \ {t}
  /\ UNCHANGED <<age, cookie, call, holds, waited, refused, strayed>>

Tick ==
  /\ \A c \in Callers : call[c] # "idle" => waited[c] < MaxDelay
  /\ waited' = [c \in Callers |-> IF call[c] = "idle" THEN waited[c] ELSE waited[c] + 1]
  /\ age' = [t \in Tokens |-> IF t \in Known /\ age[t] <= Grace THEN age[t] + 1 ELSE Grace + 1]
  /\ UNCHANGED <<live, cookie, call, holds, refused, strayed>>

Next ==
  \/ \E c \in Callers :
       Send(c) \/ Look(c) \/ Rotate(c) \/ Reissue(c) \/ RevokeAll(c) \/ Receive(c)
  \/ \E t \in Tokens : Expire(t)
  \/ Tick

Spec == Init /\ [][Next]_vars

-----------------------------------------------------------------------------
\* "Nuking the family there logs the user out at random" (refresh.rs:62): a
\* browser whose refreshes overlap in any way stays logged in, unless an
\* answer was lost.
StaysLoggedIn == refused => strayed
=============================================================================
