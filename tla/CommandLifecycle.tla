--------------------------- MODULE CommandLifecycle ---------------------------
(***************************************************************************)
(* What the command pipeline promises about one command, seen from outside *)
(* the bus: it is taken from its queue at most once, executed at most once *)
(* and only after it was taken, may be lost on the way but never comes     *)
(* back, and its caller is only ever told what the execution returned.     *)
(***************************************************************************)
CONSTANTS Commands, Results

VARIABLES
  phase,    \* the life of each command
  outcome,  \* what its execution returned, "none" before
  answer    \* what its caller was told, "none" when it was told nothing

vars == <<phase, outcome, answer>>

Init ==
  /\ phase = [c \in Commands |-> "new"]
  /\ outcome = [c \in Commands |-> "none"]
  /\ answer = [c \in Commands |-> "none"]

Submit(c) ==
  /\ phase[c] = "new"
  /\ phase' = [phase EXCEPT ![c] = "queued"]
  /\ UNCHANGED <<outcome, answer>>

Take(c) ==
  /\ phase[c] = "queued"
  /\ phase' = [phase EXCEPT ![c] = "taken"]
  /\ UNCHANGED <<outcome, answer>>

Run(c) ==
  /\ phase[c] = "taken"
  /\ phase' = [phase EXCEPT ![c] = "run"]
  /\ \E r \in Results : outcome' = [outcome EXCEPT ![c] = r]
  /\ UNCHANGED answer

\* A crash or a broken connection loses commands that were not executed yet.
Lose(C) ==
  /\ \A c \in C : phase[c] \in {"queued", "taken"}
  /\ phase' = [c \in Commands |-> IF c \in C THEN "lost" ELSE phase[c]]
  /\ UNCHANGED <<outcome, answer>>

Tell(c) ==
  /\ phase[c] = "run"
  /\ answer[c] = "none"
  /\ answer' = [answer EXCEPT ![c] = outcome[c]]
  /\ UNCHANGED <<phase, outcome>>

Next ==
  \/ \E c \in Commands : Submit(c) \/ Take(c) \/ Run(c) \/ Tell(c)
  \/ \E C \in SUBSET Commands : Lose(C)

Spec == Init /\ [][Next]_vars

=============================================================================
