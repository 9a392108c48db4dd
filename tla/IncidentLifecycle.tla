-------------------------- MODULE IncidentLifecycle --------------------------
(***************************************************************************)
(* The incidents of the AIOps engine.  Every snapshot of a cluster makes   *)
(* the engine score its entities, and StateMachine.Evaluate moves each     *)
(* entity between healthy, warning, incident and recovery according to how *)
(* long a condition on its risk has held.  A transition is mirrored, by    *)
(* callbacks, into a row of aiops_incidents.  A loop closes the incidents  *)
(* that have recovered or whose entity has vanished, and a restarted       *)
(* Master reloads the open rows.                                           *)
(*                                                                         *)
(* StateMachine.mu is held from the transition of an entity to the last    *)
(* database call of its callback: one action is the transition in memory,  *)
(* one each database call, and the Master may stop between them.  A call   *)
(* that handles several entities is the sequence of its turns: other calls *)
(* may come between them in the model, which only adds behaviours.         *)
(*                                                                         *)
(* An entry is found by its entity key, which has no cluster in it: an     *)
(* evaluation may stand for any cluster that has an entity of that name.   *)
(* Severity, peak risk, recurrence count and timeline are left out.        *)
(***************************************************************************)
EXTENDS Integers

CONSTANTS
  Entities,      \* the entity keys
  Faults,        \* the kinds of failure that may happen
  \* The durations of the conditions, on one scale.
  WarnAfter, HealAfter, EscalateAfter, RecoverAfter, StaleAfter, StableAfter,
  NoEntity,      \* the entity of a row that does not exist
  MaxIncidents,  \* bound: rows ever created
  MaxRestarts    \* bound: restarts of the Master

ASSUME FaultsAssumption == Faults \subseteq {"restart", "database"}
ASSUME DurationsAssumption ==
  /\ {WarnAfter, HealAfter, EscalateAfter, RecoverAfter, StaleAfter} \subseteq Nat
  /\ StableAfter \in Nat
  /\ StaleAfter < StableAfter
  /\ \A d \in {WarnAfter, HealAfter, EscalateAfter, RecoverAfter} : d < StaleAfter
ASSUME BoundsAssumption == MaxIncidents \in Nat /\ MaxRestarts \in Nat
ASSUME NilAssumption == NoEntity \notin Entities

Ids == 1..MaxIncidents
NoIncident == 0      \* the empty IncidentID
Unset == -1          \* a time stamp that is 0
\* A time stamp is kept as the time elapsed since it; beyond the longest
\* duration the code compares it with, longer makes no difference.
Elapsed == -1..StableAfter

Active == {"warning", "incident", "recovery"}
EntryStates == {"none", "healthy"} \cup Active
RowStates == {"absent", "stable"} \cup Active

\* R_final by the thresholds of the conditions: below 0.15, up to 0.2, up to
\* 0.5, above.
Levels == {"low", "middle", "raised", "high"}

\* What the holder of StateMachine.mu still has to write: a new row, a state,
\* or a resolution, which is a state and then the time of resolution.
Ops == {"idle", "create", "stable", "resolved"} \cup Active
Idle == [op |-> "idle", id |-> NoIncident, entity |-> NoEntity]

VARIABLES
  state,     \* entries[e].CurrentState, "none" without an entry
  since,     \* time since entries[e].ConditionMetSince
  age,       \* time since entries[e].LastEvaluatedAt
  incident,  \* entries[e].IncidentID
  rowState,  \* the state of a row of aiops_incidents, "absent" if there is none
  rowEntity, \* its root cause
  resolved,  \* the rows that have a resolved_at
  rows,      \* the number of rows
  writing,   \* the database call under way, under StateMachine.mu
  present,   \* the entities in the snapshots
  restarts,  \* how often the Master was restarted
  spoiled,   \* history variable: incidents a failed database call left behind
  elevated,  \* history variable: for how long all evaluations were above 0.2
  calm       \* history variable: for how long all evaluations were below 0.15

entries == <<state, since, age, incident>>
table   == <<rowState, rowEntity, resolved, rows>>
ghosts  == <<elevated, calm>>
vars    == <<entries, table, writing, present, restarts, spoiled, ghosts>>

EntryTypes ==
  /\ state \in [Entities -> EntryStates]
  /\ since \in [Entities -> Elapsed]
  /\ age \in [Entities -> Elapsed]
  /\ incident \in [Entities -> Ids \cup {NoIncident}]

TableTypes ==
  /\ rowState \in [Ids -> RowStates]
  /\ rowEntity \in [Ids -> Entities \cup {NoEntity}]
  /\ resolved \in SUBSET Ids
  /\ rows \in 0..MaxIncidents

GhostTypes ==
  /\ spoiled \in SUBSET Ids
  /\ elevated \in [Entities -> Elapsed]
  /\ calm \in [Entities -> Elapsed]

ControlTypes ==
  /\ writing \in [op : Ops, id : Ids \cup {NoIncident}, entity : Entities \cup {NoEntity}]
  /\ present \in SUBSET Entities
  /\ restarts \in 0..MaxRestarts

TypeOK == EntryTypes /\ TableTypes /\ GhostTypes /\ ControlTypes

Init ==
  /\ state = [e \in Entities |-> "none"]
  /\ since = [e \in Entities |-> Unset]
  /\ age = [e \in Entities |-> Unset]
  /\ incident = [e \in Entities |-> NoIncident]
  /\ rowState = [i \in Ids |-> "absent"]
  /\ rowEntity = [i \in Ids |-> NoEntity]
  /\ resolved = {}
  /\ rows = 0
  /\ writing = Idle
  /\ present = {}
  /\ restarts = 0
  /\ spoiled = {}
  /\ elevated = [e \in Entities |-> Unset]
  /\ calm = [e \in Entities |-> Unset]

-----------------------------------------------------------------------------
(* Evaluation of an entity. *)

\* The conditions, in the order in which evaluateEntity tries them.
Conditions == <<
  [from |-> "healthy",  to |-> "warning",  levels |-> {"raised", "high"}, after |-> WarnAfter],
  [from |-> "warning",  to |-> "healthy",  levels |-> {"low"},            after |-> HealAfter],
  [from |-> "warning",  to |-> "incident", levels |-> {"high"},           after |-> EscalateAfter],
  [from |-> "incident", to |-> "recovery", levels |-> {"low"},            after |-> RecoverAfter],
  [from |-> "recovery", to |-> "warning",  levels |-> {"raised", "high"}, after |-> 0] >>

\* An entity without an entry gets one, which is healthy.
Current(e) == IF state[e] = "none" THEN "healthy" ELSE state[e]

\* Condition n is met by risk l; hot: the risk of the cluster is above 80.
Met(n, e, l, hot) ==
  /\ Conditions[n].from = Current(e)
  /\ l \in Conditions[n].levels \/ (hot /\ Conditions[n].to = "incident")

\* Condition n is the first that is met.
Matched(n, e, l, hot) ==
  /\ n \in 1..5
  /\ Met(n, e, l, hot)
  /\ \A k \in 1..(n-1) : ~Met(k, e, l, hot)

\* A time stamp set now, unless it was set before.
Begun(t) == IF t = Unset THEN 0 ELSE t

Observe(e, l) ==
  /\ elevated' = [elevated EXCEPT ![e] = IF l \in {"raised", "high"} THEN Begun(@) ELSE Unset]
  /\ calm' = [calm EXCEPT ![e] = IF l = "low" THEN Begun(@) ELSE Unset]

\* Faulty variant: the incident is to be resolved and the entry stays.
CloseKeepingEntry(e) ==
  /\ since' = [since EXCEPT ![e] = Unset]
  /\ age' = [age EXCEPT ![e] = 0]
  /\ writing' = [op |-> "stable", id |-> incident[e], entity |-> e]
  /\ UNCHANGED <<state, incident>>

\* The entry is deleted, and its incident is to be resolved.
Close(e) ==
  /\ state' = [state EXCEPT ![e] = "none"]
  /\ since' = [since EXCEPT ![e] = Unset]
  /\ age' = [age EXCEPT ![e] = Unset]
  /\ incident' = [incident EXCEPT ![e] = NoIncident]
  /\ writing' = [op |-> "stable", id |-> incident[e], entity |-> e]

\* Faulty variant: the time is kept.
EvaluateUnmatchedKeeping(e, l, hot) ==
  /\ \A n \in 1..5 : ~Met(n, e, l, hot)
  /\ state' = [state EXCEPT ![e] = Current(e)]
  /\ age' = [age EXCEPT ![e] = 0]
  /\ UNCHANGED <<since, incident, writing>>

\* No condition is met: the time of the one that was is forgotten.
EvaluateUnmatched(e, l, hot) ==
  /\ \A n \in 1..5 : ~Met(n, e, l, hot)
  /\ state' = [state EXCEPT ![e] = Current(e)]
  /\ since' = [since EXCEPT ![e] = Unset]
  /\ age' = [age EXCEPT ![e] = 0]
  /\ UNCHANGED <<incident, writing>>

\* The condition has not been met for long enough.
EvaluateWaiting(e, l, hot) ==
  /\ \E n \in 1..5 : Matched(n, e, l, hot) /\ Begun(since[e]) < Conditions[n].after
  /\ state' = [state EXCEPT ![e] = Current(e)]
  /\ since' = [since EXCEPT ![e] = Begun(@)]
  /\ age' = [age EXCEPT ![e] = 0]
  /\ UNCHANGED <<incident, writing>>

\* Faulty variant: a recurrence is counted and its row keeps its state.
ShiftExceptRecurrence(e, to) ==
  /\ state' = [state EXCEPT ![e] = to]
  /\ since' = [since EXCEPT ![e] = Unset]
  /\ age' = [age EXCEPT ![e] = 0]
  /\ writing' = [op |-> IF to = "warning" THEN "idle" ELSE to, id |-> incident[e], entity |-> e]
  /\ UNCHANGED incident

\* The entry changes its state, and the row of its incident is to follow.
Shift(e, to) ==
  /\ state' = [state EXCEPT ![e] = to]
  /\ since' = [since EXCEPT ![e] = Unset]
  /\ age' = [age EXCEPT ![e] = 0]
  /\ writing' = [op |-> to, id |-> incident[e], entity |-> e]
  /\ UNCHANGED incident

\* The entry is in warning, and its incident is to be created.
Open(e) ==
  /\ rows < MaxIncidents
  /\ state' = [state EXCEPT ![e] = "warning"]
  /\ since' = [since EXCEPT ![e] = Unset]
  /\ age' = [age EXCEPT ![e] = 0]
  /\ writing' = [op |-> "create", id |-> NoIncident, entity |-> e]
  /\ UNCHANGED incident

\* The condition has been met for long enough: the transition is made.
Transition(e, n) ==
  /\ Begun(since[e]) >= Conditions[n].after
  /\ \/ Current(e) = "healthy" /\ Open(e)
     \/ Conditions[n].to = "healthy" /\ Close(e)
     \/ Current(e) # "healthy" /\ Conditions[n].to # "healthy" /\ Shift(e, Conditions[n].to)

\* StateMachine.Evaluate, as far as entity e of the snapshot is concerned.
Evaluate(e, l, hot) ==
  /\ writing = Idle
  /\ e \in present
  /\ \/ EvaluateUnmatched(e, l, hot)
     \/ EvaluateWaiting(e, l, hot)
     \/ \E n \in 1..5 : Matched(n, e, l, hot) /\ Transition(e, n)
  /\ Observe(e, l)
  /\ UNCHANGED <<table, present, restarts, spoiled>>

-----------------------------------------------------------------------------
(* The loop that runs every ten minutes: CheckRecoveryToStable, then       *)
(* CleanupStaleEntries.                                                    *)

SettleBegin(e) ==
  /\ writing = Idle
  /\ state[e] = "recovery"
  /\ since[e] = Unset
  /\ since' = [since EXCEPT ![e] = 0]
  /\ UNCHANGED <<state, age, incident, table, writing, present, restarts, spoiled, ghosts>>

SettleClose(e) ==
  /\ writing = Idle
  /\ state[e] = "recovery"
  /\ since[e] >= StableAfter
  /\ Close(e)
  /\ UNCHANGED <<table, present, restarts, spoiled, ghosts>>

\* An entity that no snapshot has shown for long.
Sweep(e) ==
  /\ writing = Idle
  /\ age[e] > StaleAfter
  /\ Close(e)
  /\ UNCHANGED <<table, present, restarts, spoiled, ghosts>>

-----------------------------------------------------------------------------
(* The database calls of the callbacks. *)

\* Store.Create; the entry learns the id when it returns.
WriteCreate ==
  /\ writing.op = "create"
  /\ rows < MaxIncidents
  /\ rows' = rows + 1
  /\ rowState' = [rowState EXCEPT ![rows + 1] = "warning"]
  /\ rowEntity' = [rowEntity EXCEPT ![rows + 1] = writing.entity]
  /\ incident' = [incident EXCEPT ![writing.entity] = rows + 1]
  /\ writing' = Idle
  /\ UNCHANGED <<state, since, age, resolved, present, restarts, spoiled, ghosts>>

\* UPDATE ... WHERE id = ?: no row has the empty id.
SetState(i, s) == rowState' = [j \in Ids |-> IF j = i THEN s ELSE rowState[j]]

\* Store.UpdateState
WriteState ==
  /\ writing.op \in Active
  /\ SetState(writing.id, writing.op)
  /\ writing' = Idle
  /\ UNCHANGED <<entries, rowEntity, resolved, rows, present, restarts, spoiled, ghosts>>

\* Store.Resolve, the first of its two calls
WriteStable ==
  /\ writing.op = "stable"
  /\ SetState(writing.id, "stable")
  /\ writing' = [writing EXCEPT !.op = "resolved"]
  /\ UNCHANGED <<entries, rowEntity, resolved, rows, present, restarts, spoiled, ghosts>>

\* Store.Resolve, the second
WriteResolved ==
  /\ writing.op = "resolved"
  /\ SetState(writing.id, "stable")
  /\ resolved' = resolved \cup ({writing.id} \cap Ids)
  /\ writing' = Idle
  /\ UNCHANGED <<entries, rowEntity, rows, present, restarts, spoiled, ghosts>>

\* An error is logged and what is left of the callback is skipped.  An entry
\* whose incident could not be created goes on without an id.
WriteFails ==
  /\ "database" \in Faults
  /\ writing # Idle
  /\ writing' = Idle
  /\ spoiled' = spoiled \cup ({writing.id} \cap Ids)
  /\ UNCHANGED <<entries, table, present, restarts, ghosts>>

Write == WriteCreate \/ WriteState \/ WriteStable \/ WriteResolved \/ WriteFails

-----------------------------------------------------------------------------
(* Restart of the Master. *)

\* The rows that are reloaded for e.
Rows(e) == {i \in Ids : rowEntity[i] = e}

OpenRows(e) == {i \in Rows(e) : rowState[i] \in Active}

\* The rows come newest first, and the first one for an entity is taken.
Restored(e, i) ==
  \/ OpenRows(e) = {} /\ i = NoIncident
  \/ i \in OpenRows(e) /\ \A j \in OpenRows(e) : j <= i

\* Faulty variant: a restored entry has not been evaluated.
NoRestoredAge == Unset

\* A restored entry counts as evaluated now, or CleanupStaleEntries would
\* skip it until its entity shows up again.
RestoredAge == 0

Reload(pick) ==
  /\ \A e \in Entities : Restored(e, pick[e])
  /\ state' = [e \in Entities |-> IF pick[e] = NoIncident THEN "none" ELSE rowState[pick[e]]]
  /\ age' = [e \in Entities |-> IF pick[e] = NoIncident THEN Unset ELSE RestoredAge]
  /\ incident' = pick
  /\ UNCHANGED spoiled

ReloadFails ==
  /\ "database" \in Faults
  /\ state' = [e \in Entities |-> "none"]
  /\ age' = [e \in Entities |-> Unset]
  /\ incident' = [e \in Entities |-> NoIncident]
  /\ spoiled' = spoiled \cup {i \in Ids : rowState[i] \in Active}

\* Memory is lost, wherever the Master was, and the open rows are reloaded.
Restart ==
  /\ "restart" \in Faults
  /\ restarts < MaxRestarts
  /\ restarts' = restarts + 1
  /\ \/ \E pick \in [Entities -> Ids \cup {NoIncident}] : Reload(pick)
     \/ ReloadFails
  /\ since' = [e \in Entities |-> Unset]
  /\ elevated' = [e \in Entities |-> Unset]
  /\ calm' = [e \in Entities |-> Unset]
  /\ writing' = Idle
  /\ UNCHANGED <<table, present>>

-----------------------------------------------------------------------------
(* The clock and the cluster. *)

Later(t) == IF t \in {Unset, StableAfter} THEN t ELSE t + 1

Tick ==
  /\ since' = [e \in Entities |-> Later(since[e])]
  /\ age' = [e \in Entities |-> Later(age[e])]
  /\ elevated' = [e \in Entities |-> Later(elevated[e])]
  /\ calm' = [e \in Entities |-> Later(calm[e])]
  /\ UNCHANGED <<state, incident, table, writing, present, restarts, spoiled>>

Appear(e) ==
  /\ present' = present \cup {e}
  /\ UNCHANGED <<entries, table, writing, restarts, spoiled, ghosts>>

Vanish(e) ==
  /\ present' = present \ {e}
  /\ UNCHANGED <<entries, table, writing, restarts, spoiled, ghosts>>

Snapshot(e) == \E l \in Levels, hot \in BOOLEAN : Evaluate(e, l, hot)

Next ==
  \/ \E e \in Entities :
       \/ Snapshot(e)
       \/ SettleBegin(e)
       \/ SettleClose(e)
       \/ Sweep(e)
       \/ Appear(e)
       \/ Vanish(e)
  \/ Write
  \/ Restart
  \/ Tick

Spec == Init /\ [][Next]_vars

\* Time passes, database calls return, the loop goes round, and the Agents
\* keep sending snapshots of what their clusters have.
Fairness ==
  /\ WF_vars(Tick)
  /\ WF_vars(Write)
  /\ \A e \in Entities :
       /\ WF_vars(SettleBegin(e))
       /\ WF_vars(SettleClose(e))
       /\ WF_vars(Sweep(e))
       /\ WF_vars(Snapshot(e))

FairSpec == Spec /\ Fairness

-----------------------------------------------------------------------------
(* Properties. *)

\* Incidents whose row is not about to change.
Settled == {i \in Ids : writing.op = "idle" \/ rowEntity[i] # writing.entity}

(* Database and state machine agree: an open incident that no failed       *)
(* database call left behind is the one its entity's entry works on, in    *)
(* the same state.  So an entity never has two of them, and none is        *)
(* forgotten, whatever happens between a transition and its row and        *)
(* wherever a restart comes (callbacks of transition; reloadActiveIncidents). *)
OpenIsTracked ==
  \A i \in Settled \ spoiled :
    rowState[i] \in Active =>
      /\ incident[rowEntity[i]] = i
      /\ state[rowEntity[i]] = rowState[i]

(* An incident begins after at least WarnAfter of evaluations above 0.2    *)
(* without a lower one between them, and recovers after RecoverAfter of    *)
(* evaluations below 0.15 (conditions of NewStateMachine), although the    *)
(* time stamp that measures both is shared by all conditions and by the    *)
(* recovery loop.                                                          *)
SustainedRisk ==
  [][restarts' = restarts =>
       \A e \in Entities :
         /\ Current(e) = "healthy" /\ state'[e] = "warning" => elevated'[e] >= WarnAfter
         /\ state[e] = "incident" /\ state'[e] = "recovery" => calm'[e] >= RecoverAfter]_vars

(* A closed incident is never reopened, not by a recurrence, not by a late *)
(* or failed database call, not by a restart (Store.Resolve).              *)
StableIsFinal ==
  [][\A i \in Ids : rowState[i] = "stable" => rowState'[i] = "stable"]_vars

(* "An entity that has vanished from its cluster is never reached by       *)
(* Evaluate again and must be closed by a timeout" (CleanupStaleEntries):  *)
(* its incident is closed in the end, also when the Master restarts,       *)
(* unless the entity comes back or the database failed.                    *)
GoneIsClosed ==
  \A i \in Ids :
    rowState[i] \in Active /\ rowEntity[i] \notin present
      ~> rowState[i] = "stable" \/ i \in spoiled \/ rowEntity[i] \in present

(* Recovery is a passing state: the incident recurs or becomes stable      *)
(* (CheckRecoveryToStable).                                                *)
RecoveryEnds ==
  \A e \in Entities : state[e] = "recovery" ~> state[e] # "recovery"
=============================================================================
