--------------------------- MODULE IncidentProofs ---------------------------
(***************************************************************************)
(* Proofs about IncidentLifecycle, for any entities, durations, bounds and *)
(* failures: its types; that an incident begins, and recovers, only after  *)
(* the time that its condition names; why the state machine and the table  *)
(* of incidents agree, and why a closed incident stays closed.  The last   *)
(* two are not inductive: between the transition of an entry and its last  *)
(* database call machine and table disagree, and which call is under way   *)
(* says how.                                                               *)
(***************************************************************************)
EXTENDS IncidentLifecycle, TLAPS

(* The time stamps stay in their range. *)
LEMMA ElapsedFacts ==
  /\ Unset \in Elapsed /\ 0 \in Elapsed /\ RestoredAge \in Elapsed
  /\ \A t \in Elapsed : Begun(t) \in Elapsed /\ Later(t) \in Elapsed
BY DurationsAssumption DEF Elapsed, Unset, Begun, Later, RestoredAge

(* What the conditions lead to. *)
LEMMA ConditionFacts ==
  \A n \in 1..5 : Conditions[n].to \in {"healthy"} \cup Active
BY DEF Conditions, Active

-----------------------------------------------------------------------------
(* Types. *)

LEMMA CurrentType ==
  ASSUME EntryTypes, NEW e \in Entities
  PROVE  Current(e) \in EntryStates
BY DEF EntryTypes, Current, EntryStates

(* Closing an entry keeps the types of entries and of the call under way. *)
LEMMA CloseTypes ==
  ASSUME TypeOK, NEW e \in Entities, Close(e)
  PROVE  EntryTypes' /\ writing' \in [op : Ops, id : Ids \cup {NoIncident}, entity : Entities \cup {NoEntity}]
<1>1. EntryTypes'
  BY ElapsedFacts DEF TypeOK, EntryTypes, Close, EntryStates
<1>2. QED
  BY <1>1 DEF TypeOK, EntryTypes, Close, Ops

(* One evaluation of one entity keeps the types. *)
LEMMA EvaluateTypes ==
  ASSUME TypeOK, NEW e \in Entities, NEW l \in Levels, NEW hot \in BOOLEAN, Evaluate(e, l, hot)
  PROVE  TypeOK'
<1>1. Current(e) \in EntryStates
  BY CurrentType DEF TypeOK
<1>2. elevated' \in [Entities -> Elapsed] /\ calm' \in [Entities -> Elapsed]
  BY ElapsedFacts DEF TypeOK, GhostTypes, Evaluate, Observe
<1>3. GhostTypes' /\ TableTypes' /\ present' \in SUBSET Entities /\ restarts' \in 0..MaxRestarts
  BY <1>2 DEF TypeOK, GhostTypes, TableTypes, ControlTypes, Evaluate, table
<1>4. /\ EntryTypes'
      /\ writing' \in [op : Ops, id : Ids \cup {NoIncident}, entity : Entities \cup {NoEntity}]
  <2>1. CASE EvaluateUnmatched(e, l, hot)
    BY <2>1, <1>1, ElapsedFacts DEF EvaluateUnmatched, TypeOK, EntryTypes, ControlTypes
  <2>2. CASE EvaluateWaiting(e, l, hot)
    BY <2>2, <1>1, ElapsedFacts DEF EvaluateWaiting, TypeOK, EntryTypes, ControlTypes
  <2>3. CASE \E n \in 1..5 : Matched(n, e, l, hot) /\ Transition(e, n)
    <3>1. PICK n \in 1..5 : Transition(e, n)
      BY <2>3
    <3>2. CASE Open(e)
      BY <3>2, ElapsedFacts DEF Open, TypeOK, EntryTypes, ControlTypes, EntryStates, Active, Ops
    <3>3. CASE Close(e)
      BY <3>3, CloseTypes
    <3>4. CASE Conditions[n].to # "healthy" /\ Shift(e, Conditions[n].to)
      <4>1. PICK to \in Active : Shift(e, to)
        BY <3>4, ConditionFacts
      <4>2. QED
        BY <4>1, ElapsedFacts DEF Shift, TypeOK, EntryTypes, ControlTypes, EntryStates, Ops
    <3>5. QED
      BY <3>1, <3>2, <3>3, <3>4 DEF Transition
  <2>4. QED
    BY <2>1, <2>2, <2>3 DEF Evaluate
<1>5. QED
  BY <1>3, <1>4 DEF TypeOK, ControlTypes

(* The turns of the recovery loop keep the types. *)
LEMMA LoopTypes ==
  ASSUME TypeOK, NEW e \in Entities, SettleBegin(e) \/ SettleClose(e) \/ Sweep(e)
  PROVE  TypeOK'
<1>1. CASE SettleBegin(e)
  BY <1>1, ElapsedFacts
  DEF SettleBegin, TypeOK, EntryTypes, TableTypes, GhostTypes, ControlTypes, table, ghosts
<1>2. CASE Close(e) /\ UNCHANGED <<table, present, restarts, spoiled, ghosts>>
  BY <1>2, CloseTypes DEF TypeOK, TableTypes, GhostTypes, ControlTypes, table, ghosts
<1>3. QED
  BY <1>1, <1>2 DEF SettleClose, Sweep

LEMMA IdleType ==
  Idle \in [op : Ops, id : Ids \cup {NoIncident}, entity : Entities \cup {NoEntity}]
BY DEF Idle, Ops

(* The database calls keep the types. *)
LEMMA WriteTypes ==
  ASSUME TypeOK, Write
  PROVE  TypeOK'
<1>a. USE IdleType, BoundsAssumption DEF TypeOK, ControlTypes
<1>1. CASE WriteCreate
  <2>1. rows + 1 \in Ids /\ writing.entity \in Entities \cup {NoEntity}
    BY <1>1 DEF WriteCreate, TableTypes, Ids
  <2>2. EntryTypes'
    BY <1>1, <2>1 DEF WriteCreate, EntryTypes
  <2>3. rowState' \in [Ids -> RowStates]
    BY <1>1, <2>1 DEF WriteCreate, TableTypes, RowStates, Active
  <2>4. rowEntity' \in [Ids -> Entities \cup {NoEntity}]
    BY <1>1, <2>1 DEF WriteCreate, TableTypes
  <2>5. rows' \in 0..MaxIncidents /\ resolved' \in SUBSET Ids
    BY <1>1 DEF WriteCreate, TableTypes
  <2>6. GhostTypes' /\ ControlTypes'
    BY <1>1 DEF WriteCreate, GhostTypes, ghosts
  <2>7. QED
    BY <2>2, <2>3, <2>4, <2>5, <2>6 DEF TableTypes
<1>2. CASE WriteState
  <2>1. rowState' \in [Ids -> RowStates]
    BY <1>2 DEF WriteState, SetState, TableTypes, RowStates
  <2>2. QED
    BY <1>2, <2>1 DEF WriteState, EntryTypes, TableTypes, GhostTypes, entries, ghosts
<1>3. CASE WriteStable
  <2>1. rowState' \in [Ids -> RowStates]
    BY <1>3 DEF WriteStable, SetState, TableTypes, RowStates
  <2>2. writing' \in [op : Ops, id : Ids \cup {NoIncident}, entity : Entities \cup {NoEntity}]
    BY <1>3 DEF WriteStable, Ops
  <2>3. QED
    BY <1>3, <2>1, <2>2 DEF WriteStable, EntryTypes, TableTypes, GhostTypes, entries, ghosts
<1>4. CASE WriteResolved
  <2>1. rowState' \in [Ids -> RowStates]
    BY <1>4 DEF WriteResolved, SetState, TableTypes, RowStates
  <2>2. QED
    BY <1>4, <2>1 DEF WriteResolved, EntryTypes, TableTypes, GhostTypes, entries, ghosts
<1>5. CASE WriteFails
  BY <1>5 DEF WriteFails, EntryTypes, TableTypes, GhostTypes, entries, table, ghosts
<1>6. QED
  BY <1>1, <1>2, <1>3, <1>4, <1>5 DEF Write

(* A restart keeps the types. *)
LEMMA RestartTypes ==
  ASSUME TypeOK, Restart
  PROVE  TypeOK'
<1>1. TableTypes' /\ ControlTypes'
  BY IdleType, BoundsAssumption DEF TypeOK, TableTypes, ControlTypes, Restart, table
<1>2. elevated' \in [Entities -> Elapsed] /\ calm' \in [Entities -> Elapsed] /\ since' \in [Entities -> Elapsed]
  BY ElapsedFacts DEF Restart
<1>3. spoiled' \in SUBSET Ids
  BY DEF TypeOK, GhostTypes, Restart, Reload, ReloadFails
<1>4. /\ state' \in [Entities -> EntryStates]
      /\ age' \in [Entities -> Elapsed]
      /\ incident' \in [Entities -> Ids \cup {NoIncident}]
  <2>1. CASE \E pick \in [Entities -> Ids \cup {NoIncident}] : Reload(pick)
    <3>1. PICK pick \in [Entities -> Ids \cup {NoIncident}] : Reload(pick)
      BY <2>1
    <3>2. \A e \in Entities : pick[e] # NoIncident => rowState[pick[e]] \in EntryStates
      BY <3>1 DEF Reload, Restored, OpenRows, Rows, EntryStates
    <3>3. state' \in [Entities -> EntryStates]
      BY <3>1, <3>2 DEF Reload, EntryStates
    <3>4. QED
      BY <3>1, <3>3, ElapsedFacts DEF Reload
  <2>2. CASE ReloadFails
    BY <2>2, ElapsedFacts DEF ReloadFails, EntryStates
  <2>3. QED
    BY <2>1, <2>2 DEF Restart
<1>5. QED
  BY <1>1, <1>2, <1>3, <1>4 DEF TypeOK, EntryTypes, GhostTypes

(* Every variable keeps its type (IncidentLifecycle as a whole). *)
THEOREM IncidentTypeCorrect == Spec => []TypeOK
<1>1. Init => TypeOK
  BY ElapsedFacts, IdleType, BoundsAssumption
  DEF Init, TypeOK, EntryTypes, TableTypes, GhostTypes, ControlTypes, EntryStates, RowStates
<1>2. TypeOK /\ [Next]_vars => TypeOK'
  <2> SUFFICES ASSUME TypeOK, [Next]_vars PROVE TypeOK'
    OBVIOUS
  <2>1. ASSUME NEW e \in Entities, Snapshot(e) PROVE TypeOK'
    BY <2>1, EvaluateTypes DEF Snapshot
  <2>2. ASSUME NEW e \in Entities, SettleBegin(e) \/ SettleClose(e) \/ Sweep(e) PROVE TypeOK'
    BY <2>2, LoopTypes
  <2>3. ASSUME NEW e \in Entities, Appear(e) \/ Vanish(e) PROVE TypeOK'
    BY <2>3 DEF Appear, Vanish, TypeOK, EntryTypes, TableTypes, GhostTypes, ControlTypes,
                entries, table, ghosts
  <2>4. CASE Write
    BY <2>4, WriteTypes
  <2>5. CASE Restart
    BY <2>5, RestartTypes
  <2>6. CASE Tick
    BY <2>6, ElapsedFacts DEF Tick, TypeOK, EntryTypes, TableTypes, GhostTypes, ControlTypes, table
  <2>7. CASE UNCHANGED vars
    BY <2>7 DEF vars, TypeOK, EntryTypes, TableTypes, GhostTypes, ControlTypes, entries, table, ghosts
  <2>8. QED
    BY <2>1, <2>2, <2>3, <2>4, <2>5, <2>6, <2>7, Zenon DEF Next
<1>3. QED
  BY <1>1, <1>2, PTL DEF Spec

-----------------------------------------------------------------------------
(* Durations. *)

(* The time stamp is never older than the run of evaluations it measures:  *)
(* in healthy those above 0.2, in incident those below 0.15.               *)
SinceInv ==
  \A e \in Entities : since[e] # Unset =>
    /\ Current(e) = "healthy" => elevated[e] >= since[e]
    /\ state[e] = "incident" => calm[e] >= since[e]

(* Which conditions can be met in the two states. *)
LEMMA MatchedFacts ==
  ASSUME NEW n, NEW e \in Entities, NEW l \in Levels, NEW hot \in BOOLEAN, Matched(n, e, l, hot)
  PROVE  /\ n \in 1..5
         /\ Current(e) = "healthy" => n = 1 /\ l \in {"raised", "high"}
         /\ Current(e) = "incident" => n = 4 /\ l = "low"
         /\ Conditions[n].to = "warning" => Current(e) \in {"healthy", "recovery"}
         /\ Conditions[n].to = "recovery" => Current(e) = "incident"
BY DEF Matched, Met, Conditions

(* A step of entity e, or of none, as far as the durations go. *)
LEMMA DurationOfEvaluate ==
  ASSUME TypeOK, SinceInv, NEW e \in Entities, NEW l \in Levels, NEW hot \in BOOLEAN,
         Evaluate(e, l, hot)
  PROVE  /\ SinceInv'
         /\ \A d \in Entities :
              /\ Current(d) = "healthy" /\ state'[d] = "warning" => elevated'[d] >= WarnAfter
              /\ state[d] = "incident" /\ state'[d] = "recovery" => calm'[d] >= RecoverAfter
<1> DEFINE Goal(d) ==
      /\ since'[d] # Unset =>
           /\ state'[d] \in {"none", "healthy"} => elevated'[d] >= since'[d]
           /\ state'[d] = "incident" => calm'[d] >= since'[d]
      /\ Current(d) = "healthy" /\ state'[d] = "warning" => elevated'[d] >= WarnAfter
      /\ state[d] = "incident" /\ state'[d] = "recovery" => calm'[d] >= RecoverAfter
<1>1. /\ state \in [Entities -> EntryStates] /\ since \in [Entities -> Elapsed]
      /\ elevated \in [Entities -> Elapsed] /\ calm \in [Entities -> Elapsed]
  BY DEF TypeOK, EntryTypes, GhostTypes
<1>2. ASSUME NEW d \in Entities, d # e PROVE Goal(d)
  <2>1. /\ state'[d] = state[d] /\ since'[d] = since[d]
        /\ elevated'[d] = elevated[d] /\ calm'[d] = calm[d]
    BY <1>1, <1>2 DEF Evaluate, Observe, EvaluateUnmatched, EvaluateWaiting, Transition, Open, Close, Shift
  <2>2. QED
    BY <2>1 DEF SinceInv, Current
<1>3. Goal(e)
  <2>1. CASE EvaluateUnmatched(e, l, hot)
    BY <1>1, <2>1 DEF EvaluateUnmatched, Current
  <2>2. CASE EvaluateWaiting(e, l, hot)
    <3>1. PICK n \in 1..5 : Matched(n, e, l, hot)
      BY <2>2 DEF EvaluateWaiting
    <3>2. /\ Current(e) = "healthy" => l \in {"raised", "high"}
          /\ Current(e) = "incident" => l = "low"
      BY <3>1, MatchedFacts
    <3>3. state'[e] = Current(e) /\ since'[e] = Begun(since[e])
      BY <1>1, <2>2 DEF EvaluateWaiting
    <3>4. /\ Current(e) = "healthy" => elevated'[e] = Begun(elevated[e])
          /\ Current(e) = "incident" => calm'[e] = Begun(calm[e])
      BY <1>1, <3>2 DEF Evaluate, Observe
    <3>5. since[e] # Unset => /\ Current(e) = "healthy" => elevated[e] >= since[e]
                              /\ state[e] = "incident" => calm[e] >= since[e]
      BY DEF SinceInv
    <3>6. /\ Current(e) = "healthy" => Begun(elevated[e]) >= Begun(since[e])
          /\ state[e] = "incident" => Begun(calm[e]) >= Begun(since[e])
      BY <1>1, <3>5, DurationsAssumption DEF Begun, Elapsed, Unset
    <3>7. Current(e) # "none" /\ (Current(e) = "incident" <=> state[e] = "incident")
      BY DEF Current
    <3>8. state'[e] = "warning" => Current(e) # "healthy"
      BY <3>3
    <3>9. ~(state[e] = "incident" /\ state'[e] = "recovery")
      BY <3>3 DEF Current
    <3>10. QED
      BY <3>3, <3>4, <3>6, <3>7, <3>8, <3>9
  <2>3. CASE \E n \in 1..5 : Matched(n, e, l, hot) /\ Transition(e, n)
    <3>1. PICK n \in 1..5 : Matched(n, e, l, hot) /\ Transition(e, n)
      BY <2>3
    <3>2. /\ Current(e) = "healthy" => n = 1 /\ l \in {"raised", "high"}
          /\ Current(e) = "incident" => n = 4 /\ l = "low"
      BY <3>1, MatchedFacts
    <3>3. since'[e] = Unset
      BY <1>1, <3>1 DEF Transition, Open, Close, Shift
    <3>4. Begun(since[e]) >= Conditions[n].after
      BY <3>1 DEF Transition
    <3>5. CASE Current(e) = "healthy"
      <4>1. elevated'[e] = Begun(elevated[e])
        BY <1>1, <3>2, <3>5 DEF Evaluate, Observe
      <4>2. since[e] # Unset => elevated[e] >= since[e]
        BY <3>5 DEF SinceInv
      <4>3. Begun(elevated[e]) >= Begun(since[e])
        BY <1>1, <4>2, DurationsAssumption DEF Begun, Elapsed, Unset
      <4>4. Begun(since[e]) >= WarnAfter
        BY <3>2, <3>4, <3>5 DEF Conditions
      <4>5. Begun(elevated[e]) \in Int /\ Begun(since[e]) \in Int /\ WarnAfter \in Int
        BY <1>1, DurationsAssumption DEF Begun, Elapsed, Unset
      <4>6. state[e] # "incident"
        BY <3>5 DEF Current
      <4>7. elevated'[e] >= WarnAfter
        BY <4>1, <4>3, <4>4, <4>5
      <4>8. QED
        BY <3>3, <4>6, <4>7
    <3>6. CASE state[e] = "incident"
      <4>0. Current(e) = "incident"
        BY <3>6 DEF Current
      <4>1. calm'[e] = Begun(calm[e])
        BY <1>1, <3>2, <4>0 DEF Evaluate, Observe
      <4>2. since[e] # Unset => calm[e] >= since[e]
        BY <3>6 DEF SinceInv
      <4>3. Begun(calm[e]) >= Begun(since[e])
        BY <1>1, <4>2, DurationsAssumption DEF Begun, Elapsed, Unset
      <4>4. Begun(since[e]) >= RecoverAfter
        BY <3>2, <3>4, <4>0 DEF Conditions
      <4>5. Begun(calm[e]) \in Int /\ Begun(since[e]) \in Int /\ RecoverAfter \in Int
        BY <1>1, DurationsAssumption DEF Begun, Elapsed, Unset
      <4>6. calm'[e] >= RecoverAfter
        BY <4>1, <4>3, <4>4, <4>5
      <4>7. QED
        BY <3>3, <4>0, <4>6
    <3>7. CASE Current(e) # "healthy" /\ state[e] # "incident"
      BY <3>3, <3>7
    <3>8. QED
      BY <3>5, <3>6, <3>7
  <2>4. QED
    BY <2>1, <2>2, <2>3 DEF Evaluate
<1>4. \A d \in Entities : Goal(d)
  BY <1>2, <1>3
<1>5. SinceInv'
  BY <1>4 DEF SinceInv, Current
<1>6. QED
  BY <1>4, <1>5

(* No other step brings an entity from one of the two states to the next. *)
LEMMA DurationOfOthers ==
  ASSUME TypeOK, TypeOK', SinceInv, Next, ~\E e \in Entities : Snapshot(e)
  PROVE  /\ SinceInv'
         /\ restarts' = restarts =>
              \A d \in Entities : state'[d] \in {state[d], "none"}
<1>1. ASSUME NEW e \in Entities, SettleBegin(e) PROVE SinceInv' /\ state' = state
  BY <1>1 DEF SettleBegin, SinceInv, Current, TypeOK, EntryTypes, ghosts
<1>2. ASSUME NEW e \in Entities, SettleClose(e) \/ Sweep(e)
      PROVE  SinceInv' /\ \A d \in Entities : state'[d] \in {state[d], "none"}
  BY <1>2 DEF SettleClose, Sweep, Close, SinceInv, Current, TypeOK, EntryTypes, ghosts
<1>3. CASE UNCHANGED <<state, since, ghosts>>
  BY <1>3 DEF SinceInv, Current, ghosts
<1>4. CASE Restart
  BY <1>4 DEF Restart, SinceInv, TypeOK, ControlTypes
<1>5. CASE Tick
  <2>1. ASSUME NEW t \in Elapsed, NEW u \in Elapsed, t # Unset, u >= t
        PROVE  Later(u) >= Later(t)
    BY <2>1, DurationsAssumption DEF Later, Elapsed, Unset
  <2>2. ASSUME NEW t \in Elapsed, Later(t) # Unset PROVE t # Unset
    BY <2>2 DEF Later
  <2>3. SinceInv'
    BY <1>5, <2>1, <2>2 DEF Tick, SinceInv, Current, TypeOK, EntryTypes, GhostTypes
  <2>4. QED
    BY <1>5, <2>3 DEF Tick
<1>6. CASE Write
  BY <1>6, <1>3 DEF Write, WriteCreate, WriteState, WriteStable, WriteResolved, WriteFails, entries
<1>7. ASSUME NEW e \in Entities, Appear(e) \/ Vanish(e) PROVE UNCHANGED <<state, since, ghosts>>
  BY <1>7 DEF Appear, Vanish, entries
<1>8. QED
  BY <1>1, <1>2, <1>3, <1>4, <1>5, <1>6, <1>7, Zenon DEF Next

(* An incident begins only after WarnAfter of evaluations above 0.2 and    *)
(* recovers only after RecoverAfter of evaluations below 0.15              *)
(* (evaluateEntity), for any durations.                                    *)
THEOREM Durations == Spec => SustainedRisk
<1>1. Init => SinceInv
  BY DEF Init, SinceInv
<1>2. TypeOK /\ TypeOK' /\ SinceInv /\ [Next]_vars => SinceInv'
  <2> SUFFICES ASSUME TypeOK, TypeOK', SinceInv, [Next]_vars PROVE SinceInv'
    OBVIOUS
  <2>1. CASE \E e \in Entities : Snapshot(e)
    BY <2>1, DurationOfEvaluate DEF Snapshot
  <2>2. CASE Next /\ ~\E e \in Entities : Snapshot(e)
    BY <2>2, DurationOfOthers
  <2>3. CASE UNCHANGED vars
    BY <2>3 DEF vars, entries, ghosts, SinceInv, Current
  <2>4. QED
    BY <2>1, <2>2, <2>3
<1>3. TypeOK /\ TypeOK' /\ SinceInv /\ [Next]_vars =>
        [restarts' = restarts =>
           \A e \in Entities :
             /\ Current(e) = "healthy" /\ state'[e] = "warning" => elevated'[e] >= WarnAfter
             /\ state[e] = "incident" /\ state'[e] = "recovery" => calm'[e] >= RecoverAfter]_vars
  <2> SUFFICES ASSUME TypeOK, TypeOK', SinceInv, Next, restarts' = restarts
               PROVE  \A e \in Entities :
                        /\ Current(e) = "healthy" /\ state'[e] = "warning" => elevated'[e] >= WarnAfter
                        /\ state[e] = "incident" /\ state'[e] = "recovery" => calm'[e] >= RecoverAfter
    OBVIOUS
  <2>1. CASE \E e \in Entities : Snapshot(e)
    BY <2>1, DurationOfEvaluate DEF Snapshot
  <2>2. CASE ~\E e \in Entities : Snapshot(e)
    BY <2>2, DurationOfOthers DEF Current
  <2>3. QED
    BY <2>1, <2>2
<1>4. QED
  BY <1>1, <1>2, <1>3, IncidentTypeCorrect, PTL DEF Spec, SustainedRisk

-----------------------------------------------------------------------------
(* The rows are the first ones, and each has an entity. *)
RowsInv ==
  \A i \in Ids :
    /\ rowState[i] = "absent" <=> i > rows
    /\ rowState[i] # "absent" => rowEntity[i] \in Entities

(* An entry with an incident works on an open one, of its own entity. *)
EntriesInv ==
  \A e \in Entities : incident[e] # NoIncident =>
    /\ state[e] \in Active
    /\ rowState[incident[e]] \in Active
    /\ rowEntity[incident[e]] = e

(* What the call under way is about. *)
UpdateInv ==
  writing.op \in Active =>
    /\ writing.entity \in Entities
    /\ writing.id = incident[writing.entity]
    /\ state[writing.entity] = writing.op

CreateInv ==
  writing.op = "create" =>
    /\ writing.entity \in Entities
    /\ writing.id = NoIncident
    /\ incident[writing.entity] = NoIncident
    /\ state[writing.entity] = "warning"

ResolveInv ==
  writing.op \in {"stable", "resolved"} =>
    /\ writing.entity \in Entities
    /\ incident[writing.entity] = NoIncident
    /\ writing.id # NoIncident =>
         /\ rowEntity[writing.id] = writing.entity
         /\ rowState[writing.id] # "absent"
         /\ writing.op = "resolved" => rowState[writing.id] = "stable"

(* Open incident i is the one its entity's entry works on, in a state that *)
(* is, or is about to be, the entry's; or it is about to be resolved.      *)
IsTracked(i) ==
  \/ /\ incident[rowEntity[i]] = i
     /\ \/ state[rowEntity[i]] = rowState[i]
        \/ writing.op \in Active /\ writing.entity = rowEntity[i]
  \/ writing.op = "stable" /\ writing.id = i

(* And it is the newest open one of its entity: a restart takes it up. *)
IsNewest(i) ==
  \A j \in Ids : rowState[j] \in Active /\ rowEntity[j] = rowEntity[i] => j <= i

TrackedInv ==
  \A i \in Ids \ spoiled : rowState[i] \in Active => IsTracked(i) /\ IsNewest(i)

TableInv == RowsInv /\ EntriesInv
CallInv  == UpdateInv /\ CreateInv /\ ResolveInv
Inv == TypeOK /\ TableInv /\ CallInv /\ TrackedInv

(* The agreement follows: the call under way is about another entity. *)
LEMMA InvTracks ==
  ASSUME Inv
  PROVE  OpenIsTracked
<1> SUFFICES ASSUME NEW i \in Settled \ spoiled, rowState[i] \in Active
             PROVE  incident[rowEntity[i]] = i /\ state[rowEntity[i]] = rowState[i]
  BY DEF OpenIsTracked
<1>1. i \in Ids /\ IsTracked(i)
  BY DEF Inv, TrackedInv, Settled
<1>2. writing.op = "idle" \/ rowEntity[i] # writing.entity
  BY DEF Settled
<1>3. ~(writing.op = "stable" /\ writing.id = i)
  BY <1>1, <1>2 DEF Inv, CallInv, ResolveInv, NoIncident, Ids
<1>4. ~(writing.op \in Active /\ writing.entity = rowEntity[i])
  BY <1>2 DEF Active
<1>5. QED
  BY <1>1, <1>3, <1>4 DEF IsTracked

(* The rows are as they were: what has to be shown of the entries and of   *)
(* the call under way is about one entity e, and about the incident that   *)
(* its entry worked on.                                                    *)
LEMMA InitInv == Init => Inv
<1> SUFFICES ASSUME Init PROVE Inv
  OBVIOUS
<1>1. TypeOK
  BY ElapsedFacts, IdleType, BoundsAssumption
  DEF Init, TypeOK, EntryTypes, TableTypes, GhostTypes, ControlTypes, EntryStates, RowStates
<1>2. TableInv
  BY BoundsAssumption DEF Init, TableInv, RowsInv, EntriesInv, Ids
<1>3. CallInv /\ TrackedInv
  BY DEF Init, CallInv, UpdateInv, CreateInv, ResolveInv, TrackedInv, Idle, Active
<1>4. QED
  BY <1>1, <1>2, <1>3 DEF Inv

(* A transition of the entry of e from idle: its incident stays, no row    *)
(* changes, and the call it starts is an update to the new state.          *)
LEMMA ShiftStep ==
  ASSUME Inv, TypeOK', NEW e \in Entities, writing = Idle,
         NEW to \in EntryStates,
         state' = [state EXCEPT ![e] = to],
         incident[e] # NoIncident => to \in Active,
         UNCHANGED <<incident, table, spoiled>>,
         \/ writing' = Idle /\ (incident[e] # NoIncident => to = state[e])
         \/ to \in Active /\ writing' = [op |-> to, id |-> incident[e], entity |-> e]
  PROVE  Inv'
<1>1. TableInv'
  BY DEF Inv, TypeOK, EntryTypes, TableInv, RowsInv, EntriesInv, table
<1>2. CallInv'
  BY DEF Inv, TypeOK, EntryTypes, CallInv, UpdateInv, CreateInv, ResolveInv, Idle, Active
<1>3. ASSUME NEW i \in Ids \ spoiled', rowState'[i] \in Active
      PROVE  IsTracked(i)' /\ IsNewest(i)'
  <2>1. incident[rowEntity[i]] = i /\ state[rowEntity[i]] = rowState[i] /\ IsNewest(i)
    BY <1>3 DEF Inv, TrackedInv, IsTracked, Idle, Active, table
  <2>2. IsNewest(i)'
    BY <2>1 DEF IsNewest, table
  <2>3. rowEntity[i] \in Entities
    BY <1>3 DEF Inv, TableInv, RowsInv, table, Active
  <2>4. CASE rowEntity[i] = e
    <3>1. incident[e] # NoIncident
      BY <2>1, <2>4 DEF Ids, NoIncident
    <3>2. QED
      BY <2>1, <2>2, <2>4, <3>1 DEF Inv, TypeOK, EntryTypes, IsTracked, table
  <2>5. CASE rowEntity[i] # e
    BY <2>1, <2>2, <2>3, <2>5 DEF Inv, TypeOK, EntryTypes, IsTracked, table
  <2>6. QED
    BY <2>4, <2>5
<1>4. QED
  BY <1>1, <1>2, <1>3 DEF Inv, TrackedInv

(* The entry of e goes, and its incident is to be resolved. *)
LEMMA CloseStep ==
  ASSUME Inv, TypeOK', NEW e \in Entities, writing = Idle, Close(e), UNCHANGED <<table, spoiled>>
  PROVE  Inv'
<1>1. TableInv'
  BY DEF Inv, TypeOK, EntryTypes, TableInv, RowsInv, EntriesInv, table, Close
<1>2. CallInv'
  <2>1. incident[e] # NoIncident => rowState[incident[e]] # "absent" /\ rowEntity[incident[e]] = e
    BY DEF Inv, TableInv, EntriesInv, Active
  <2>2. incident'[e] = NoIncident
    BY DEF Close, Inv, TypeOK, EntryTypes
  <2>3. QED
    BY <2>1, <2>2 DEF CallInv, UpdateInv, CreateInv, ResolveInv, Close, Active, table
<1>3. ASSUME NEW i \in Ids \ spoiled', rowState'[i] \in Active
      PROVE  IsTracked(i)' /\ IsNewest(i)'
  <2>1. incident[rowEntity[i]] = i /\ state[rowEntity[i]] = rowState[i] /\ IsNewest(i)
    BY <1>3 DEF Inv, TrackedInv, IsTracked, Idle, Active, table
  <2>2. IsNewest(i)'
    BY <2>1 DEF IsNewest, table
  <2>3. rowEntity[i] \in Entities
    BY <1>3 DEF Inv, TableInv, RowsInv, table, Active
  <2>4. CASE rowEntity[i] = e
    BY <2>1, <2>2, <2>4 DEF IsTracked, Close
  <2>5. CASE rowEntity[i] # e
    BY <2>1, <2>2, <2>3, <2>5 DEF Inv, TypeOK, EntryTypes, IsTracked, table, Close
  <2>6. QED
    BY <2>4, <2>5
<1>4. QED
  BY <1>1, <1>2, <1>3 DEF Inv, TrackedInv

(* An entity that begins an incident has no other one that is tracked. *)
LEMMA OpenStep ==
  ASSUME Inv, TypeOK', NEW e \in Entities, writing = Idle, Current(e) = "healthy",
         Open(e), UNCHANGED <<table, spoiled>>
  PROVE  Inv'
<1>1. incident[e] = NoIncident
  BY DEF Inv, TableInv, EntriesInv, Current, Active
<1>2. TableInv'
  BY <1>1 DEF Inv, TypeOK, EntryTypes, TableInv, RowsInv, EntriesInv, table, Open
<1>3. CallInv'
  BY <1>1 DEF Inv, TypeOK, EntryTypes, CallInv, UpdateInv, CreateInv, ResolveInv, Open, Active
<1>4. ASSUME NEW i \in Ids \ spoiled', rowState'[i] \in Active
      PROVE  IsTracked(i)' /\ IsNewest(i)'
  <2>1. incident[rowEntity[i]] = i /\ state[rowEntity[i]] = rowState[i] /\ IsNewest(i)
    BY <1>4 DEF Inv, TrackedInv, IsTracked, Idle, Active, table, Open
  <2>2. IsNewest(i)'
    BY <2>1 DEF IsNewest, table
  <2>3. rowEntity[i] \in Entities
    BY <1>4 DEF Inv, TableInv, RowsInv, table, Active
  <2>4. rowEntity[i] # e
    BY <1>1, <2>1 DEF Ids, NoIncident
  <2>5. QED
    BY <2>1, <2>2, <2>3, <2>4 DEF Inv, TypeOK, EntryTypes, IsTracked, table, Open
<1>5. QED
  BY <1>2, <1>3, <1>4 DEF Inv, TrackedInv

(* Evaluating an entity keeps the invariant: each outcome is one of the    *)
(* steps above.                                                            *)
LEMMA EvaluateStep ==
  ASSUME Inv, TypeOK', NEW e \in Entities, NEW l \in Levels, NEW hot \in BOOLEAN, Evaluate(e, l, hot)
  PROVE  Inv'
<1>1. writing = Idle /\ UNCHANGED <<table, spoiled>>
  BY DEF Evaluate
<1>2. Current(e) \in EntryStates /\ (incident[e] # NoIncident => Current(e) = state[e] /\ state[e] \in Active)
  <2>1. Current(e) \in EntryStates
    BY CurrentType DEF Inv, TypeOK
  <2>2. QED
    BY <2>1 DEF Inv, TableInv, EntriesInv, Current, Active
<1>3. CASE EvaluateUnmatched(e, l, hot) \/ EvaluateWaiting(e, l, hot)
  <2>1. state' = [state EXCEPT ![e] = Current(e)] /\ UNCHANGED <<incident, writing>>
    BY <1>3 DEF EvaluateUnmatched, EvaluateWaiting
  <2>2. QED
    BY <1>1, <1>2, <2>1, ShiftStep
<1>4. CASE \E n \in 1..5 : Matched(n, e, l, hot) /\ Transition(e, n)
  <2>1. PICK n \in 1..5 : Transition(e, n)
    BY <1>4
  <2>2. CASE Current(e) = "healthy" /\ Open(e)
    BY <1>1, <2>2, OpenStep
  <2>3. CASE Close(e)
    BY <1>1, <2>3, CloseStep
  <2>4. CASE Conditions[n].to # "healthy" /\ Shift(e, Conditions[n].to)
    <3>1. PICK to \in Active : Shift(e, to)
      BY <2>4, ConditionFacts
    <3>2. to \in EntryStates
      BY DEF EntryStates
    <3>3. /\ state' = [state EXCEPT ![e] = to]
          /\ writing' = [op |-> to, id |-> incident[e], entity |-> e]
          /\ UNCHANGED incident
      BY <3>1 DEF Shift
    <3>4. QED
      BY <1>1, <3>2, <3>3, ShiftStep
  <2>5. QED
    BY <2>1, <2>2, <2>3, <2>4 DEF Transition
<1>5. QED
  BY <1>3, <1>4 DEF Evaluate

(* A step that changes no state, no incident, no row and no call. *)
LEMMA QuietStep ==
  ASSUME Inv, TypeOK', UNCHANGED <<state, incident, table, writing, spoiled>>
  PROVE  Inv'
BY DEF Inv, TableInv, RowsInv, EntriesInv, CallInv, UpdateInv, CreateInv, ResolveInv,
       TrackedInv, IsTracked, IsNewest, table

(* The new row is the newest, and the only tracked one of its entity. *)
LEMMA WriteCreateStep ==
  ASSUME Inv, TypeOK', WriteCreate
  PROVE  Inv'
<1>1. PICK e \in Entities : /\ e = writing.entity
                            /\ incident[e] = NoIncident
                            /\ state[e] = "warning"
  BY DEF Inv, CallInv, CreateInv, WriteCreate
<1>2. rows + 1 \in Ids /\ rowState[rows + 1] = "absent"
  BY BoundsAssumption DEF Inv, TypeOK, TableTypes, TableInv, RowsInv, WriteCreate, Ids
<1>3. /\ rowState' = [rowState EXCEPT ![rows + 1] = "warning"]
      /\ rowEntity' = [rowEntity EXCEPT ![rows + 1] = e]
      /\ incident' = [incident EXCEPT ![e] = rows + 1]
      /\ rows' = rows + 1 /\ writing' = Idle /\ UNCHANGED <<state, spoiled>>
  BY <1>1 DEF WriteCreate
<1>4. RowsInv'
  BY <1>2, <1>3, BoundsAssumption DEF Inv, TypeOK, TableTypes, TableInv, RowsInv, Ids
<1>5. EntriesInv'
  <2> SUFFICES ASSUME NEW d \in Entities, incident'[d] # NoIncident
               PROVE  state'[d] \in Active /\ rowState'[incident'[d]] \in Active /\ rowEntity'[incident'[d]] = d
    BY DEF EntriesInv
  <2>1. CASE d = e
    BY <1>1, <1>2, <1>3, <2>1 DEF Inv, TypeOK, EntryTypes, TableTypes, Active
  <2>2. CASE d # e
    <3>1. incident'[d] = incident[d] /\ incident[d] \in Ids
      BY <1>3, <2>2 DEF Inv, TypeOK, EntryTypes
    <3>2. state[d] \in Active /\ rowState[incident[d]] \in Active /\ rowEntity[incident[d]] = d
      BY <3>1 DEF Inv, TableInv, EntriesInv
    <3>3. incident[d] # rows + 1
      BY <1>2, <3>2 DEF Active
    <3>4. QED
      BY <1>3, <3>1, <3>2, <3>3 DEF Inv, TypeOK, TableTypes
  <2>3. QED
    BY <2>1, <2>2
<1>6. CallInv'
  BY <1>3 DEF CallInv, UpdateInv, CreateInv, ResolveInv, Idle, Active
<1>7. ASSUME NEW i \in Ids \ spoiled', rowState'[i] \in Active
      PROVE  IsTracked(i)' /\ IsNewest(i)'
  <2>1. CASE i = rows + 1
    <3>1. IsTracked(i)'
      BY <1>1, <1>2, <1>3, <2>1 DEF Inv, TypeOK, EntryTypes, TableTypes, IsTracked
    <3>2. IsNewest(i)'
      BY <1>2, <1>4, <1>3, <2>1 DEF Inv, TypeOK, TableTypes, RowsInv, IsNewest, Ids, Active
    <3>3. QED
      BY <3>1, <3>2
  <2>2. CASE i # rows + 1
    <3>1. rowState'[i] = rowState[i] /\ rowEntity'[i] = rowEntity[i] /\ i \notin spoiled
      BY <1>3, <2>2 DEF Inv, TypeOK, TableTypes
    <3>2. IsTracked(i) /\ IsNewest(i) /\ rowEntity[i] \in Entities
      BY <1>7, <3>1 DEF Inv, TrackedInv, TableInv, RowsInv, Active
    <3>3. incident[rowEntity[i]] = i /\ state[rowEntity[i]] = rowState[i]
      BY <3>2 DEF IsTracked, WriteCreate, Active
    <3>4. rowEntity[i] # e
      BY <1>1, <3>3 DEF Ids, NoIncident
    <3>5. IsTracked(i)'
      BY <1>3, <3>1, <3>2, <3>3, <3>4 DEF Inv, TypeOK, EntryTypes, IsTracked
    <3>6. IsNewest(i)'
      BY <1>2, <1>3, <3>1, <3>2, <3>4 DEF Inv, TypeOK, TableTypes, IsNewest
    <3>7. QED
      BY <3>5, <3>6
  <2>3. QED
    BY <2>1, <2>2
<1>8. QED
  BY <1>4, <1>5, <1>6, <1>7 DEF Inv, TableInv, TrackedInv

(* A state is written: an update, or a resolution. *)
LEMMA WriteStateStep ==
  ASSUME Inv, TypeOK', WriteState
  PROVE  Inv'
<1>1. PICK e \in Entities : /\ e = writing.entity
                            /\ writing.id = incident[e]
                            /\ state[e] = writing.op
                            /\ state[e] \in Active
  BY DEF Inv, CallInv, UpdateInv, WriteState
<1>2. /\ rowState' = [j \in Ids |-> IF j = incident[e] THEN state[e] ELSE rowState[j]]
      /\ writing' = Idle
      /\ UNCHANGED <<entries, rowEntity, rows, spoiled>>
  BY <1>1 DEF WriteState, SetState
<1>3. \A j \in Ids : j = incident[e] => rowState[j] \in Active /\ rowEntity[j] = e
  BY <1>1 DEF Inv, TableInv, EntriesInv, Ids, NoIncident
<1>4. \A j \in Ids : /\ rowState'[j] \in Active <=> rowState[j] \in Active
                     /\ rowState'[j] = "absent" <=> rowState[j] = "absent"
  BY <1>1, <1>2, <1>3 DEF Active
<1>5. TableInv'
  BY <1>1, <1>2, <1>4 DEF Inv, TypeOK, EntryTypes, TableInv, RowsInv, EntriesInv, entries
<1>6. CallInv'
  BY <1>2 DEF CallInv, UpdateInv, CreateInv, ResolveInv, Idle, Active
<1>7. ASSUME NEW i \in Ids \ spoiled', rowState'[i] \in Active
      PROVE  IsTracked(i)' /\ IsNewest(i)'
  <2>1. IsTracked(i) /\ IsNewest(i)
    BY <1>2, <1>4, <1>7 DEF Inv, TrackedInv
  <2>2. IsNewest(i)'
    BY <1>2, <1>4, <2>1 DEF IsNewest
  <2>3. incident[rowEntity[i]] = i /\ (state[rowEntity[i]] = rowState[i] \/ rowEntity[i] = e)
    BY <1>1, <2>1 DEF IsTracked, WriteState, Active
  <2>4. state[rowEntity[i]] = rowState'[i]
    BY <1>2, <1>3, <2>3
  <2>5. QED
    BY <1>2, <2>2, <2>3, <2>4 DEF IsTracked, entries
<1>8. QED
  BY <1>5, <1>6, <1>7 DEF Inv, TrackedInv

LEMMA ResolveStep ==
  ASSUME Inv, TypeOK', WriteStable \/ WriteResolved
  PROVE  Inv'
<1>1. PICK e \in Entities : /\ e = writing.entity
                            /\ incident[e] = NoIncident
                            /\ writing.id # NoIncident => rowEntity[writing.id] = e /\ rowState[writing.id] # "absent"
  BY DEF Inv, CallInv, ResolveInv, WriteStable, WriteResolved
<1>2. /\ rowState' = [j \in Ids |-> IF j = writing.id THEN "stable" ELSE rowState[j]]
      /\ UNCHANGED <<entries, rowEntity, rows, spoiled>>
  BY DEF WriteStable, WriteResolved, SetState
<1>3. \A d \in Entities : incident[d] # NoIncident => incident[d] # writing.id
  BY <1>1 DEF Inv, TableInv, EntriesInv
<1>4. TableInv'
  BY <1>1, <1>2, <1>3 DEF Inv, TypeOK, EntryTypes, TableInv, RowsInv, EntriesInv, entries, Ids, NoIncident
<1>5. CallInv'
  <2>1. CASE WriteStable
    <3>1. /\ writing'.op = "resolved" /\ writing'.id = writing.id /\ writing'.entity = writing.entity
          /\ writing.id \in Ids \cup {NoIncident}
      BY <2>1 DEF WriteStable, Inv, TypeOK, ControlTypes
    <3>2. QED
      BY <1>1, <1>2, <3>1 DEF CallInv, UpdateInv, CreateInv, ResolveInv, Active, entries
  <2>2. CASE WriteResolved
    BY <2>2 DEF WriteResolved, CallInv, UpdateInv, CreateInv, ResolveInv, Idle, Active
  <2>3. QED
    BY <2>1, <2>2
<1>6. ASSUME NEW i \in Ids \ spoiled', rowState'[i] \in Active
      PROVE  IsTracked(i)' /\ IsNewest(i)'
  <2>1. rowState'[i] = rowState[i] /\ i # writing.id /\ i \notin spoiled
    BY <1>2, <1>6 DEF Active
  <2>2. IsTracked(i) /\ IsNewest(i)
    BY <1>6, <2>1 DEF Inv, TrackedInv
  <2>3. incident[rowEntity[i]] = i /\ state[rowEntity[i]] = rowState[i]
    BY <2>1, <2>2 DEF IsTracked, WriteStable, WriteResolved, Active
  <2>4. IsNewest(i)'
    BY <1>2, <2>2 DEF IsNewest, Active
  <2>5. QED
    BY <1>2, <2>1, <2>3, <2>4 DEF IsTracked, entries
<1>7. QED
  BY <1>4, <1>5, <1>6 DEF Inv, TrackedInv

(* An incident whose write failed is no longer promised anything. *)
LEMMA WriteFailsStep ==
  ASSUME Inv, TypeOK', WriteFails
  PROVE  Inv'
<1>1. /\ UNCHANGED <<entries, table>> /\ writing' = Idle
      /\ spoiled' = spoiled \cup ({writing.id} \cap Ids)
  BY DEF WriteFails
<1>2. TableInv'
  BY <1>1 DEF Inv, TableInv, RowsInv, EntriesInv, entries, table
<1>3. CallInv'
  BY <1>1 DEF CallInv, UpdateInv, CreateInv, ResolveInv, Idle, Active
<1>4. ASSUME NEW i \in Ids \ spoiled', rowState'[i] \in Active
      PROVE  IsTracked(i)' /\ IsNewest(i)'
  <2>1. i \notin spoiled /\ i # writing.id /\ rowState[i] \in Active
    BY <1>1, <1>4 DEF table
  <2>2. IsTracked(i) /\ IsNewest(i)
    BY <2>1 DEF Inv, TrackedInv
  <2>3. incident[rowEntity[i]] = i /\ state[rowEntity[i]] = rowState[i]
    BY <2>1, <2>2 DEF IsTracked, Inv, CallInv, UpdateInv
  <2>4. QED
    BY <1>1, <2>2, <2>3 DEF IsTracked, IsNewest, entries, table
<1>5. QED
  BY <1>2, <1>3, <1>4 DEF Inv, TrackedInv

(* After a restart every entity works on its newest open row. *)
LEMMA RestartStep ==
  ASSUME Inv, TypeOK', Restart
  PROVE  Inv'
<1>1. writing' = Idle /\ UNCHANGED table
  BY DEF Restart
<1>2. RowsInv'
  BY <1>1 DEF Inv, TableInv, RowsInv, table
<1>3. CallInv'
  BY <1>1 DEF CallInv, UpdateInv, CreateInv, ResolveInv, Idle, Active
<1>4. CASE ReloadFails
  <2>1. EntriesInv'
    BY <1>4 DEF ReloadFails, EntriesInv
  <2>2. TrackedInv'
    BY <1>1, <1>4 DEF ReloadFails, TrackedInv, table
  <2>3. QED
    BY <1>2, <1>3, <2>1, <2>2 DEF Inv, TableInv
<1>5. CASE \E pick \in [Entities -> Ids \cup {NoIncident}] : Reload(pick)
  <2>1. PICK pick \in [Entities -> Ids \cup {NoIncident}] : Reload(pick)
    BY <1>5
  <2>2. /\ incident' = pick /\ spoiled' = spoiled
        /\ \A d \in Entities : pick[d] # NoIncident => state'[d] = rowState[pick[d]]
    BY <2>1 DEF Reload
  <2>3. \A d \in Entities : pick[d] # NoIncident => pick[d] \in OpenRows(d)
    BY <2>1 DEF Reload, Restored
  <2>4. EntriesInv'
    BY <1>1, <2>2, <2>3 DEF EntriesInv, OpenRows, Rows, table
  <2>5. ASSUME NEW i \in Ids \ spoiled', rowState'[i] \in Active
        PROVE  IsTracked(i)' /\ IsNewest(i)'
    <3>1. rowState[i] \in Active /\ i \notin spoiled
      BY <1>1, <2>2, <2>5 DEF table
    <3>2. IsNewest(i) /\ rowEntity[i] \in Entities
      BY <3>1 DEF Inv, TrackedInv, TableInv, RowsInv, Active
    <3>3. PICK d \in Entities : d = rowEntity[i]
      BY <3>2
    <3>4. i \in OpenRows(d)
      BY <3>1, <3>3 DEF OpenRows, Rows
    <3>5. pick[d] \in OpenRows(d) /\ i <= pick[d]
      BY <2>1, <3>4 DEF Reload, Restored
    <3>6. pick[d] <= i /\ pick[d] \in Ids
      BY <3>2, <3>3, <3>5 DEF IsNewest, OpenRows, Rows
    <3>7. pick[d] = i
      BY <3>5, <3>6 DEF Ids
    <3>8. state'[d] = rowState[i]
      BY <2>2, <3>7 DEF Ids, NoIncident
    <3>9. QED
      BY <1>1, <2>2, <3>2, <3>3, <3>7, <3>8 DEF IsTracked, IsNewest, table
  <2>6. QED
    BY <1>2, <1>3, <2>4, <2>5 DEF Inv, TableInv, TrackedInv
<1>6. QED
  BY <1>4, <1>5 DEF Restart

LEMMA IncidentInvariant == Spec => []Inv
<1>1. Inv /\ TypeOK' /\ [Next]_vars => Inv'
  <2> SUFFICES ASSUME Inv, TypeOK', [Next]_vars PROVE Inv'
    OBVIOUS
  <2>1. ASSUME NEW e \in Entities, Snapshot(e) PROVE Inv'
    BY <2>1, EvaluateStep DEF Snapshot
  <2>2. ASSUME NEW e \in Entities, SettleClose(e) \/ Sweep(e) PROVE Inv'
    BY <2>2, CloseStep DEF SettleClose, Sweep
  <2>3. ASSUME NEW e \in Entities, SettleBegin(e) \/ Appear(e) \/ Vanish(e) PROVE Inv'
    BY <2>3, QuietStep DEF SettleBegin, Appear, Vanish, entries
  <2>4. CASE Write
    BY <2>4, WriteCreateStep, WriteStateStep, ResolveStep, WriteFailsStep DEF Write
  <2>5. CASE Restart
    BY <2>5, RestartStep
  <2>6. CASE Tick
    BY <2>6, QuietStep DEF Tick
  <2>7. CASE UNCHANGED vars
    BY <2>7, QuietStep DEF vars, entries
  <2>8. QED
    BY <2>1, <2>2, <2>3, <2>4, <2>5, <2>6, <2>7, Zenon DEF Next
<1>2. QED
  BY <1>1, InitInv, IncidentTypeCorrect, PTL DEF Spec

(* The state machine and the table agree (callbacks of transition;         *)
(* reloadActiveIncidents): an open incident that no failed database call   *)
(* left behind is the one its entity works on, in the same state.          *)
THEOREM Tracking == Spec => []OpenIsTracked
BY IncidentInvariant, InvTracks, PTL

(* A closed incident is never reopened (Store.Resolve), by whatever fails  *)
(* and wherever the Master restarts.                                       *)
THEOREM Finality == Spec => StableIsFinal
<1>1. Inv /\ [Next]_vars => [\A i \in Ids : rowState[i] = "stable" => rowState'[i] = "stable"]_vars
  <2> SUFFICES ASSUME Inv, Next, NEW i \in Ids, rowState[i] = "stable"
               PROVE  rowState'[i] = "stable"
    OBVIOUS
  <2>1. CASE WriteCreate
    <3>1. rows + 1 # i
      BY <2>1 DEF Inv, TypeOK, TableTypes, TableInv, RowsInv, Ids
    <3>2. QED
      BY <2>1, <3>1 DEF WriteCreate, Inv, TypeOK, TableTypes
  <2>2. CASE WriteState
    <3>1. i # writing.id
      BY <2>2 DEF WriteState, Inv, CallInv, UpdateInv, TableInv, EntriesInv, Active, Ids, NoIncident
    <3>2. QED
      BY <2>2, <3>1 DEF WriteState, SetState
  <2>3. CASE WriteStable \/ WriteResolved
    BY <2>3 DEF WriteStable, WriteResolved, SetState
  <2>4. CASE UNCHANGED rowState
    BY <2>4
  <2>5. QED
    BY <2>1, <2>2, <2>3, <2>4
    DEF Next, Write, WriteFails, Restart, Tick, Snapshot, Evaluate, SettleBegin, SettleClose,
        Sweep, Appear, Vanish, table
<1>2. QED
  BY <1>1, IncidentInvariant, PTL DEF Spec, StableIsFinal
=============================================================================
