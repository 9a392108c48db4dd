------------------------- MODULE AgentRegistryProofs -------------------------
(***************************************************************************)
(* Proofs about AgentRegistry, for any clusters, durations, bounds and     *)
(* failures: the types, that no cluster is taken for offline whose         *)
(* heartbeats keep coming, and that none is told to be back that gave no   *)
(* sign of life.                                                           *)
(*                                                                         *)
(* What the two loops and the trigger believe of a cluster is old, but old *)
(* in one direction only: a record's heartbeat is never older than the     *)
(* last one received, a status of offline implies that none came for       *)
(* longer than Expire, and a cluster found silent stays so in the store    *)
(* until it gives a sign of life.                                          *)
(***************************************************************************)
EXTENDS AgentRegistry, TLAPS

USE FaultsAssumption, DurationsAssumption, BoundsAssumption DEF history

LEMMA LaterType == ASSUME NEW t \in Elapsed PROVE Later(t) \in Elapsed
  BY DEF Later, Elapsed, Far

LEMMA LaterGrows ==
  ASSUME NEW t \in Elapsed, NEW u \in Elapsed, t <= u
  PROVE  Later(t) <= Later(u) /\ t <= Later(t)
  BY DEF Later, Elapsed, Far

-----------------------------------------------------------------------------
(* Types. *)

LEMMA InitTypes == Init => TypeOK
<1>1. Init => dragged \in BOOLEAN
  BY Zenon DEF Init
<1>2. Init => StoreTypes /\ TriggerTypes
  BY DEF Init, StoreTypes, TriggerTypes, Elapsed, Far
<1>3. Init => up \in SUBSET Clusters /\ silence \in [Clusters -> Elapsed]
              /\ failures \in 0..MaxFailures /\ restarts \in 0..MaxRestarts
  BY DEF Init, Elapsed, Far
<1>. QED
  BY <1>1, <1>2, <1>3 DEF TypeOK, WorldTypes

LEMMA RequestTypes ==
  ASSUME TypeOK, NEW c \in Clusters, Heartbeat(c) \/ PushSnapshot(c) \/ Push(c)
  PROVE  TypeOK'
<1>. USE DEF TypeOK, StoreTypes, TriggerTypes, WorldTypes
<1>1. CASE Heartbeat(c)
  BY <1>1 DEF Heartbeat, trigger, bounds, Elapsed, Far
<1>2. CASE PushSnapshot(c)
  BY <1>2 DEF PushSnapshot, trigger, world, bounds
<1>3. CASE PushTimeline(c)
  <2>1. PICK appended \in SUBSET {"timeline"} : data' = [data EXCEPT ![c] = @ \cup appended]
    BY <1>3 DEF PushTimeline
  <2>2. data' \in [Clusters -> SUBSET {"snapshot", "timeline"}]
    <3>1. data[c] \cup appended \in SUBSET {"snapshot", "timeline"}
      OBVIOUS
    <3>. QED
      BY <2>1, <3>1
  <2>. QED
    BY <1>3, <2>2 DEF PushTimeline, trigger, world, bounds
<1>4. CASE PushRecord(c)
  BY <1>4 DEF PushRecord, trigger, world, bounds, Elapsed, Far
<1>. QED
  BY <1>1, <1>2, <1>3, <1>4 DEF Push

LEMMA CleanTypes == ASSUME TypeOK, Clean PROVE TypeOK'
<1>. USE DEF TypeOK, StoreTypes, TriggerTypes, WorldTypes
<1>1. CASE CleanMark
  BY <1>1 DEF CleanMark, trigger, world, bounds
<1>2. CASE CleanDecide
  BY <1>2 DEF CleanDecide, trigger, world, bounds
<1>3. CASE CleanSnapshots
  BY <1>3 DEF CleanSnapshots, Without, trigger, world, bounds
<1>4. CASE CleanTimelines
  BY <1>4 DEF CleanTimelines, Without, trigger, world, bounds
<1>5. CASE CleanRecords
  BY <1>5 DEF CleanRecords, trigger, world, bounds, Elapsed, Far
<1>. QED
  BY <1>1, <1>2, <1>3, <1>4, <1>5 DEF Clean

LEMMA ListTypes == ASSUME TypeOK, CheckList PROVE TypeOK'
  BY DEF TypeOK, StoreTypes, TriggerTypes, WorldTypes, CheckList, Listed, store, world, bounds

LEMMA TurnTypes == ASSUME TypeOK, NEW c \in Clusters, Turn(c) PROVE TypeOK'
<1>. USE DEF TypeOK, StoreTypes, TriggerTypes, WorldTypes, Done, store, world
<1>1. CASE CheckNothing(c)
  BY <1>1 DEF CheckNothing
<1>2. CASE CheckOffline(c)
  BY <1>2 DEF CheckOffline
<1>3. CASE CheckRecovery(c)
  BY <1>3 DEF CheckRecovery
<1>4. CASE CheckRefused(c)
  BY <1>4 DEF CheckRefused
<1>. QED
  BY <1>1, <1>2, <1>3, <1>4 DEF Turn

LEMMA WorldStepTypes ==
  ASSUME TypeOK, NEW c \in Clusters, Start(c) \/ Stop(c)
  PROVE  TypeOK'
  BY DEF TypeOK, StoreTypes, TriggerTypes, WorldTypes, Start, Stop, store, trigger, bounds

LEMMA RestartTypes == ASSUME TypeOK, Restart PROVE TypeOK'
<1>1. dragged' \in BOOLEAN
  BY Zenon DEF Restart
<1>2. StoreTypes' /\ TriggerTypes'
  BY DEF TypeOK, StoreTypes, TriggerTypes, Restart, Elapsed, Far
<1>3. /\ (up \in SUBSET Clusters)' /\ (silence \in [Clusters -> Elapsed])'
      /\ (failures \in 0..MaxFailures)' /\ (restarts \in 0..MaxRestarts)'
  BY DEF TypeOK, WorldTypes, Restart, world
<1>. QED
  BY <1>1, <1>2, <1>3 DEF TypeOK, WorldTypes

LEMMA TickTypes == ASSUME TypeOK, Tick PROVE TypeOK'
<1>1. beat' \in [Clusters -> Elapsed]
  <2>1. \A c \in Clusters : (IF status[c] = "none" THEN 0 ELSE Later(beat[c])) \in Elapsed
    BY LaterType DEF TypeOK, StoreTypes, Elapsed, Far
  <2>. QED
    BY <2>1 DEF Tick
<1>2. silence' \in [Clusters -> Elapsed]
  BY LaterType DEF Tick, TypeOK, WorldTypes
<1>3. checkAge' \in 0..CheckEvery
  BY DEF Tick, TypeOK, TriggerTypes
<1>. QED
  BY <1>1, <1>2, <1>3 DEF Tick, TypeOK, StoreTypes, TriggerTypes, WorldTypes, bounds

LEMMA TypeStep == TypeOK /\ [Next]_vars => TypeOK'
<1>. SUFFICES ASSUME TypeOK, [Next]_vars PROVE TypeOK'
  OBVIOUS
<1>1. CASE \E c \in Clusters :
             Heartbeat(c) \/ PushSnapshot(c) \/ PushTimeline(c) \/ PushRecord(c)
  BY <1>1, RequestTypes DEF Push
<1>2. CASE \E c \in Clusters : Turn(c) \/ Start(c) \/ Stop(c)
  BY <1>2, TurnTypes, WorldStepTypes
<1>3. CASE Clean
  BY <1>3, CleanTypes
<1>4. CASE CheckList
  BY <1>4, ListTypes
<1>5. CASE Restart
  BY <1>5, RestartTypes
<1>6. CASE Tick
  BY <1>6, TickTypes
<1>7. CASE UNCHANGED vars
  BY <1>7 DEF TypeOK, StoreTypes, TriggerTypes, WorldTypes, vars, store, trigger, world, bounds
<1>. QED
  BY <1>1, <1>2, <1>3, <1>4, <1>5, <1>6, <1>7, Zenon DEF Next

(* Every variable of the registry keeps its type. *)
THEOREM TypeCorrect == Spec => []TypeOK
  BY InitTypes, TypeStep, PTL DEF Spec

-----------------------------------------------------------------------------
(* The inductive invariant. *)

\* What the store holds of c is no older than what c last sent.
Fresh(c) ==
  /\ status[c] # "none" => beat[c] <= silence[c]
  /\ status[c] = "offline" => silence[c] > Expire

\* A silent cluster would be found silent again.
StaysSilent(c) ==
  c \in quiet => status[c] \in {"none", "offline"} \/ beat[c] > Expire

\* What is left of a round of checks.
RoundInv ==
  /\ suspects \subseteq todo
  /\ \A c \in Clusters : c \in todo /\ c \notin suspects => c \notin quiet

StoreInv == \A c \in Clusters : Fresh(c) /\ StaysSilent(c)

Inv == TypeOK /\ StoreInv /\ RoundInv

LEMMA InvInit == Init => Inv
<1>. SUFFICES ASSUME Init PROVE StoreInv /\ RoundInv
  BY InitTypes DEF Inv
<1>. QED
  BY DEF Init, StoreInv, Fresh, StaysSilent, RoundInv

LEMMA RequestInv ==
  ASSUME Inv, NEW a \in Clusters, Heartbeat(a) \/ PushSnapshot(a) \/ Push(a)
  PROVE  (StoreInv /\ RoundInv)'
<1>. USE DEF Inv, TypeOK, StoreTypes, TriggerTypes, WorldTypes, StoreInv, Fresh, StaysSilent, RoundInv
<1>1. CASE Heartbeat(a)
  BY <1>1 DEF Heartbeat, trigger, Elapsed, Far
<1>2. CASE PushSnapshot(a)
  BY <1>2 DEF PushSnapshot, trigger, world
<1>3. CASE PushTimeline(a)
  BY <1>3 DEF PushTimeline, trigger, world
<1>4. CASE PushRecord(a)
  BY <1>4 DEF PushRecord, trigger, world, Elapsed, Far
<1>. QED
  BY <1>1, <1>2, <1>3, <1>4 DEF Push

LEMMA CleanInv == ASSUME Inv, Clean PROVE (StoreInv /\ RoundInv)'
<1>. USE DEF Inv, TypeOK, StoreTypes, TriggerTypes, WorldTypes, StoreInv, Fresh, StaysSilent, RoundInv
<1>1. CASE CleanMark
  BY <1>1 DEF CleanMark, trigger, world, Elapsed, Far
<1>2. CASE CleanDecide
  BY <1>2 DEF CleanDecide, trigger, world
<1>3. CASE CleanSnapshots
  BY <1>3 DEF CleanSnapshots, trigger, world
<1>4. CASE CleanTimelines
  BY <1>4 DEF CleanTimelines, trigger, world
<1>5. CASE CleanRecords
  BY <1>5 DEF CleanRecords, trigger, world
<1>. QED
  BY <1>1, <1>2, <1>3, <1>4, <1>5 DEF Clean

LEMMA ListInv == ASSUME Inv, CheckList PROVE (StoreInv /\ RoundInv)'
<1>. USE DEF Inv, TypeOK, StoreTypes, TriggerTypes, WorldTypes, StoreInv, Fresh, StaysSilent, RoundInv
<1>1. StoreInv'
  BY DEF CheckList, Listed, Suspect, store, world
<1>2. RoundInv'
  BY DEF CheckList, Listed, Suspect, store, world
<1>. QED
  BY <1>1, <1>2

LEMMA TurnInv == ASSUME Inv, NEW a \in Clusters, Turn(a) PROVE (StoreInv /\ RoundInv)'
<1>1. Done(a)
  BY Zenon DEF Turn, CheckNothing, CheckOffline, CheckRecovery, CheckRefused
<1>. QED
  BY <1>1 DEF Done, store, world, Inv, StoreInv, Fresh, StaysSilent, RoundInv

LEMMA TickInv == ASSUME Inv, Tick PROVE (StoreInv /\ RoundInv)'
<1>1. \A c \in Clusters : beat[c] \in Elapsed /\ silence[c] \in Elapsed
  BY DEF Inv, TypeOK, StoreTypes, WorldTypes
<1>2. ASSUME NEW c \in Clusters PROVE Fresh(c)'
  <2>1. beat[c] \in Elapsed /\ silence[c] \in Elapsed
    BY <1>1
  <2>2. beat[c] <= silence[c] => Later(beat[c]) <= Later(silence[c])
    BY <2>1, LaterGrows
  <2>3. silence[c] <= Later(silence[c]) /\ Later(silence[c]) \in Elapsed
    BY <2>1, LaterGrows, LaterType DEF Elapsed, Far
  <2>. QED
    BY <2>1, <2>2, <2>3 DEF Tick, Inv, StoreInv, Fresh, Elapsed, Far
<1>3. ASSUME NEW c \in Clusters PROVE StaysSilent(c)'
  <2>1. beat[c] <= Later(beat[c]) /\ Later(beat[c]) \in Elapsed
    BY <1>1, LaterGrows, LaterType DEF Elapsed, Far
  <2>. QED
    BY <1>1, <2>1 DEF Tick, Inv, StoreInv, StaysSilent, Elapsed, Far
<1>4. RoundInv'
  BY DEF Tick, Inv, RoundInv
<1>. QED
  BY <1>2, <1>3, <1>4 DEF StoreInv

LEMMA InvStep == Inv /\ [Next]_vars => Inv'
<1>. SUFFICES ASSUME Inv, [Next]_vars PROVE (StoreInv /\ RoundInv)'
  BY TypeStep DEF Inv
<1>1. CASE \E c \in Clusters :
             Heartbeat(c) \/ PushSnapshot(c) \/ PushTimeline(c) \/ PushRecord(c)
  BY <1>1, RequestInv DEF Push
<1>2. CASE \E c \in Clusters : Turn(c)
  BY <1>2, TurnInv
<1>3. CASE \E c \in Clusters : Start(c) \/ Stop(c)
  BY <1>3 DEF Start, Stop, store, trigger, Inv, StoreInv, Fresh, StaysSilent, RoundInv
<1>4. CASE Clean
  BY <1>4, CleanInv
<1>5. CASE CheckList
  BY <1>5, ListInv
<1>6. CASE Restart
  BY <1>6 DEF Restart, StoreInv, Fresh, StaysSilent, RoundInv
<1>7. CASE Tick
  BY <1>7, TickInv
<1>8. CASE UNCHANGED vars
  BY <1>8 DEF vars, store, trigger, world, Inv, StoreInv, Fresh, StaysSilent, RoundInv
<1>. QED
  BY <1>1, <1>2, <1>3, <1>4, <1>5, <1>6, <1>7, <1>8, Zenon DEF Next

LEMMA Invariance == Spec => []Inv
  BY InvInit, InvStep, PTL DEF Spec

-----------------------------------------------------------------------------
(* The two action properties. *)

\* Only a new round has new suspects.
LEMMA SuspectsStep ==
  Inv /\ [Next]_vars => \A c \in suspects' \ suspects : silence[c] > Expire
<1>. SUFFICES ASSUME Inv, [Next]_vars, NEW c \in suspects' \ suspects
              PROVE  silence[c] > Expire
  OBVIOUS
<1>1. CASE CheckList
  <2>1. c \in Clusters /\ status[c] # "none" /\ Suspect(c)
    BY <1>1 DEF CheckList, Listed
  <2>. QED
    BY <2>1 DEF Suspect, Inv, StoreInv, Fresh, TypeOK, StoreTypes, WorldTypes, Elapsed, Far
<1>2. CASE \E a \in Clusters : Turn(a)
  BY <1>2, Zenon DEF Turn, CheckNothing, CheckOffline, CheckRecovery, CheckRefused, Done
<1>3. CASE UNCHANGED trigger \/ Restart \/ Tick
  BY <1>3 DEF trigger, Restart, Tick
<1>. QED
  BY <1>1, <1>2, <1>3, Zenon
  DEF Next, vars, Heartbeat, PushSnapshot, PushTimeline, PushRecord, Start, Stop,
      Clean, CleanMark, CleanDecide, CleanSnapshots, CleanTimelines, CleanRecords

(* Whatever loops run late and whatever was wiped, a cluster is taken for  *)
(* offline only after a silence longer than OfflineAfter.                  *)
THEOREM FalseAlarms == Spec => NoFalseAlarm
<1>1. Inv /\ [Next]_vars => [\A c \in suspects' \ suspects : silence[c] > Expire]_vars
  BY SuspectsStep
<1>. QED
  BY <1>1, Invariance, PTL DEF Spec, NoFalseAlarm

\* Only its turn in a round that found it alive takes c off the alerted ones.
LEMMA AlertedStep ==
  Inv /\ [Next]_vars => \A c \in alerted \ alerted' : c \notin quiet \/ restarts' # restarts
<1>. SUFFICES ASSUME Inv, [Next]_vars, NEW c \in alerted \ alerted', restarts' = restarts
              PROVE  c \notin quiet
  OBVIOUS
<1>1. CASE \E a \in Clusters : CheckRecovery(a)
  <2>1. c \in todo /\ c \notin suspects /\ c \in Clusters
    BY <1>1 DEF CheckRecovery, Inv, TypeOK, TriggerTypes
  <2>. QED
    BY <2>1 DEF Inv, RoundInv
<1>2. CASE Restart
  BY <1>2 DEF Restart, Inv, TypeOK, WorldTypes
<1>3. CASE \E a \in Clusters : CheckOffline(a)
  BY <1>3 DEF CheckOffline
<1>4. CASE UNCHANGED alerted
  BY <1>4
<1>. QED
  BY <1>1, <1>2, <1>3, <1>4, Zenon
  DEF Next, vars, trigger, Turn, CheckNothing, CheckRefused, CheckList, Tick,
      Heartbeat, PushSnapshot, PushTimeline, PushRecord, Start, Stop,
      Clean, CleanMark, CleanDecide, CleanSnapshots, CleanTimelines, CleanRecords

(* A recovery is told only of a cluster that gave a sign of life since it  *)
(* was last found silent.                                                  *)
THEOREM Recoveries == Spec => RecoveryIsAlive
<1>1. Inv /\ [Next]_vars =>
        [\A c \in alerted \ alerted' : c \notin quiet \/ restarts' # restarts]_vars
  BY AlertedStep
<1>. QED
  BY <1>1, Invariance, PTL DEF Spec, RecoveryIsAlive

-----------------------------------------------------------------------------
(* Wiping. *)

\* How old a heartbeat gets that was not alerted for n refusals.
Patience(n) == Expire + n * CheckEvery

\* A round takes no time, and what it found alive is no older than Expire.
\* A silent cluster is unalerted until the next round, or once more for each
\* alert that was refused.
Unalerted(c) ==
  c \notin alerted =>
    /\ c \notin suspects => beat[c] <= Patience(failures) + checkAge
    /\ c \in suspects => beat[c] <= Patience(failures + 1)

RoundAge ==
  /\ todo # {} => checkAge = 0
  /\ \A c \in todo \ suspects : beat[c] <= Expire

NoRecord == \A c \in Clusters : status[c] = "none" => beat[c] = 0

PatienceInv == NoRecord /\ RoundAge /\ \A c \in Clusters : Unalerted(c)

LEMMA PatienceGrows ==
  ASSUME NEW n \in Nat
  PROVE  /\ Patience(n) \in Nat /\ Expire <= Patience(n)
         /\ Patience(n + 1) = Patience(n) + CheckEvery
         /\ \A m \in 0..n : Patience(m) <= Patience(n)
<1>1. n * CheckEvery \in Nat /\ (n + 1) * CheckEvery = n * CheckEvery + CheckEvery
  OBVIOUS
<1>2. ASSUME NEW m \in 0..n PROVE Patience(m) <= Patience(n)
  <2>1. PICK k \in Nat : n = m + k
    <3>1. n - m \in Nat /\ n = m + (n - m)
      OBVIOUS
    <3>. QED
      BY <3>1
  <2>2. m * CheckEvery \in Nat /\ k * CheckEvery \in Nat
    OBVIOUS
  <2>3. n * CheckEvery = m * CheckEvery + k * CheckEvery
    BY <2>1
  <2>. QED
    BY <1>1, <2>2, <2>3 DEF Patience
<1>. QED
  BY <1>1, <1>2 DEF Patience

LEMMA Refused ==
  ASSUME TypeOK
  PROVE  /\ Patience(failures) \in Nat /\ Expire <= Patience(failures)
         /\ Patience(failures + 1) = Patience(failures) + CheckEvery
         /\ failures \in 0..MaxFailures
  BY PatienceGrows DEF TypeOK, WorldTypes

LEMMA Numbers ==
  ASSUME TypeOK
  PROVE  checkAge \in 0..CheckEvery /\ \A c \in Clusters : beat[c] \in Nat
  BY DEF TypeOK, StoreTypes, TriggerTypes, Elapsed, Far

LEMMA PatienceInit == Init => PatienceInv
<1>. SUFFICES ASSUME Init PROVE PatienceInv
  OBVIOUS
<1>1. Patience(failures) \in Nat
  BY PatienceGrows DEF Init
<1>2. \A c \in Clusters : Unalerted(c)
  BY <1>1 DEF Init, Unalerted
<1>. QED
  BY <1>2 DEF Init, PatienceInv, RoundAge, NoRecord

\* Sending nothing, the Master only ever makes heartbeats younger.
LEMMA YoungerPatience ==
  ASSUME TypeOK, PatienceInv, UNCHANGED <<todo, suspects, alerted, checkAge, failures>>,
         \A c \in Clusters : beat'[c] = beat[c] \/ beat'[c] = 0,
         \A c \in Clusters : status'[c] = "none" => status[c] = "none" \/ beat'[c] = 0
  PROVE  PatienceInv'
<1>0. Patience(failures) \in Nat /\ Patience(failures + 1) \in Nat /\ checkAge \in Nat
  BY Refused, Numbers
<1>1. todo \subseteq Clusters
  BY DEF TypeOK, TriggerTypes
<1>2. RoundAge'
  BY <1>1 DEF PatienceInv, RoundAge
<1>3. \A c \in Clusters : Unalerted(c)'
  BY <1>0 DEF PatienceInv, Unalerted, Patience
<1>. QED
  BY <1>2, <1>3 DEF PatienceInv, NoRecord

LEMMA ListPatience == ASSUME Inv, PatienceInv, CheckList PROVE PatienceInv'
<1>0. TypeOK /\ UNCHANGED <<status, beat, alerted, failures>>
  BY DEF Inv, CheckList, store, bounds
<1>1. /\ todo = {} /\ suspects = {} /\ checkAge = CheckEvery /\ checkAge' = 0
      /\ todo' = Listed /\ suspects' = {c \in Listed : Suspect(c)}
  BY DEF CheckList, Inv, RoundInv
<1>2. RoundAge'
  BY <1>0, <1>1, Numbers DEF RoundAge, Listed, Suspect
<1>3. ASSUME NEW c \in Clusters, c \notin alerted PROVE Unalerted(c)'
  <2>1. beat[c] <= Patience(failures + 1)
    BY <1>0, <1>1, <1>3, Refused DEF PatienceInv, Unalerted
  <2>2. c \notin suspects' => beat[c] <= Expire
    <3>1. CASE c \in Listed
      BY <1>0, <1>1, <3>1, Numbers DEF Suspect
    <3>2. CASE c \notin Listed
      BY <3>2 DEF Listed, PatienceInv, NoRecord
    <3>. QED
      BY <3>1, <3>2
  <2>. QED
    BY <1>0, <1>1, <2>1, <2>2, Refused, Numbers DEF Unalerted, Patience
<1>4. \A c \in Clusters : Unalerted(c)'
  BY <1>0, <1>3 DEF Unalerted
<1>. QED
  BY <1>0, <1>2, <1>4 DEF PatienceInv, NoRecord

LEMMA TurnPatience ==
  ASSUME Inv, PatienceInv, NEW a \in Clusters, Turn(a)
  PROVE  PatienceInv'
<1>0. TypeOK /\ Done(a) /\ a \in todo
  BY Zenon DEF Inv, Turn, CheckNothing, CheckOffline, CheckRecovery, CheckRefused
<1>1. /\ todo' = todo \ {a} /\ suspects' = suspects \ {a}
      /\ UNCHANGED <<checkAge, status, beat>>
  BY <1>0 DEF Done, store
<1>2. RoundAge' /\ NoRecord'
  <2>1. todo \subseteq Clusters
    BY <1>0 DEF TypeOK, TriggerTypes
  <2>. QED
    BY <1>0, <1>1, <2>1 DEF PatienceInv, RoundAge, NoRecord
<1>3. /\ checkAge \in Nat /\ \A c \in Clusters : beat[c] \in Nat
      /\ Patience(failures) \in Nat /\ Expire <= Patience(failures)
      /\ Patience(failures + 1) = Patience(failures) + CheckEvery
      /\ failures + 1 \in Nat
  BY <1>0, Refused, Numbers
<1>4. ASSUME UNCHANGED <<alerted, failures>>, a \in suspects => a \in alerted
      PROVE  \A c \in Clusters : Unalerted(c)'
  BY <1>1, <1>4 DEF PatienceInv, Unalerted, Patience
<1>5. CASE CheckNothing(a)
  BY <1>2, <1>4, <1>5 DEF CheckNothing, PatienceInv
<1>6. CASE CheckOffline(a)
  <2>1. UNCHANGED failures /\ alerted' = alerted \cup {a}
    BY <1>6 DEF CheckOffline
  <2>2. \A c \in Clusters : Unalerted(c)'
    BY <1>1, <2>1 DEF PatienceInv, Unalerted, Patience
  <2>. QED
    BY <1>2, <2>2 DEF PatienceInv
<1>7. CASE CheckRecovery(a)
  <2>1. UNCHANGED failures /\ alerted' = alerted \ {a} /\ beat[a] <= Expire
    BY <1>0, <1>7 DEF CheckRecovery, PatienceInv, RoundAge
  <2>2. beat[a] <= Patience(failures) + checkAge
    BY <1>3, <2>1
  <2>3. \A c \in Clusters : Unalerted(c)'
    BY <1>1, <2>1, <2>2 DEF PatienceInv, Unalerted, Patience
  <2>. QED
    BY <1>2, <2>3 DEF PatienceInv
<1>8. CASE CheckRefused(a)
  <2>1. failures' = failures + 1 /\ alerted' = alerted
    BY <1>8 DEF CheckRefused
  <2>2. Patience(failures') = Patience(failures) + CheckEvery
    BY <1>3, <2>1
  <2>3. Patience(failures' + 1) = Patience(failures) + CheckEvery + CheckEvery
    BY <1>3, <2>1, PatienceGrows
  <2>4. \A c \in Clusters : Unalerted(c)'
    <3>. SUFFICES ASSUME NEW c \in Clusters, c \notin alerted PROVE Unalerted(c)'
      BY <2>1 DEF Unalerted
    <3>1. c \notin suspects => beat[c] <= Patience(failures) + checkAge
      BY DEF PatienceInv, Unalerted
    <3>2. c \in suspects => beat[c] <= Patience(failures) + CheckEvery
      BY <1>3 DEF PatienceInv, Unalerted
    <3>3. beat[c] <= Patience(failures') + checkAge'
      BY <1>1, <1>3, <2>2, <3>1, <3>2
    <3>4. c \in suspects' => beat[c] <= Patience(failures' + 1)
      BY <1>1, <1>3, <2>3, <3>2
    <3>. QED
      BY <1>1, <3>3, <3>4 DEF Unalerted, Patience
  <2>. QED
    BY <1>2, <2>4 DEF PatienceInv
<1>. QED
  BY <1>5, <1>6, <1>7, <1>8 DEF Turn

\* While no round is held up, time passes between rounds only.
LEMMA TickPatience ==
  ASSUME Inv, PatienceInv, Tick, ~dragged'
  PROVE  PatienceInv'
<1>0. TypeOK
  BY DEF Inv
<1>1. todo = {} /\ suspects = {} /\ checkAge < CheckEvery
  BY DEF Tick, Punctual, Inv, RoundInv, TypeOK, WorldTypes
<1>2. /\ checkAge' = checkAge + 1
      /\ UNCHANGED <<status, todo, suspects, alerted, failures>>
  BY <1>1 DEF Tick, bounds
<1>3. \A c \in Clusters : beat'[c] <= beat[c] + 1 /\ (status[c] = "none" => beat'[c] = 0)
  BY <1>0 DEF Tick, Later, TypeOK, StoreTypes, Elapsed, Far
<1>4. \A c \in Clusters : beat'[c] \in Nat
  BY <1>0, TickTypes DEF TypeOK, StoreTypes, Elapsed, Far
<1>5. ASSUME NEW c \in Clusters PROVE Unalerted(c)'
  <2>1. c \notin alerted => beat[c] <= Patience(failures) + checkAge
    BY <1>1 DEF PatienceInv, Unalerted
  <2>2. c \notin alerted => beat'[c] <= Patience(failures) + checkAge'
    BY <1>0, <1>2, <1>3, <1>4, <2>1, Refused, Numbers
  <2>. QED
    BY <1>1, <1>2, <2>2 DEF Unalerted, Patience
<1>6. RoundAge' /\ NoRecord'
  BY <1>1, <1>2, <1>3 DEF RoundAge, NoRecord
<1>. QED
  BY <1>5, <1>6 DEF PatienceInv

\* What is known while no round of this process has been held up.
Undragged == dragged \/ PatienceInv

\* That a round was held up is not forgotten before the next restart.
LEMMA DraggedStays == ASSUME [Next]_vars, ~Restart, dragged PROVE dragged'
<1>1. CASE \E c \in Clusters :
             Heartbeat(c) \/ PushSnapshot(c) \/ PushTimeline(c) \/ PushRecord(c)
  BY <1>1 DEF Heartbeat, PushSnapshot, PushTimeline, PushRecord
<1>2. CASE \E c \in Clusters : Turn(c) \/ Start(c) \/ Stop(c)
  BY <1>2 DEF Turn, CheckNothing, CheckOffline, CheckRecovery, CheckRefused, Done, Start, Stop
<1>3. CASE Clean \/ CheckList \/ UNCHANGED vars
  BY <1>3 DEF Clean, CleanMark, CleanDecide, CleanSnapshots, CleanTimelines, CleanRecords,
              CheckList, vars
<1>4. CASE Tick
  BY <1>4 DEF Tick
<1>. QED
  BY <1>1, <1>2, <1>3, <1>4, Zenon DEF Next

LEMMA PatienceStep == Inv /\ Undragged /\ [Next]_vars => Undragged'
<1>. SUFFICES ASSUME Inv, Undragged, [Next]_vars, ~dragged' PROVE PatienceInv'
  BY DEF Undragged
<1>0. TypeOK
  BY DEF Inv
<1>1. CASE Restart
  <2>1. /\ todo' = {} /\ suspects' = {} /\ checkAge' = CheckEvery /\ UNCHANGED failures
        /\ \A c \in Clusters : beat'[c] = 0
    BY <1>1 DEF Restart
  <2>2. \A c \in Clusters : Unalerted(c)'
    BY <1>0, <2>1, Refused DEF Unalerted, Patience
  <2>. QED
    BY <2>1, <2>2 DEF PatienceInv, RoundAge, NoRecord
<1>2. CASE ~Restart
  <2>. SUFFICES ASSUME PatienceInv PROVE PatienceInv'
    BY <1>2, DraggedStays DEF Undragged
  <2>1. CASE \E c \in Clusters :
               Heartbeat(c) \/ PushSnapshot(c) \/ PushTimeline(c) \/ PushRecord(c)
    <3>1. UNCHANGED <<todo, suspects, alerted, checkAge, failures>>
      BY <2>1 DEF Heartbeat, PushSnapshot, PushTimeline, PushRecord, trigger, bounds
    <3>2. \A c \in Clusters : /\ beat'[c] = beat[c] \/ beat'[c] = 0
                              /\ status'[c] = "none" => status[c] = "none"
      BY <1>0, <2>1 DEF Heartbeat, PushSnapshot, PushTimeline, PushRecord, TypeOK, StoreTypes
    <3>. QED
      BY <1>0, <3>1, <3>2, YoungerPatience
  <2>2. CASE \E c \in Clusters : Turn(c)
    BY <2>2, TurnPatience
  <2>3. CASE (\E c \in Clusters : Start(c) \/ Stop(c)) \/ UNCHANGED vars
    <3>1. UNCHANGED <<todo, suspects, alerted, checkAge, failures, status, beat>>
      BY <2>3 DEF Start, Stop, vars, store, trigger, bounds
    <3>. QED
      BY <1>0, <3>1, YoungerPatience
  <2>4. CASE Clean
    <3>1. UNCHANGED <<todo, suspects, alerted, checkAge, failures>>
      BY <2>4 DEF Clean, CleanMark, CleanDecide, CleanSnapshots, CleanTimelines, CleanRecords,
                  trigger, bounds
    <3>2. \A c \in Clusters : /\ beat'[c] = beat[c] \/ beat'[c] = 0
                              /\ status'[c] = "none" => status[c] = "none" \/ beat'[c] = 0
      BY <1>0, <2>4
      DEF Clean, CleanMark, CleanDecide, CleanSnapshots, CleanTimelines, CleanRecords,
          TypeOK, StoreTypes
    <3>. QED
      BY <1>0, <3>1, <3>2, YoungerPatience
  <2>5. CASE CheckList
    BY <2>5, ListPatience
  <2>6. CASE Tick
    BY <2>6, TickPatience
  <2>. QED
    BY <1>2, <2>1, <2>2, <2>3, <2>4, <2>5, <2>6, Zenon DEF Next
<1>. QED
  BY <1>1, <1>2

(* How late an absence is told at most.                                    *)
PromptAlert ==
  dragged \/ \A c \in Clusters : beat[c] > Patience(failures + 1) => c \in alerted

LEMMA Prompt ==
  ASSUME TypeOK, PatienceInv, NEW c \in Clusters, beat[c] > Patience(failures + 1)
  PROVE  c \in alerted
  BY Refused, Numbers DEF PatienceInv, Unalerted

\* Only the decision to wipe has new victims, and it takes none that is
\* younger than WipeAfter.
LEMMA DoomedStep ==
  ASSUME Expire + (MaxFailures + 1) * CheckEvery <= WipeAfter
  PROVE  Inv /\ PatienceInv /\ [Next]_vars => doomed' \ doomed \subseteq alerted
<1>. SUFFICES ASSUME Inv, PatienceInv, [Next]_vars, NEW c \in doomed' \ doomed, c \notin alerted
              PROVE  FALSE
  OBVIOUS
<1>0. TypeOK
  BY DEF Inv
<1>1. CASE CleanDecide
  <2>1. c \in Clusters /\ beat[c] > WipeAfter
    BY <1>1 DEF CleanDecide, Abandoned
  <2>2. beat[c] <= Patience(failures + 1)
    BY <1>0, <2>1, Prompt, Refused, Numbers
  <2>3. Patience(failures + 1) <= Patience(MaxFailures + 1)
    BY <1>0, Refused, PatienceGrows
  <2>4. Patience(MaxFailures + 1) <= WipeAfter
    BY DEF Patience
  <2>5. Patience(failures + 1) \in Nat /\ Patience(MaxFailures + 1) \in Nat /\ beat[c] \in Nat
    BY <1>0, <2>1, Refused, Numbers, PatienceGrows
  <2>. QED
    BY <2>1, <2>2, <2>3, <2>4, <2>5
<1>2. CASE doomed' = doomed \/ doomed' = {}
  BY <1>2
<1>3. CASE \E a \in Clusters : Turn(a)
  BY <1>2, <1>3, Zenon
  DEF Turn, CheckNothing, CheckOffline, CheckRecovery, CheckRefused, Done, store
<1>. QED
  BY <1>1, <1>2, <1>3
  DEF Next, vars, store, CheckList, Tick, Restart, Heartbeat, PushSnapshot, PushTimeline,
      PushRecord, Start, Stop, Clean, CleanMark, CleanSnapshots, CleanTimelines, CleanRecords

(* When the time until a cluster is wiped exceeds that until it is taken   *)
(* for offline by one check more than the manager refuses alerts, and no   *)
(* round of the check was held up, no cluster is wiped without its alert:  *)
(* for any clusters and durations, and restarts at any time.               *)
THEOREM Wiping ==
  ASSUME Expire + (MaxFailures + 1) * CheckEvery <= WipeAfter
  PROVE  Spec => WipedIsAlerted
<1>1. Init => Inv /\ Undragged
  BY InvInit, PatienceInit DEF Undragged
<1>2. (Inv /\ Undragged) /\ [Next]_vars => (Inv /\ Undragged)'
  BY InvStep, PatienceStep
<1>3. (Inv /\ Undragged) /\ [Next]_vars => [dragged \/ doomed' \ doomed \subseteq alerted]_vars
  BY DoomedStep DEF Undragged
<1>. QED
  BY <1>1, <1>2, <1>3, PTL DEF Spec, WipedIsAlerted

(* A cluster with a record whose last heartbeat is older than Expire, a    *)
(* check, and one more check for every alert that was refused, has been    *)
(* alerted (HeartbeatTrigger.check), unless a round was held up: the two   *)
(* loops together, with their copies of each other's state, miss nobody.   *)
THEOREM Detection == Spec => []PromptAlert
<1>1. Init => Inv /\ Undragged
  BY InvInit, PatienceInit DEF Undragged
<1>2. (Inv /\ Undragged) /\ [Next]_vars => (Inv /\ Undragged)'
  BY InvStep, PatienceStep
<1>3. Inv /\ Undragged => PromptAlert
  BY Prompt DEF Inv, Undragged, PromptAlert
<1>. QED
  BY <1>1, <1>2, <1>3, PTL DEF Spec
=============================================================================
