---------------------------- MODULE AgentRegistry ----------------------------
(***************************************************************************)
(* What the Master knows of its Agents.  Heartbeats and snapshots keep a   *)
(* record of each cluster in MemoryStore; a loop marks clusters offline    *)
(* when their heartbeat expires and wipes everything of those that stay    *)
(* away; and HeartbeatTrigger goes round the records and sends an alert    *)
(* when a cluster goes away and another one when it is back.               *)
(*                                                                         *)
(* Snapshots, timelines and records have a lock each.  SetSnapshot and     *)
(* the wiping take them one after the other, and the wiping decides under  *)
(* a read lock it has released by then; one action is what happens under   *)
(* one lock.  The trigger works on copies of the records.                  *)
(*                                                                         *)
(* The Agent sends heartbeats and snapshots from two loops, so either may  *)
(* reach the Master without the other: a snapshot may come at any time.    *)
(* Snapshots of one cluster come one after the other.                      *)
(***************************************************************************)
EXTENDS Integers

CONSTANTS
  Clusters,     \* the clusters, one Agent each
  Faults,       \* the kinds of failure that may happen
  Expire,       \* heartbeatExpire, which is also OfflineAfter of the trigger
  CheckEvery,   \* CheckInterval of the trigger
  WipeAfter,    \* twice the retention of snapshots
  MaxFailures,  \* bound: alerts the manager refuses
  MaxRestarts   \* bound: restarts of the Master

\* slow: sending alerts takes time.
ASSUME FaultsAssumption == Faults \subseteq {"restart", "slow"}
ASSUME DurationsAssumption ==
  /\ Expire \in Nat /\ CheckEvery \in Nat /\ WipeAfter \in Nat
  /\ Expire < WipeAfter
ASSUME BoundsAssumption == MaxFailures \in Nat /\ MaxRestarts \in Nat

\* A time is kept as the time elapsed since it; beyond the longest duration
\* the code compares it with, longer makes no difference, and never is as long.
Far == WipeAfter + 1
Elapsed == 0..Far
Later(t) == IF t = Far THEN Far ELSE t + 1

VARIABLES
  status,    \* agents[c].Status, "none" without a record
  beat,      \* time since agents[c].LastHeartbeat
  data,      \* which of snapshots[c] and otelTimeline[c] there are
  pushing,   \* where SetSnapshot(c) is
  cleaning,  \* where cleanupLoop is
  doomed,    \* offlineClusters of cleanupOfflineClusterData
  todo,      \* the records check has listed and not yet gone through
  suspects,  \* those of them that isOffline
  alerted,   \* alerted of HeartbeatTrigger
  checkAge,  \* time since check was last begun
  up,        \* the Agents whose heartbeats reach the Master
  silence,   \* time since the last heartbeat received of c
  failures,  \* alerts the manager refused
  restarts,  \* how often the Master was restarted
  quiet,     \* history variable: suspects that gave no sign of life since
  dragged    \* history variable: time has passed during a round of this process

store   == <<status, beat, data, pushing, cleaning, doomed>>
trigger == <<todo, suspects, alerted, checkAge>>
world   == <<up, silence>>
bounds  == <<failures, restarts>>
history == <<quiet, dragged>>
vars    == <<store, trigger, world, bounds, history>>

StoreTypes ==
  /\ status \in [Clusters -> {"none", "online", "offline"}]
  /\ beat \in [Clusters -> Elapsed]
  /\ data \in [Clusters -> SUBSET {"snapshot", "timeline"}]
  /\ pushing \in [Clusters -> {"idle", "append", "record"}]
  /\ cleaning \in {"idle", "decide", "snapshots", "timelines", "records"}
  /\ doomed \in SUBSET Clusters

TriggerTypes ==
  /\ todo \in SUBSET Clusters
  /\ suspects \in SUBSET Clusters
  /\ alerted \in SUBSET Clusters
  /\ checkAge \in 0..CheckEvery
  /\ quiet \in SUBSET Clusters

WorldTypes ==
  /\ up \in SUBSET Clusters
  /\ silence \in [Clusters -> Elapsed]
  /\ failures \in 0..MaxFailures
  /\ restarts \in 0..MaxRestarts
  /\ dragged \in BOOLEAN

TypeOK == StoreTypes /\ TriggerTypes /\ WorldTypes

\* The first check is due at once.
Init ==
  /\ status = [c \in Clusters |-> "none"]
  /\ beat = [c \in Clusters |-> 0]
  /\ data = [c \in Clusters |-> {}]
  /\ pushing = [c \in Clusters |-> "idle"]
  /\ cleaning = "idle"
  /\ doomed = {}
  /\ todo = {}
  /\ suspects = {}
  /\ alerted = {}
  /\ checkAge = CheckEvery
  /\ up = {}
  /\ silence = [c \in Clusters |-> Far]
  /\ failures = 0
  /\ restarts = 0
  /\ quiet = {}
  /\ dragged = FALSE

-----------------------------------------------------------------------------
(* Requests of the Agents. *)

\* Faulty variant: the heartbeat sets the status and not its time.
HeartbeatWithoutTime(c) ==
  /\ c \in up
  /\ status' = [status EXCEPT ![c] = "online"]
  /\ silence' = [silence EXCEPT ![c] = 0]
  /\ quiet' = quiet \ {c}
  /\ UNCHANGED <<beat, data, pushing, cleaning, doomed, trigger, up, bounds, dragged>>

\* Faulty variant: the heartbeat sets its time and not the status.
HeartbeatWithoutStatus(c) ==
  /\ c \in up
  /\ status' = [status EXCEPT ![c] = IF @ = "none" THEN "online" ELSE @]
  /\ beat' = [beat EXCEPT ![c] = 0]
  /\ silence' = [silence EXCEPT ![c] = 0]
  /\ quiet' = quiet \ {c}
  /\ UNCHANGED <<data, pushing, cleaning, doomed, trigger, up, bounds, dragged>>

\* Faulty variant: the heartbeat of a cluster without a record is dropped.
HeartbeatOfKnown(c) ==
  /\ c \in up
  /\ status' = [status EXCEPT ![c] = IF @ = "none" THEN "none" ELSE "online"]
  /\ beat' = [beat EXCEPT ![c] = 0]
  /\ silence' = [silence EXCEPT ![c] = 0]
  /\ quiet' = quiet \ {c}
  /\ UNCHANGED <<data, pushing, cleaning, doomed, trigger, up, bounds, dragged>>

\* ProcessHeartbeat, UpdateHeartbeat
Heartbeat(c) ==
  /\ c \in up
  /\ status' = [status EXCEPT ![c] = "online"]
  /\ beat' = [beat EXCEPT ![c] = 0]
  /\ silence' = [silence EXCEPT ![c] = 0]
  /\ quiet' = quiet \ {c}
  /\ UNCHANGED <<data, pushing, cleaning, doomed, trigger, up, bounds, dragged>>

\* ProcessSnapshot, and the first of the locks of SetSnapshot
PushSnapshot(c) ==
  /\ pushing[c] = "idle"
  /\ data' = [data EXCEPT ![c] = @ \cup {"snapshot"}]
  /\ pushing' = [pushing EXCEPT ![c] = "append"]
  /\ UNCHANGED <<status, beat, cleaning, doomed, trigger, world, bounds, history>>

\* appendOTel, if the snapshot has any OTel
PushTimeline(c) ==
  /\ pushing[c] = "append"
  /\ \E appended \in SUBSET {"timeline"} : data' = [data EXCEPT ![c] = @ \cup appended]
  /\ pushing' = [pushing EXCEPT ![c] = "record"]
  /\ UNCHANGED <<status, beat, cleaning, doomed, trigger, world, bounds, history>>

\* Faulty variant: the record has no heartbeat time.
PushRecordWithoutBeat(c) ==
  /\ pushing[c] = "record"
  /\ pushing' = [pushing EXCEPT ![c] = "idle"]
  /\ \/ status[c] # "none" /\ UNCHANGED <<status, beat>>
     \/ /\ status[c] = "none"
        /\ status' = [status EXCEPT ![c] = "online"]
        /\ beat' = [beat EXCEPT ![c] = -1]
  /\ quiet' = quiet \ {c}
  /\ UNCHANGED <<data, cleaning, doomed, trigger, world, bounds, dragged>>

\* A cluster without a record gets one, which is online and has a heartbeat.
PushRecord(c) ==
  /\ pushing[c] = "record"
  /\ pushing' = [pushing EXCEPT ![c] = "idle"]
  /\ \/ status[c] # "none" /\ UNCHANGED <<status, beat>>
     \/ /\ status[c] = "none"
        /\ status' = [status EXCEPT ![c] = "online"]
        /\ beat' = [beat EXCEPT ![c] = 0]
  /\ quiet' = quiet \ {c}
  /\ UNCHANGED <<data, cleaning, doomed, trigger, world, bounds, dragged>>

Push(c) == PushTimeline(c) \/ PushRecord(c)

-----------------------------------------------------------------------------
(* cleanupLoop of the store. *)

\* updateAgentStatus
CleanMark ==
  /\ cleaning = "idle"
  /\ status' = [c \in Clusters |->
       IF status[c] = "online" /\ beat[c] > Expire THEN "offline" ELSE status[c]]
  /\ cleaning' = "decide"
  /\ UNCHANGED <<beat, data, pushing, doomed, trigger, world, bounds, history>>

\* Faulty variant: being offline is enough.
AbandonedAtOnce(c) == status[c] = "offline"

Abandoned(c) == status[c] = "offline" /\ beat[c] > WipeAfter

\* cleanupOfflineClusterData under its read lock
CleanDecide ==
  /\ cleaning = "decide"
  /\ doomed' = {c \in Clusters : Abandoned(c)}
  /\ cleaning' = IF doomed' = {} THEN "idle" ELSE "snapshots"
  /\ UNCHANGED <<status, beat, data, pushing, trigger, world, bounds, history>>

Without(part) ==
  data' = [c \in Clusters |-> IF c \in doomed THEN data[c] \ {part} ELSE data[c]]

CleanSnapshots ==
  /\ cleaning = "snapshots"
  /\ Without("snapshot")
  /\ cleaning' = "timelines"
  /\ UNCHANGED <<status, beat, pushing, doomed, trigger, world, bounds, history>>

CleanTimelines ==
  /\ cleaning = "timelines"
  /\ Without("timeline")
  /\ cleaning' = "records"
  /\ UNCHANGED <<status, beat, pushing, doomed, trigger, world, bounds, history>>

CleanRecords ==
  /\ cleaning = "records"
  /\ status' = [c \in Clusters |-> IF c \in doomed THEN "none" ELSE status[c]]
  /\ beat' = [c \in Clusters |-> IF c \in doomed THEN 0 ELSE beat[c]]
  /\ doomed' = {}
  /\ cleaning' = "idle"
  /\ UNCHANGED <<data, pushing, trigger, world, bounds, history>>

Clean == CleanMark \/ CleanDecide \/ CleanSnapshots \/ CleanTimelines \/ CleanRecords

-----------------------------------------------------------------------------
(* check of the trigger. *)

\* Faulty variant: a cluster without a record is gone through too.
AllClusters == {c \in Clusters : TRUE}

Listed == {c \in Clusters : status[c] # "none"}

\* isOffline
Suspect(c) == status[c] = "offline" \/ beat[c] > Expire

CheckList ==
  /\ todo = {}
  /\ checkAge = CheckEvery
  /\ checkAge' = 0
  /\ todo' = Listed
  /\ suspects' = {c \in Listed : Suspect(c)}
  /\ quiet' = quiet \cup suspects'
  /\ UNCHANGED <<store, alerted, world, bounds, dragged>>

\* The turn of c is over.
Done(c) ==
  /\ todo' = todo \ {c}
  /\ suspects' = suspects \ {c}
  /\ UNCHANGED <<checkAge, store, world, restarts, history>>

CheckNothing(c) ==
  /\ c \in todo
  /\ c \in suspects <=> c \in alerted
  /\ Done(c)
  /\ UNCHANGED <<alerted, failures>>

\* triggerOffline, triggerRecovery: the manager has taken the alert.
CheckOffline(c) ==
  /\ c \in (todo \cap suspects) \ alerted
  /\ alerted' = alerted \cup {c}
  /\ Done(c)
  /\ UNCHANGED failures

CheckRecovery(c) ==
  /\ c \in (todo \cap alerted) \ suspects
  /\ alerted' = alerted \ {c}
  /\ Done(c)
  /\ UNCHANGED failures

\* ListEnabled has failed: the next round tries again.
CheckRefused(c) ==
  /\ c \in todo
  /\ ~(c \in suspects <=> c \in alerted)
  /\ failures < MaxFailures
  /\ failures' = failures + 1
  /\ Done(c)
  /\ UNCHANGED alerted

Turn(c) == CheckNothing(c) \/ CheckOffline(c) \/ CheckRecovery(c) \/ CheckRefused(c)

-----------------------------------------------------------------------------
(* The world. *)

Start(c) ==
  /\ up' = up \cup {c}
  /\ UNCHANGED <<store, trigger, silence, bounds, history>>

Stop(c) ==
  /\ up' = up \ {c}
  /\ UNCHANGED <<store, trigger, silence, bounds, history>>

\* The Master keeps nothing of all this over a restart.
Restart ==
  /\ "restart" \in Faults
  /\ restarts < MaxRestarts
  /\ restarts' = restarts + 1
  /\ status' = [c \in Clusters |-> "none"]
  /\ beat' = [c \in Clusters |-> 0]
  /\ data' = [c \in Clusters |-> {}]
  /\ pushing' = [c \in Clusters |-> "idle"]
  /\ cleaning' = "idle"
  /\ doomed' = {}
  /\ todo' = {}
  /\ suspects' = {}
  /\ alerted' = {}
  /\ checkAge' = CheckEvery
  /\ quiet' = {}
  /\ dragged' = FALSE
  /\ UNCHANGED <<world, failures>>

\* An Agent that is up beats in time (three times per expiry), and checks are
\* done when they are due.
Punctual ==
  /\ \A c \in up : silence[c] < Expire
  /\ \/ "slow" \in Faults /\ todo # {}
     \/ todo = {} /\ checkAge < CheckEvery

Tick ==
  /\ Punctual
  /\ beat' = [c \in Clusters |-> IF status[c] = "none" THEN 0 ELSE Later(beat[c])]
  /\ silence' = [c \in Clusters |-> Later(silence[c])]
  /\ checkAge' = IF checkAge < CheckEvery THEN checkAge + 1 ELSE checkAge
  /\ dragged' = (dragged \/ todo # {})
  /\ UNCHANGED <<status, data, pushing, cleaning, doomed, todo, suspects, alerted, up, bounds, quiet>>

Next ==
  \/ \E c \in Clusters :
       \/ Heartbeat(c)
       \/ PushSnapshot(c)
       \/ PushTimeline(c)
       \/ PushRecord(c)
       \/ Turn(c)
       \/ Start(c)
       \/ Stop(c)
  \/ Clean
  \/ CheckList
  \/ Restart
  \/ Tick

Spec == Init /\ [][Next]_vars

\* Time passes, the loops of the Master go round, its handlers come to their
\* end, and an Agent that is up beats.
Fairness ==
  /\ WF_vars(Tick)
  /\ WF_vars(Clean)
  /\ WF_vars(CheckList)
  /\ \A c \in Clusters : WF_vars(Heartbeat(c)) /\ WF_vars(Push(c)) /\ WF_vars(Turn(c))

FairSpec == Spec /\ Fairness

-----------------------------------------------------------------------------
(* Properties. *)

(* A cluster is taken for offline only when none of its heartbeats has     *)
(* come for longer than OfflineAfter (isOffline), although the status it   *)
(* looks at was set by another loop at another time, and was perhaps       *)
(* wiped and created anew since.                                           *)
NoFalseAlarm ==
  [][\A c \in suspects' \ suspects : silence[c] > Expire]_vars

(* "The Agent's heartbeat is back" (triggerRecovery) is told only of a     *)
(* cluster that gave a sign of life, by heartbeat or by snapshot, after    *)
(* the check that last found it silent: a stale copy, a record that was    *)
(* wiped or a refused alert do not make a dead cluster recover.            *)
RecoveryIsAlive ==
  [][\A c \in alerted \ alerted' : c \notin quiet \/ restarts' # restarts]_vars

(* A cluster is wiped, and with it all trace that there was one, only      *)
(* after the alert about its absence has been taken by the manager, unless *)
(* sending the alerts of others has held up a round of the check           *)
(* (cleanupOfflineClusterData, triggerOffline).                            *)
WipedIsAlerted ==
  [][dragged \/ doomed' \ doomed \subseteq alerted]_vars

(* A cluster whose heartbeats keep coming is in the end listed as online   *)
(* for good (UpdateHeartbeat), also when the wiping it had been due for is *)
(* done after it came back.                                                *)
ConnectedIsOnline ==
  \A c \in Clusters : <>[](c \in up) => <>[](status[c] = "online")

(* An alert is followed by the other one: of a cluster that went away if   *)
(* it stays away, and of an alerted cluster that came back (check).        *)
ChangesAreTold ==
  \A c \in Clusters :
    /\ status[c] # "none" /\ c \notin up ~> c \in alerted \cup up \/ status[c] = "none"
    /\ c \in alerted \cap up ~> c \notin alerted \cap up
=============================================================================
