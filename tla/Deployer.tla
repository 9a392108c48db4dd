------------------------------ MODULE Deployer ------------------------------
(***************************************************************************)
(* Continuous deployment by the Master.  A loop looks at the newest commit *)
(* of the configuration repository and deploys the configured paths that   *)
(* changed since the last commit it has dealt with; SyncNow deploys one    *)
(* path in a goroutine of its own.  Both run deployPath: render, send the  *)
(* manifests to the Agent, wait for its answer, write a history record.    *)
(* The Agent applies the resources of a command one by one and passes over *)
(* those the cluster refuses.                                              *)
(*                                                                         *)
(* Commits are numbered in the order of the branch.  The command bus is    *)
(* seen from outside: commands of the Agent's queue are executed in the    *)
(* order they were sent (CommandDeliveryProofs!InOrder) or lost.           *)
(***************************************************************************)
EXTENDS Naturals, Sequences, FiniteSets

CONSTANTS
  Paths,        \* the kustomize paths of the repository
  Poll,         \* the poll loop; a manual sync is named by its path
  Outer,        \* paths whose name is a prefix of the names of all others
  MaxCommits,   \* bound: commits on the branch
  MaxRequests,  \* bound: requests of the console: syncs and changes of the configuration
  MaxFaults     \* bound: restarts, and failures of GitHub, kustomize, database, Agent or cluster

ASSUME PathsAssumption == Paths # {} /\ Poll \notin Paths
ASSUME OuterAssumption == Outer \subseteq Paths
ASSUME BoundsAssumption ==
  MaxCommits \in Nat \ {0} /\ MaxRequests \in Nat /\ MaxFaults \in Nat

Workers  == {Poll} \cup Paths
Commits  == 0..MaxCommits    \* 0: no commit, the empty lastCommitSHA
Outcomes == {"pending", "success", "failed"}
Places   == {"idle", "loaded", "fetched", "next", "claimed", "render", "wait", "record"}

\* Where the loop is before it has decided what to deploy.
Looking == {"idle", "loaded", "fetched"}

VARIABLES
  head,        \* the newest commit
  touched,     \* the paths whose files each commit changes
  configured,  \* Paths of the deploy_config row
  auto,        \* its AutoDeploy; FALSE also stands for no row
  last,        \* lastCommitSHA
  deploying,   \* deploying
  loaded,      \* the Paths the loop has read and not yet compared
  todo,        \* affectedPaths not yet gone through by checkAndDeploy
  pc,          \* where each worker is
  pollPath,    \* the path the loop deploys
  commit,      \* commitSHA of a worker
  stamp,       \* DeployedAt of a worker, which is also its command's ID
  outcome,     \* record.Status of a worker
  queue,       \* the commands sent and not yet executed
  latest,      \* the newest deploy_history row of each path
  applied,     \* the commit whose resources the Agent last applied for each path
  stamps,      \* the number of deployments begun
  requests,    \* bounded by MaxRequests
  faults,      \* bounded by MaxFaults
  forgotten,   \* history variable: paths given up although they changed
  took,        \* history variable: commands whose resources were applied, as reported
  whole        \* history variable: those of them with no resource refused

repo    == <<head, touched>>
config  == <<configured, auto>>
loop    == <<last, loaded, todo>>
work    == <<pc, pollPath, commit, stamp, outcome>>
bounds  == <<requests, faults>>
history == <<forgotten, took, whole>>
vars    == <<repo, config, loop, work, deploying, queue, latest, applied, stamps, bounds, history>>

Commands == [path : Paths, commit : Commits, stamp : Nat, by : Workers]

TypeOK ==
  /\ head \in 1..MaxCommits
  /\ touched \in [1..MaxCommits -> SUBSET Paths]
  /\ configured \subseteq Paths
  /\ auto \in BOOLEAN
  /\ last \in Commits
  /\ deploying \subseteq Paths
  /\ loaded \subseteq Paths
  /\ todo \subseteq Paths
  /\ pc \in [Workers -> Places]
  /\ pollPath \in Paths
  /\ commit \in [Workers -> Commits]
  /\ stamp \in [Workers -> Nat]
  /\ outcome \in [Workers -> Outcomes]
  /\ queue \in Seq(Commands)
  /\ latest \in [Paths -> [commit : Commits, status : Outcomes, at : Nat]]
  /\ applied \in [Paths -> Commits]
  /\ stamps \in Nat
  /\ requests \in Nat /\ faults \in Nat
  /\ forgotten \subseteq Paths
  /\ took \subseteq Nat /\ whole \subseteq Nat

Target(w) == IF w = Poll THEN pollPath ELSE w

\* The worker is between setting deploying[path] and clearing it.
Busy(w) == pc[w] \in {"claimed", "render", "wait", "record"}

\* A commit after d and up to c changes the path.
Lags(p, c, d) == \E k \in (d + 1)..c : p \in touched[k]

\* The commit the loop has dealt with, or is dealing with.
Seen == IF pc[Poll] \in Looking THEN last ELSE commit[Poll]

\* The paths not applied since a commit up to c has changed them.
Behind(paths, c) == {p \in paths : Lags(p, c, applied[p])}

Init ==
  /\ head = 1
  /\ touched = [c \in 1..MaxCommits |-> IF c = 1 THEN Paths ELSE {}]
  /\ configured \in SUBSET Paths
  /\ auto = TRUE
  /\ last = 0
  /\ deploying = {}
  /\ loaded = {} /\ todo = {}
  /\ pc = [w \in Workers |-> "idle"]
  /\ pollPath = CHOOSE p \in Paths : TRUE
  /\ commit = [w \in Workers |-> 0]
  /\ stamp = [w \in Workers |-> 0]
  /\ outcome = [w \in Workers |-> "pending"]
  /\ queue = <<>>
  /\ latest = [p \in Paths |-> [commit |-> 0, status |-> "pending", at |-> 0]]
  /\ applied = [p \in Paths |-> 0]
  /\ stamps = 0
  /\ requests = 0 /\ faults = 0
  /\ forgotten = {}
  /\ took = {} /\ whole = {}

\* A call fails, which may happen MaxFaults times, or does not.
Fails == faults < MaxFaults /\ faults' = faults + 1
Works == UNCHANGED faults

\* A request of an administrator.
Request == requests < MaxRequests /\ requests' = requests + 1

-----------------------------------------------------------------------------
(* The poll loop. *)

\* matchPaths: a path is affected by a file below it, or below a path whose
\* name merely begins with its own.
Matches(p, files) == p \in files \/ (p \in Outer /\ files # {})

\* The files changed between two commits (CompareCommitsDetail).
Changed(from, to) == UNION {touched[c] : c \in (from + 1)..to}

\* Faulty variant: a comparison that failed counts as one without changes.
AffectedUnlessItFails(paths) ==
  IF last = 0 THEN paths = loaded /\ Works
  ELSE \/ paths = {p \in loaded : Matches(p, Changed(last, commit[Poll]))} /\ Works
       \/ paths = {} /\ Fails

\* The paths checkAndDeploy finds affected: all of them the first time and
\* when the comparison fails.
Affected(paths) ==
  IF last = 0 THEN paths = loaded /\ Works
  ELSE \/ paths = {p \in loaded : Matches(p, Changed(last, commit[Poll]))} /\ Works
       \/ paths = loaded /\ Fails

\* A tick of pollLoop: loadConfig finds a configuration that asks for it.
PollLoad ==
  /\ pc[Poll] = "idle"
  /\ auto
  /\ loaded' = configured
  /\ pc' = [pc EXCEPT ![Poll] = "loaded"]
  /\ UNCHANGED <<repo, config, last, todo, pollPath, commit, stamp, outcome, deploying, queue,
                 latest, applied, stamps, bounds, history>>

\* The newest commit is fetched; if it cannot be, or is known, the tick ends.
PollFetch ==
  /\ pc[Poll] = "loaded"
  /\ \/ /\ head # last
        /\ Works
        /\ pc' = [pc EXCEPT ![Poll] = "fetched"]
        /\ commit' = [commit EXCEPT ![Poll] = head]
        /\ UNCHANGED loaded
     \/ /\ (head = last /\ Works) \/ Fails
        /\ pc' = [pc EXCEPT ![Poll] = "idle"]
        /\ loaded' = {}
        /\ UNCHANGED commit
  /\ UNCHANGED <<repo, config, last, todo, pollPath, stamp, outcome, deploying, queue, latest,
                 applied, stamps, requests, history>>

\* The commit is compared with the last one, among the paths that were read.
PollCompare ==
  /\ pc[Poll] = "fetched"
  /\ \E paths \in SUBSET Paths :
       /\ Affected(paths)
       /\ todo' = paths
       /\ IF paths = {}
          THEN /\ last' = commit[Poll]
               /\ pc' = [pc EXCEPT ![Poll] = "idle"]
               /\ commit' = [commit EXCEPT ![Poll] = 0]
          ELSE /\ pc' = [pc EXCEPT ![Poll] = "next"]
               /\ UNCHANGED <<last, commit>>
  /\ loaded' = {}
  /\ forgotten' = forgotten \cup Behind(configured \ loaded, commit[Poll])
  /\ UNCHANGED <<repo, config, pollPath, stamp, outcome, deploying, queue, latest, applied,
                 stamps, requests, took, whole>>

\* deployPath begins: the record is dated.
Begin(w) ==
  /\ stamps' = stamps + 1
  /\ stamp' = [stamp EXCEPT ![w] = stamps + 1]

\* Faulty variant: the loop does not look whether the path is being deployed.
PollNextUnguarded(p) ==
  /\ pc[Poll] = "next"
  /\ p \in todo
  /\ todo' = todo \ {p}
  /\ deploying' = deploying \cup {p}
  /\ pollPath' = p
  /\ pc' = [pc EXCEPT ![Poll] = "render"]
  /\ Begin(Poll)
  /\ UNCHANGED <<repo, config, last, loaded, commit, outcome, queue, latest, applied, bounds,
                 history>>

\* The next path is skipped if it is being deployed, and claimed otherwise.
\* The affected paths come in any order (matchPaths goes over a map).
PollNext(p) ==
  /\ pc[Poll] = "next"
  /\ p \in todo
  /\ todo' = todo \ {p}
  /\ IF p \in deploying
     THEN /\ forgotten' = forgotten \cup Behind({p}, commit[Poll])
          /\ UNCHANGED <<deploying, work, stamps>>
     ELSE /\ deploying' = deploying \cup {p}
          /\ pollPath' = p
          /\ pc' = [pc EXCEPT ![Poll] = "render"]
          /\ Begin(Poll)
          /\ UNCHANGED <<commit, outcome, forgotten>>
  /\ UNCHANGED <<repo, config, last, loaded, queue, latest, applied, bounds, took, whole>>

\* All affected paths were gone through, whatever became of them.
PollDone ==
  /\ pc[Poll] = "next"
  /\ todo = {}
  /\ last' = commit[Poll]
  /\ pc' = [pc EXCEPT ![Poll] = "idle"]
  /\ commit' = [commit EXCEPT ![Poll] = 0]
  /\ UNCHANGED <<repo, config, loaded, todo, pollPath, stamp, outcome, deploying, queue, latest,
                 applied, stamps, bounds, history>>

-----------------------------------------------------------------------------
(* SyncNow. *)

\* Faulty variant: the path is looked up but not marked.
SyncClaimUnmarked(p) ==
  /\ Request
  /\ p \notin deploying
  /\ pc[p] = "idle"
  /\ pc' = [pc EXCEPT ![p] = "claimed"]
  /\ UNCHANGED <<repo, config, loop, deploying, pollPath, commit, stamp, outcome, queue, latest,
                 applied, stamps, faults, history>>

\* The path is claimed, or the call refused.
SyncClaim(p) ==
  /\ p \notin deploying
  /\ pc[p] = "idle"
  /\ Request
  /\ deploying' = deploying \cup {p}
  /\ pc' = [pc EXCEPT ![p] = "claimed"]
  /\ UNCHANGED <<repo, config, loop, pollPath, commit, stamp, outcome, queue, latest, applied,
                 stamps, faults, history>>

\* The newest commit is fetched and a goroutine deploys it.
SyncFetch(p) ==
  /\ pc[p] = "claimed"
  /\ commit' = [commit EXCEPT ![p] = head]
  /\ pc' = [pc EXCEPT ![p] = "render"]
  /\ Begin(p)
  /\ UNCHANGED <<repo, config, loop, pollPath, outcome, deploying, queue, latest, applied,
                 bounds, history>>

\* There is no configuration, or no answer from GitHub.
SyncRefuse(p) ==
  /\ pc[p] = "claimed"
  /\ Fails
  /\ pc' = [pc EXCEPT ![p] = "idle"]
  /\ deploying' = deploying \ {p}
  /\ UNCHANGED <<repo, config, loop, pollPath, commit, stamp, outcome, queue, latest, applied,
                 stamps, requests, history>>

-----------------------------------------------------------------------------
(* deployPath. *)

\* kustomizeBuild and EnqueueCommand; if one of them fails, so does the record.
Render(w) ==
  /\ pc[w] = "render"
  /\ \/ /\ Works
        /\ queue' = Append(queue, [path |-> Target(w), commit |-> commit[w],
                                    stamp |-> stamp[w], by |-> w])
        /\ pc' = [pc EXCEPT ![w] = "wait"]
        /\ UNCHANGED outcome
     \/ /\ Fails
        /\ outcome' = [outcome EXCEPT ![w] = "failed"]
        /\ pc' = [pc EXCEPT ![w] = "record"]
        /\ UNCHANGED queue
  /\ UNCHANGED <<repo, config, loop, pollPath, commit, stamp, deploying, latest, applied,
                 stamps, requests, history>>

\* Faulty variant: no error is taken for success, also without a result.
TimeoutAsSuccess(w) ==
  /\ pc[w] = "wait"
  /\ outcome' = [outcome EXCEPT ![w] = "success"]
  /\ pc' = [pc EXCEPT ![w] = "record"]
  /\ UNCHANGED <<repo, config, loop, pollPath, commit, stamp, deploying, queue, latest, applied,
                 stamps, bounds, history>>

\* Faulty variant: a status of its own for a wait without an answer.
TimeoutAsUnknown(w) ==
  /\ pc[w] = "wait"
  /\ outcome' = [outcome EXCEPT ![w] = "unknown"]
  /\ pc' = [pc EXCEPT ![w] = "record"]
  /\ UNCHANGED <<repo, config, loop, pollPath, commit, stamp, deploying, queue, latest, applied,
                 stamps, bounds, history>>

\* WaitCommandResult returns neither result nor error after 120 seconds; the
\* record stays pending, and the command in the queue.
Timeout(w) ==
  /\ pc[w] = "wait"
  /\ pc' = [pc EXCEPT ![w] = "record"]
  /\ UNCHANGED <<repo, config, loop, pollPath, commit, stamp, outcome, deploying, queue, latest,
                 applied, stamps, bounds, history>>

\* The record is written, unless the database fails, which nobody notices,
\* and the path is free again.
Record(w) ==
  LET p == Target(w) IN
  /\ pc[w] = "record"
  /\ \/ /\ Works
        /\ latest' = [latest EXCEPT ![p] =
             IF @.at < stamp[w]
             THEN [commit |-> commit[w], status |-> outcome[w], at |-> stamp[w]]
             ELSE @]
        /\ forgotten' = IF outcome[w] = "success" /\ ~Lags(p, Seen, commit[w])
                        THEN forgotten \ {p} ELSE forgotten
     \/ /\ Fails
        /\ forgotten' = forgotten \cup {p}
        /\ UNCHANGED latest
  /\ deploying' = deploying \ {p}
  /\ pc' = [pc EXCEPT ![w] = IF w = Poll THEN "next" ELSE "idle"]
  /\ commit' = IF w = Poll THEN commit ELSE [commit EXCEPT ![w] = 0]
  /\ stamp' = [stamp EXCEPT ![w] = 0]
  /\ outcome' = [outcome EXCEPT ![w] = "pending"]
  /\ UNCHANGED <<repo, config, loop, pollPath, queue, applied, stamps, requests, took, whole>>

-----------------------------------------------------------------------------
(* The Agent executes the oldest command; the answer reaches the worker if *)
(* it still waits for it.                                                  *)

Answer(cmd, result) ==
  /\ outcome' = [w \in Workers |->
       IF pc[w] = "wait" /\ stamp[w] = cmd.stamp THEN result ELSE outcome[w]]
  /\ pc' = [w \in Workers |->
       IF pc[w] = "wait" /\ stamp[w] = cmd.stamp THEN "record" ELSE pc[w]]

\* What the cluster has when the resources of a command were applied.
Applied(cmd) == [applied EXCEPT ![cmd.path] = cmd.commit]

\* handleApplyManifests: every resource is tried; those that are refused are
\* named in a text of the answer, which is a success all the same.
AgentApply ==
  /\ queue # <<>>
  /\ queue' = Tail(queue)
  /\ applied' = Applied(Head(queue))
  /\ Answer(Head(queue), "success")
  /\ took' = took \cup {Head(queue).stamp}
  /\ \/ Works /\ whole' = whole \cup {Head(queue).stamp}
     \/ Fails /\ UNCHANGED whole
  /\ UNCHANGED <<repo, config, loop, pollPath, commit, stamp, deploying, latest, stamps, requests,
                 forgotten>>

\* An error before the first resource: no client, no API groups, no manifests.
AgentFail ==
  /\ queue # <<>>
  /\ Fails
  /\ queue' = Tail(queue)
  /\ Answer(Head(queue), "failed")
  /\ UNCHANGED <<repo, config, loop, pollPath, commit, stamp, deploying, latest, applied, stamps,
                 requests, history>>

\* pollAndExecuteCommands ends without a report, before the resources were
\* applied or after.
AgentLose ==
  /\ queue # <<>>
  /\ Fails
  /\ queue' = Tail(queue)
  /\ applied' \in {applied, Applied(Head(queue))}
  /\ UNCHANGED <<repo, config, loop, work, deploying, latest, stamps, requests, history>>

-----------------------------------------------------------------------------
(* The rest of the world. *)

\* A commit is pushed; it may touch no path at all.
Push(paths) ==
  /\ head < MaxCommits
  /\ head' = head + 1
  /\ touched' = [touched EXCEPT ![head + 1] = paths]
  /\ UNCHANGED <<config, loop, work, deploying, queue, latest, applied, stamps, bounds, history>>

\* UpsertDeployConfig.  A path that is added is deployed when a commit touches it.
SaveConfig(paths, on) ==
  /\ Request
  /\ configured' = paths
  /\ auto' = on
  /\ forgotten' = forgotten \cup Behind(paths \ configured, Seen)
  /\ UNCHANGED <<repo, loop, work, deploying, queue, latest, applied, stamps, faults,
                 took, whole>>

\* restoreLastCommitSHA: the commit of the newest record of any path, among
\* those that can be read, or none.
Restored(c) ==
  \E read \in SUBSET {p \in configured : latest[p].at > 0} :
    \/ read = {} /\ c = 0
    \/ \E p \in read :
         /\ \A q \in read : latest[q].at <= latest[p].at
         /\ c = latest[p].commit

\* The command the Agent is executing.
Held == IF queue = <<>> THEN {} ELSE {Head(queue)}

\* A new process begins with an empty bus; the Agent may hold a command.
Restart ==
  /\ Fails
  /\ \E c \in Commits :
       /\ Restored(c)
       /\ last' = c
       /\ \/ queue' = <<>>
             /\ forgotten' = forgotten \cup Behind(configured, c)
          \/ \E cmd \in Held :
               /\ queue' = <<cmd>>
               /\ forgotten' = forgotten \cup Behind(configured, c) \cup {cmd.path}
  /\ loaded' = {} /\ todo' = {}
  /\ deploying' = {}
  /\ pc' = [w \in Workers |-> "idle"]
  /\ commit' = [w \in Workers |-> 0]
  /\ stamp' = [w \in Workers |-> 0]
  /\ outcome' = [w \in Workers |-> "pending"]
  /\ UNCHANGED <<repo, config, pollPath, latest, applied, stamps, requests, took, whole>>

Next ==
  \/ PollLoad \/ PollFetch \/ PollCompare \/ PollDone
  \/ \E p \in Paths : PollNext(p) \/ SyncClaim(p) \/ SyncFetch(p) \/ SyncRefuse(p)
  \/ \E w \in Workers : Render(w) \/ Timeout(w) \/ Record(w)
  \/ AgentApply \/ AgentFail \/ AgentLose
  \/ \E paths \in SUBSET Paths : Push(paths) \/ \E on \in BOOLEAN : SaveConfig(paths, on)
  \/ Restart

Spec == Init /\ [][Next]_vars

-----------------------------------------------------------------------------
(* Properties. *)

(* The poll loop and the goroutines of SyncNow never work on one path at   *)
(* the same time ("the paths being deployed, against repetition"), and no  *)
(* path stays marked when nobody works on it, which would bar it for good. *)
OneDeployPerPath ==
  /\ \A w, v \in Workers : Busy(w) /\ Busy(v) /\ Target(w) = Target(v) => w = v
  /\ deploying = {Target(w) : w \in {v \in Workers : Busy(v)}}

(* When the loop has dealt with a commit, every configured path shown as   *)
(* in sync had its resources applied with the contents of that commit: a   *)
(* deployment that failed, timed out or was lost shows on record.  The     *)
(* exceptions are four: a path skipped while it was being deployed, lost   *)
(* in a restart, or added after the configuration was read, and one whose  *)
(* record the database refused (checkAndDeploy, GetPathStatus).            *)
NothingForgotten ==
  pc[Poll] \in Looking =>
    \A p \in configured \ forgotten :
      latest[p].status = "success" => ~Lags(p, last, applied[p])

(* A record says success only of a deployment whose own command the Agent  *)
(* went through to the last resource: not when the wait ended without an   *)
(* answer, and not because of the answer to another command (deployPath).  *)
SuccessWasApplied ==
  \A p \in Paths : latest[p].status = "success" => latest[p].at \in took

(* A record says success only of a deployment of which no resource was     *)
(* refused: a manifest applied in part is a failed deployment.             *)
SuccessIsWhole ==
  \A p \in Paths : latest[p].status = "success" => latest[p].at \in whole

(* A manual sync never takes a path back to an older commit, however late  *)
(* its command is executed: the commit is read after the path was claimed  *)
(* (SyncNow).  The loop reads it before and may do so.                     *)
SyncNeverRollsBack ==
  [][\A p \in Paths : applied'[p] < applied[p] => Head(queue).by = Poll]_vars

(* A path is to be synchronised when polling has found a new commit that   *)
(* affects it and its deployment has not been completed: GetPathStatus     *)
(* does not report it as in sync then.                                     *)
SyncedIsCurrent ==
  pc[Poll] = "idle" =>
    \A p \in configured : latest[p].status = "success" => ~Lags(p, last, latest[p].commit)
=============================================================================
