---------------------------- MODULE MCCommandBus ----------------------------
(* Instances of CommandBus for TLC. *)
EXTENDS CommandBus, TLC

CONSTANTS c1, c2, k1, ops, ai

\* All commands to one queue.
HomeOneTopic == [c \in Commands |-> <<k1, ops>>]

\* One command to each topic of the cluster.
HomeTwoTopics == [c \in Commands |-> <<k1, IF c = c1 THEN ops ELSE ai>>]

\* The failures between Agent and Master while the Master stays up.
PollFaults == {"disconnect", "crash"}

\* The failures of reporting, of the database and of the Master itself.
MasterFaults == {"restart", "lost_report", "database"}

\* Reports that are lost, as any answer that comes after the shared deadline.
ReportFaults == {"lost_report"}

\* Sound where no constant tells the commands apart and no liveness is checked.
Symmetry == Permutations(Commands) \cup Permutations(Slots)
SlotSymmetry == Permutations(Slots)

\* All that reads or changes a queue, its token, a poll or a loop.  The actions
\* left out, history rows, reports, clean-up, change none of these and decide
\* none of their guards: what is fetched or executed, and when, does not depend
\* on them.
FetchNext ==
  \/ \E c \in Commands : EnqueueAppend(c) \/ EnqueueRecord(c) \/ EnqueueNotify(c)
  \/ \E p \in Polls : Serve(p)
  \/ \E q \in Queues : Work(q) \/ AgentGiveUp(q)
  \/ \E k \in Clusters : AgentCrash(k)

\* Only the loops and the handlers of polls are known to go on: a caller may hang
\* between queueing its command and sending the token.
FetchFairSpec ==
  /\ Init
  /\ [][FetchNext]_vars
  /\ \A p \in Polls : WF_vars(Serve(p))
  /\ \A q \in Queues : WF_vars(Work(q))

\* Only the loop, the handlers and the callers of topic ai are known to go on.
AiFairSpec == Spec /\ Fairness({<<k1, ai>>})

\* "The topics do not block each other" (mq/interfaces.go): a command of topic
\* ai is executed even when everything that serves topic ops hangs.
TopicsDoNotBlock ==
  \A c \in Commands :
    Home[c] = <<k1, ai>> => (caller[c] # "new" ~> outcome[c] # "none")

\* A caller that waits for the result of a command to topic ai gets away, with
\* the result or without it, whatever the state of topic ops.
AiCallersReturn ==
  \A c \in Commands :
    Home[c] = <<k1, ai>> => (caller[c] = "queued" ~> caller[c] = "returned")
=============================================================================
