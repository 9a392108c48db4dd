------------------------------ MODULE CommandBus ------------------------------
(***************************************************************************)
(* The command pipeline of AtlHyper: a caller in the Master submits a      *)
(* command (CommandService.CreateCommand), the in-memory bus queues it     *)
(* (MemoryBus), an Agent fetches it by long poll (handleCommands),         *)
(* executes it and posts the result (handleResult), and the caller may     *)
(* wait for that result (MemoryBus.WaitCommandResult).                     *)
(*                                                                         *)
(* One action is one critical section of the code: a step that takes and   *)
(* releases a mutex, one channel operation, one database call, one message *)
(* on the network.  What the code does under different locks is done by    *)
(* different actions, so that every interleaving of the HTTP handlers, the *)
(* callers and the Agents is a behaviour.                                  *)
(***************************************************************************)
EXTENDS Naturals, Sequences, FiniteSets

CONSTANTS
  Commands,   \* identifiers of the commands ever submitted (uuids, not reused)
  Clusters,   \* clusters, one Agent process each
  Topics,     \* topics of a cluster: ops and ai
  Awaited,    \* the commands whose caller waits for the result
  Home,       \* Home[c]: the <<cluster, topic>> command c is addressed to
  Slots,      \* slots for the long-poll handlers of one queue in the Master
  Results,    \* the outcomes an execution may have: "ok", "error"
  Faults,     \* the kinds of failure that may happen
  NoCommand   \* nil where the code holds a command

Queues == Clusters \X Topics

\* A long-poll handler: the queue its request names, and its slot.  There are
\* several per queue because a handler outlives the client that gave it up.
Polls == Queues \X Slots
QueueOf(p) == p[1]

FaultKinds == {"disconnect", "lost_report", "crash", "restart", "database"}

ASSUME HomeAssumption == Home \in [Commands -> Queues]
ASSUME AwaitedAssumption == Awaited \subseteq Commands
ASSUME ResultsAssumption == Results \subseteq {"ok", "error"}
ASSUME FaultsAssumption == Faults \subseteq FaultKinds
ASSUME NilAssumption == NoCommand \notin Commands

VARIABLES
  queue,      \* queues[cluster][topic].commands
  token,      \* queues[cluster][topic].waiting holds its one token
  status,     \* commands[c].Status, "absent" when the map has no entry
  result,     \* commands[c].Result, "none" for nil (FinishedAt is set with it)
  registered, \* the commands with a channel in commandWaiters
  channel,    \* the content of that channel (capacity 1)
  history,    \* command_history row of c: its status, "absent" without a row
  caller,     \* where the goroutine that submits c is
  answer,     \* what WaitCommandResult returned to it, "none" for nil
  pollPc,     \* where the long-poll handler in a slot is
  pollCmd,    \* the command it has popped
  connected,  \* its client still waits for the response
  agentPc,    \* where the command loop of a <<cluster, topic>> is
  agentCmd,   \* the command it is executing or reporting
  report,     \* where the handleResult call for c is
  outcome,    \* what executing c returned, "none" when it was not executed
  ticket,     \* history variable: position of c in the order of submission
  sent,       \* history variable: how many commands were put in a queue
  ran         \* history variable: the commands a loop executed, in order

bus     == <<queue, token, status, result, registered, channel>>
polls   == <<pollPc, pollCmd, connected>>
agents  == <<agentPc, agentCmd, outcome, ran>>
clients == <<caller, answer, ticket, sent>>
vars    == <<bus, polls, agents, clients, history, report>>

Finished == {"success", "failed"}
Statuses == {"absent", "pending", "running"} \cup Finished

\* Where the goroutines of the pipeline can be.
CallerStates == {"new", "queued", "recorded", "notified", "created", "checked",
                 "waiting", "leaving", "returned"}
PollStates   == {"idle", "check", "select", "woken", "popped", "respond"}
AgentStates  == {"idle", "polling", "execute", "report"}
ReportStates == {"none", "ack", "wake", "persist", "done"}

\* Faulty variants, for showing that the properties tell them apart from the
\* code, stand before the definition they vary.  Here: the outcome itself is
\* stored, or every report counts as a success.
RawStatusOf(r) == r
SuccessOf(r) == IF r \in Results THEN "success" ELSE "failed"

\* The status a result is recorded with.
StatusOf(r) == IF r = "ok" THEN "success" ELSE "failed"

InQueue(c) == \E i \in 1..Len(queue[Home[c]]) : queue[Home[c]][i] = c

\* A handler has popped the command, or its Agent is about to execute it.
IsHeld(c) ==
  \/ \E p \in Polls : pollCmd[p] = c
  \/ \E q \in Queues : agentPc[q] = "execute" /\ agentCmd[q] = c

(***************************************************************************)
(* The set of values of each variable, one conjunct per part of the        *)
(* pipeline.                                                               *)
(***************************************************************************)
BusTypes ==
  /\ queue \in [Queues -> Seq(Commands)]
  /\ token \in [Queues -> BOOLEAN]
  /\ status \in [Commands -> Statuses]
  /\ result \in [Commands -> Results \cup {"none"}]
  /\ registered \in SUBSET Commands
  /\ channel \in [Commands -> Results \cup {"none"}]

ClientTypes ==
  /\ caller \in [Commands -> CallerStates]
  /\ answer \in [Commands -> Results \cup {"none"}]
  /\ ticket \in [Commands -> Nat]
  /\ sent \in [Queues -> Nat]

PollTypes ==
  /\ pollPc \in [Polls -> PollStates]
  /\ pollCmd \in [Polls -> Commands \cup {NoCommand}]
  /\ connected \in [Polls -> BOOLEAN]

AgentTypes ==
  /\ agentPc \in [Queues -> AgentStates]
  /\ agentCmd \in [Queues -> Commands \cup {NoCommand}]
  /\ outcome \in [Commands -> Results \cup {"none"}]
  /\ ran \in [Queues -> Seq(Commands)]

ReportTypes ==
  /\ history \in [Commands -> Statuses]
  /\ report \in [Commands -> ReportStates]

TypeOK == BusTypes /\ ClientTypes /\ PollTypes /\ AgentTypes /\ ReportTypes

Init ==
  /\ queue = [q \in Queues |-> <<>>]
  /\ token = [q \in Queues |-> FALSE]
  /\ status = [c \in Commands |-> "absent"]
  /\ result = [c \in Commands |-> "none"]
  /\ registered = {}
  /\ channel = [c \in Commands |-> "none"]
  /\ history = [c \in Commands |-> "absent"]
  /\ caller = [c \in Commands |-> "new"]
  /\ answer = [c \in Commands |-> "none"]
  /\ pollPc = [p \in Polls |-> "idle"]
  /\ pollCmd = [p \in Polls |-> NoCommand]
  /\ connected = [p \in Polls |-> FALSE]
  /\ agentPc = [q \in Queues |-> "idle"]
  /\ agentCmd = [q \in Queues |-> NoCommand]
  /\ report = [c \in Commands |-> "none"]
  /\ outcome = [c \in Commands |-> "none"]
  /\ ticket = [c \in Commands |-> 0]
  /\ sent = [q \in Queues |-> 0]
  /\ ran = [q \in Queues |-> <<>>]

-----------------------------------------------------------------------------
(* Submitting a command: CreateCommand and, inside it, EnqueueCommand.     *)

\* Faulty variant: the command enters at the front.
EnqueueFront(c) ==
  /\ caller[c] = "new"
  /\ queue' = [queue EXCEPT ![Home[c]] = <<c>> \o @]
  /\ sent' = [sent EXCEPT ![Home[c]] = @ + 1]
  /\ ticket' = [ticket EXCEPT ![c] = sent[Home[c]] + 1]
  /\ caller' = [caller EXCEPT ![c] = "queued"]
  /\ UNCHANGED <<token, status, result, registered, channel, answer, polls,
                 agents, history, report>>

\* The command enters its queue, under the queue's mutex.
EnqueueAppend(c) ==
  /\ caller[c] = "new"
  /\ queue' = [queue EXCEPT ![Home[c]] = Append(@, c)]
  /\ sent' = [sent EXCEPT ![Home[c]] = @ + 1]
  /\ ticket' = [ticket EXCEPT ![c] = sent[Home[c]] + 1]
  /\ caller' = [caller EXCEPT ![c] = "queued"]
  /\ UNCHANGED <<token, status, result, registered, channel, answer, polls,
                 agents, history, report>>

\* Only then is its status recorded, under commandsMu.
EnqueueRecord(c) ==
  /\ caller[c] = "queued"
  /\ status' = [status EXCEPT ![c] = "pending"]
  /\ result' = [result EXCEPT ![c] = "none"]
  /\ caller' = [caller EXCEPT ![c] = "recorded"]
  /\ UNCHANGED <<queue, token, registered, channel, answer, ticket, sent, polls,
                 agents, history, report>>

\* The non-blocking send to the channel of capacity 1.
EnqueueNotify(c) ==
  /\ caller[c] = "recorded"
  /\ token' = [token EXCEPT ![Home[c]] = TRUE]
  /\ caller' = [caller EXCEPT ![c] = "notified"]
  /\ UNCHANGED <<queue, status, result, registered, channel, answer, ticket,
                 sent, polls, agents, history, report>>

\* The history row is inserted last; a failed insert is only logged.
CreateHistory(c) ==
  /\ caller[c] = "notified"
  /\ \/ history' = [history EXCEPT ![c] = "pending"]
     \/ "database" \in Faults /\ UNCHANGED history
  /\ caller' = [caller EXCEPT ![c] = "created"]
  /\ UNCHANGED <<bus, answer, ticket, sent, polls, agents, report>>

-----------------------------------------------------------------------------
(* Waiting for the result: WaitCommandResult.                              *)

\* A caller of CreateCommand that does not wait is done.
ReturnAtOnce(c) ==
  /\ c \notin Awaited
  /\ caller[c] = "created"
  /\ caller' = [caller EXCEPT ![c] = "returned"]
  /\ UNCHANGED <<bus, answer, ticket, sent, polls, agents, history, report>>

HasResult(c) == status[c] # "absent" /\ result[c] # "none"

\* Look for a result under commandsMu; return it if there is one.
WaitCheck(c) ==
  /\ c \in Awaited
  /\ caller[c] = "created"
  /\ \/ /\ HasResult(c)
        /\ answer' = [answer EXCEPT ![c] = result[c]]
        /\ caller' = [caller EXCEPT ![c] = "returned"]
     \/ /\ ~HasResult(c)
        /\ caller' = [caller EXCEPT ![c] = "checked"]
        /\ UNCHANGED answer
  /\ UNCHANGED <<bus, ticket, sent, polls, agents, history, report>>

\* Register a fresh channel, under commandWaitersMu.
WaitRegister(c) ==
  /\ caller[c] = "checked"
  /\ registered' = registered \cup {c}
  /\ channel' = [channel EXCEPT ![c] = "none"]
  /\ caller' = [caller EXCEPT ![c] = "waiting"]
  /\ UNCHANGED <<queue, token, status, result, answer, ticket, sent, polls,
                 agents, history, report>>

\* The select takes the result from the channel.
WaitReceive(c) ==
  /\ caller[c] = "waiting"
  /\ channel[c] # "none"
  /\ answer' = [answer EXCEPT ![c] = channel[c]]
  /\ channel' = [channel EXCEPT ![c] = "none"]
  /\ caller' = [caller EXCEPT ![c] = "leaving"]
  /\ UNCHANGED <<queue, token, status, result, registered, ticket, sent, polls,
                 agents, history, report>>

\* Faulty variants: a timeout is answered with a failure, or only a result ends
\* the wait.
TimeoutAsError(c) ==
  /\ caller[c] = "waiting"
  /\ answer' = [answer EXCEPT ![c] = "error"]
  /\ caller' = [caller EXCEPT ![c] = "leaving"]
  /\ UNCHANGED <<bus, ticket, sent, polls, agents, history, report>>
WaitWithoutTimer(c) ==
  /\ caller[c] = "waiting"
  /\ channel[c] # "none"
  /\ caller' = [caller EXCEPT ![c] = "leaving"]
  /\ UNCHANGED <<bus, answer, ticket, sent, polls, agents, history, report>>

\* The select takes the timeout or the cancelled context: nil is returned.
WaitTimeout(c) ==
  /\ caller[c] = "waiting"
  /\ caller' = [caller EXCEPT ![c] = "leaving"]
  /\ UNCHANGED <<bus, answer, ticket, sent, polls, agents, history, report>>

\* Faulty variant: without the deferred removal.
LeaveRegistered(c) ==
  /\ caller[c] = "leaving"
  /\ caller' = [caller EXCEPT ![c] = "returned"]
  /\ UNCHANGED <<bus, answer, ticket, sent, polls, agents, history, report>>

\* The deferred removal of the channel from commandWaiters.
WaitLeave(c) ==
  /\ caller[c] = "leaving"
  /\ registered' = registered \ {c}
  /\ channel' = [channel EXCEPT ![c] = "none"]
  /\ caller' = [caller EXCEPT ![c] = "returned"]
  /\ UNCHANGED <<queue, token, status, result, answer, ticket, sent, polls,
                 agents, history, report>>

-----------------------------------------------------------------------------
(* The long poll: pollAndExecuteCommands on one side, handleCommands and   *)
(* WaitCommand on the other.                                               *)

\* Faulty variant: one loop for all topics of a cluster.
PollOneTopicAtATime(p) ==
  /\ \A q \in Queues : q[1] = QueueOf(p)[1] => agentPc[q] = "idle"
  /\ pollPc[p] = "idle"
  /\ agentPc' = [agentPc EXCEPT ![QueueOf(p)] = "polling"]
  /\ pollPc' = [pollPc EXCEPT ![p] = "check"]
  /\ connected' = [connected EXCEPT ![p] = TRUE]
  /\ UNCHANGED <<bus, clients, pollCmd, agentCmd, outcome, ran, history,
                 report>>

\* pollAndExecuteCommands starts a long poll; handleCommands takes it in.
AgentPoll(p) ==
  /\ agentPc[QueueOf(p)] = "idle"
  /\ pollPc[p] = "idle"
  /\ agentPc' = [agentPc EXCEPT ![QueueOf(p)] = "polling"]
  /\ pollPc' = [pollPc EXCEPT ![p] = "check"]
  /\ connected' = [connected EXCEPT ![p] = TRUE]
  /\ UNCHANGED <<bus, clients, pollCmd, agentCmd, outcome, ran, history,
                 report>>

\* Faulty variant: the head stays in the queue.
PeekOr(p, otherwise) ==
  \/ /\ queue[QueueOf(p)] # <<>>
     /\ pollCmd' = [pollCmd EXCEPT ![p] = Head(queue[QueueOf(p)])]
     /\ pollPc' = [pollPc EXCEPT ![p] = "popped"]
     /\ UNCHANGED queue
  \/ /\ queue[QueueOf(p)] = <<>>
     /\ pollPc' = [pollPc EXCEPT ![p] = otherwise]
     /\ UNCHANGED <<queue, pollCmd>>

\* Take the head of the queue, or go to `otherwise` when it is empty.
PopOr(p, otherwise) ==
  \/ /\ queue[QueueOf(p)] # <<>>
     /\ pollCmd' = [pollCmd EXCEPT ![p] = Head(queue[QueueOf(p)])]
     /\ queue' = [queue EXCEPT ![QueueOf(p)] = Tail(@)]
     /\ pollPc' = [pollPc EXCEPT ![p] = "popped"]
  \/ /\ queue[QueueOf(p)] = <<>>
     /\ pollPc' = [pollPc EXCEPT ![p] = otherwise]
     /\ UNCHANGED <<queue, pollCmd>>

\* Faulty variant: the handler waits for the token without a first look.
SelectAtOnce(p) ==
  /\ pollPc[p] = "check"
  /\ pollPc' = [pollPc EXCEPT ![p] = "select"]
  /\ UNCHANGED <<bus, clients, pollCmd, connected, agents, history, report>>

\* The first look at the queue.
PollCheck(p) ==
  /\ pollPc[p] = "check"
  /\ PopOr(p, "select")
  /\ UNCHANGED <<token, status, result, registered, channel, clients,
                 connected, agents, history, report>>

\* The select takes the token ...
PollWake(p) ==
  /\ pollPc[p] = "select"
  /\ token[QueueOf(p)]
  /\ token' = [token EXCEPT ![QueueOf(p)] = FALSE]
  /\ pollPc' = [pollPc EXCEPT ![p] = "woken"]
  /\ UNCHANGED <<queue, status, result, registered, channel, clients,
                 pollCmd, connected, agents, history, report>>

\* ... and looks at the queue once more; an empty queue ends the poll.
PollSecondCheck(p) ==
  /\ pollPc[p] = "woken"
  /\ PopOr(p, "respond")
  /\ UNCHANGED <<token, status, result, registered, channel, clients,
                 connected, agents, history, report>>

\* The select takes the timer: an empty response.
PollTimeout(p) ==
  /\ pollPc[p] = "select"
  /\ pollPc' = [pollPc EXCEPT ![p] = "respond"]
  /\ UNCHANGED <<bus, clients, pollCmd, connected, agents, history,
                 report>>

\* updateCommandStatus(Running), after the queue's mutex is released; nothing
\* happens when the status is not recorded yet.
PollMarkRunning(p) ==
  /\ pollPc[p] = "popped"
  /\ status' = [status EXCEPT ![pollCmd[p]] =
                  IF @ = "absent" THEN "absent" ELSE "running"]
  /\ pollPc' = [pollPc EXCEPT ![p] = "respond"]
  /\ UNCHANGED <<queue, token, result, registered, channel, clients,
                 pollCmd, connected, agents, history, report>>

\* The slot is free again once its handler has returned.
Release(p) ==
  /\ pollPc' = [pollPc EXCEPT ![p] = "idle"]
  /\ pollCmd' = [pollCmd EXCEPT ![p] = NoCommand]
  /\ connected' = [connected EXCEPT ![p] = FALSE]

\* The response is written.  A client that is still there receives it; without
\* one the write fails, its error is ignored, and the command is in no queue.
PollRespond(p) ==
  /\ pollPc[p] = "respond"
  /\ \/ /\ ~connected[p]
        /\ UNCHANGED <<agentPc, agentCmd>>
     \/ /\ connected[p]
        /\ pollCmd[p] = NoCommand
        /\ agentPc' = [agentPc EXCEPT ![QueueOf(p)] = "idle"]
        /\ UNCHANGED agentCmd
     \/ /\ connected[p]
        /\ pollCmd[p] # NoCommand
        /\ agentPc' = [agentPc EXCEPT ![QueueOf(p)] = "execute"]
        /\ agentCmd' = [agentCmd EXCEPT ![QueueOf(p)] = pollCmd[p]]
  /\ Release(p)
  /\ UNCHANGED <<bus, clients, outcome, ran, history, report>>

\* The select takes the context that the client's departure cancelled.
PollCancelled(p) ==
  /\ pollPc[p] = "select"
  /\ ~connected[p]
  /\ Release(p)
  /\ UNCHANGED <<bus, clients, agents, history, report>>

\* Nobody waits any more for the responses of the polls on a queue in Q.
Disconnect(Q) ==
  connected' = [p \in Polls |-> connected[p] /\ QueueOf(p) \notin Q]

\* The Agent's poll ends by its own deadline or by a broken connection.
AgentGiveUp(q) ==
  /\ "disconnect" \in Faults
  /\ agentPc[q] = "polling"
  /\ agentPc' = [agentPc EXCEPT ![q] = "idle"]
  /\ Disconnect({q})
  /\ UNCHANGED <<bus, clients, pollPc, pollCmd, agentCmd, outcome,
                 ran, history, report>>

-----------------------------------------------------------------------------
(* Executing the command and reporting the result.                         *)

AgentExecute(q) ==
  /\ agentPc[q] = "execute"
  /\ \E r \in Results : outcome' = [outcome EXCEPT ![agentCmd[q]] = r]
  /\ ran' = [ran EXCEPT ![q] = Append(@, agentCmd[q])]
  /\ agentPc' = [agentPc EXCEPT ![q] = "report"]
  /\ UNCHANGED <<bus, clients, polls, agentCmd, history, report>>

\* ReportResult is called once.  The loop goes on when the Master answers or
\* the deadline it shares with the poll passes, so that handleResult may still
\* be at work then; a report that fails is logged and given up.
AgentReport(q) ==
  /\ agentPc[q] = "report"
  /\ \/ report' = [report EXCEPT ![agentCmd[q]] = "ack"]
     \/ "lost_report" \in Faults /\ UNCHANGED report
  /\ agentPc' = [agentPc EXCEPT ![q] = "idle"]
  /\ agentCmd' = [agentCmd EXCEPT ![q] = NoCommand]
  /\ UNCHANGED <<bus, clients, polls, outcome, ran, history>>

\* Faulty variant: a record is made when there is none.
AckUnknown(c) ==
  /\ report[c] = "ack"
  /\ report' = [report EXCEPT ![c] = "wake"]
  /\ status' = [status EXCEPT ![c] = StatusOf(outcome[c])]
  /\ result' = [result EXCEPT ![c] = outcome[c]]
  /\ UNCHANGED <<queue, token, registered, channel, clients, polls, agents,
                 history>>

\* AckCommand under commandsMu: a command without a record is skipped, wake-up
\* and all.
AckRecord(c) ==
  /\ report[c] = "ack"
  /\ \/ /\ status[c] = "absent"
        /\ report' = [report EXCEPT ![c] = "persist"]
        /\ UNCHANGED <<status, result>>
     \/ /\ status[c] # "absent"
        /\ report' = [report EXCEPT ![c] = "wake"]
        /\ status' = [status EXCEPT ![c] = StatusOf(outcome[c])]
        /\ result' = [result EXCEPT ![c] = outcome[c]]
  /\ UNCHANGED <<queue, token, registered, channel, clients, polls, agents,
                 history>>

\* AckCommand under commandWaitersMu.
AckWake(c) ==
  /\ report[c] = "wake"
  /\ \/ /\ c \in registered
        /\ channel' = [channel EXCEPT ![c] = outcome[c]]
        /\ registered' = registered \ {c}
     \/ /\ c \notin registered
        /\ UNCHANGED <<channel, registered>>
  /\ report' = [report EXCEPT ![c] = "persist"]
  /\ UNCHANGED <<queue, token, status, result, clients, polls, agents, history>>

\* persistResult: without a row the result is dropped; a failed update is only
\* logged.
PersistResult(c) ==
  /\ report[c] = "persist"
  /\ \/ history' = [history EXCEPT ![c] =
                      IF @ = "absent" THEN "absent" ELSE StatusOf(outcome[c])]
     \/ "database" \in Faults /\ UNCHANGED history
  /\ report' = [report EXCEPT ![c] = "done"]
  /\ UNCHANGED <<bus, clients, polls, agents>>

\* cleanupCompleted removes the record of a command that finished.
Cleanup(c) ==
  /\ HasResult(c)
  /\ status' = [status EXCEPT ![c] = "absent"]
  /\ result' = [result EXCEPT ![c] = "none"]
  /\ UNCHANGED <<queue, token, registered, channel, clients, polls, agents,
                 history, report>>

-----------------------------------------------------------------------------
(* Crashes.                                                                *)

\* The Agent of cluster k stops and starts again with both its loops idle.
AgentCrash(k) ==
  LET Q == {k} \X Topics IN
  /\ "crash" \in Faults
  /\ agentPc' = [q \in Queues |-> IF q \in Q THEN "idle" ELSE agentPc[q]]
  /\ agentCmd' = [q \in Queues |-> IF q \in Q THEN NoCommand ELSE agentCmd[q]]
  /\ Disconnect(Q)
  /\ UNCHANGED <<bus, clients, pollPc, pollCmd, outcome, ran, history,
                 report>>

\* The Master stops and starts again: the bus, its handlers and its callers are
\* gone, the database is not, and a poll ends with a connection error.
MasterRestart ==
  /\ "restart" \in Faults
  /\ queue' = [q \in Queues |-> <<>>]
  /\ token' = [q \in Queues |-> FALSE]
  /\ status' = [c \in Commands |-> "absent"]
  /\ result' = [c \in Commands |-> "none"]
  /\ registered' = {}
  /\ channel' = [c \in Commands |-> "none"]
  /\ caller' = [c \in Commands |-> IF caller[c] = "new" THEN "new" ELSE "returned"]
  /\ pollPc' = [p \in Polls |-> "idle"]
  /\ pollCmd' = [p \in Polls |-> NoCommand]
  /\ connected' = [p \in Polls |-> FALSE]
  /\ agentPc' = [q \in Queues |->
                   IF agentPc[q] = "polling" THEN "idle" ELSE agentPc[q]]
  /\ report' = [c \in Commands |->
                  IF report[c] = "none" THEN "none" ELSE "done"]
  /\ UNCHANGED <<answer, ticket, sent, agentCmd, outcome, ran, history>>

-----------------------------------------------------------------------------
FinishSubmit(c) == EnqueueRecord(c) \/ EnqueueNotify(c) \/ CreateHistory(c)

Await(c) ==
  \/ ReturnAtOnce(c) \/ WaitCheck(c) \/ WaitRegister(c)
  \/ WaitReceive(c) \/ WaitTimeout(c) \/ WaitLeave(c)

Serve(p) ==
  \/ PollCheck(p) \/ PollWake(p) \/ PollSecondCheck(p) \/ PollTimeout(p)
  \/ PollMarkRunning(p) \/ PollRespond(p) \/ PollCancelled(p)

HandleResult(c) == AckRecord(c) \/ AckWake(c) \/ PersistResult(c)

Work(q) ==
  AgentExecute(q) \/ AgentReport(q) \/ \E n \in Slots : AgentPoll(<<q, n>>)

Next ==
  \/ \E c \in Commands :
       \/ EnqueueAppend(c) \/ FinishSubmit(c) \/ Await(c)
       \/ HandleResult(c) \/ Cleanup(c)
  \/ \E p \in Polls : Serve(p)
  \/ \E q \in Queues : Work(q) \/ AgentGiveUp(q)
  \/ \E k \in Clusters : AgentCrash(k)
  \/ MasterRestart

Spec == Init /\ [][Next]_vars

(***************************************************************************)
(* The goroutines that are running keep running: a caller that has started *)
(* a submission goes on, a handler goes on, a loop goes on.  Nobody is     *)
(* obliged to submit, and no failure is obliged to happen.  Fairness(Q)    *)
(* asks this only of the queues in Q: the other loops may hang.            *)
(***************************************************************************)
Fairness(Q) ==
  /\ \A c \in Commands : Home[c] \in Q =>
       /\ WF_vars(FinishSubmit(c))
       /\ WF_vars(Await(c))
       /\ WF_vars(HandleResult(c))
  /\ \A p \in Polls : QueueOf(p) \in Q => WF_vars(Serve(p))
  /\ \A q \in Q : WF_vars(Work(q))

FairSpec == Spec /\ Fairness(Queues)

-----------------------------------------------------------------------------
(* Properties.                                                             *)

\* A command is executed at most once, and only by the loop of the cluster and
\* topic it is addressed to, whatever responses and reports are lost and
\* whoever crashes: a popped command is never queued again.
AtMostOnce ==
  \A q \in Queues : \A i \in 1..Len(ran[q]) :
    /\ Home[ran[q][i]] = q
    /\ \A j \in 1..Len(ran[q]) : ran[q][i] = ran[q][j] => i = j

\* Each loop executes its commands in the order in which they were queued, even
\* when the handler of an abandoned poll is still at work next to a new one.
ExecutedInOrder ==
  \A q \in Queues : \A i, j \in 1..Len(ran[q]) :
    i < j => ticket[ran[q][i]] < ticket[ran[q][j]]

\* What the caller, the status query and the audit history say of a command is
\* what its execution returned, and they say nothing before it was executed.
Truthful ==
  \A c \in Commands :
    /\ answer[c] # "none" => answer[c] = outcome[c]
    /\ status[c] \in Finished => outcome[c] # "none" /\ (status[c] = "success" <=> outcome[c] = "ok")
    /\ history[c] \in Finished => outcome[c] # "none" /\ (history[c] = "success" <=> outcome[c] = "ok")

\* commandWaiters holds a channel only for a caller that is in
\* WaitCommandResult: the map does not grow with timeouts and late results.
NoOrphanWaiter ==
  \A c \in registered : caller[c] \in {"waiting", "leaving"}

\* A finished command stays finished: its history row is never overwritten, and
\* its status record changes only by being cleaned up.
FinishedIsFinal ==
  [][\A c \in Commands :
       /\ history[c] \in Finished => history'[c] = history[c]
       /\ status[c] \in Finished => status'[c] \in {status[c], "absent"}]_vars

\* The pipeline implements the life of a command that CommandLifecycle states.
Phase ==
  [c \in Commands |->
     CASE caller[c] = "new"    -> "new"
       [] outcome[c] # "none" -> "run"
       [] InQueue(c)          -> "queued"
       [] IsHeld(c)           -> "taken"
       [] OTHER               -> "lost"]

Lifecycle == INSTANCE CommandLifecycle WITH phase <- Phase

ImplementsLifecycle == Lifecycle!Spec

\* While the Master stays up, every queued command is fetched in the end, however
\* often Agents crash, polls break off, and the one token of the queue is taken
\* by a handler whose client is gone.
QueuedIsFetched == \A c \in Commands : InQueue(c) ~> ~InQueue(c)
=============================================================================
