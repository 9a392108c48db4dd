------------------------ MODULE CommandDeliveryProofs ------------------------
(***************************************************************************)
(* Type correctness, and at-most-once, in-order execution of commands,     *)
(* proved for every set of commands, clusters, topics, handlers and        *)
(* failures.                                                               *)
(*                                                                         *)
(* The argument: the tickets given out on entering a queue increase along  *)
(* the path of a command.  What a loop has executed is older than what it  *)
(* is about to execute or what the one handler it is connected to holds,   *)
(* and all of that is older than what is still queued.                     *)
(***************************************************************************)
EXTENDS CommandBus, TLAPS

(* A step of Next is one of the actions, for some argument, or a stutter.    *)
LEMMA NextCases ==
  ASSUME Next
  PROVE
    \/ \E c \in Commands :
         \/ EnqueueAppend(c)
         \/ EnqueueRecord(c)
         \/ EnqueueNotify(c)
         \/ CreateHistory(c)
         \/ ReturnAtOnce(c)
         \/ WaitCheck(c)
         \/ WaitRegister(c)
         \/ WaitReceive(c)
         \/ WaitTimeout(c)
         \/ WaitLeave(c)
         \/ AckRecord(c)
         \/ AckWake(c)
         \/ PersistResult(c)
         \/ Cleanup(c)
    \/ \E p \in Polls :
         \/ AgentPoll(p)
         \/ PollCheck(p)
         \/ PollWake(p)
         \/ PollSecondCheck(p)
         \/ PollTimeout(p)
         \/ PollMarkRunning(p)
         \/ PollRespond(p)
         \/ PollCancelled(p)
    \/ \E q \in Queues :
         \/ AgentGiveUp(q)
         \/ AgentExecute(q)
         \/ AgentReport(q)
    \/ \E k \in Clusters :
         \/ AgentCrash(k)
    \/ MasterRestart
  BY DEF Next, FinishSubmit, Await, HandleResult, Serve, Work, Polls, Queues

(* Every handler serves a queue, and every command is at home in one.         *)
LEMMA HomesAndQueues ==
  /\ \A c \in Commands : Home[c] \in Queues
  /\ \A p \in Polls : QueueOf(p) \in Queues
  BY HomeAssumption DEF Polls, QueueOf

(* The steps that move a command loop.                                        *)
LEMMA AgentSteps ==
  ASSUME [Next]_vars
  PROVE  \/ \E p \in Polls : AgentPoll(p) \/ PollRespond(p)
         \/ \E q \in Queues : AgentGiveUp(q) \/ AgentExecute(q) \/ AgentReport(q)
         \/ \E k \in Clusters : AgentCrash(k)
         \/ MasterRestart
         \/ UNCHANGED <<agentPc, agentCmd, outcome, ran>>
<1>1. CASE UNCHANGED vars
  BY <1>1 DEF vars, agents
<1>2. ASSUME NEW c \in Commands,
             \/ EnqueueAppend(c) \/ FinishSubmit(c) \/ Await(c)
             \/ HandleResult(c) \/ Cleanup(c)
      PROVE  UNCHANGED <<agentPc, agentCmd, outcome, ran>>
  BY <1>2 DEF agents, EnqueueAppend, FinishSubmit, EnqueueRecord, EnqueueNotify,
     CreateHistory, Await, ReturnAtOnce, WaitCheck, WaitRegister, WaitReceive,
     WaitTimeout, WaitLeave, HandleResult, AckRecord, AckWake, PersistResult, Cleanup
<1>3. ASSUME NEW p \in Polls, Serve(p)
      PROVE  PollRespond(p) \/ UNCHANGED <<agentPc, agentCmd, outcome, ran>>
  BY <1>3 DEF agents, Serve, PollCheck, PollWake, PollSecondCheck, PollTimeout,
     PollMarkRunning, PollCancelled
<1>4. ASSUME NEW q \in Queues, Work(q)
      PROVE  AgentExecute(q) \/ AgentReport(q) \/ \E p \in Polls : AgentPoll(p)
  <2>1. \A n \in Slots : <<q, n>> \in Polls
    BY DEF Polls
  <2> QED
    BY <1>4, <2>1 DEF Work
<1>5. CASE Next
  BY <1>2, <1>3, <1>4, <1>5, Zenon DEF Next
<1> QED
  BY <1>1, <1>5

(* Popping a queue, or finding it empty, keeps the types of the queues and of *)
(* what the handlers hold.                                                    *)
LEMMA PopTypes ==
  ASSUME BusTypes, PollTypes, NEW p \in Polls, NEW otherwise, PopOr(p, otherwise)
  PROVE  /\ queue' \in [Queues -> Seq(Commands)]
         /\ pollCmd' \in [Polls -> Commands \cup {NoCommand}]
<1>1. CASE queue[QueueOf(p)] # <<>>
  <2>1. QueueOf(p) \in Queues /\ queue[QueueOf(p)] \in Seq(Commands)
    BY HomesAndQueues DEF BusTypes
  <2>2. /\ Head(queue[QueueOf(p)]) \in Commands
        /\ Tail(queue[QueueOf(p)]) \in Seq(Commands)
    BY <2>1, <1>1
  <2>3. /\ queue' = [queue EXCEPT ![QueueOf(p)] = Tail(queue[QueueOf(p)])]
        /\ pollCmd' = [pollCmd EXCEPT ![p] = Head(queue[QueueOf(p)])]
    BY <1>1 DEF PopOr
  <2>4. queue' \in [Queues -> Seq(Commands)]
    BY <2>2, <2>3 DEF BusTypes
  <2>5. pollCmd' \in [Polls -> Commands \cup {NoCommand}]
    BY <2>2, <2>3 DEF PollTypes
  <2> QED
    BY <2>4, <2>5
<1>2. CASE queue[QueueOf(p)] = <<>>
  BY <1>2 DEF PopOr, BusTypes, PollTypes
<1> QED
  BY <1>1, <1>2

(* A loop that executes or reports has a command to execute or report.        *)
AgentsHaveWork ==
  \A q \in Queues : agentPc[q] \in {"execute", "report"} => agentCmd[q] \in Commands

(* The types, strengthened so that every step keeps them: without it, the log *)
(* of executed commands could be extended with NoCommand.                     *)
LEMMA TypesAndWork == Spec => [](TypeOK /\ AgentsHaveWork)
<1>1. Init => TypeOK /\ AgentsHaveWork
  BY DEF AgentsHaveWork, Init, TypeOK, BusTypes, ClientTypes, PollTypes, AgentTypes, ReportTypes,
         Statuses, CallerStates, PollStates, AgentStates, ReportStates
<1>2. TypeOK /\ AgentsHaveWork /\ [Next]_vars => TypeOK'
  <2> SUFFICES ASSUME TypeOK, AgentsHaveWork, [Next]_vars PROVE TypeOK'
    OBVIOUS
  <2> USE DEF TypeOK
  <2>1. ASSUME NEW c \in Commands, EnqueueAppend(c) PROVE TypeOK'
    <3>1. BusTypes'
      BY <2>1, HomesAndQueues DEF EnqueueAppend, BusTypes, Statuses, Finished, bus
    <3>2. ClientTypes'
      BY <2>1, HomesAndQueues DEF EnqueueAppend, ClientTypes, CallerStates, clients
    <3>3. PollTypes' /\ AgentTypes' /\ ReportTypes'
      BY <2>1 DEF EnqueueAppend, PollTypes, AgentTypes, ReportTypes, polls, agents
    <3> QED
      BY <3>1, <3>2, <3>3
  <2>2. ASSUME NEW c \in Commands, EnqueueRecord(c) PROVE TypeOK'
    <3>1. BusTypes'
      BY <2>2 DEF EnqueueRecord, BusTypes, Statuses, Finished, bus
    <3>2. ClientTypes'
      BY <2>2 DEF EnqueueRecord, ClientTypes, CallerStates, clients
    <3>3. PollTypes' /\ AgentTypes' /\ ReportTypes'
      BY <2>2 DEF EnqueueRecord, PollTypes, AgentTypes, ReportTypes, polls, agents
    <3> QED
      BY <3>1, <3>2, <3>3
  <2>3. ASSUME NEW c \in Commands, EnqueueNotify(c) PROVE TypeOK'
    <3>1. BusTypes'
      BY <2>3 DEF EnqueueNotify, BusTypes, Statuses, Finished, bus
    <3>2. ClientTypes'
      BY <2>3 DEF EnqueueNotify, ClientTypes, CallerStates, clients
    <3>3. PollTypes' /\ AgentTypes' /\ ReportTypes'
      BY <2>3 DEF EnqueueNotify, PollTypes, AgentTypes, ReportTypes, polls, agents
    <3> QED
      BY <3>1, <3>2, <3>3
  <2>4. ASSUME NEW c \in Commands, CreateHistory(c) PROVE TypeOK'
    <3>1. ClientTypes'
      BY <2>4 DEF CreateHistory, ClientTypes, CallerStates, clients
    <3>2. ReportTypes'
      BY <2>4 DEF CreateHistory, ReportTypes, Statuses, Finished, ReportStates
    <3>3. BusTypes' /\ PollTypes' /\ AgentTypes'
      BY <2>4 DEF CreateHistory, BusTypes, PollTypes, AgentTypes, bus, polls, agents
    <3> QED
      BY <3>1, <3>2, <3>3
  <2>5. ASSUME NEW c \in Commands, ReturnAtOnce(c) PROVE TypeOK'
    <3>1. ClientTypes'
      BY <2>5 DEF ReturnAtOnce, ClientTypes, CallerStates, clients
    <3>2. BusTypes' /\ PollTypes' /\ AgentTypes' /\ ReportTypes'
      BY <2>5 DEF ReturnAtOnce, BusTypes, PollTypes, AgentTypes, ReportTypes, bus, polls, agents
    <3> QED
      BY <3>1, <3>2
  <2>6. ASSUME NEW c \in Commands, WaitCheck(c) PROVE TypeOK'
    <3>1. ClientTypes'
      BY <2>6 DEF WaitCheck, HasResult, ClientTypes, BusTypes, CallerStates, clients
    <3>2. BusTypes' /\ PollTypes' /\ AgentTypes' /\ ReportTypes'
      BY <2>6 DEF WaitCheck, BusTypes, PollTypes, AgentTypes, ReportTypes, bus, polls, agents
    <3> QED
      BY <3>1, <3>2
  <2>7. ASSUME NEW c \in Commands, WaitRegister(c) PROVE TypeOK'
    <3>1. BusTypes'
      BY <2>7 DEF WaitRegister, BusTypes, Statuses, Finished, bus
    <3>2. ClientTypes'
      BY <2>7 DEF WaitRegister, ClientTypes, CallerStates, clients
    <3>3. PollTypes' /\ AgentTypes' /\ ReportTypes'
      BY <2>7 DEF WaitRegister, PollTypes, AgentTypes, ReportTypes, polls, agents
    <3> QED
      BY <3>1, <3>2, <3>3
  <2>8. ASSUME NEW c \in Commands, WaitReceive(c) PROVE TypeOK'
    <3>1. BusTypes'
      BY <2>8 DEF WaitReceive, BusTypes, Statuses, Finished, bus
    <3>2. ClientTypes'
      BY <2>8 DEF WaitReceive, ClientTypes, BusTypes, CallerStates, clients
    <3>3. PollTypes' /\ AgentTypes' /\ ReportTypes'
      BY <2>8 DEF WaitReceive, PollTypes, AgentTypes, ReportTypes, polls, agents
    <3> QED
      BY <3>1, <3>2, <3>3
  <2>9. ASSUME NEW c \in Commands, WaitTimeout(c) PROVE TypeOK'
    <3>1. ClientTypes'
      BY <2>9 DEF WaitTimeout, ClientTypes, CallerStates, clients
    <3>2. BusTypes' /\ PollTypes' /\ AgentTypes' /\ ReportTypes'
      BY <2>9 DEF WaitTimeout, BusTypes, PollTypes, AgentTypes, ReportTypes, bus, polls, agents
    <3> QED
      BY <3>1, <3>2
  <2>10. ASSUME NEW c \in Commands, WaitLeave(c) PROVE TypeOK'
    <3>1. BusTypes'
      BY <2>10 DEF WaitLeave, BusTypes, Statuses, Finished, bus
    <3>2. ClientTypes'
      BY <2>10 DEF WaitLeave, ClientTypes, CallerStates, clients
    <3>3. PollTypes' /\ AgentTypes' /\ ReportTypes'
      BY <2>10 DEF WaitLeave, PollTypes, AgentTypes, ReportTypes, polls, agents
    <3> QED
      BY <3>1, <3>2, <3>3
  <2>11. ASSUME NEW p \in Polls, AgentPoll(p) PROVE TypeOK'
    <3>1. PollTypes'
      BY <2>11, HomesAndQueues DEF AgentPoll, PollTypes, PollStates, polls
    <3>2. AgentTypes'
      BY <2>11, HomesAndQueues DEF AgentPoll, AgentTypes, AgentStates, agents
    <3>3. BusTypes' /\ ClientTypes' /\ ReportTypes'
      BY <2>11 DEF AgentPoll, BusTypes, ClientTypes, ReportTypes, bus, clients
    <3> QED
      BY <3>1, <3>2, <3>3
  <2>12. ASSUME NEW p \in Polls, PollCheck(p) PROVE TypeOK'
    <3>1. BusTypes'
      BY <2>12, PopTypes DEF PollCheck, BusTypes
    <3>2. PollTypes'
      BY <2>12, PopTypes DEF PollCheck, PopOr, PollTypes, PollStates
    <3>3. ClientTypes' /\ AgentTypes' /\ ReportTypes'
      BY <2>12 DEF PollCheck, PopOr, ClientTypes, AgentTypes, ReportTypes, clients, agents
    <3> QED
      BY <3>1, <3>2, <3>3
  <2>13. ASSUME NEW p \in Polls, PollWake(p) PROVE TypeOK'
    <3>1. BusTypes'
      BY <2>13 DEF PollWake, BusTypes, Statuses, Finished, bus
    <3>2. PollTypes'
      BY <2>13 DEF PollWake, PollTypes, PollStates, polls
    <3>3. ClientTypes' /\ AgentTypes' /\ ReportTypes'
      BY <2>13 DEF PollWake, ClientTypes, AgentTypes, ReportTypes, clients, agents
    <3> QED
      BY <3>1, <3>2, <3>3
  <2>14. ASSUME NEW p \in Polls, PollSecondCheck(p) PROVE TypeOK'
    <3>1. BusTypes'
      BY <2>14, PopTypes DEF PollSecondCheck, BusTypes
    <3>2. PollTypes'
      BY <2>14, PopTypes DEF PollSecondCheck, PopOr, PollTypes, PollStates
    <3>3. ClientTypes' /\ AgentTypes' /\ ReportTypes'
      BY <2>14 DEF PollSecondCheck, PopOr, ClientTypes, AgentTypes, ReportTypes, clients, agents
    <3> QED
      BY <3>1, <3>2, <3>3
  <2>15. ASSUME NEW p \in Polls, PollTimeout(p) PROVE TypeOK'
    <3>1. PollTypes'
      BY <2>15 DEF PollTimeout, PollTypes, PollStates, polls
    <3>2. BusTypes' /\ ClientTypes' /\ AgentTypes' /\ ReportTypes'
      BY <2>15 DEF PollTimeout, BusTypes, ClientTypes, AgentTypes, ReportTypes, bus, clients, agents
    <3> QED
      BY <3>1, <3>2
  <2>16. ASSUME NEW p \in Polls, PollMarkRunning(p) PROVE TypeOK'
    <3>1. BusTypes'
      BY <2>16 DEF PollMarkRunning, BusTypes, Statuses, Finished, bus
    <3>2. PollTypes'
      BY <2>16 DEF PollMarkRunning, PollTypes, PollStates, polls
    <3>3. ClientTypes' /\ AgentTypes' /\ ReportTypes'
      BY <2>16 DEF PollMarkRunning, ClientTypes, AgentTypes, ReportTypes, clients, agents
    <3> QED
      BY <3>1, <3>2, <3>3
  <2>17. ASSUME NEW p \in Polls, PollRespond(p) PROVE TypeOK'
    <3>1. PollTypes'
      BY <2>17, HomesAndQueues DEF PollRespond, Release, PollTypes, PollStates, polls
    <3>2. AgentTypes'
      BY <2>17, HomesAndQueues DEF PollRespond, Release, AgentTypes, PollTypes, AgentStates
    <3>3. BusTypes' /\ ClientTypes' /\ ReportTypes'
      BY <2>17 DEF PollRespond, Release, BusTypes, ClientTypes, ReportTypes, bus, clients
    <3> QED
      BY <3>1, <3>2, <3>3
  <2>18. ASSUME NEW p \in Polls, PollCancelled(p) PROVE TypeOK'
    <3>1. PollTypes'
      BY <2>18 DEF PollCancelled, Release, PollTypes, PollStates, polls
    <3>2. BusTypes' /\ ClientTypes' /\ AgentTypes' /\ ReportTypes'
      BY <2>18 DEF PollCancelled, Release, BusTypes, ClientTypes, AgentTypes, ReportTypes, bus, clients, agents
    <3> QED
      BY <3>1, <3>2
  <2>19. ASSUME NEW q \in Queues, AgentGiveUp(q) PROVE TypeOK'
    <3>1. PollTypes'
      BY <2>19 DEF AgentGiveUp, Disconnect, PollTypes, PollStates, polls
    <3>2. AgentTypes'
      BY <2>19 DEF AgentGiveUp, Disconnect, AgentTypes, AgentStates, agents
    <3>3. BusTypes' /\ ClientTypes' /\ ReportTypes'
      BY <2>19 DEF AgentGiveUp, Disconnect, BusTypes, ClientTypes, ReportTypes, bus, clients
    <3> QED
      BY <3>1, <3>2, <3>3
  <2>20. ASSUME NEW q \in Queues, AgentExecute(q) PROVE TypeOK'
    <3>1. AgentTypes'
      BY <2>20 DEF AgentExecute, AgentTypes, AgentStates, AgentsHaveWork
    <3>2. BusTypes' /\ ClientTypes' /\ PollTypes' /\ ReportTypes'
      BY <2>20 DEF AgentExecute, BusTypes, ClientTypes, PollTypes, ReportTypes, bus, clients, polls
    <3> QED
      BY <3>1, <3>2
  <2>21. ASSUME NEW q \in Queues, AgentReport(q) PROVE TypeOK'
    <3>1. AgentTypes'
      BY <2>21 DEF AgentReport, AgentTypes, AgentStates, agents
    <3>2. ReportTypes'
      BY <2>21 DEF AgentReport, ReportTypes, Statuses, Finished, ReportStates
    <3>3. BusTypes' /\ ClientTypes' /\ PollTypes'
      BY <2>21 DEF AgentReport, BusTypes, ClientTypes, PollTypes, bus, clients, polls
    <3> QED
      BY <3>1, <3>2, <3>3
  <2>22. ASSUME NEW c \in Commands, AckRecord(c) PROVE TypeOK'
    <3>1. BusTypes'
      BY <2>22 DEF AckRecord, StatusOf, BusTypes, AgentTypes, agents, Statuses, Finished
    <3>2. ReportTypes'
      BY <2>22 DEF AckRecord, StatusOf, ReportTypes, Statuses, Finished, ReportStates
    <3>3. ClientTypes' /\ PollTypes' /\ AgentTypes'
      BY <2>22 DEF AckRecord, StatusOf, ClientTypes, PollTypes, AgentTypes, clients, polls, agents
    <3> QED
      BY <3>1, <3>2, <3>3
  <2>23. ASSUME NEW c \in Commands, AckWake(c) PROVE TypeOK'
    <3>1. BusTypes'
      BY <2>23 DEF AckWake, BusTypes, AgentTypes
    <3>2. ReportTypes'
      BY <2>23 DEF AckWake, ReportTypes, Statuses, Finished, ReportStates
    <3>3. ClientTypes' /\ PollTypes' /\ AgentTypes'
      BY <2>23 DEF AckWake, ClientTypes, PollTypes, AgentTypes, clients, polls, agents
    <3> QED
      BY <3>1, <3>2, <3>3
  <2>24. ASSUME NEW c \in Commands, PersistResult(c) PROVE TypeOK'
    <3>1. ReportTypes'
      BY <2>24 DEF PersistResult, StatusOf, ReportTypes, Statuses, Finished, ReportStates
    <3>2. BusTypes' /\ ClientTypes' /\ PollTypes' /\ AgentTypes'
      BY <2>24 DEF PersistResult, StatusOf, BusTypes, ClientTypes, PollTypes, AgentTypes, bus, clients, polls, agents
    <3> QED
      BY <3>1, <3>2
  <2>25. ASSUME NEW c \in Commands, Cleanup(c) PROVE TypeOK'
    <3>1. BusTypes'
      BY <2>25 DEF Cleanup, BusTypes, Statuses, Finished, bus
    <3>2. ClientTypes' /\ PollTypes' /\ AgentTypes' /\ ReportTypes'
      BY <2>25 DEF Cleanup, ClientTypes, PollTypes, AgentTypes, ReportTypes, clients, polls, agents
    <3> QED
      BY <3>1, <3>2
  <2>26. ASSUME NEW k \in Clusters, AgentCrash(k) PROVE TypeOK'
    <3>1. PollTypes'
      BY <2>26 DEF AgentCrash, Disconnect, PollTypes, PollStates, polls
    <3>2. AgentTypes'
      BY <2>26 DEF AgentCrash, Disconnect, AgentTypes, AgentStates, agents
    <3>3. BusTypes' /\ ClientTypes' /\ ReportTypes'
      BY <2>26 DEF AgentCrash, Disconnect, BusTypes, ClientTypes, ReportTypes, bus, clients
    <3> QED
      BY <3>1, <3>2, <3>3
  <2>27. ASSUME MasterRestart PROVE TypeOK'
    <3>1. BusTypes'
      BY <2>27 DEF MasterRestart, BusTypes, Statuses, Finished, bus
    <3>2. ClientTypes'
      BY <2>27 DEF MasterRestart, ClientTypes, CallerStates, clients
    <3>3. PollTypes'
      BY <2>27 DEF MasterRestart, PollTypes, PollStates, polls
    <3>4. AgentTypes'
      BY <2>27 DEF MasterRestart, AgentTypes, AgentStates, agents
    <3>5. ReportTypes'
      BY <2>27 DEF MasterRestart, ReportTypes, Statuses, Finished, ReportStates
    <3> QED
      BY <3>1, <3>2, <3>3, <3>4, <3>5
  <2>28. CASE UNCHANGED vars
    BY <2>28 DEF vars, bus, clients, polls, agents, BusTypes, ClientTypes, PollTypes,
            AgentTypes, ReportTypes
  <2> QED
    BY NextCases, <2>1, <2>2, <2>3, <2>4, <2>5, <2>6, <2>7, <2>8, <2>9, <2>10, <2>11, <2>12, <2>13, <2>14, <2>15, <2>16, <2>17, <2>18, <2>19, <2>20, <2>21, <2>22, <2>23, <2>24, <2>25, <2>26, <2>27, <2>28
<1>3. TypeOK /\ AgentsHaveWork /\ [Next]_vars => AgentsHaveWork'
  <2> SUFFICES ASSUME TypeOK, AgentsHaveWork, [Next]_vars PROVE AgentsHaveWork'
    OBVIOUS
  <2>1. ASSUME NEW p \in Polls, AgentPoll(p) PROVE AgentsHaveWork'
    BY <2>1, HomesAndQueues DEF AgentPoll, AgentsHaveWork, TypeOK, AgentTypes
  <2>2. ASSUME NEW p \in Polls, PollRespond(p) PROVE AgentsHaveWork'
    BY <2>2, HomesAndQueues DEF PollRespond, AgentsHaveWork, TypeOK, AgentTypes, PollTypes
  <2>3. ASSUME NEW q \in Queues, AgentGiveUp(q) PROVE AgentsHaveWork'
    BY <2>3 DEF AgentGiveUp, AgentsHaveWork, TypeOK, AgentTypes
  <2>4. ASSUME NEW q \in Queues, AgentExecute(q) PROVE AgentsHaveWork'
    BY <2>4 DEF AgentExecute, AgentsHaveWork, TypeOK, AgentTypes
  <2>5. ASSUME NEW q \in Queues, AgentReport(q) PROVE AgentsHaveWork'
    BY <2>5 DEF AgentReport, AgentsHaveWork, TypeOK, AgentTypes
  <2>6. ASSUME NEW k \in Clusters, AgentCrash(k) PROVE AgentsHaveWork'
    BY <2>6 DEF AgentCrash, AgentsHaveWork
  <2>7. CASE MasterRestart
    BY <2>7 DEF MasterRestart, AgentsHaveWork
  <2>8. CASE UNCHANGED <<agentPc, agentCmd>>
    BY <2>8 DEF AgentsHaveWork
  <2> QED
    BY <2>1, <2>2, <2>3, <2>4, <2>5, <2>6, <2>7, <2>8, AgentSteps
<1> QED
  BY <1>1, <1>2, <1>3, PTL DEF Spec

(* The variables keep their types: every behaviour of the pipeline stays      *)
(* within the states that TypeOK describes.                                   *)
THEOREM TypeCorrect == Spec => []TypeOK
  BY TypesAndWork, PTL

-----------------------------------------------------------------------------
Known(c) == caller[c] # "new"

\* Command c is older than everything in queue q.
BeforeQueue(c, q) ==
  \A j \in 1..Len(queue[q]) : ticket[c] < ticket[queue[q][j]]

\* Command c is younger than everything the loop of q has executed.
AfterRan(c, q) ==
  \A j \in 1..Len(ran[q]) : ticket[ran[q][j]] < ticket[c]

\* No ticket was given out that is above the count of its queue.
TicketsCounted ==
  \A c \in Commands : Known(c) => ticket[c] <= sent[Home[c]]

QueueSorted ==
  \A q \in Queues : \A i \in 1..Len(queue[q]) :
    /\ Home[queue[q][i]] = q
    /\ Known(queue[q][i])
    /\ \A j \in 1..Len(queue[q]) : i < j => ticket[queue[q][i]] < ticket[queue[q][j]]

HeldIsOlder ==
  \A p \in Polls : pollCmd[p] # NoCommand =>
    /\ pollPc[p] \in {"popped", "respond"}
    /\ Home[pollCmd[p]] = QueueOf(p)
    /\ Known(pollCmd[p])
    /\ BeforeQueue(pollCmd[p], QueueOf(p))

ReadyIsOlder ==
  \A q \in Queues : agentPc[q] = "execute" =>
    /\ agentCmd[q] \in Commands
    /\ Home[agentCmd[q]] = q
    /\ Known(agentCmd[q])
    /\ BeforeQueue(agentCmd[q], q)
    /\ AfterRan(agentCmd[q], q)

RanSorted ==
  \A q \in Queues : \A i \in 1..Len(ran[q]) :
    /\ Home[ran[q][i]] = q
    /\ Known(ran[q][i])
    /\ BeforeQueue(ran[q][i], q)
    /\ \A j \in 1..Len(ran[q]) : i < j => ticket[ran[q][i]] < ticket[ran[q][j]]

\* A loop waits for at most one handler, and only while it polls; what that
\* handler holds is younger than everything the loop has executed.
OneClient ==
  /\ \A p \in Polls : connected[p] =>
       /\ agentPc[QueueOf(p)] = "polling"
       /\ pollCmd[p] # NoCommand => AfterRan(pollCmd[p], QueueOf(p))
  /\ \A p1, p2 \in Polls :
       connected[p1] /\ connected[p2] /\ QueueOf(p1) = QueueOf(p2) => p1 = p2

DeliveryInv ==
  /\ TicketsCounted
  /\ QueueSorted
  /\ HeldIsOlder
  /\ ReadyIsOlder
  /\ RanSorted
  /\ OneClient

-----------------------------------------------------------------------------
(* A step that moves no command along its path keeps the invariant, whatever   *)
(* it drops on the way: queued commands, what handlers and loops hold, and the *)
(* connections between them.                                                   *)
LEMMA StayingOrLosing ==
  ASSUME TypeOK, DeliveryInv,
         \A c \in Commands : (caller'[c] = "new") = (caller[c] = "new"),
         UNCHANGED <<sent, ticket, ran>>,
         \A q \in Queues : queue'[q] \in {queue[q], <<>>},
         \A p \in Polls : pollCmd'[p] # NoCommand =>
           pollCmd'[p] = pollCmd[p] /\ pollPc'[p] \in {"popped", "respond"},
         \A p \in Polls : connected'[p] =>
           connected[p] /\ agentPc'[QueueOf(p)] = "polling",
         \A q \in Queues : agentPc'[q] = "execute" =>
           agentPc[q] = "execute" /\ agentCmd'[q] = agentCmd[q]
  PROVE  DeliveryInv'
<1>1. TicketsCounted'
  BY DEF DeliveryInv, TicketsCounted, Known
<1>2. /\ \A q \in Queues : \A i \in 1..Len(queue[q]) : queue[q][i] \in Commands
      /\ \A q \in Queues : \A i \in 1..Len(ran[q]) : ran[q][i] \in Commands
  BY DEF TypeOK, BusTypes, AgentTypes
<1>3. ASSUME NEW c, NEW q \in Queues, BeforeQueue(c, q)
      PROVE  BeforeQueue(c, q)'
  <2>1. CASE queue'[q] = queue[q]
    BY <1>3, <2>1 DEF BeforeQueue
  <2>2. CASE queue'[q] = <<>>
    BY <2>2 DEF BeforeQueue
  <2> QED
    BY <2>1, <2>2
<1>4. QueueSorted'
  <2> SUFFICES ASSUME NEW q \in Queues, NEW i \in 1..Len(queue'[q])
               PROVE  /\ Home[queue'[q][i]] = q
                      /\ caller'[queue'[q][i]] # "new"
                      /\ \A j \in 1..Len(queue'[q]) : i < j =>
                           ticket[queue'[q][i]] < ticket[queue'[q][j]]
    BY DEF QueueSorted, Known
  <2>1. queue'[q] = queue[q]
    OBVIOUS
  <2> QED
    BY <1>2, <2>1 DEF DeliveryInv, QueueSorted, Known
<1>5. HeldIsOlder'
  <2> SUFFICES ASSUME NEW p \in Polls, NEW c, c = pollCmd'[p], c # NoCommand
               PROVE  /\ pollPc'[p] \in {"popped", "respond"}
                      /\ Home[c] = QueueOf(p)
                      /\ Known(c)'
                      /\ BeforeQueue(c, QueueOf(p))'
    BY DEF HeldIsOlder, Known, BeforeQueue
  <2>1. /\ c \in Commands
        /\ Home[c] = QueueOf(p)
        /\ Known(c)
        /\ BeforeQueue(c, QueueOf(p))
    BY DEF DeliveryInv, HeldIsOlder, TypeOK, PollTypes
  <2> QED
    BY <1>3, <2>1, HomesAndQueues DEF Known
<1>6. ReadyIsOlder'
  <2> SUFFICES ASSUME NEW q \in Queues, agentPc'[q] = "execute",
                      NEW c, c = agentCmd'[q]
               PROVE  /\ c \in Commands
                      /\ Home[c] = q
                      /\ Known(c)'
                      /\ BeforeQueue(c, q)'
                      /\ AfterRan(c, q)'
    BY DEF ReadyIsOlder, Known, BeforeQueue, AfterRan
  <2>1. /\ c \in Commands
        /\ Home[c] = q
        /\ Known(c)
        /\ BeforeQueue(c, q)
        /\ AfterRan(c, q)
    BY DEF DeliveryInv, ReadyIsOlder
  <2> QED
    BY <1>3, <2>1 DEF Known, AfterRan
<1>7. RanSorted'
  <2> SUFFICES ASSUME NEW q \in Queues, NEW i \in 1..Len(ran[q]),
                      NEW c, c = ran[q][i]
               PROVE  /\ Home[c] = q
                      /\ Known(c)'
                      /\ BeforeQueue(c, q)'
                      /\ \A j \in 1..Len(ran[q]) : i < j => ticket[c] < ticket[ran[q][j]]
    BY DEF RanSorted, Known, BeforeQueue
  <2>1. /\ Home[c] = q
        /\ Known(c)
        /\ BeforeQueue(c, q)
        /\ \A j \in 1..Len(ran[q]) : i < j => ticket[c] < ticket[ran[q][j]]
    BY DEF DeliveryInv, RanSorted
  <2> QED
    BY <1>2, <1>3, <2>1 DEF Known
<1>8. OneClient'
  <2>1. ASSUME NEW p \in Polls, connected'[p], NEW c, c = pollCmd'[p], c # NoCommand
        PROVE  AfterRan(c, QueueOf(p))'
    BY <2>1 DEF DeliveryInv, OneClient, AfterRan
  <2>2. \A p1, p2 \in Polls :
          connected'[p1] /\ connected'[p2] /\ QueueOf(p1) = QueueOf(p2) => p1 = p2
    BY DEF DeliveryInv, OneClient
  <2> QED
    BY <2>1, <2>2 DEF OneClient, AfterRan
<1> QED
  BY <1>1, <1>4, <1>5, <1>6, <1>7, <1>8 DEF DeliveryInv

(* Submitting gives c the newest ticket of its queue and its last place.      *)
LEMMA AppendStep ==
  ASSUME TypeOK, DeliveryInv, NEW c \in Commands, EnqueueAppend(c)
  PROVE  DeliveryInv'
<1> DEFINE h == Home[c]
<1>1. /\ h \in Queues
      /\ ~Known(c)
      /\ queue[h] \in Seq(Commands)
      /\ sent[h] \in Nat
      /\ \A x \in Commands : ticket[x] \in Nat
  BY HomesAndQueues DEF EnqueueAppend, Known, TypeOK, BusTypes, ClientTypes
<1>2. /\ \A q \in Queues : q # h => queue'[q] = queue[q] /\ sent'[q] = sent[q]
      /\ queue'[h] = Append(queue[h], c)
      /\ sent'[h] = sent[h] + 1
      /\ \A x \in Commands : x # c => ticket'[x] = ticket[x] /\ Known(x)' = Known(x)
      /\ ticket'[c] = sent[h] + 1
      /\ Known(c)'
      /\ UNCHANGED <<pollPc, pollCmd, connected, agentPc, agentCmd, ran>>
  BY <1>1 DEF EnqueueAppend, Known, TypeOK, BusTypes, ClientTypes, polls, agents
<1>3. /\ Len(queue'[h]) = Len(queue[h]) + 1
      /\ \A i \in 1..Len(queue[h]) : queue'[h][i] = queue[h][i]
      /\ queue'[h][Len(queue[h]) + 1] = c
      /\ Len(queue[h]) \in Nat
  BY <1>1, <1>2
\* Everything submitted to the queue of c before is older than c.
<1>4. ASSUME NEW x \in Commands, Known(x)
      PROVE  /\ x # c
             /\ Home[x] = h => ticket'[x] < ticket'[c]
  <2>1. Home[x] = h => ticket[x] <= sent[h]
    BY <1>4 DEF DeliveryInv, TicketsCounted
  <2> QED
    BY <1>1, <1>2, <1>4, <2>1
<1>5. ASSUME NEW x \in Commands, Known(x), NEW q \in Queues, Home[x] = q,
             BeforeQueue(x, q)
      PROVE  BeforeQueue(x, q)'
  <2>1. \A j \in 1..Len(queue[q]) : queue[q][j] # c /\ queue[q][j] \in Commands
    BY <1>4 DEF DeliveryInv, QueueSorted, TypeOK, BusTypes
  <2>2. CASE q # h
    BY <1>2, <1>4, <1>5, <2>1, <2>2 DEF BeforeQueue
  <2>3. CASE q = h
    <3>1. \A j \in 1..Len(queue[h]) : ticket'[x] < ticket'[queue'[h][j]]
      BY <1>2, <1>3, <1>4, <1>5, <2>1, <2>3 DEF BeforeQueue
    <3>2. ticket'[x] < ticket'[queue'[h][Len(queue[h]) + 1]]
      BY <1>3, <1>4, <1>5, <2>3
    <3> QED
      BY <1>3, <2>3, <3>1, <3>2 DEF BeforeQueue
  <2> QED
    BY <2>2, <2>3
<1>6. ASSUME NEW q \in Queues, NEW i \in 1..Len(ran[q])
      PROVE  ran[q][i] \in Commands /\ Known(ran[q][i]) /\ ran[q][i] # c
  BY <1>4 DEF DeliveryInv, RanSorted, TypeOK, AgentTypes
<1>7. TicketsCounted'
  BY <1>1, <1>2, HomesAndQueues DEF DeliveryInv, TicketsCounted, ClientTypes, TypeOK
<1>8. QueueSorted'
  <2>1. ASSUME NEW q \in Queues, q # h, NEW i \in 1..Len(queue[q])
        PROVE  queue[q][i] \in Commands /\ queue[q][i] # c
    BY <1>4 DEF DeliveryInv, QueueSorted, TypeOK, BusTypes
  <2>2. ASSUME NEW i \in 1..Len(queue[h])
        PROVE  /\ queue[h][i] \in Commands
               /\ Known(queue[h][i])
               /\ Home[queue[h][i]] = h
    BY <1>1 DEF DeliveryInv, QueueSorted
  <2>3. ASSUME NEW q \in Queues, q # h, NEW i \in 1..Len(queue'[q])
        PROVE  /\ Home[queue'[q][i]] = q
               /\ (Known(queue[q][i]))'
               /\ \A j \in 1..Len(queue'[q]) : i < j =>
                    ticket'[queue'[q][i]] < ticket'[queue'[q][j]]
    BY <1>2, <2>1, <2>3 DEF DeliveryInv, QueueSorted, Known
  <2>4. ASSUME NEW i \in 1..Len(queue'[h])
        PROVE  /\ Home[queue'[h][i]] = h
               /\ (Known(queue[h][i]))'
               /\ \A j \in 1..Len(queue'[h]) : i < j =>
                    ticket'[queue'[h][i]] < ticket'[queue'[h][j]]
    <3>1. CASE i = Len(queue[h]) + 1
      <4>1. Home[queue'[h][i]] = h /\ (Known(queue[h][i]))'
        BY <1>2, <1>3, <3>1 DEF Known
      <4>2. ~ \E j \in 1..Len(queue'[h]) : i < j
        BY <1>3, <3>1
      <4> QED
        BY <4>1, <4>2
    <3>2. CASE i \in 1..Len(queue[h])
      <4>1. Home[queue'[h][i]] = h /\ (Known(queue[h][i]))'
        BY <1>2, <1>3, <1>4, <2>2, <3>2 DEF Known
      <4>2. ASSUME NEW j \in 1..Len(queue[h]), i < j
            PROVE  ticket'[queue'[h][i]] < ticket'[queue'[h][j]]
        <5>1. ticket[queue[h][i]] < ticket[queue[h][j]]
          BY <1>1, <3>2, <4>2 DEF DeliveryInv, QueueSorted
        <5>2. queue[h][i] # c /\ queue[h][j] # c
          BY <1>4, <2>2, <3>2
        <5> QED
          BY <1>2, <1>3, <2>2, <3>2, <5>1, <5>2
      <4>3. ticket'[queue'[h][i]] < ticket'[c]
        BY <1>3, <1>4, <2>2, <3>2
      <4> QED
        BY <1>3, <4>1, <4>2, <4>3
    <3> QED
      BY <1>3, <3>1, <3>2
  <2> QED
    BY <2>3, <2>4 DEF QueueSorted
<1>9. HeldIsOlder'
  BY <1>2, <1>4, <1>5, HomesAndQueues DEF DeliveryInv, HeldIsOlder, TypeOK, PollTypes
<1>10. ReadyIsOlder'
  <2> SUFFICES ASSUME NEW q \in Queues, agentPc[q] = "execute"
               PROVE  /\ agentCmd[q] \in Commands
                      /\ Home[agentCmd[q]] = q
                      /\ Known(agentCmd[q])'
                      /\ BeforeQueue(agentCmd[q], q)'
                      /\ AfterRan(agentCmd[q], q)'
    BY <1>2 DEF ReadyIsOlder, BeforeQueue, AfterRan
  <2>1. /\ agentCmd[q] \in Commands
        /\ Home[agentCmd[q]] = q
        /\ Known(agentCmd[q])
        /\ BeforeQueue(agentCmd[q], q)
        /\ AfterRan(agentCmd[q], q)
    BY DEF DeliveryInv, ReadyIsOlder
  <2>2. Known(agentCmd[q])' /\ BeforeQueue(agentCmd[q], q)'
    BY <1>2, <1>4, <1>5, <2>1 DEF BeforeQueue
  <2>3. AfterRan(agentCmd[q], q)'
    BY <1>2, <1>4, <1>6, <2>1 DEF AfterRan
  <2> QED
    BY <2>1, <2>2, <2>3
<1>11. RanSorted'
  <2> SUFFICES ASSUME NEW q \in Queues, NEW i \in 1..Len(ran[q])
               PROVE  /\ Home[ran[q][i]] = q
                      /\ Known(ran[q][i])'
                      /\ BeforeQueue(ran[q][i], q)'
                      /\ \A j \in 1..Len(ran[q]) : i < j =>
                           ticket'[ran[q][i]] < ticket'[ran[q][j]]
    BY <1>2 DEF RanSorted, BeforeQueue
  <2>1. /\ Home[ran[q][i]] = q
        /\ BeforeQueue(ran[q][i], q)
        /\ \A j \in 1..Len(ran[q]) : i < j => ticket[ran[q][i]] < ticket[ran[q][j]]
    BY DEF DeliveryInv, RanSorted
  <2> QED
    BY <1>2, <1>5, <1>6, <2>1
<1>12. OneClient'
  <2>1. ASSUME NEW p \in Polls, connected[p], pollCmd[p] # NoCommand
        PROVE  AfterRan(pollCmd[p], QueueOf(p))'
    <3>1. /\ pollCmd[p] \in Commands
          /\ Known(pollCmd[p])
          /\ AfterRan(pollCmd[p], QueueOf(p))
      BY <2>1 DEF DeliveryInv, HeldIsOlder, OneClient, TypeOK, PollTypes
    <3> QED
      BY <1>2, <1>4, <1>6, <3>1, HomesAndQueues DEF AfterRan
  <2> QED
    BY <1>2, <2>1 DEF DeliveryInv, OneClient, AfterRan
<1> QED
  BY <1>7, <1>8, <1>9, <1>10, <1>11, <1>12 DEF DeliveryInv

(* A handler that looks at its queue takes the oldest command, if any.        *)
LEMMA PopStep ==
  ASSUME TypeOK, DeliveryInv, NEW p \in Polls, NEW otherwise,
         PopOr(p, otherwise),
         pollPc[p] \in {"check", "woken"},
         UNCHANGED <<caller, sent, ticket, ran, connected, agentPc, agentCmd>>
  PROVE  DeliveryInv'
<1> DEFINE q == QueueOf(p)
<1>1. /\ q \in Queues
      /\ queue[q] \in Seq(Commands)
      /\ pollCmd[p] = NoCommand
  <2>1. q \in Queues /\ queue[q] \in Seq(Commands)
    BY HomesAndQueues DEF TypeOK, BusTypes
  <2>2. pollCmd[p] = NoCommand
    BY DEF DeliveryInv, HeldIsOlder
  <2> QED
    BY <2>1, <2>2
<1>2. CASE queue[q] = <<>>
  <2>1. /\ UNCHANGED <<queue, pollCmd>>
        /\ \A r \in Polls : r # p => pollPc'[r] = pollPc[r]
    BY <1>2 DEF PopOr, TypeOK, PollTypes
  <2> QED
    BY <1>1, <2>1, StayingOrLosing DEF DeliveryInv, HeldIsOlder, OneClient
<1>3. CASE queue[q] # <<>>
  <2>1. PICK d \in Commands : d = Head(queue[q])
    BY <1>1, <1>3
  <2>2. /\ queue'[q] = Tail(queue[q])
        /\ \A k \in Queues : k # q => queue'[k] = queue[k]
        /\ pollCmd'[p] = d
        /\ pollPc'[p] = "popped"
        /\ \A r \in Polls : r # p => pollCmd'[r] = pollCmd[r] /\ pollPc'[r] = pollPc[r]
    BY <1>1, <1>3, <2>1 DEF PopOr, TypeOK, BusTypes, PollTypes
  <2>3. /\ Len(queue'[q]) = Len(queue[q]) - 1
        /\ \A i \in 1..Len(queue'[q]) : /\ i + 1 \in 2..Len(queue[q])
                                      /\ queue'[q][i] = queue[q][i + 1]
        /\ 1 \in 1..Len(queue[q])
        /\ queue[q][1] = d
        /\ \A i \in 1..Len(queue[q]) : queue[q][i] \in Commands
    BY <1>1, <1>3, <2>1, <2>2
  <2>4. ASSUME NEW c \in Commands, NEW k \in Queues, BeforeQueue(c, k)
        PROVE  BeforeQueue(c, k)'
    <3>1. CASE k = q
      <4>1. \A i \in 1..Len(queue'[q]) : ticket[c] < ticket[queue'[q][i]]
        BY <1>1, <2>3, <2>4, <3>1 DEF BeforeQueue
      <4> QED
        BY <3>1, <4>1 DEF BeforeQueue
    <3>2. CASE k # q
      BY <2>2, <2>4, <3>2 DEF BeforeQueue
    <3> QED
      BY <3>1, <3>2
  <2>5. /\ Home[d] = q
        /\ Known(d)
        /\ \A j \in 2..Len(queue[q]) : ticket[d] < ticket[queue[q][j]]
    BY <1>1, <2>3 DEF DeliveryInv, QueueSorted
  <2>6. BeforeQueue(d, q)'
    BY <2>3, <2>5 DEF BeforeQueue
  <2>7. AfterRan(d, q)
    BY <1>1, <2>3 DEF DeliveryInv, RanSorted, BeforeQueue, AfterRan
  <2>8. TicketsCounted'
    BY DEF DeliveryInv, TicketsCounted, Known
  <2>9. QueueSorted'
    <3>1. \A i \in 1..Len(queue'[q]) :
            /\ Home[queue'[q][i]] = q
            /\ caller[queue'[q][i]] # "new"
            /\ \A j \in 1..Len(queue'[q]) :
                 i < j => ticket[queue'[q][i]] < ticket[queue'[q][j]]
      <4>1. \A i \in 1..Len(queue[q]) :
              /\ Home[queue[q][i]] = q
              /\ caller[queue[q][i]] # "new"
              /\ \A j \in 1..Len(queue[q]) :
                   i < j => ticket[queue[q][i]] < ticket[queue[q][j]]
        BY <1>1 DEF DeliveryInv, QueueSorted, Known
      <4>2. \A i \in 1..Len(queue'[q]) : i + 1 \in 1..Len(queue[q])
        BY <2>3
      <4> QED
        BY <2>3, <4>1, <4>2
    <3>2. \A k \in Queues : k # q => \A i \in 1..Len(queue'[k]) :
            /\ Home[queue'[k][i]] = k
            /\ caller[queue'[k][i]] # "new"
            /\ \A j \in 1..Len(queue'[k]) :
                 i < j => ticket[queue'[k][i]] < ticket[queue'[k][j]]
      BY <2>2 DEF DeliveryInv, QueueSorted, Known
    <3> QED
      BY <3>1, <3>2 DEF QueueSorted, Known
  <2>10. HeldIsOlder'
    <3> SUFFICES ASSUME NEW r \in Polls, NEW c \in Commands, pollCmd'[r] = c
                 PROVE  /\ pollPc'[r] \in {"popped", "respond"}
                        /\ Home[c] = QueueOf(r)
                        /\ Known(c)'
                        /\ BeforeQueue(c, QueueOf(r))'
      <4>1. \A r \in Polls : pollCmd'[r] # NoCommand => pollCmd'[r] \in Commands
        BY <1>1, <2>2 DEF TypeOK, PollTypes
      <4> QED
        BY <4>1 DEF HeldIsOlder, BeforeQueue, Known
    <3>1. CASE r = p
      BY <2>2, <2>5, <2>6, <3>1 DEF Known
    <3>2. CASE r # p
      <4>1. /\ c # NoCommand
            /\ pollCmd[r] = c
            /\ pollPc'[r] = pollPc[r]
        BY <2>2, <3>2, NilAssumption
      <4>2. /\ pollPc[r] \in {"popped", "respond"}
            /\ Home[c] = QueueOf(r)
            /\ Known(c)
            /\ BeforeQueue(c, QueueOf(r))
        BY <4>1 DEF DeliveryInv, HeldIsOlder
      <4> QED
        BY <2>4, <4>1, <4>2, HomesAndQueues DEF Known
    <3> QED
      BY <3>1, <3>2
  <2>11. ReadyIsOlder'
    <3> SUFFICES ASSUME NEW k \in Queues, agentPc[k] = "execute",
                        NEW c, c = agentCmd[k]
                 PROVE  /\ c \in Commands
                        /\ Home[c] = k
                        /\ Known(c)'
                        /\ BeforeQueue(c, k)'
                        /\ AfterRan(c, k)'
      BY DEF ReadyIsOlder, BeforeQueue, AfterRan, Known
    <3>1. /\ c \in Commands
          /\ Home[c] = k
          /\ Known(c)
          /\ BeforeQueue(c, k)
          /\ AfterRan(c, k)
      BY DEF DeliveryInv, ReadyIsOlder
    <3> QED
      BY <2>4, <3>1 DEF Known, AfterRan
  <2>12. RanSorted'
    <3> SUFFICES ASSUME NEW k \in Queues, NEW i \in 1..Len(ran[k]),
                        NEW c \in Commands, c = ran[k][i]
                 PROVE  /\ Home[c] = k
                        /\ Known(c)'
                        /\ BeforeQueue(c, k)'
                        /\ \A j \in 1..Len(ran[k]) : i < j => ticket[c] < ticket[ran[k][j]]
      <4>1. \A k \in Queues : \A i \in 1..Len(ran[k]) : ran[k][i] \in Commands
        BY DEF TypeOK, AgentTypes
      <4> QED
        BY <4>1 DEF RanSorted, BeforeQueue, Known
    <3> QED
      BY <2>4 DEF DeliveryInv, RanSorted, Known
  <2>13. OneClient'
    <3>1. ASSUME NEW r \in Polls, connected[r], NEW c \in Commands, pollCmd'[r] = c
          PROVE  AfterRan(c, QueueOf(r))'
      <4>1. AfterRan(c, QueueOf(r))
        <5>1. CASE r = p
          BY <2>2, <2>7, <3>1, <5>1
        <5>2. CASE r # p
          BY <2>2, <3>1, <5>2, NilAssumption DEF DeliveryInv, OneClient
        <5> QED
          BY <5>1, <5>2
      <4> QED
        BY <4>1 DEF AfterRan
    <3>2. \A r \in Polls : pollCmd'[r] # NoCommand => pollCmd'[r] \in Commands
      BY <1>1, <2>2 DEF TypeOK, PollTypes
    <3>3. \A r \in Polls : connected'[r] => agentPc'[QueueOf(r)] = "polling"
      BY DEF DeliveryInv, OneClient
    <3>4. \A r1, r2 \in Polls :
            connected'[r1] /\ connected'[r2] /\ QueueOf(r1) = QueueOf(r2) => r1 = r2
      BY DEF DeliveryInv, OneClient
    <3> QED
      BY <3>1, <3>2, <3>3, <3>4 DEF OneClient, AfterRan
  <2> QED
    BY <2>8, <2>9, <2>10, <2>11, <2>12, <2>13 DEF DeliveryInv
<1> QED
  BY <1>2, <1>3

(* A loop that polls has no other handler whose client it is.                 *)
LEMMA PollStep ==
  ASSUME TypeOK, DeliveryInv, NEW p \in Polls, AgentPoll(p)
  PROVE  DeliveryInv'
<1> DEFINE q == QueueOf(p)
<1>1. /\ q \in Queues
      /\ pollCmd[p] = NoCommand
      /\ \A r \in Polls : QueueOf(r) = q => ~connected[r]
  BY HomesAndQueues DEF AgentPoll, DeliveryInv, HeldIsOlder, OneClient
<1>2. /\ UNCHANGED <<caller, queue, sent, ticket, ran, pollCmd, agentCmd>>
      /\ agentPc'[q] = "polling"
      /\ \A k \in Queues : k # q => agentPc'[k] = agentPc[k]
      /\ \A r \in Polls : r # p => pollPc'[r] = pollPc[r] /\ connected'[r] = connected[r]
  BY <1>1 DEF AgentPoll, TypeOK, PollTypes, AgentTypes, bus, clients
<1>3. /\ TicketsCounted'
      /\ QueueSorted'
      /\ RanSorted'
  BY <1>2 DEF DeliveryInv, TicketsCounted, QueueSorted, RanSorted, BeforeQueue, Known
<1>4. HeldIsOlder'
  BY <1>1, <1>2 DEF DeliveryInv, HeldIsOlder, BeforeQueue, Known
<1>5. ReadyIsOlder'
  BY <1>2 DEF DeliveryInv, ReadyIsOlder, BeforeQueue, AfterRan, Known
<1>6. OneClient'
  <2>1. ASSUME NEW r \in Polls, connected'[r]
        PROVE  /\ agentPc'[QueueOf(r)] = "polling"
               /\ pollCmd[r] # NoCommand => AfterRan(pollCmd[r], QueueOf(r))
    BY <1>1, <1>2, <2>1, HomesAndQueues DEF DeliveryInv, OneClient
  <2>2. \A r1, r2 \in Polls :
          connected'[r1] /\ connected'[r2] /\ QueueOf(r1) = QueueOf(r2) => r1 = r2
    BY <1>1, <1>2 DEF DeliveryInv, OneClient
  <2> QED
    BY <1>2, <2>1, <2>2 DEF OneClient, AfterRan
<1> QED
  BY <1>3, <1>4, <1>5, <1>6 DEF DeliveryInv

(* A response hands the command of the handler to the loop it is connected to. *)
LEMMA RespondStep ==
  ASSUME TypeOK, DeliveryInv, NEW p \in Polls, PollRespond(p)
  PROVE  DeliveryInv'
<1> DEFINE q == QueueOf(p)
<1>1. /\ q \in Queues
      /\ UNCHANGED <<caller, queue, sent, ticket, ran>>
      /\ pollCmd'[p] = NoCommand
      /\ ~connected'[p]
      /\ \A r \in Polls : r # p => /\ pollPc'[r] = pollPc[r]
                                 /\ pollCmd'[r] = pollCmd[r]
                                 /\ connected'[r] = connected[r]
      /\ \A k \in Queues : k # q => agentPc'[k] = agentPc[k] /\ agentCmd'[k] = agentCmd[k]
  BY HomesAndQueues DEF PollRespond, Release, TypeOK, PollTypes, AgentTypes, bus, clients
<1>2. CASE ~connected[p]
  <2>1. UNCHANGED <<agentPc, agentCmd>>
    BY <1>2 DEF PollRespond
  <2> QED
    BY <1>1, <2>1, StayingOrLosing DEF DeliveryInv, HeldIsOlder, OneClient
<1>3. ASSUME connected[p]
      PROVE  \A r \in Polls : connected'[r] => QueueOf(r) # q
  BY <1>1, <1>3 DEF DeliveryInv, OneClient
<1>4. CASE connected[p] /\ pollCmd[p] = NoCommand
  <2>1. agentPc'[q] = "idle" /\ agentCmd' = agentCmd
    BY <1>1, <1>4 DEF PollRespond, TypeOK, AgentTypes
  <2> QED
    BY <1>1, <1>3, <1>4, <2>1, HomesAndQueues, StayingOrLosing
    DEF DeliveryInv, HeldIsOlder, OneClient
<1>5. CASE connected[p] /\ pollCmd[p] # NoCommand
  <2>1. PICK d \in Commands : d = pollCmd[p]
    BY <1>5 DEF TypeOK, PollTypes
  <2>2. agentPc'[q] = "execute" /\ agentCmd'[q] = d
    BY <1>1, <1>5, <2>1 DEF PollRespond, TypeOK, AgentTypes
  <2>3. /\ Home[d] = q
        /\ Known(d)
        /\ BeforeQueue(d, q)
        /\ AfterRan(d, q)
    BY <1>5, <2>1 DEF DeliveryInv, HeldIsOlder, OneClient
  <2>4. /\ TicketsCounted'
        /\ QueueSorted'
        /\ RanSorted'
    BY <1>1 DEF DeliveryInv, TicketsCounted, QueueSorted, RanSorted, BeforeQueue, Known
  <2>5. HeldIsOlder'
    BY <1>1 DEF DeliveryInv, HeldIsOlder, BeforeQueue, Known
  <2>6. ReadyIsOlder'
    <3>1. \A k \in Queues : k # q /\ agentPc'[k] = "execute" =>
            /\ agentCmd'[k] \in Commands
            /\ Home[agentCmd'[k]] = k
            /\ Known(agentCmd[k])
            /\ BeforeQueue(agentCmd[k], k)
            /\ AfterRan(agentCmd[k], k)
      BY <1>1 DEF DeliveryInv, ReadyIsOlder
    <3> QED
      BY <1>1, <2>2, <2>3, <3>1 DEF ReadyIsOlder, BeforeQueue, AfterRan, Known
  <2>7. OneClient'
    <3>1. \A r \in Polls : connected'[r] =>
            /\ agentPc'[QueueOf(r)] = "polling"
            /\ pollCmd[r] # NoCommand => AfterRan(pollCmd[r], QueueOf(r))
      BY <1>1, <1>3, <1>5, HomesAndQueues DEF DeliveryInv, OneClient
    <3>2. \A r1, r2 \in Polls :
            connected'[r1] /\ connected'[r2] /\ QueueOf(r1) = QueueOf(r2) => r1 = r2
      BY <1>1 DEF DeliveryInv, OneClient
    <3> QED
      BY <1>1, <3>1, <3>2 DEF OneClient, AfterRan
  <2> QED
    BY <2>4, <2>5, <2>6, <2>7 DEF DeliveryInv
<1> QED
  BY <1>2, <1>4, <1>5

(* Executing moves a command to the end of what its loop has executed.        *)
LEMMA ExecuteStep ==
  ASSUME TypeOK, DeliveryInv, NEW q \in Queues, AgentExecute(q)
  PROVE  DeliveryInv'
<1>1. PICK d \in Commands : d = agentCmd[q]
  BY DEF AgentExecute, DeliveryInv, ReadyIsOlder
<1>2. /\ UNCHANGED <<caller, queue, sent, ticket, pollPc, pollCmd, connected, agentCmd>>
      /\ agentPc'[q] = "report"
      /\ \A k \in Queues : k # q => agentPc'[k] = agentPc[k] /\ ran'[k] = ran[k]
      /\ ran'[q] = Append(ran[q], d)
      /\ ran[q] \in Seq(Commands)
  BY <1>1 DEF AgentExecute, TypeOK, AgentTypes, bus, clients, polls
<1>3. /\ Len(ran'[q]) = Len(ran[q]) + 1
      /\ \A i \in 1..Len(ran[q]) : ran'[q][i] = ran[q][i]
      /\ ran'[q][Len(ran[q]) + 1] = d
      /\ Len(ran[q]) \in Nat
  BY <1>2
<1>4. /\ Home[d] = q
      /\ Known(d)
      /\ BeforeQueue(d, q)
      /\ AfterRan(d, q)
  BY <1>1 DEF AgentExecute, DeliveryInv, ReadyIsOlder
<1>5. \A r \in Polls : connected[r] => QueueOf(r) # q
  BY DEF AgentExecute, DeliveryInv, OneClient
<1>6. TicketsCounted' /\ QueueSorted' /\ HeldIsOlder'
  BY <1>2 DEF DeliveryInv, TicketsCounted, QueueSorted, HeldIsOlder, BeforeQueue, Known
<1>7. ReadyIsOlder'
  BY <1>2 DEF DeliveryInv, ReadyIsOlder, BeforeQueue, AfterRan, Known
<1>8. RanSorted'
  <2>1. ASSUME NEW k \in Queues, k # q
        PROVE  \A i \in 1..Len(ran'[k]) :
                 /\ Home[ran'[k][i]] = k
                 /\ caller[ran'[k][i]] # "new"
                 /\ \A j \in 1..Len(queue[k]) : ticket[ran'[k][i]] < ticket[queue[k][j]]
                 /\ \A j \in 1..Len(ran'[k]) : i < j => ticket[ran'[k][i]] < ticket[ran'[k][j]]
    BY <1>2, <2>1 DEF DeliveryInv, RanSorted, BeforeQueue, Known
  <2>2. ASSUME NEW i \in 1..Len(ran[q])
        PROVE  /\ Home[ran'[q][i]] = q
               /\ caller[ran'[q][i]] # "new"
               /\ \A j \in 1..Len(queue[q]) : ticket[ran'[q][i]] < ticket[queue[q][j]]
               /\ \A j \in 1..Len(ran[q]) : i < j => ticket[ran'[q][i]] < ticket[ran'[q][j]]
               /\ ticket[ran'[q][i]] < ticket[d]
    <3>1. /\ Home[ran[q][i]] = q
          /\ caller[ran[q][i]] # "new"
          /\ \A j \in 1..Len(queue[q]) : ticket[ran[q][i]] < ticket[queue[q][j]]
          /\ \A j \in 1..Len(ran[q]) : i < j => ticket[ran[q][i]] < ticket[ran[q][j]]
      BY DEF DeliveryInv, RanSorted, BeforeQueue, Known
    <3>2. ticket[ran[q][i]] < ticket[d]
      BY <1>4 DEF AfterRan
    <3> QED
      BY <1>3, <3>1, <3>2
  <2>3. /\ Home[ran'[q][Len(ran[q]) + 1]] = q
        /\ caller[ran'[q][Len(ran[q]) + 1]] # "new"
        /\ \A j \in 1..Len(queue[q]) :
             ticket[ran'[q][Len(ran[q]) + 1]] < ticket[queue[q][j]]
    BY <1>3, <1>4 DEF BeforeQueue, Known
  <2>4. \A i \in 1..Len(ran'[q]) :
          /\ Home[ran'[q][i]] = q
          /\ caller[ran'[q][i]] # "new"
          /\ \A j \in 1..Len(queue[q]) : ticket[ran'[q][i]] < ticket[queue[q][j]]
          /\ \A j \in 1..Len(ran'[q]) : i < j => ticket[ran'[q][i]] < ticket[ran'[q][j]]
    <3> SUFFICES ASSUME NEW i \in 1..Len(ran'[q])
                 PROVE  /\ Home[ran'[q][i]] = q
                        /\ caller[ran'[q][i]] # "new"
                        /\ \A j \in 1..Len(queue[q]) :
                             ticket[ran'[q][i]] < ticket[queue[q][j]]
                        /\ \A j \in 1..Len(ran'[q]) :
                             i < j => ticket[ran'[q][i]] < ticket[ran'[q][j]]
      OBVIOUS
    <3>1. CASE i \in 1..Len(ran[q])
      <4>1. \A j \in 1..Len(ran'[q]) : j \in 1..Len(ran[q]) \/ j = Len(ran[q]) + 1
        BY <1>3
      <4> QED
        BY <1>3, <2>2, <3>1, <4>1
    <3>2. CASE i = Len(ran[q]) + 1
      <4>1. ~ \E j \in 1..Len(ran'[q]) : i < j
        BY <1>3, <3>2
      <4> QED
        BY <2>3, <3>2, <4>1
    <3> QED
      BY <1>3, <3>1, <3>2
  <2> QED
    BY <1>2, <2>1, <2>4 DEF RanSorted, BeforeQueue, Known
<1>9. OneClient'
  BY <1>2, <1>5, HomesAndQueues DEF DeliveryInv, OneClient, AfterRan
<1> QED
  BY <1>6, <1>7, <1>8, <1>9 DEF DeliveryInv

(* The invariant is inductive.                                                *)
LEMMA DeliveryInduction ==
  ASSUME TypeOK, DeliveryInv, [Next]_vars
  PROVE  DeliveryInv'
<1> USE DEF TypeOK
<1>1. ASSUME NEW c \in Commands, EnqueueAppend(c) PROVE DeliveryInv'
  BY <1>1, AppendStep
<1>2. ASSUME NEW c \in Commands, FinishSubmit(c) \/ Await(c) \/ HandleResult(c) \/ Cleanup(c)
      PROVE  DeliveryInv'
  <2>1. UNCHANGED <<queue, sent, ticket, ran, pollPc, pollCmd, connected, agentPc, agentCmd>>
    BY <1>2 DEF FinishSubmit, EnqueueRecord, EnqueueNotify, CreateHistory, Await,
       ReturnAtOnce, WaitCheck, WaitRegister, WaitReceive, WaitTimeout, WaitLeave,
       HandleResult, AckRecord, AckWake, PersistResult, Cleanup, bus, clients, polls, agents
  <2>2. \A x \in Commands : (caller'[x] = "new") = (caller[x] = "new")
    BY <1>2 DEF FinishSubmit, EnqueueRecord, EnqueueNotify, CreateHistory, Await,
       ReturnAtOnce, WaitCheck, WaitRegister, WaitReceive, WaitTimeout, WaitLeave,
       HandleResult, AckRecord, AckWake, PersistResult, Cleanup, clients, ClientTypes
  <2> QED
    BY <2>1, <2>2, StayingOrLosing DEF DeliveryInv, HeldIsOlder, OneClient
<1>3. ASSUME NEW p \in Polls, Serve(p) PROVE DeliveryInv'
  <2>1. CASE PollCheck(p)
    BY <2>1, PopStep DEF PollCheck, clients, agents
  <2>2. CASE PollSecondCheck(p)
    BY <2>2, PopStep DEF PollSecondCheck, clients, agents
  <2>3. CASE PollWake(p) \/ PollTimeout(p) \/ PollMarkRunning(p)
    <3>1. /\ UNCHANGED <<caller, queue, sent, ticket, ran, pollCmd, connected, agentPc, agentCmd>>
          /\ \A r \in Polls : r # p => pollPc'[r] = pollPc[r]
          /\ pollCmd[p] # NoCommand => pollPc'[p] \in {"popped", "respond"}
      BY <2>3 DEF PollWake, PollTimeout, PollMarkRunning, bus, clients, agents,
         PollTypes, DeliveryInv, HeldIsOlder
    <3> QED
      BY <3>1, StayingOrLosing DEF DeliveryInv, HeldIsOlder, OneClient
  <2>4. CASE PollRespond(p)
    BY <2>4, RespondStep
  <2>5. CASE PollCancelled(p)
    <3>1. /\ UNCHANGED <<caller, queue, sent, ticket, ran, agentPc, agentCmd>>
          /\ pollCmd'[p] = NoCommand
          /\ ~connected'[p]
          /\ \A r \in Polls : r # p => /\ pollPc'[r] = pollPc[r]
                                     /\ pollCmd'[r] = pollCmd[r]
                                     /\ connected'[r] = connected[r]
      BY <2>5 DEF PollCancelled, Release, bus, clients, agents, PollTypes
    <3> QED
      BY <3>1, StayingOrLosing DEF DeliveryInv, HeldIsOlder, OneClient
  <2> QED
    BY <1>3, <2>1, <2>2, <2>3, <2>4, <2>5 DEF Serve
<1>4. ASSUME NEW q \in Queues, Work(q) PROVE DeliveryInv'
  <2>1. CASE AgentExecute(q)
    BY <2>1, ExecuteStep
  <2>2. CASE AgentReport(q)
    <3>1. /\ UNCHANGED <<caller, queue, sent, ticket, ran, pollPc, pollCmd, connected>>
          /\ agentPc[q] = "report"
          /\ agentPc'[q] = "idle"
          /\ \A k \in Queues : k # q => agentPc'[k] = agentPc[k] /\ agentCmd'[k] = agentCmd[k]
      BY <2>2 DEF AgentReport, bus, clients, polls, AgentTypes
    <3> QED
      BY <3>1, HomesAndQueues, StayingOrLosing DEF DeliveryInv, HeldIsOlder, OneClient
  <2>3. ASSUME NEW n \in Slots, AgentPoll(<<q, n>>) PROVE DeliveryInv'
    BY <2>3, PollStep DEF Polls
  <2> QED
    BY <1>4, <2>1, <2>2, <2>3 DEF Work
<1>5. ASSUME NEW q \in Queues, AgentGiveUp(q) PROVE DeliveryInv'
  <2>1. /\ UNCHANGED <<caller, queue, sent, ticket, ran, pollPc, pollCmd, agentCmd>>
        /\ agentPc'[q] = "idle"
        /\ \A k \in Queues : k # q => agentPc'[k] = agentPc[k]
        /\ \A p \in Polls : connected'[p] => connected[p] /\ QueueOf(p) # q
    BY <1>5 DEF AgentGiveUp, Disconnect, bus, clients, PollTypes, AgentTypes
  <2> QED
    BY <2>1, HomesAndQueues, StayingOrLosing DEF DeliveryInv, HeldIsOlder, OneClient
<1>6. ASSUME NEW k \in Clusters, AgentCrash(k) PROVE DeliveryInv'
  <2>1. /\ UNCHANGED <<caller, queue, sent, ticket, ran, pollPc, pollCmd>>
        /\ \A q \in Queues : agentPc'[q] = "execute" =>
             agentPc[q] = "execute" /\ agentCmd'[q] = agentCmd[q]
        /\ \A p \in Polls : connected'[p] =>
             connected[p] /\ agentPc'[QueueOf(p)] = agentPc[QueueOf(p)]
    BY <1>6, HomesAndQueues DEF AgentCrash, Disconnect, bus, clients, PollTypes, AgentTypes
  <2> QED
    BY <2>1, StayingOrLosing DEF DeliveryInv, HeldIsOlder, OneClient
<1>7. ASSUME MasterRestart PROVE DeliveryInv'
  <2>1. /\ UNCHANGED <<sent, ticket, ran>>
        /\ \A q \in Queues : queue'[q] = <<>>
        /\ \A p \in Polls : pollCmd'[p] = NoCommand /\ ~connected'[p]
        /\ \A q \in Queues : agentPc'[q] = "execute" =>
             agentPc[q] = "execute" /\ agentCmd'[q] = agentCmd[q]
        /\ \A c \in Commands : (caller'[c] = "new") = (caller[c] = "new")
    BY <1>7 DEF MasterRestart
  <2> QED
    BY <2>1, StayingOrLosing
<1>8. CASE UNCHANGED vars
  BY <1>8, StayingOrLosing DEF vars, bus, clients, polls, agents,
     DeliveryInv, HeldIsOlder, OneClient
<1>9. CASE Next
  BY <1>1, <1>2, <1>3, <1>4, <1>5, <1>6, <1>7, <1>9, Zenon DEF Next
<1> QED
  BY <1>8, <1>9

LEMMA DeliveryInvariant == Spec => []DeliveryInv
<1>1. Init => DeliveryInv
  BY DEF Init, DeliveryInv, TicketsCounted, QueueSorted, HeldIsOlder, ReadyIsOlder,
     RanSorted, OneClient, BeforeQueue, AfterRan, Known
<1>2. TypeOK /\ DeliveryInv /\ [Next]_vars => DeliveryInv'
  BY DeliveryInduction
<1> QED
  BY <1>1, <1>2, TypeCorrect, PTL DEF Spec

(* Each command loop executes its commands in the order in which they entered *)
(* its queue (MemoryBus.EnqueueCommand), whatever polls are abandoned, whatever *)
(* handlers are left over, and whoever restarts.                               *)
THEOREM InOrder == Spec => []ExecutedInOrder
<1>1. DeliveryInv => ExecutedInOrder
  BY DEF DeliveryInv, RanSorted, ExecutedInOrder
<1> QED
  BY <1>1, DeliveryInvariant, PTL

(* No command is executed twice, and none by a loop it is not addressed to.   *)
THEOREM Delivery == Spec => []AtMostOnce
<1>1. TypeOK /\ DeliveryInv => AtMostOnce
  <2> SUFFICES ASSUME TypeOK, DeliveryInv, NEW q \in Queues, NEW i \in 1..Len(ran[q])
               PROVE  /\ Home[ran[q][i]] = q
                      /\ \A j \in 1..Len(ran[q]) : ran[q][i] = ran[q][j] => i = j
    BY DEF AtMostOnce
  <2>1. \A j \in 1..Len(ran[q]) : ran[q][j] \in Commands
    BY DEF TypeOK, AgentTypes
  <2>2. \A c \in Commands : ticket[c] \in Nat
    BY DEF TypeOK, ClientTypes
  <2>3. ASSUME NEW j \in 1..Len(ran[q]), ran[q][i] = ran[q][j]
        PROVE  i = j
    <3>1. ~(ticket[ran[q][i]] < ticket[ran[q][j]]) /\ ~(ticket[ran[q][j]] < ticket[ran[q][i]])
      BY <2>1, <2>2, <2>3
    <3>2. ~(i < j) /\ ~(j < i)
      BY <3>1 DEF DeliveryInv, RanSorted
    <3> QED
      BY <3>2
  <2> QED
    BY <2>3 DEF DeliveryInv, RanSorted
<1> QED
  BY <1>1, TypeCorrect, DeliveryInvariant, PTL

-----------------------------------------------------------------------------
(* The steps that leave the handlers, their connections and the loops alone.   *)
LEMMA OtherSteps ==
  ASSUME NEW c \in Commands,
         EnqueueAppend(c) \/ FinishSubmit(c) \/ Await(c) \/ HandleResult(c) \/ Cleanup(c)
  PROVE  UNCHANGED <<pollPc, connected, agentPc>>
  BY DEF FinishSubmit, EnqueueAppend, EnqueueRecord, EnqueueNotify, CreateHistory, Await,
     ReturnAtOnce, WaitCheck, WaitRegister, WaitReceive, WaitTimeout, WaitLeave,
     HandleResult, AckRecord, AckWake, PersistResult, Cleanup, polls, agents

(* A handler that goes on stays with its client; one that ends answers the     *)
(* loop it is connected to, if there is one.                                   *)
LEMMA HandlerSteps ==
  ASSUME PollTypes, AgentTypes, NEW p \in Polls, Serve(p)
  PROVE  /\ \A r \in Polls : r # p => pollPc'[r] = pollPc[r] /\ connected'[r] = connected[r]
         /\ \A q \in Queues : q # QueueOf(p) => agentPc'[q] = agentPc[q]
         /\ \/ pollPc'[p] # "idle" /\ UNCHANGED <<connected, agentPc>>
            \/ /\ pollPc'[p] = "idle" /\ ~connected'[p]
               /\ IF connected[p] THEN agentPc'[QueueOf(p)] # "polling" ELSE UNCHANGED agentPc
<1>1. QueueOf(p) \in Queues
  BY HomesAndQueues
<1>2. CASE PollCheck(p) \/ PollSecondCheck(p)
  <2>1. \E s \in {"popped", "select", "respond"} : pollPc' = [pollPc EXCEPT ![p] = s]
    BY <1>2 DEF PollCheck, PollSecondCheck, PopOr
  <2> QED
    BY <1>2, <2>1 DEF PollCheck, PollSecondCheck, agents, PollTypes
<1>3. CASE PollWake(p) \/ PollTimeout(p) \/ PollMarkRunning(p)
  BY <1>3 DEF PollWake, PollTimeout, PollMarkRunning, agents, PollTypes
<1>4. CASE PollRespond(p)
  <2>1. pollPc' = [pollPc EXCEPT ![p] = "idle"] /\ connected' = [connected EXCEPT ![p] = FALSE]
    BY <1>4 DEF PollRespond, Release
  <2>2. \/ ~connected[p] /\ UNCHANGED agentPc
        \/ connected[p] /\ \E s \in {"idle", "execute"} : agentPc' = [agentPc EXCEPT ![QueueOf(p)] = s]
    BY <1>4 DEF PollRespond
  <2> QED
    BY <1>1, <2>1, <2>2 DEF PollTypes, AgentTypes
<1>5. CASE PollCancelled(p)
  BY <1>5 DEF PollCancelled, Release, agents, PollTypes
<1> QED
  BY <1>2, <1>3, <1>4, <1>5 DEF Serve

(* A loop that waits for a response has a handler at work that will write it:  *)
(* whatever polls are given up, whoever crashes or restarts, none waits for a  *)
(* handler that has ended.                                                     *)
LoopsAreServed ==
  /\ \A p \in Polls : connected[p] => pollPc[p] # "idle"
  /\ \A q \in Queues : agentPc[q] = "polling" => \E p \in Polls : QueueOf(p) = q /\ connected[p]

LEMMA ServedStep ==
  ASSUME TypeOK, LoopsAreServed, [Next]_vars
  PROVE  LoopsAreServed'
<1> PollTypes /\ AgentTypes
  BY DEF TypeOK
<1>a. ASSUME UNCHANGED <<pollPc, connected, agentPc>> PROVE LoopsAreServed'
  BY <1>a DEF LoopsAreServed
<1>1. ASSUME NEW c \in Commands,
             EnqueueAppend(c) \/ FinishSubmit(c) \/ Await(c) \/ HandleResult(c) \/ Cleanup(c)
      PROVE  LoopsAreServed'
  BY <1>1, <1>a, OtherSteps
<1>2. ASSUME NEW p \in Polls, Serve(p) PROVE LoopsAreServed'
  <2>1. ASSUME NEW r \in Polls, connected'[r] PROVE pollPc'[r] # "idle"
    BY <1>2, <2>1, HandlerSteps DEF LoopsAreServed
  <2>2. ASSUME NEW q \in Queues, agentPc'[q] = "polling"
        PROVE  \E r \in Polls : QueueOf(r) = q /\ connected'[r]
    <3>1. agentPc[q] = "polling" /\ ~(q = QueueOf(p) /\ connected[p] /\ ~connected'[p])
      BY <1>2, <2>2, HandlerSteps
    <3>2. PICK r \in Polls : QueueOf(r) = q /\ connected[r]
      BY <3>1 DEF LoopsAreServed
    <3>3. connected'[r]
      BY <1>2, <3>1, <3>2, HandlerSteps
    <3> QED
      BY <3>2, <3>3
  <2> QED
    BY <2>1, <2>2 DEF LoopsAreServed
<1>3. ASSUME NEW q \in Queues, AgentExecute(q) \/ AgentReport(q) PROVE LoopsAreServed'
  <2>1. UNCHANGED <<pollPc, connected>> /\ \E s \in {"report", "idle"} : agentPc' = [agentPc EXCEPT ![q] = s]
    BY <1>3 DEF AgentExecute, AgentReport, polls
  <2> QED
    BY <2>1 DEF LoopsAreServed, AgentTypes
<1>4. ASSUME NEW p \in Polls, AgentPoll(p) PROVE LoopsAreServed'
  BY <1>4, HomesAndQueues DEF AgentPoll, LoopsAreServed, PollTypes, AgentTypes
<1>5. ASSUME NEW q \in Queues, AgentGiveUp(q) PROVE LoopsAreServed'
  <2>1. /\ UNCHANGED pollPc
        /\ \A r \in Polls : connected'[r] = (connected[r] /\ QueueOf(r) # q)
        /\ agentPc'[q] = "idle" /\ \A k \in Queues : k # q => agentPc'[k] = agentPc[k]
    BY <1>5 DEF AgentGiveUp, Disconnect, AgentTypes
  <2> QED
    BY <2>1 DEF LoopsAreServed
<1>6. ASSUME NEW k \in Clusters, AgentCrash(k) PROVE LoopsAreServed'
  <2> DEFINE Q == {k} \X Topics
  <2>1. /\ UNCHANGED pollPc
        /\ \A r \in Polls : connected'[r] = (connected[r] /\ QueueOf(r) \notin Q)
        /\ \A q \in Queues : agentPc'[q] = IF q \in Q THEN "idle" ELSE agentPc[q]
    BY <1>6 DEF AgentCrash, Disconnect
  <2> HIDE DEF Q
  <2>2. \A q \in Queues : agentPc'[q] = "polling" => q \notin Q /\ agentPc[q] = "polling"
    BY <2>1
  <2>3. \A r \in Polls : connected[r] /\ QueueOf(r) \notin Q => connected'[r]
    BY <2>1
  <2>4. \A r \in Polls : connected'[r] => connected[r]
    BY <2>1
  <2>5. ASSUME NEW q \in Queues, agentPc'[q] = "polling"
        PROVE  \E r \in Polls : QueueOf(r) = q /\ connected'[r]
    <3>1. PICK r \in Polls : QueueOf(r) = q /\ connected[r]
      BY <2>2, <2>5 DEF LoopsAreServed
    <3> QED
      BY <2>2, <2>3, <2>5, <3>1
  <2>6. \A r \in Polls : connected'[r] => pollPc'[r] # "idle"
    BY <2>1, <2>4 DEF LoopsAreServed
  <2> QED
    BY <2>5, <2>6 DEF LoopsAreServed
<1>7. CASE MasterRestart
  BY <1>7 DEF MasterRestart, LoopsAreServed
<1>8. CASE UNCHANGED vars
  BY <1>8, <1>a DEF vars, polls, agents
<1>9. ASSUME NEW q \in Queues, Work(q) PROVE LoopsAreServed'
  <2>1. \A n \in Slots : <<q, n>> \in Polls
    BY DEF Polls
  <2> QED
    BY <1>9, <1>3, <1>4, <2>1 DEF Work
<1>10. CASE Next
  BY <1>1, <1>2, <1>5, <1>6, <1>7, <1>9, <1>10, Zenon DEF Next
<1> QED
  BY <1>8, <1>10

(* No loop waits for a response that nobody will write (handleCommands), for   *)
(* any number of handlers and with every failure allowed.                      *)
THEOREM Service == Spec => []LoopsAreServed
<1>1. Init => LoopsAreServed
  BY DEF Init, LoopsAreServed
<1>2. TypeOK /\ LoopsAreServed /\ [Next]_vars => LoopsAreServed'
  BY ServedStep
<1> QED
  BY <1>1, <1>2, TypeCorrect, PTL DEF Spec

-----------------------------------------------------------------------------
(* Lost wake-ups.  The handler's look at the queue and its wait for the token  *)
(* are two steps, and so are the command's entry and the token.  A handler     *)
(* that waits beside a queued command is about to be woken: the token is there *)
(* or the command's caller has still to send it.                               *)
Announced(q) == token[q] \/ \E c \in Commands : Home[c] = q /\ caller[c] \in {"queued", "recorded"}

NoLostWakeup ==
  \A p \in Polls : pollPc[p] = "select" /\ queue[QueueOf(p)] # <<>> => Announced(QueueOf(p))

\* While no client goes away, every handler has one, so that each queue has
\* one handler and nobody else can take its token.
Attended == \A p \in Polls : pollPc[p] # "idle" => connected[p]

LEMMA AttendedStep ==
  ASSUME TypeOK, Attended, {"disconnect", "crash"} \cap Faults = {}, [Next]_vars
  PROVE  Attended'
<1> PollTypes /\ AgentTypes
  BY DEF TypeOK
<1>a. ASSUME UNCHANGED <<pollPc, connected>> PROVE Attended'
  BY <1>a DEF Attended
<1>1. ASSUME NEW c \in Commands,
             EnqueueAppend(c) \/ FinishSubmit(c) \/ Await(c) \/ HandleResult(c) \/ Cleanup(c)
      PROVE  Attended'
  BY <1>1, <1>a, OtherSteps
<1>2. ASSUME NEW p \in Polls, Serve(p) PROVE Attended'
  <2>1. pollPc[p] # "idle"
    BY <1>2 DEF Serve, PollCheck, PollWake, PollSecondCheck, PollTimeout, PollMarkRunning,
       PollRespond, PollCancelled
  <2> QED
    BY <1>2, <2>1, HandlerSteps DEF Attended
<1>3. ASSUME NEW q \in Queues, Work(q) PROVE Attended'
  <2>1. ASSUME NEW n \in Slots, AgentPoll(<<q, n>>) PROVE Attended'
    <3>1. <<q, n>> \in Polls
      BY DEF Polls
    <3> QED
      BY <2>1, <3>1 DEF AgentPoll, Attended, PollTypes
  <2>2. CASE AgentExecute(q) \/ AgentReport(q)
    BY <2>2, <1>a DEF AgentExecute, AgentReport, polls
  <2> QED
    BY <1>3, <2>1, <2>2 DEF Work
<1>4. CASE MasterRestart
  BY <1>4 DEF MasterRestart, Attended
<1>5. CASE UNCHANGED vars
  BY <1>5, <1>a DEF vars, polls
<1>6. (\A q \in Queues : ~AgentGiveUp(q)) /\ (\A k \in Clusters : ~AgentCrash(k))
  BY DEF AgentGiveUp, AgentCrash
<1>7. CASE Next
  BY <1>1, <1>2, <1>3, <1>4, <1>6, <1>7, Zenon DEF Next
<1> QED
  BY <1>5, <1>7

\* A queue is announced to by its own commands' callers only.
LEMMA AnnouncedStays ==
  ASSUME ClientTypes, BusTypes, NEW c \in Commands,
         FinishSubmit(c) \/ Await(c) \/ HandleResult(c) \/ Cleanup(c),
         NEW q \in Queues, Announced(q)
  PROVE  Announced(q)'
<1>1. CASE EnqueueRecord(c)
  <2>1. caller' = [caller EXCEPT ![c] = "recorded"] /\ UNCHANGED token /\ caller[c] = "queued"
    BY <1>1 DEF EnqueueRecord
  <2>2. \A x \in Commands : caller[x] \in {"queued", "recorded"} => caller'[x] \in {"queued", "recorded"}
    BY <2>1 DEF ClientTypes
  <2> QED
    BY <2>1, <2>2 DEF Announced
<1>2. CASE EnqueueNotify(c)
  <2>1. /\ caller' = [caller EXCEPT ![c] = "notified"]
        /\ token' = [token EXCEPT ![Home[c]] = TRUE]
    BY <1>2 DEF EnqueueNotify
  <2>2. \A x \in Commands : x # c => caller'[x] = caller[x]
    BY <2>1 DEF ClientTypes
  <2>3. token'[Home[c]] /\ \A k \in Queues : token[k] => token'[k]
    BY <2>1, HomesAndQueues DEF BusTypes
  <2> QED
    BY <2>2, <2>3 DEF Announced
<1>3. CASE CreateHistory(c) \/ Await(c) \/ HandleResult(c) \/ Cleanup(c)
  <2>1. UNCHANGED token
    BY <1>3 DEF CreateHistory, Await, ReturnAtOnce, WaitCheck, WaitRegister, WaitReceive,
       WaitTimeout, WaitLeave, HandleResult, AckRecord, AckWake, PersistResult, Cleanup, bus
  <2>2. \/ UNCHANGED caller
        \/ /\ caller[c] \notin {"queued", "recorded"}
           /\ \E s \in CallerStates : caller' = [caller EXCEPT ![c] = s]
    BY <1>3 DEF CreateHistory, Await, ReturnAtOnce, WaitCheck, WaitRegister, WaitReceive,
       WaitTimeout, WaitLeave, HandleResult, AckRecord, AckWake, PersistResult, Cleanup, clients,
       CallerStates
  <2>3. \A x \in Commands : caller[x] \in {"queued", "recorded"} => caller'[x] = caller[x]
    BY <2>2 DEF ClientTypes
  <2> QED
    BY <2>1, <2>3 DEF Announced
<1> QED
  BY <1>1, <1>2, <1>3 DEF FinishSubmit

LEMMA WakeupStep ==
  ASSUME TypeOK, OneClient, Attended, NoLostWakeup, {"disconnect", "crash"} \cap Faults = {},
         [Next]_vars
  PROVE  NoLostWakeup'
<1> PollTypes /\ AgentTypes /\ ClientTypes /\ BusTypes
  BY DEF TypeOK
<1>a. ASSUME UNCHANGED <<pollPc, queue>>,
             \A q \in Queues : Announced(q) => Announced(q)'
      PROVE  NoLostWakeup'
  BY <1>a, HomesAndQueues DEF NoLostWakeup
<1>1. ASSUME NEW c \in Commands, EnqueueAppend(c) PROVE NoLostWakeup'
  <2>1. /\ UNCHANGED <<token, pollPc>>
        /\ queue' = [queue EXCEPT ![Home[c]] = Append(@, c)]
        /\ caller' = [caller EXCEPT ![c] = "queued"] /\ caller[c] = "new"
    BY <1>1 DEF EnqueueAppend, polls
  <2>2. caller'[c] = "queued" /\ \A x \in Commands : x # c => caller'[x] = caller[x]
    BY <2>1 DEF ClientTypes
  <2>3. Announced(Home[c])'
    BY <2>2 DEF Announced
  <2>4. \A q \in Queues : Announced(q) => Announced(q)'
    BY <2>1, <2>2 DEF Announced
  <2>5. \A q \in Queues : q # Home[c] => queue'[q] = queue[q]
    BY <2>1 DEF BusTypes
  <2> QED
    BY <2>1, <2>3, <2>4, <2>5, HomesAndQueues DEF NoLostWakeup
<1>2. ASSUME NEW c \in Commands, FinishSubmit(c) \/ Await(c) \/ HandleResult(c) \/ Cleanup(c)
      PROVE  NoLostWakeup'
  <2>1. UNCHANGED <<pollPc, queue>>
    BY <1>2 DEF FinishSubmit, EnqueueRecord, EnqueueNotify, CreateHistory, Await,
       ReturnAtOnce, WaitCheck, WaitRegister, WaitReceive, WaitTimeout, WaitLeave,
       HandleResult, AckRecord, AckWake, PersistResult, Cleanup, polls, bus
  <2> QED
    BY <1>2, <2>1, <1>a, AnnouncedStays
<1>3. ASSUME NEW p \in Polls, Serve(p) PROVE NoLostWakeup'
  <2>1. pollPc[p] # "idle" /\ \A r \in Polls : r # p => pollPc'[r] = pollPc[r]
    BY <1>3, HandlerSteps DEF Serve, PollCheck, PollWake, PollSecondCheck, PollTimeout,
       PollMarkRunning, PollRespond, PollCancelled
  <2>2. \A r \in Polls : r # p /\ pollPc'[r] = "select" => QueueOf(r) # QueueOf(p)
    BY <2>1 DEF Attended, OneClient
  <2>3. UNCHANGED caller /\ \A q \in Queues : q # QueueOf(p) => token'[q] = token[q] /\ queue'[q] = queue[q]
    BY <1>3 DEF Serve, PollCheck, PollWake, PollSecondCheck, PollTimeout, PollMarkRunning,
       PollRespond, PollCancelled, PopOr, bus, clients, BusTypes
  <2>4. pollPc'[p] = "select" => queue'[QueueOf(p)] = <<>>
    BY <1>3 DEF Serve, PollCheck, PollWake, PollSecondCheck, PollTimeout, PollMarkRunning,
       PollRespond, PollCancelled, Release, PopOr, PollTypes
  <2> SUFFICES ASSUME NEW r \in Polls, pollPc'[r] = "select", queue'[QueueOf(r)] # <<>>
               PROVE  Announced(QueueOf(r))'
    BY DEF NoLostWakeup
  <2>5. r # p /\ QueueOf(r) # QueueOf(p) /\ QueueOf(r) \in Queues
    BY <2>2, <2>4, HomesAndQueues
  <2>6. pollPc[r] = "select" /\ queue[QueueOf(r)] # <<>>
    BY <2>1, <2>3, <2>5
  <2> QED
    BY <2>3, <2>5, <2>6 DEF NoLostWakeup, Announced
<1>4. ASSUME NEW q \in Queues, Work(q) PROVE NoLostWakeup'
  <2>1. CASE AgentExecute(q) \/ AgentReport(q)
    BY <2>1, <1>a DEF AgentExecute, AgentReport, polls, bus, clients, Announced
  <2>2. ASSUME NEW n \in Slots, AgentPoll(<<q, n>>) PROVE NoLostWakeup'
    <3>1. <<q, n>> \in Polls
      BY DEF Polls
    <3>2. UNCHANGED <<queue, token, caller>> /\ pollPc' = [pollPc EXCEPT ![<<q, n>>] = "check"]
      BY <2>2 DEF AgentPoll, bus, clients
    <3>3. \A r \in Polls : pollPc'[r] = "select" => pollPc[r] = "select"
      BY <3>1, <3>2 DEF PollTypes
    <3> QED
      BY <3>2, <3>3 DEF NoLostWakeup, Announced
  <2> QED
    BY <1>4, <2>1, <2>2 DEF Work
<1>5. CASE MasterRestart
  BY <1>5 DEF MasterRestart, NoLostWakeup
<1>6. CASE UNCHANGED vars
  BY <1>6, <1>a DEF vars, polls, bus, clients, Announced
<1>7. (\A q \in Queues : ~AgentGiveUp(q)) /\ (\A k \in Clusters : ~AgentCrash(k))
  BY DEF AgentGiveUp, AgentCrash
<1>8. CASE Next
  BY <1>1, <1>2, <1>3, <1>4, <1>5, <1>7, <1>8, Zenon DEF Next
<1> QED
  BY <1>6, <1>8

(* While Agents neither give up polls nor crash, the one token of a queue is   *)
(* enough: no handler sleeps beside a queued command that nobody will announce *)
(* (EnqueueCommand, WaitCommand), also when reports are lost, the database     *)
(* fails and the Master restarts.  A handler whose client is gone could take   *)
(* the token of the next one, which then sleeps until its timer.               *)
THEOREM Wakeups ==
  ASSUME {"disconnect", "crash"} \cap Faults = {}
  PROVE  Spec => []NoLostWakeup
<1> DEFINE IInv == Attended /\ NoLostWakeup
<1>1. Init => IInv
  BY DEF Init, Attended, NoLostWakeup
<1>2. TypeOK /\ OneClient /\ IInv /\ [Next]_vars => IInv'
  BY AttendedStep, WakeupStep
<1>3. DeliveryInv => OneClient
  BY DEF DeliveryInv
<1> QED
  BY <1>1, <1>2, <1>3, TypeCorrect, DeliveryInvariant, PTL DEF Spec
=============================================================================
