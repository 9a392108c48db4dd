------------------------- MODULE CommandResultsProofs -------------------------
(***************************************************************************)
(* What callers, status queries and the history are told of a command,     *)
(* proved for every set of commands, clusters, topics, handlers, outcomes  *)
(* and failures.                                                           *)
(*                                                                         *)
(* The argument: a command is in one place at a time (Single), so that it  *)
(* is not executed yet as long as it is queued, held or about to be        *)
(* executed, and its outcome is decided once.  Everything that is told of  *)
(* it later is a copy of that outcome (Told).                              *)
(***************************************************************************)
EXTENDS CommandDeliveryProofs

Unexecuted(c) == outcome[c] = "none"

\* What is on its way to be executed was not executed, and is there once.
Single ==
  /\ \A c \in Commands : ~Known(c) => Unexecuted(c)
  /\ \A q \in Queues : \A i \in 1..Len(queue[q]) : Unexecuted(queue[q][i])
  /\ \A p \in Polls : pollCmd[p] # NoCommand => Unexecuted(pollCmd[p])
  /\ \A p1, p2 \in Polls :
       pollCmd[p1] # NoCommand /\ pollCmd[p1] = pollCmd[p2] => p1 = p2
  /\ \A q \in Queues : agentPc[q] = "execute" =>
       /\ Unexecuted(agentCmd[q])
       /\ \A p \in Polls : pollCmd[p] # agentCmd[q]

\* A status and the outcome it stands for.
Says(s, c) == s \in Finished => ~Unexecuted(c) /\ s = StatusOf(outcome[c])

\* What is reported was executed, and what is told is what was reported.
Told ==
  /\ \A q \in Queues : agentPc[q] = "report" => ~Unexecuted(agentCmd[q])
  /\ \A c \in Commands :
       /\ report[c] # "none" => ~Unexecuted(c)
       /\ result[c] \in {"none", outcome[c]}
       /\ channel[c] \in {"none", outcome[c]}
       /\ answer[c] \in {"none", outcome[c]}
       /\ Says(status[c], c)
       /\ Says(history[c], c)

\* The records of a command are made by its caller, each at its time.
Unrecorded ==
  \A c \in Commands :
    /\ caller[c] \in {"new", "queued"} => status[c] = "absent"
    /\ caller[c] \in {"new", "queued", "recorded", "notified"} => history[c] = "absent"

-----------------------------------------------------------------------------
(* The steps of callers, reports and the cleaning goroutine.                  *)
CallerStep(c) == FinishSubmit(c) \/ Await(c) \/ HandleResult(c) \/ Cleanup(c)

(* They move no command.                                                      *)
LEMMA CallersMoveNothing ==
  ASSUME TypeOK, NEW c \in Commands, CallerStep(c)
  PROVE  /\ UNCHANGED <<queue, pollPc, pollCmd, connected, agentPc, agentCmd, outcome>>
         /\ \A x \in Commands : Known(x) => Known(x)'
  BY DEF CallerStep, FinishSubmit, EnqueueRecord, EnqueueNotify, CreateHistory, Await,
     ReturnAtOnce, WaitCheck, WaitRegister, WaitReceive, WaitTimeout, WaitLeave,
     HandleResult, AckRecord, AckWake, PersistResult, Cleanup, bus, clients, polls,
     agents, Known, TypeOK, ClientTypes

(* Nor do steps that only drop what is queued or held.                        *)
LEMMA SingleStays ==
  ASSUME TypeOK, Single,
         UNCHANGED outcome,
         \A c \in Commands : Known(c) => Known(c)',
         \A q \in Queues : queue'[q] \in {queue[q], <<>>},
         \A p \in Polls : pollCmd'[p] \in {pollCmd[p], NoCommand},
         \A q \in Queues : agentPc'[q] = "execute" =>
           agentPc[q] = "execute" /\ agentCmd'[q] = agentCmd[q] /\ agentCmd[q] \in Commands
  PROVE  Single'
<1>1. \A c \in Commands : ~Known(c)' => Unexecuted(c)'
  BY DEF Single, Unexecuted
<1>2. ASSUME NEW q \in Queues, NEW i \in 1..Len(queue'[q])
      PROVE  outcome'[queue'[q][i]] = "none"
  <2>1. queue'[q] = queue[q]
    OBVIOUS
  <2> QED
    BY <2>1 DEF Single, Unexecuted
<1>3. \A p \in Polls : pollCmd'[p] # NoCommand => outcome'[pollCmd'[p]] = "none"
  BY DEF Single, Unexecuted
<1>4. \A p1, p2 \in Polls :
        pollCmd'[p1] # NoCommand /\ pollCmd'[p1] = pollCmd'[p2] => p1 = p2
  BY DEF Single
<1>5. ASSUME NEW q \in Queues, agentPc'[q] = "execute"
      PROVE  /\ outcome'[agentCmd'[q]] = "none"
             /\ \A p \in Polls : pollCmd'[p] # agentCmd'[q]
  BY <1>5, NilAssumption DEF Single, Unexecuted
<1> QED
  BY <1>1, <1>2, <1>3, <1>4, <1>5 DEF Single, Unexecuted

(* A popped command was in no other hand: whatever is held is older than the  *)
(* queue.                                                                     *)
LEMMA SinglePop ==
  ASSUME TypeOK, DeliveryInv, Single, NEW p \in Polls, NEW otherwise,
         PopOr(p, otherwise),
         UNCHANGED <<caller, outcome, agentPc, agentCmd>>
  PROVE  Single'
<1> DEFINE q == QueueOf(p)
<1>1. q \in Queues /\ queue[q] \in Seq(Commands)
  BY HomesAndQueues DEF TypeOK, BusTypes
<1>2. CASE queue[q] = <<>>
  <2>1. UNCHANGED <<queue, pollCmd>>
    BY <1>2 DEF PopOr
  <2> QED
    BY <2>1, SingleStays DEF Known, DeliveryInv, ReadyIsOlder
<1>3. CASE queue[q] # <<>>
  <2>1. PICK d \in Commands : d = Head(queue[q])
    BY <1>1, <1>3
  <2>2. /\ queue'[q] = Tail(queue[q])
        /\ \A k \in Queues : k # q => queue'[k] = queue[k]
        /\ pollCmd'[p] = d
        /\ \A r \in Polls : r # p => pollCmd'[r] = pollCmd[r]
    BY <1>1, <1>3, <2>1 DEF PopOr, TypeOK, BusTypes, PollTypes
  <2>3. /\ 1 \in 1..Len(queue[q])
        /\ queue[q][1] = d
        /\ \A i \in 1..Len(queue'[q]) : /\ i + 1 \in 1..Len(queue[q])
                                      /\ queue'[q][i] = queue[q][i + 1]
    BY <1>1, <1>3, <2>1, <2>2
  <2>4. Unexecuted(d) /\ Home[d] = q /\ ticket[d] \in Nat
    BY <1>1, <2>3 DEF Single, DeliveryInv, QueueSorted, TypeOK, ClientTypes
  \* Nobody else holds d.
  <2>5. ASSUME NEW c \in Commands, NEW k \in Queues, Home[c] = k, BeforeQueue(c, k)
        PROVE  c # d
    BY <2>3, <2>4, <2>5 DEF BeforeQueue
  <2>6. \A r \in Polls : pollCmd[r] # d
    <3> SUFFICES ASSUME NEW r \in Polls, pollCmd[r] = d PROVE FALSE
      OBVIOUS
    <3>1. Home[d] = QueueOf(r) /\ BeforeQueue(d, QueueOf(r))
      BY NilAssumption DEF DeliveryInv, HeldIsOlder
    <3> QED
      BY <2>5, <3>1, HomesAndQueues
  <2>7. \A k \in Queues : agentPc[k] = "execute" => agentCmd[k] # d
    BY <2>5 DEF DeliveryInv, ReadyIsOlder
  <2>8. \A c \in Commands : ~Known(c)' => Unexecuted(c)'
    BY DEF Single, Unexecuted, Known
  <2>9. ASSUME NEW k \in Queues, NEW i \in 1..Len(queue'[k])
        PROVE  outcome'[queue'[k][i]] = "none"
    <3>1. CASE k = q
      BY <1>1, <2>3, <3>1 DEF Single, Unexecuted
    <3>2. CASE k # q
      BY <2>2, <3>2 DEF Single, Unexecuted
    <3> QED
      BY <3>1, <3>2
  <2>10. \A r \in Polls : pollCmd'[r] # NoCommand => outcome'[pollCmd'[r]] = "none"
    BY <2>2, <2>4 DEF Single, Unexecuted
  <2>11. \A r1, r2 \in Polls :
           pollCmd'[r1] # NoCommand /\ pollCmd'[r1] = pollCmd'[r2] => r1 = r2
    BY <2>2, <2>6 DEF Single
  <2>12. \A k \in Queues : agentPc'[k] = "execute" =>
           /\ outcome'[agentCmd'[k]] = "none"
           /\ \A r \in Polls : pollCmd'[r] # agentCmd'[k]
    BY <2>2, <2>7 DEF Single, Unexecuted
  <2> QED
    BY <2>8, <2>9, <2>10, <2>11, <2>12 DEF Single, Unexecuted
<1> QED
  BY <1>2, <1>3

(* A response moves a command from the handler to the loop.                   *)
LEMMA SingleRespond ==
  ASSUME TypeOK, DeliveryInv, Single, NEW p \in Polls, PollRespond(p)
  PROVE  Single'
<1> DEFINE q == QueueOf(p)
<1>1. /\ q \in Queues
      /\ UNCHANGED <<caller, queue, outcome>>
      /\ pollCmd'[p] = NoCommand
      /\ \A r \in Polls : r # p => pollCmd'[r] = pollCmd[r]
      /\ \A k \in Queues : k # q => agentPc'[k] = agentPc[k] /\ agentCmd'[k] = agentCmd[k]
  BY HomesAndQueues DEF PollRespond, Release, TypeOK, PollTypes, AgentTypes, bus, clients
<1>2. /\ \A c \in Commands : ~Known(c)' => Unexecuted(c)'
      /\ \A k \in Queues : \A i \in 1..Len(queue'[k]) : outcome'[queue'[k][i]] = "none"
      /\ \A r \in Polls : pollCmd'[r] # NoCommand => outcome'[pollCmd'[r]] = "none"
      /\ \A r1, r2 \in Polls :
           pollCmd'[r1] # NoCommand /\ pollCmd'[r1] = pollCmd'[r2] => r1 = r2
  BY <1>1 DEF Single, Unexecuted, Known
<1>3. ASSUME NEW k \in Queues, agentPc'[k] = "execute"
      PROVE  /\ outcome'[agentCmd'[k]] = "none"
             /\ \A r \in Polls : pollCmd'[r] # agentCmd'[k]
  <2>1. CASE agentPc[k] = "execute" /\ agentCmd'[k] = agentCmd[k]
    <3>1. agentCmd[k] # NoCommand
      BY <2>1, NilAssumption DEF DeliveryInv, ReadyIsOlder
    <3> QED
      BY <1>1, <2>1, <3>1 DEF Single, Unexecuted
  <2>2. CASE k = q /\ agentCmd'[q] = pollCmd[p] /\ pollCmd[p] # NoCommand
    BY <1>1, <2>2 DEF Single, Unexecuted
  <2>3. \/ agentPc[k] = "execute" /\ agentCmd'[k] = agentCmd[k]
        \/ k = q /\ agentCmd'[q] = pollCmd[p] /\ pollCmd[p] # NoCommand
    BY <1>1, <1>3 DEF PollRespond, TypeOK, AgentTypes
  <2> QED
    BY <2>1, <2>2, <2>3
<1> QED
  BY <1>2, <1>3 DEF Single, Unexecuted

(* Executing decides the outcome of a command that is nowhere else.           *)
LEMMA SingleExecute ==
  ASSUME TypeOK, DeliveryInv, Single, NEW q \in Queues, AgentExecute(q)
  PROVE  Single'
<1>1. PICK d \in Commands : d = agentCmd[q]
  BY DEF AgentExecute, DeliveryInv, ReadyIsOlder
<1>2. /\ UNCHANGED <<caller, queue, pollCmd, agentCmd>>
      /\ agentPc'[q] = "report"
      /\ \A k \in Queues : k # q => agentPc'[k] = agentPc[k]
      /\ \A x \in Commands : x # d => outcome'[x] = outcome[x]
  BY <1>1 DEF AgentExecute, TypeOK, AgentTypes, bus, clients, polls
<1>3. /\ Known(d)
      /\ Home[d] = q
      /\ \A j \in 1..Len(queue[q]) : queue[q][j] # d
      /\ \A p \in Polls : pollCmd[p] # d
  <2>1. Known(d) /\ Home[d] = q /\ BeforeQueue(d, q)
    BY <1>1 DEF AgentExecute, DeliveryInv, ReadyIsOlder
  <2>2. ticket[d] \in Nat
    BY DEF TypeOK, ClientTypes
  <2> QED
    BY <1>1, <2>1, <2>2 DEF BeforeQueue, AgentExecute, Single
<1>4. \A c \in Commands : ~Known(c)' => Unexecuted(c)'
  BY <1>2, <1>3 DEF Single, Unexecuted, Known
<1>5. ASSUME NEW k \in Queues, NEW i \in 1..Len(queue'[k])
      PROVE  outcome'[queue'[k][i]] = "none"
  <2>1. queue[k][i] \in Commands /\ queue[k][i] # d /\ Unexecuted(queue[k][i])
    BY <1>2, <1>3 DEF TypeOK, BusTypes, DeliveryInv, QueueSorted, Single
  <2> QED
    BY <1>2, <2>1 DEF Unexecuted
<1>6. \A p \in Polls : pollCmd'[p] # NoCommand => outcome'[pollCmd'[p]] = "none"
  BY <1>2, <1>3 DEF Single, Unexecuted, TypeOK, PollTypes
<1>7. \A p1, p2 \in Polls :
        pollCmd'[p1] # NoCommand /\ pollCmd'[p1] = pollCmd'[p2] => p1 = p2
  BY <1>2 DEF Single
<1>8. ASSUME NEW k \in Queues, agentPc'[k] = "execute"
      PROVE  /\ outcome'[agentCmd'[k]] = "none"
             /\ \A p \in Polls : pollCmd'[p] # agentCmd'[k]
  <2>1. k # q /\ agentPc[k] = "execute"
    BY <1>2, <1>8
  <2>2. agentCmd[k] \in Commands /\ agentCmd[k] # d
    BY <1>3, <2>1 DEF DeliveryInv, ReadyIsOlder
  <2> QED
    BY <1>2, <2>1, <2>2 DEF Single, Unexecuted
<1> QED
  BY <1>4, <1>5, <1>6, <1>7, <1>8 DEF Single, Unexecuted

(* A command is in one place at a time, as long as it was not executed.       *)
LEMMA SingleInduction ==
  ASSUME TypeOK, DeliveryInv, Single, [Next]_vars
  PROVE  Single'
<1>1. \A k \in Queues : agentPc[k] = "execute" => agentCmd[k] \in Commands
  BY DEF DeliveryInv, ReadyIsOlder
<1>2. ASSUME NEW c \in Commands, EnqueueAppend(c) PROVE Single'
  <2> DEFINE h == Home[c]
  <2>1. /\ h \in Queues
        /\ ~Known(c)
        /\ queue[h] \in Seq(Commands)
    BY <1>2, HomesAndQueues DEF EnqueueAppend, Known, TypeOK, BusTypes
  <2>2. /\ queue'[h] = Append(queue[h], c)
        /\ \A q \in Queues : q # h => queue'[q] = queue[q]
        /\ \A x \in Commands : Known(x) => Known(x)'
        /\ UNCHANGED <<pollCmd, agentPc, agentCmd, outcome>>
    BY <1>2, <2>1 DEF EnqueueAppend, Known, TypeOK, BusTypes, ClientTypes, polls, agents
  <2>3. Unexecuted(c)
    BY <2>1 DEF Single
  <2>4. \A q \in Queues : \A i \in 1..Len(queue'[q]) : outcome[queue'[q][i]] = "none"
    <3>1. \A i \in 1..Len(queue'[h]) : outcome[queue'[h][i]] = "none"
      BY <2>1, <2>2, <2>3 DEF Single, Unexecuted
    <3>2. ASSUME NEW q \in Queues, q # h, NEW i \in 1..Len(queue'[q])
          PROVE  outcome[queue'[q][i]] = "none"
      BY <2>2, <3>2 DEF Single, Unexecuted
    <3> QED
      BY <3>1, <3>2
  <2> QED
    BY <2>2, <2>4 DEF Single, Unexecuted
<1>3. ASSUME NEW c \in Commands, CallerStep(c) PROVE Single'
  BY <1>1, <1>3, CallersMoveNothing, SingleStays
<1>4. ASSUME NEW p \in Polls, Serve(p) PROVE Single'
  <2>1. CASE PollCheck(p)
    BY <2>1, SinglePop DEF PollCheck, clients, agents
  <2>2. CASE PollSecondCheck(p)
    BY <2>2, SinglePop DEF PollSecondCheck, clients, agents
  <2>3. CASE PollWake(p) \/ PollTimeout(p) \/ PollMarkRunning(p)
    <3>1. UNCHANGED <<caller, queue, pollCmd, agentPc, agentCmd, outcome>>
      BY <2>3 DEF PollWake, PollTimeout, PollMarkRunning, bus, clients, agents
    <3> QED
      BY <1>1, <3>1, SingleStays DEF Known
  <2>4. CASE PollRespond(p)
    BY <2>4, SingleRespond
  <2>5. CASE PollCancelled(p)
    <3>1. /\ UNCHANGED <<caller, queue, agentPc, agentCmd, outcome>>
          /\ \A r \in Polls : pollCmd'[r] \in {pollCmd[r], NoCommand}
      BY <2>5 DEF PollCancelled, Release, bus, clients, agents, TypeOK, PollTypes
    <3> QED
      BY <1>1, <3>1, SingleStays DEF Known
  <2> QED
    BY <1>4, <2>1, <2>2, <2>3, <2>4, <2>5 DEF Serve
<1>5. ASSUME NEW q \in Queues, AgentExecute(q) PROVE Single'
  BY <1>5, SingleExecute
<1>6. ASSUME NEW q \in Queues, AgentReport(q) \/ AgentGiveUp(q) PROVE Single'
  <2>1. /\ UNCHANGED <<caller, queue, pollCmd, outcome>>
        /\ \A k \in Queues : agentPc'[k] = "execute" =>
             agentPc[k] = "execute" /\ agentCmd'[k] = agentCmd[k]
    BY <1>6 DEF AgentReport, AgentGiveUp, bus, clients, polls, TypeOK, AgentTypes
  <2> QED
    BY <1>1, <2>1, SingleStays DEF Known
<1>7. ASSUME NEW p \in Polls, AgentPoll(p) PROVE Single'
  <2>1. /\ UNCHANGED <<caller, queue, pollCmd, outcome>>
        /\ \A k \in Queues : agentPc'[k] = "execute" =>
             agentPc[k] = "execute" /\ agentCmd'[k] = agentCmd[k]
    BY <1>7 DEF AgentPoll, bus, clients, TypeOK, AgentTypes
  <2> QED
    BY <1>1, <2>1, SingleStays DEF Known
<1>8. ASSUME NEW k \in Clusters, AgentCrash(k) PROVE Single'
  <2>1. /\ UNCHANGED <<caller, queue, pollCmd, outcome>>
        /\ \A q \in Queues : agentPc'[q] = "execute" =>
             agentPc[q] = "execute" /\ agentCmd'[q] = agentCmd[q]
    BY <1>8 DEF AgentCrash, bus, clients
  <2> QED
    BY <1>1, <2>1, SingleStays DEF Known
<1>9. CASE MasterRestart
  <2>1. /\ UNCHANGED outcome
        /\ \A c \in Commands : Known(c) => Known(c)'
        /\ \A q \in Queues : queue'[q] = <<>>
        /\ \A p \in Polls : pollCmd'[p] = NoCommand
        /\ \A q \in Queues : agentPc'[q] = "execute" =>
             agentPc[q] = "execute" /\ agentCmd'[q] = agentCmd[q]
    BY <1>9 DEF MasterRestart, Known
  <2> QED
    BY <1>1, <2>1, SingleStays
<1>10. CASE UNCHANGED vars
  BY <1>1, <1>10, SingleStays DEF vars, bus, clients, polls, agents, Known
<1>11. CASE Next
  <2>1. ASSUME NEW q \in Queues, Work(q)
        PROVE  AgentExecute(q) \/ AgentReport(q) \/ \E p \in Polls : AgentPoll(p)
    <3>1. \A n \in Slots : <<q, n>> \in Polls
      BY DEF Polls
    <3> QED
      BY <2>1, <3>1 DEF Work
  <2>2. ASSUME NEW c \in Commands,
               FinishSubmit(c) \/ Await(c) \/ HandleResult(c) \/ Cleanup(c)
        PROVE  CallerStep(c)
    BY <2>2 DEF CallerStep
  <2> QED
    BY <1>2, <1>3, <1>4, <1>5, <1>6, <1>7, <1>8, <1>9, <1>11, <2>1, <2>2, Zenon DEF Next
<1> QED
  BY <1>10, <1>11

LEMMA SingleInvariant == Spec => []Single
<1>1. Init => Single
  BY DEF Init, Single, Unexecuted, Known
<1>2. TypeOK /\ DeliveryInv /\ Single /\ [Next]_vars => Single'
  BY SingleInduction
<1> QED
  BY <1>1, <1>2, TypeCorrect, DeliveryInvariant, PTL DEF Spec

-----------------------------------------------------------------------------
(* A decided outcome stays, and only executing decides one.                   *)
LEMMA OutcomeIsDecidedOnce ==
  ASSUME TypeOK, DeliveryInv, Single, [Next]_vars, NEW c \in Commands
  PROVE  ~Unexecuted(c) => outcome'[c] = outcome[c]
<1>1. ASSUME NEW q \in Queues, AgentExecute(q)
      PROVE  ~Unexecuted(c) => outcome'[c] = outcome[c]
  <2>1. PICK d \in Commands : d = agentCmd[q]
    BY <1>1 DEF AgentExecute, DeliveryInv, ReadyIsOlder
  <2>2. Unexecuted(d)
    BY <1>1, <2>1 DEF AgentExecute, Single
  <2>3. c # d => outcome'[c] = outcome[c]
    BY <1>1, <2>1 DEF AgentExecute, TypeOK, AgentTypes
  <2> QED
    BY <2>2, <2>3
<1>2. CASE UNCHANGED outcome
  BY <1>2
<1>3. (\E q \in Queues : AgentExecute(q)) \/ UNCHANGED outcome
  BY AgentSteps DEF AgentPoll, PollRespond, AgentGiveUp, AgentReport, AgentCrash,
     MasterRestart
<1> QED
  BY <1>1, <1>2, <1>3

(* What is told of a command stays true of it when nothing new is told.       *)
LEMMA ToldStays ==
  ASSUME TypeOK, DeliveryInv, Single, Told, [Next]_vars, NEW c \in Commands
  PROVE  /\ report[c] # "none" => ~Unexecuted(c)'
         /\ result[c] \in {"none", outcome'[c]}
         /\ channel[c] \in {"none", outcome'[c]}
         /\ answer[c] \in {"none", outcome'[c]}
         /\ status[c] \in Finished => outcome'[c] # "none" /\ status[c] = StatusOf(outcome'[c])
         /\ history[c] \in Finished => outcome'[c] # "none" /\ history[c] = StatusOf(outcome'[c])
<1>1. ~Unexecuted(c) => outcome'[c] = outcome[c]
  BY OutcomeIsDecidedOnce
<1> QED
  BY <1>1 DEF Told, Says, Unexecuted

(* Each record and each answer is copied from the outcome of an execution.    *)
LEMMA ToldInduction ==
  ASSUME TypeOK, AgentsHaveWork, DeliveryInv, Single, Told, [Next]_vars
  PROVE  Told'
<1> DEFINE
  Fits(c) ==
    /\ report'[c] # "none" => outcome'[c] # "none"
    /\ result'[c] \in {"none", outcome'[c]}
    /\ channel'[c] \in {"none", outcome'[c]}
    /\ answer'[c] \in {"none", outcome'[c]}
    /\ status'[c] \in Finished => outcome'[c] # "none" /\ status'[c] = StatusOf(outcome'[c])
    /\ history'[c] \in Finished => outcome'[c] # "none" /\ history'[c] = StatusOf(outcome'[c])
  Reports ==
    \A q \in Queues : agentPc'[q] = "report" => outcome'[agentCmd'[q]] # "none"
<1>1. Reports
  <2>1. ASSUME NEW q \in Queues, agentPc'[q] = "report",
               agentPc[q] = "report", agentCmd'[q] = agentCmd[q]
        PROVE  outcome'[agentCmd'[q]] # "none"
    <3>1. agentCmd[q] \in Commands /\ ~Unexecuted(agentCmd[q])
      BY <2>1 DEF AgentsHaveWork, Told
    <3> QED
      BY <2>1, <3>1, OutcomeIsDecidedOnce DEF Unexecuted
  <2>2. ASSUME NEW q \in Queues, AgentExecute(q) PROVE Reports
    <3>1. agentCmd[q] \in Commands /\ agentCmd' = agentCmd
      BY <2>2 DEF AgentExecute, AgentsHaveWork
    <3>2. outcome'[agentCmd[q]] \in Results
      BY <2>2, <3>1 DEF AgentExecute, TypeOK, AgentTypes
    <3>3. \A k \in Queues : k # q => agentPc'[k] = agentPc[k]
      BY <2>2 DEF AgentExecute, TypeOK, AgentTypes
    <3> QED
      BY <2>1, <3>1, <3>2, <3>3, ResultsAssumption
  <2>3. ASSUME NEW q \in Queues, AgentReport(q) \/ AgentGiveUp(q) PROVE Reports
    <3>1. \A k \in Queues : agentPc'[k] = "report" =>
            agentPc[k] = "report" /\ agentCmd'[k] = agentCmd[k]
      BY <2>3 DEF AgentReport, AgentGiveUp, TypeOK, AgentTypes
    <3> QED
      BY <2>1, <3>1
  <2>4. ASSUME NEW p \in Polls, AgentPoll(p) \/ PollRespond(p) PROVE Reports
    <3>1. \A k \in Queues : agentPc'[k] = "report" =>
            agentPc[k] = "report" /\ agentCmd'[k] = agentCmd[k]
      <4>1. CASE AgentPoll(p)
        BY <4>1, HomesAndQueues DEF AgentPoll, TypeOK, AgentTypes
      <4>2. CASE PollRespond(p) /\ connected[p]
        <5>1. agentPc[QueueOf(p)] = "polling"
          BY <4>2 DEF DeliveryInv, OneClient
        <5> QED
          BY <4>2, <5>1, HomesAndQueues DEF PollRespond, TypeOK, AgentTypes
      <4>3. CASE PollRespond(p) /\ ~connected[p]
        BY <4>3 DEF PollRespond
      <4> QED
        BY <2>4, <4>1, <4>2, <4>3
    <3> QED
      BY <2>1, <3>1
  <2>5. ASSUME NEW k \in Clusters, AgentCrash(k) PROVE Reports
    <3>1. \A q \in Queues : agentPc'[q] = "report" =>
            agentPc[q] = "report" /\ agentCmd'[q] = agentCmd[q]
      BY <2>5 DEF AgentCrash
    <3> QED
      BY <2>1, <3>1
  <2>6. CASE MasterRestart
    <3>1. \A q \in Queues : agentPc'[q] = "report" =>
            agentPc[q] = "report" /\ agentCmd'[q] = agentCmd[q]
      BY <2>6 DEF MasterRestart
    <3> QED
      BY <2>1, <3>1
  <2>7. CASE UNCHANGED <<agentPc, agentCmd>>
    BY <2>1, <2>7
  <2> QED
    BY <2>2, <2>3, <2>4, <2>5, <2>6, <2>7, AgentSteps
<1>2. ASSUME NEW c \in Commands,
             UNCHANGED <<report, result, channel, answer, status, history>>
      PROVE  Fits(c)
  BY <1>2, ToldStays DEF Unexecuted
\* The steps for one command; nothing of another command changes.
<1>3. ASSUME NEW c \in Commands, CallerStep(c), NEW x \in Commands PROVE Fits(x)
  <2> USE ToldStays DEF Unexecuted
  <2>1. UNCHANGED outcome
    BY <1>3, CallersMoveNothing
  <2>2. CASE x # c
    <3>1. /\ report'[x] = report[x]
          /\ result'[x] = result[x]
          /\ channel'[x] = channel[x]
          /\ answer'[x] = answer[x]
          /\ status'[x] = status[x]
          /\ history'[x] = history[x]
      BY <1>3, <2>2 DEF CallerStep, FinishSubmit, EnqueueRecord, EnqueueNotify,
         CreateHistory, Await, ReturnAtOnce, WaitCheck, WaitRegister, WaitReceive,
         WaitTimeout, WaitLeave, HandleResult, AckRecord, AckWake, PersistResult,
         Cleanup, bus, clients, TypeOK, BusTypes, ClientTypes, ReportTypes
    <3> QED
      BY <3>1
  <2>3. CASE x = c
    <3>1. CASE EnqueueRecord(c)
      BY <2>3, <3>1 DEF EnqueueRecord, Finished, TypeOK, BusTypes
    <3>2. CASE EnqueueNotify(c) \/ ReturnAtOnce(c) \/ WaitTimeout(c)
      BY <3>2 DEF EnqueueNotify, ReturnAtOnce, WaitTimeout, bus
    <3>3. CASE CreateHistory(c)
      BY <2>3, <3>3 DEF CreateHistory, bus, Finished, TypeOK, ReportTypes
    <3>4. CASE WaitCheck(c)
      BY <2>3, <3>4 DEF WaitCheck, bus, TypeOK, ClientTypes
    <3>5. CASE WaitRegister(c) \/ WaitLeave(c)
      BY <2>3, <3>5 DEF WaitRegister, WaitLeave, TypeOK, BusTypes
    <3>6. CASE WaitReceive(c)
      BY <2>3, <3>6 DEF WaitReceive, TypeOK, BusTypes, ClientTypes
    <3>7. CASE AckRecord(c)
      BY <2>1, <2>3, <3>7 DEF AckRecord, Finished, clients, TypeOK, BusTypes, ReportTypes
    <3>8. CASE AckWake(c)
      BY <2>1, <2>3, <3>8 DEF AckWake, clients, TypeOK, BusTypes, ReportTypes
    <3>9. CASE PersistResult(c)
      BY <2>1, <2>3, <3>9 DEF PersistResult, bus, clients, Finished, TypeOK, ReportTypes
    <3>10. CASE Cleanup(c)
      BY <2>3, <3>10 DEF Cleanup, Finished, clients, TypeOK, BusTypes
    <3> QED
      BY <1>3, <3>1, <3>2, <3>3, <3>4, <3>5, <3>6, <3>7, <3>8, <3>9, <3>10
      DEF CallerStep, FinishSubmit, Await, HandleResult
  <2> QED
    BY <2>2, <2>3
<1>4. ASSUME NEW p \in Polls, PollMarkRunning(p), NEW x \in Commands PROVE Fits(x)
  <2>1. /\ UNCHANGED <<report, result, channel, answer, history>>
        /\ status'[x] \in {status[x], "running"}
    BY <1>4 DEF PollMarkRunning, clients, TypeOK, BusTypes
  <2> QED
    BY <2>1, ToldStays DEF Finished, Unexecuted
<1>5. ASSUME NEW q \in Queues, AgentReport(q), NEW x \in Commands PROVE Fits(x)
  <2>1. /\ UNCHANGED <<result, channel, answer, status, history, outcome>>
        /\ report'[x] # report[x] => x = agentCmd[q] /\ agentPc[q] = "report"
    BY <1>5 DEF AgentReport, bus, clients, TypeOK, ReportTypes
  <2>2. report'[x] # "none" => outcome'[x] # "none"
    BY <2>1, ToldStays DEF Told, Unexecuted
  <2> QED
    BY <2>1, <2>2, ToldStays DEF Unexecuted
<1>6. ASSUME MasterRestart, NEW x \in Commands PROVE Fits(x)
  <2>1. /\ UNCHANGED <<answer, history>>
        /\ result'[x] = "none" /\ channel'[x] = "none" /\ status'[x] = "absent"
        /\ report'[x] # "none" => report[x] # "none"
    BY <1>6 DEF MasterRestart
  <2> QED
    BY <2>1, ToldStays DEF Finished, Unexecuted
<1>7. ASSUME NEW c \in Commands, EnqueueAppend(c)
      PROVE  UNCHANGED <<report, result, channel, answer, status, history>>
  BY <1>7 DEF EnqueueAppend
<1>8. ASSUME NEW p \in Polls, Serve(p)
      PROVE  \/ PollMarkRunning(p)
             \/ UNCHANGED <<report, result, channel, answer, status, history>>
  BY <1>8 DEF Serve, PollCheck, PollWake, PollSecondCheck, PollTimeout, PollRespond,
     PollCancelled, bus, clients
<1>9. ASSUME NEW q \in Queues, Work(q) \/ AgentGiveUp(q)
      PROVE  \/ AgentReport(q)
             \/ UNCHANGED <<report, result, channel, answer, status, history>>
  BY <1>9 DEF Work, AgentPoll, AgentExecute, AgentGiveUp, bus, clients
<1>10. ASSUME NEW k \in Clusters, AgentCrash(k)
      PROVE  UNCHANGED <<report, result, channel, answer, status, history>>
  BY <1>10 DEF AgentCrash, bus, clients
<1>11. CASE UNCHANGED vars
  BY <1>2, <1>11, <1>1 DEF vars, bus, clients, Told, Says, Unexecuted
<1>12. CASE Next
  <2>1. ASSUME NEW c \in Commands,
               FinishSubmit(c) \/ Await(c) \/ HandleResult(c) \/ Cleanup(c)
        PROVE  CallerStep(c)
    BY <2>1 DEF CallerStep
  <2>2. \A x \in Commands : Fits(x)
    <3> SUFFICES ASSUME NEW x \in Commands PROVE Fits(x)
      OBVIOUS
    <3> HIDE DEF Fits
    <3> QED
      BY <1>2, <1>3, <1>4, <1>5, <1>6, <1>7, <1>8, <1>9, <1>10, <1>12, <2>1, Zenon DEF Next
  <2> QED
    BY <1>1, <2>2 DEF Told, Says, Unexecuted
<1> QED
  BY <1>11, <1>12

LEMMA ToldInvariant == Spec => []Told
<1>1. Init => Told
  BY DEF Init, Told, Says, Unexecuted, Finished
<1>2. TypeOK /\ AgentsHaveWork /\ DeliveryInv /\ Single /\ Told /\ [Next]_vars => Told'
  BY ToldInduction
<1> QED
  BY <1>1, <1>2, TypesAndWork, DeliveryInvariant, SingleInvariant, PTL DEF Spec

(* A caller's answer (MemoryBus.WaitCommandResult), the status of a command    *)
(* (GetCommandStatus) and its history row are what the one execution of it     *)
(* returned, whichever reports are late, lost or meet a restarted Master.      *)
THEOREM Truth == Spec => []Truthful
<1>1. TypeOK /\ Told => Truthful
  BY DEF TypeOK, AgentTypes, Told, Says, Unexecuted, Truthful, StatusOf
<1> QED
  BY <1>1, TypeCorrect, ToldInvariant, PTL

-----------------------------------------------------------------------------
(* commandWaiters has an entry only for a caller inside WaitCommandResult: the *)
(* deferred removal takes away what no report has, and a waiter is registered  *)
(* by nobody but its own caller.                                               *)
THEOREM Orphans == Spec => []NoOrphanWaiter
<1>1. Init => NoOrphanWaiter
  BY DEF Init, NoOrphanWaiter
<1>2. TypeOK /\ TypeOK' /\ NoOrphanWaiter /\ [Next]_vars => NoOrphanWaiter'
  <2> SUFFICES ASSUME TypeOK, NoOrphanWaiter, [Next]_vars, NEW x \in Commands,
                      x \in registered'
               PROVE  caller'[x] \in {"waiting", "leaving"}
    BY DEF NoOrphanWaiter, TypeOK, BusTypes
  <2> USE DEF NoOrphanWaiter
  <2>1. ASSUME NEW c \in Commands, CallerStep(c)
        PROVE  caller'[x] \in {"waiting", "leaving"}
    <3>1. CASE FinishSubmit(c)
      BY <3>1 DEF FinishSubmit, EnqueueRecord, EnqueueNotify, CreateHistory, bus,
         TypeOK, ClientTypes
    <3>2. CASE ReturnAtOnce(c) \/ WaitCheck(c)
      BY <3>2 DEF ReturnAtOnce, WaitCheck, bus, TypeOK, ClientTypes
    <3>3. CASE WaitRegister(c)
      BY <3>3 DEF WaitRegister, TypeOK, ClientTypes
    <3>4. CASE WaitReceive(c) \/ WaitTimeout(c)
      BY <3>4 DEF WaitReceive, WaitTimeout, bus, TypeOK, ClientTypes
    <3>5. CASE WaitLeave(c)
      BY <3>5 DEF WaitLeave, TypeOK, ClientTypes
    <3>6. CASE HandleResult(c) \/ Cleanup(c)
      BY <3>6 DEF HandleResult, AckRecord, AckWake, PersistResult, Cleanup, bus, clients
    <3> QED
      BY <2>1, <3>1, <3>2, <3>3, <3>4, <3>5, <3>6 DEF CallerStep, Await
  <2>2. ASSUME NEW c \in Commands, EnqueueAppend(c)
        PROVE  caller'[x] \in {"waiting", "leaving"}
    BY <2>2 DEF EnqueueAppend, TypeOK, ClientTypes
  <2>3. ASSUME NEW p \in Polls, Serve(p) PROVE UNCHANGED <<registered, caller>>
    BY <2>3 DEF Serve, PollCheck, PollWake, PollSecondCheck, PollTimeout,
       PollMarkRunning, PollRespond, PollCancelled, bus, clients
  <2>4. ASSUME NEW q \in Queues, Work(q) \/ AgentGiveUp(q)
        PROVE  UNCHANGED <<registered, caller>>
    BY <2>4 DEF Work, AgentPoll, AgentExecute, AgentReport, AgentGiveUp, bus, clients
  <2>5. ASSUME NEW k \in Clusters, AgentCrash(k) PROVE UNCHANGED <<registered, caller>>
    BY <2>5 DEF AgentCrash, bus, clients
  <2>6. CASE MasterRestart
    BY <2>6 DEF MasterRestart
  <2>7. CASE UNCHANGED <<registered, caller>>
    BY <2>7
  <2>8. UNCHANGED vars => UNCHANGED <<registered, caller>>
    BY DEF vars, bus, clients
  <2> QED
    BY <2>1, <2>2, <2>3, <2>4, <2>5, <2>6, <2>7, <2>8, Zenon DEF Next, CallerStep
<1> QED
  BY <1>1, <1>2, TypeCorrect, PTL DEF Spec

-----------------------------------------------------------------------------
(* A caller that waits has its channel in commandWaiters, or the result is in  *)
(* the channel: the entry is taken away by the report that fills the channel,  *)
(* and by nobody else before the caller leaves.                                *)
WaitersAreHeard ==
  \A c \in Commands : caller[c] = "waiting" => c \in registered \/ channel[c] # "none"

(* While a caller waits, a report can still wake it or has done so; none waits *)
(* deaf for its whole timeout once it has registered.                          *)
THEOREM Waiters == Spec => []WaitersAreHeard
<1>1. Init => WaitersAreHeard
  BY DEF Init, WaitersAreHeard
<1>2. TypeOK /\ Told /\ WaitersAreHeard /\ [Next]_vars => WaitersAreHeard'
  <2> SUFFICES ASSUME TypeOK, Told, WaitersAreHeard, [Next]_vars, NEW x \in Commands,
                      caller'[x] = "waiting"
               PROVE  x \in registered' \/ channel'[x] # "none"
    BY DEF WaitersAreHeard
  <2> USE DEF WaitersAreHeard
  <2> DEFINE Heard == x \in registered' \/ channel'[x] # "none"
  <2>1. ASSUME NEW c \in Commands, CallerStep(c) PROVE Heard
    <3>1. CASE FinishSubmit(c)
      BY <3>1 DEF FinishSubmit, EnqueueRecord, EnqueueNotify, CreateHistory, bus,
         TypeOK, ClientTypes
    <3>2. CASE ReturnAtOnce(c) \/ WaitCheck(c)
      BY <3>2 DEF ReturnAtOnce, WaitCheck, bus, TypeOK, ClientTypes
    <3>3. CASE WaitRegister(c)
      BY <3>3 DEF WaitRegister, TypeOK, ClientTypes, BusTypes
    <3>4. CASE WaitReceive(c) \/ WaitTimeout(c)
      BY <3>4 DEF WaitReceive, WaitTimeout, bus, TypeOK, ClientTypes, BusTypes
    <3>5. CASE WaitLeave(c)
      BY <3>5 DEF WaitLeave, TypeOK, ClientTypes, BusTypes
    <3>6. CASE AckWake(c)
      <4>1. outcome[c] # "none"
        BY <3>6 DEF AckWake, Told, Unexecuted
      <4> QED
        BY <3>6, <4>1 DEF AckWake, clients, TypeOK, BusTypes
    <3>7. CASE AckRecord(c) \/ PersistResult(c) \/ Cleanup(c)
      BY <3>7 DEF AckRecord, PersistResult, Cleanup, bus, clients
    <3> QED
      BY <2>1, <3>1, <3>2, <3>3, <3>4, <3>5, <3>6, <3>7 DEF CallerStep, Await, HandleResult
  <2>2. ASSUME NEW c \in Commands, EnqueueAppend(c) PROVE Heard
    BY <2>2 DEF EnqueueAppend, TypeOK, ClientTypes
  <2>3. CASE UNCHANGED <<registered, channel, caller>>
    BY <2>3
  <2>4. ASSUME NEW p \in Polls, Serve(p) PROVE UNCHANGED <<registered, channel, caller>>
    BY <2>4 DEF Serve, PollCheck, PollWake, PollSecondCheck, PollTimeout,
       PollMarkRunning, PollRespond, PollCancelled, bus, clients
  <2>5. ASSUME NEW q \in Queues, Work(q) \/ AgentGiveUp(q)
        PROVE  UNCHANGED <<registered, channel, caller>>
    BY <2>5 DEF Work, AgentPoll, AgentExecute, AgentReport, AgentGiveUp, bus, clients
  <2>6. ASSUME NEW k \in Clusters, AgentCrash(k) PROVE UNCHANGED <<registered, channel, caller>>
    BY <2>6 DEF AgentCrash, bus, clients
  <2>7. CASE MasterRestart
    BY <2>7 DEF MasterRestart
  <2>8. UNCHANGED vars => UNCHANGED <<registered, channel, caller>>
    BY DEF vars, bus, clients
  <2> QED
    BY <2>1, <2>2, <2>3, <2>4, <2>5, <2>6, <2>7, <2>8, Zenon DEF Next, CallerStep
<1> QED
  BY <1>1, <1>2, TypeCorrect, ToldInvariant, PTL DEF Spec

-----------------------------------------------------------------------------
(* The row and the record of a command are made once, before it can be said   *)
(* to have finished.                                                          *)
LEMMA RecordsInTime == Spec => []Unrecorded
<1>1. Init => Unrecorded
  BY DEF Init, Unrecorded
<1>2. TypeOK /\ Unrecorded /\ [Next]_vars => Unrecorded'
  <2> DEFINE
    Blank(x) ==
      /\ caller'[x] \in {"new", "queued"} => status'[x] = "absent"
      /\ caller'[x] \in {"new", "queued", "recorded", "notified"} => history'[x] = "absent"
  <2> SUFFICES ASSUME TypeOK, Unrecorded, [Next]_vars, NEW x \in Commands
               PROVE  Blank(x)
    BY DEF Unrecorded
  <2> USE DEF Unrecorded
  <2>1. ASSUME NEW c \in Commands, CallerStep(c) PROVE Blank(x)
    <3>1. CASE FinishSubmit(c)
      BY <3>1 DEF FinishSubmit, EnqueueRecord, EnqueueNotify, CreateHistory, bus,
         TypeOK, BusTypes, ClientTypes, ReportTypes
    <3>2. CASE Await(c)
      BY <3>2 DEF Await, ReturnAtOnce, WaitCheck, WaitRegister, WaitReceive,
         WaitTimeout, WaitLeave, bus, TypeOK, ClientTypes
    <3>3. CASE AckRecord(c) \/ AckWake(c)
      BY <3>3 DEF AckRecord, AckWake, clients, TypeOK, BusTypes
    <3>4. CASE PersistResult(c)
      BY <3>4 DEF PersistResult, clients, bus, TypeOK, ReportTypes
    <3>5. CASE Cleanup(c)
      BY <3>5 DEF Cleanup, clients, TypeOK, BusTypes
    <3> QED
      BY <2>1, <3>1, <3>2, <3>3, <3>4, <3>5 DEF CallerStep, HandleResult
  <2>2. ASSUME NEW c \in Commands, EnqueueAppend(c) PROVE Blank(x)
    BY <2>2 DEF EnqueueAppend, TypeOK, ClientTypes
  <2>3. ASSUME NEW p \in Polls, PollMarkRunning(p) PROVE Blank(x)
    BY <2>3 DEF PollMarkRunning, clients, TypeOK, BusTypes
  <2>4. ASSUME NEW p \in Polls, Serve(p)
        PROVE  PollMarkRunning(p) \/ UNCHANGED <<status, history, caller>>
    BY <2>4 DEF Serve, PollCheck, PollWake, PollSecondCheck, PollTimeout,
       PollRespond, PollCancelled, bus, clients
  <2>5. ASSUME NEW q \in Queues, Work(q) \/ AgentGiveUp(q)
        PROVE  UNCHANGED <<status, history, caller>>
    BY <2>5 DEF Work, AgentPoll, AgentExecute, AgentReport, AgentGiveUp, bus, clients
  <2>6. ASSUME NEW k \in Clusters, AgentCrash(k)
        PROVE  UNCHANGED <<status, history, caller>>
    BY <2>6 DEF AgentCrash, bus, clients
  <2>7. CASE MasterRestart
    BY <2>7 DEF MasterRestart
  <2>8. CASE UNCHANGED <<status, history, caller>>
    BY <2>8
  <2>9. UNCHANGED vars => UNCHANGED <<status, history, caller>>
    BY DEF vars, bus, clients
  <2> HIDE DEF Blank
  <2> QED
    BY <2>1, <2>2, <2>3, <2>4, <2>5, <2>6, <2>7, <2>8, <2>9, Zenon DEF Next, CallerStep
<1> QED
  BY <1>1, <1>2, TypeCorrect, PTL DEF Spec

(* A finished command is never taken back: a handler that marks a command as   *)
(* running does so before it was executed, its caller has made its record and  *)
(* its row before they can say that it finished, and a second report would     *)
(* repeat the first.                                                           *)
LEMMA FinishedStays ==
  ASSUME TypeOK, Single, Told, Unrecorded, [Next]_vars, NEW x \in Commands
  PROVE  /\ history[x] \in Finished => history'[x] = history[x]
         /\ status[x] \in Finished => status'[x] \in {status[x], "absent"}
<1> DEFINE
  Stays(y) ==
    /\ history[y] \in Finished => history'[y] = history[y]
    /\ status[y] \in Finished => status'[y] \in {status[y], "absent"}
<1>1. /\ status[x] \in Finished => status[x] = StatusOf(outcome[x])
      /\ history[x] \in Finished => history[x] = StatusOf(outcome[x])
  BY DEF Told, Says
<1>2. ASSUME NEW c \in Commands, CallerStep(c) PROVE Stays(x)
  <2>1. CASE FinishSubmit(c)
    BY <2>1 DEF FinishSubmit, EnqueueRecord, EnqueueNotify, CreateHistory, bus,
       Unrecorded, Finished, TypeOK, BusTypes, ReportTypes
  <2>2. CASE Await(c)
    BY <2>2 DEF Await, ReturnAtOnce, WaitCheck, WaitRegister, WaitReceive,
       WaitTimeout, WaitLeave, bus
  <2>3. CASE AckRecord(c) \/ AckWake(c)
    BY <1>1, <2>3 DEF AckRecord, AckWake, TypeOK, BusTypes
  <2>4. CASE PersistResult(c)
    BY <1>1, <2>4 DEF PersistResult, bus, Finished, TypeOK, ReportTypes
  <2>5. CASE Cleanup(c)
    BY <2>5 DEF Cleanup, TypeOK, BusTypes
  <2> QED
    BY <1>2, <2>1, <2>2, <2>3, <2>4, <2>5 DEF CallerStep, HandleResult
<1>3. ASSUME NEW c \in Commands, EnqueueAppend(c) PROVE UNCHANGED <<status, history>>
  BY <1>3 DEF EnqueueAppend
<1>4. ASSUME NEW p \in Polls, PollMarkRunning(p) PROVE Stays(x)
  <2>1. history' = history
    BY <1>4 DEF PollMarkRunning
  <2>2. CASE x = pollCmd[p]
    <3>1. Unexecuted(x)
      BY <2>2, NilAssumption DEF Single
    <3>2. status[x] \notin Finished
      BY <3>1 DEF Told, Says
    <3> QED
      BY <2>1, <3>2
  <2>3. CASE x # pollCmd[p]
    BY <1>4, <2>1, <2>3 DEF PollMarkRunning, TypeOK, BusTypes
  <2> QED
    BY <2>2, <2>3
<1>5. ASSUME NEW p \in Polls, Serve(p)
      PROVE  PollMarkRunning(p) \/ UNCHANGED <<status, history>>
  BY <1>5 DEF Serve, PollCheck, PollWake, PollSecondCheck, PollTimeout,
     PollRespond, PollCancelled, bus
<1>6. ASSUME NEW q \in Queues, Work(q) \/ AgentGiveUp(q)
      PROVE  UNCHANGED <<status, history>>
  BY <1>6 DEF Work, AgentPoll, AgentExecute, AgentReport, AgentGiveUp, bus
<1>7. ASSUME NEW k \in Clusters, AgentCrash(k) PROVE UNCHANGED <<status, history>>
  BY <1>7 DEF AgentCrash, bus
<1>8. ASSUME MasterRestart PROVE Stays(x)
  BY <1>8 DEF MasterRestart
<1>9. ASSUME UNCHANGED <<status, history>> PROVE Stays(x)
  BY <1>9
<1>10. UNCHANGED vars => UNCHANGED <<status, history>>
  BY DEF vars, bus
<1> HIDE DEF Stays
<1>11. Stays(x)
  BY <1>2, <1>3, <1>4, <1>5, <1>6, <1>7, <1>8, <1>9, <1>10, Zenon DEF Next, CallerStep
<1> QED
  BY <1>11 DEF Stays

(* The history of a command (command_history) and its record never change once *)
(* they say that it finished, except that the record is cleaned up.            *)
THEOREM FinishedForGood == Spec => FinishedIsFinal
<1>1. TypeOK /\ Single /\ Told /\ Unrecorded /\ [Next]_vars =>
        [\A c \in Commands :
           /\ history[c] \in Finished => history'[c] = history[c]
           /\ status[c] \in Finished => status'[c] \in {status[c], "absent"}]_vars
  BY FinishedStays
<1> QED
  BY <1>1, TypeCorrect, SingleInvariant, ToldInvariant, RecordsInTime, PTL
  DEF Spec, FinishedIsFinal

-----------------------------------------------------------------------------
(* The pipeline implements CommandLifecycle.                                  *)

\* The cases of Phase exclude each other.
Apart ==
  \A c \in Commands :
    /\ ~Known(c) => Unexecuted(c) /\ ~InQueue(c) /\ ~IsHeld(c)
    /\ InQueue(c) => Unexecuted(c) /\ ~IsHeld(c)
    /\ IsHeld(c) => Unexecuted(c)

\* A caller that was told something does not ask again.
ToldOnce ==
  \A c \in Commands : answer[c] # "none" => caller[c] \in {"leaving", "returned"}

LEMMA CasesApart ==
  ASSUME TypeOK, DeliveryInv, Single
  PROVE  Apart
<1> SUFFICES ASSUME NEW c \in Commands
             PROVE  /\ ~Known(c) => Unexecuted(c) /\ ~InQueue(c) /\ ~IsHeld(c)
                    /\ InQueue(c) => Unexecuted(c) /\ ~IsHeld(c)
                    /\ IsHeld(c) => Unexecuted(c)
  BY DEF Apart
<1>1. Home[c] \in Queues /\ ticket[c] \in Nat
  BY HomesAndQueues DEF TypeOK, ClientTypes
<1>2. InQueue(c) => Known(c) /\ Unexecuted(c) /\ ~BeforeQueue(c, Home[c])
  BY <1>1 DEF InQueue, BeforeQueue, DeliveryInv, QueueSorted, Single
<1>3. IsHeld(c) => Known(c) /\ Unexecuted(c) /\ BeforeQueue(c, Home[c])
  BY NilAssumption DEF IsHeld, DeliveryInv, HeldIsOlder, ReadyIsOlder, Single
<1>4. ~Known(c) => Unexecuted(c)
  BY DEF Single
<1> QED
  BY <1>2, <1>3, <1>4

LEMMA ToldOnceInvariant == Spec => []ToldOnce
<1>1. Init => ToldOnce
  BY DEF Init, ToldOnce
<1>2. TypeOK /\ ToldOnce /\ [Next]_vars => ToldOnce'
  <2> DEFINE Done(x) == answer'[x] # "none" => caller'[x] \in {"leaving", "returned"}
  <2> SUFFICES ASSUME TypeOK, ToldOnce, [Next]_vars, NEW x \in Commands
               PROVE  Done(x)
    BY DEF ToldOnce
  <2> USE DEF ToldOnce
  <2>1. ASSUME NEW c \in Commands, CallerStep(c) PROVE Done(x)
    <3>1. CASE FinishSubmit(c)
      BY <3>1 DEF FinishSubmit, EnqueueRecord, EnqueueNotify, CreateHistory,
         TypeOK, ClientTypes
    <3>2. CASE Await(c)
      BY <3>2 DEF Await, ReturnAtOnce, WaitCheck, WaitRegister, WaitReceive,
         WaitTimeout, WaitLeave, TypeOK, ClientTypes
    <3>3. CASE HandleResult(c) \/ Cleanup(c)
      BY <3>3 DEF HandleResult, AckRecord, AckWake, PersistResult, Cleanup, clients
    <3> QED
      BY <2>1, <3>1, <3>2, <3>3 DEF CallerStep
  <2>2. ASSUME NEW c \in Commands, EnqueueAppend(c) PROVE Done(x)
    BY <2>2 DEF EnqueueAppend, TypeOK, ClientTypes
  <2>3. ASSUME NEW p \in Polls, Serve(p) PROVE UNCHANGED <<answer, caller>>
    BY <2>3 DEF Serve, PollCheck, PollWake, PollSecondCheck, PollTimeout,
       PollMarkRunning, PollRespond, PollCancelled, clients
  <2>4. ASSUME NEW q \in Queues, Work(q) \/ AgentGiveUp(q)
        PROVE  UNCHANGED <<answer, caller>>
    BY <2>4 DEF Work, AgentPoll, AgentExecute, AgentReport, AgentGiveUp, clients
  <2>5. ASSUME NEW k \in Clusters, AgentCrash(k) PROVE UNCHANGED <<answer, caller>>
    BY <2>5 DEF AgentCrash, clients
  <2>6. ASSUME MasterRestart PROVE Done(x)
    BY <2>6 DEF MasterRestart
  <2>7. ASSUME UNCHANGED <<answer, caller>> PROVE Done(x)
    BY <2>7
  <2>8. UNCHANGED vars => UNCHANGED <<answer, caller>>
    BY DEF vars, clients
  <2> HIDE DEF Done
  <2> QED
    BY <2>1, <2>2, <2>3, <2>4, <2>5, <2>6, <2>7, <2>8, Zenon DEF Next, CallerStep
<1> QED
  BY <1>1, <1>2, TypeCorrect, PTL DEF Spec

(* What Phase says of a command, before and after a step.                     *)
LEMMA PhaseOf ==
  ASSUME Apart, NEW c \in Commands
  PROVE  /\ ~Known(c) => Phase[c] = "new"
         /\ ~Unexecuted(c) => Phase[c] = "run"
         /\ InQueue(c) => Phase[c] = "queued"
         /\ IsHeld(c) => Phase[c] = "taken"
         /\ Known(c) /\ Unexecuted(c) /\ ~InQueue(c) /\ ~IsHeld(c) => Phase[c] = "lost"
  BY DEF Apart, Phase, Known, Unexecuted

LEMMA PhaseOfNext ==
  ASSUME Apart', NEW c \in Commands
  PROVE  /\ ~Known(c)' => Phase'[c] = "new"
         /\ ~Unexecuted(c)' => Phase'[c] = "run"
         /\ InQueue(c)' => Phase'[c] = "queued"
         /\ IsHeld(c)' => Phase'[c] = "taken"
         /\ Known(c)' /\ Unexecuted(c)' /\ ~InQueue(c)' /\ ~IsHeld(c)' => Phase'[c] = "lost"
  BY DEF Apart, Phase, Known, Unexecuted

(* A command none of whose places changes keeps its phase.                    *)
LEMMA SamePhase ==
  ASSUME Apart, Apart', NEW c \in Commands,
         Known(c)' <=> Known(c),
         Unexecuted(c)' <=> Unexecuted(c),
         InQueue(c)' <=> InQueue(c),
         IsHeld(c)' <=> IsHeld(c)
  PROVE  Phase'[c] = Phase[c]
<1>1. CASE ~Known(c)
  BY <1>1, PhaseOf, PhaseOfNext
<1>2. CASE ~Unexecuted(c)
  BY <1>2, PhaseOf, PhaseOfNext
<1>3. CASE InQueue(c)
  BY <1>3, PhaseOf, PhaseOfNext
<1>4. CASE IsHeld(c)
  BY <1>4, PhaseOf, PhaseOfNext
<1>5. CASE Known(c) /\ Unexecuted(c) /\ ~InQueue(c) /\ ~IsHeld(c)
  BY <1>5, PhaseOf, PhaseOfNext
<1> QED
  BY <1>1, <1>2, <1>3, <1>4, <1>5

(* Phase is a function on the commands, before and after a step.              *)
LEMMA PhaseFunctions ==
  /\ Phase = [c \in Commands |-> Phase[c]]
  /\ Phase' = [c \in Commands |-> Phase'[c]]
<1> DEFINE f(c) == CASE caller[c] = "new" -> "new"
                     [] outcome[c] # "none" -> "run"
                     [] InQueue(c) -> "queued"
                     [] IsHeld(c) -> "taken"
                     [] OTHER -> "lost"
<1>1. Phase = [c \in Commands |-> f(c)] /\ Phase' = [c \in Commands |-> f(c)']
  BY DEF Phase
<1> HIDE DEF f
<1> QED
  BY <1>1

(* A step that drops commands on their way to execution loses them; one that  *)
(* drops none loses the empty set.                                            *)
LEMMA Dropped ==
  ASSUME Apart, Apart',
         UNCHANGED <<outcome, answer>>,
         \A c \in Commands :
           /\ Known(c)' <=> Known(c)
           /\ InQueue(c)' => InQueue(c)
           /\ IsHeld(c)' => IsHeld(c)
  PROVE  Lifecycle!Next
<1> DEFINE C == {c \in Commands : (InQueue(c) \/ IsHeld(c)) /\ ~InQueue(c)' /\ ~IsHeld(c)'}
<1>1. ASSUME NEW c \in Commands, c \in C
      PROVE  Phase[c] \in {"queued", "taken"} /\ Phase'[c] = "lost"
  <2>1. Known(c) /\ Unexecuted(c)
    BY <1>1 DEF Apart
  <2>2. Known(c)' /\ Unexecuted(c)'
    BY <2>1 DEF Unexecuted
  <2> QED
    BY <1>1, <2>2, PhaseOf, PhaseOfNext
<1>2. ASSUME NEW c \in Commands, c \notin C PROVE Phase'[c] = Phase[c]
  <2>1. Unexecuted(c)' <=> Unexecuted(c)
    BY DEF Unexecuted
  <2>2. (InQueue(c)' <=> InQueue(c)) /\ (IsHeld(c)' <=> IsHeld(c))
    BY <1>2 DEF Apart
  <2> QED
    BY <2>1, <2>2, SamePhase
<1>3. Phase' = [c \in Commands |-> IF c \in C THEN "lost" ELSE Phase[c]]
  <2>1. \A c \in Commands : Phase'[c] = IF c \in C THEN "lost" ELSE Phase[c]
    BY <1>1, <1>2
  <2> HIDE DEF C
  <2> QED
    BY <2>1, PhaseFunctions
<1>4. C \in SUBSET Commands
  OBVIOUS
<1>5. Lifecycle!Lose(C)
  <2>1. \A c \in C : Phase[c] \in {"queued", "taken"}
    BY <1>1
  <2> HIDE DEF C
  <2> QED
    BY <1>3, <2>1 DEF Lifecycle!Lose
<1> HIDE DEF C
<1> QED
  BY <1>4, <1>5 DEF Lifecycle!Next

(* A step that moves one command on.                                          *)
LEMMA MovesOne ==
  ASSUME Apart, Apart', NEW d \in Commands, NEW ph, Phase'[d] = ph,
         \A c \in Commands : c # d =>
           /\ Known(c)' <=> Known(c)
           /\ Unexecuted(c)' <=> Unexecuted(c)
           /\ InQueue(c)' <=> InQueue(c)
           /\ IsHeld(c)' <=> IsHeld(c)
  PROVE  Phase' = [Phase EXCEPT ![d] = ph]
<1>1. \A c \in Commands : c # d => Phase'[c] = Phase[c]
  BY SamePhase
<1>2. /\ Phase = [c \in Commands |-> Phase[c]]
      /\ Phase' = [c \in Commands |-> Phase'[c]]
  BY PhaseFunctions
<1>3. DOMAIN Phase = Commands
  BY <1>2
<1>4. [Phase EXCEPT ![d] = ph] = [c \in Commands |-> IF c = d THEN ph ELSE Phase[c]]
  BY <1>3
<1>5. \A c \in Commands : Phase'[c] = IF c = d THEN ph ELSE Phase[c]
  BY <1>1
<1> QED
  BY <1>2, <1>4, <1>5

(* Each step of the pipeline is a step of CommandLifecycle.                   *)
LEMMA StepSimulation ==
  ASSUME TypeOK, AgentsHaveWork, DeliveryInv, Single, Told, ToldOnce,
         Apart, Apart', [Next]_vars
  PROVE  Lifecycle!Next
<1>1. ASSUME NEW c \in Commands, EnqueueAppend(c) PROVE Lifecycle!Next
  <2> DEFINE h == Home[c]
  <2>1. h \in Queues /\ queue[h] \in Seq(Commands)
    BY HomesAndQueues DEF TypeOK, BusTypes
  <2>2. /\ ~Known(c)
        /\ Known(c)'
        /\ queue'[h] = Append(queue[h], c)
        /\ \A q \in Queues : q # h => queue'[q] = queue[q]
        /\ \A x \in Commands : x # c => (Known(x)' <=> Known(x))
        /\ UNCHANGED <<pollCmd, agentPc, agentCmd, outcome, answer>>
    BY <1>1, <2>1 DEF EnqueueAppend, Known, TypeOK, BusTypes, ClientTypes, polls, agents
  <2>3. /\ Len(queue'[h]) = Len(queue[h]) + 1
        /\ \A i \in 1..Len(queue[h]) : queue'[h][i] = queue[h][i]
        /\ queue'[h][Len(queue[h]) + 1] = c
        /\ Len(queue[h]) \in Nat
    BY <2>1, <2>2
  <2>4. InQueue(c)'
    BY <2>3 DEF InQueue
  <2>5. ASSUME NEW x \in Commands, x # c
        PROVE  (InQueue(x)' <=> InQueue(x)) /\ (IsHeld(x)' <=> IsHeld(x))
    <3>1. CASE Home[x] = h
      <4>1. ASSUME NEW i \in 1..Len(queue'[h]), queue'[h][i] = x
            PROVE  InQueue(x)
        <5>1. i \in 1..Len(queue[h])
          BY <2>3, <2>5, <4>1
        <5> QED
          BY <2>3, <3>1, <4>1, <5>1 DEF InQueue
      <4>2. ASSUME NEW i \in 1..Len(queue[h]), queue[h][i] = x
            PROVE  InQueue(x)'
        <5>1. i \in 1..Len(queue'[h]) /\ queue'[h][i] = x
          BY <2>3, <4>2
        <5> QED
          BY <3>1, <5>1 DEF InQueue
      <4>3. InQueue(x) <=> \E i \in 1..Len(queue[h]) : queue[h][i] = x
        BY <3>1 DEF InQueue
      <4>4. InQueue(x)' <=> \E i \in 1..Len(queue'[h]) : queue'[h][i] = x
        BY <3>1 DEF InQueue
      <4>5. InQueue(x)' <=> InQueue(x)
        BY <4>1, <4>2, <4>3, <4>4
      <4>6. IsHeld(x)' <=> IsHeld(x)
        BY <2>2 DEF IsHeld
      <4> QED
        BY <4>5, <4>6
    <3>2. CASE Home[x] # h
      <4>1. queue'[Home[x]] = queue[Home[x]]
        BY <2>2, <3>2, HomesAndQueues
      <4>2. InQueue(x)' <=> InQueue(x)
        BY <4>1 DEF InQueue
      <4>3. IsHeld(x)' <=> IsHeld(x)
        BY <2>2 DEF IsHeld
      <4> QED
        BY <4>2, <4>3
    <3> QED
      BY <3>1, <3>2
  <2>6. Phase[c] = "new" /\ Phase'[c] = "queued"
    BY <2>2, <2>4, PhaseOf, PhaseOfNext
  <2>7. Phase' = [Phase EXCEPT ![c] = "queued"]
    BY <2>2, <2>5, <2>6, MovesOne DEF Unexecuted
  <2>8. Lifecycle!Submit(c)
    BY <2>2, <2>6, <2>7 DEF Lifecycle!Submit
  <2> QED
    BY <2>8 DEF Lifecycle!Next
<1>2. ASSUME NEW c \in Commands, CallerStep(c) PROVE Lifecycle!Next
  <2>1. \A x \in Commands : /\ Known(x)' <=> Known(x)
                            /\ InQueue(x)' <=> InQueue(x)
                            /\ IsHeld(x)' <=> IsHeld(x)
                            /\ Unexecuted(x)' <=> Unexecuted(x)
    <3>1. \A x \in Commands : Known(x)' => Known(x)
      BY <1>2 DEF CallerStep, FinishSubmit, EnqueueRecord, EnqueueNotify, CreateHistory,
         Await, ReturnAtOnce, WaitCheck, WaitRegister, WaitReceive, WaitTimeout,
         WaitLeave, HandleResult, AckRecord, AckWake, PersistResult, Cleanup,
         clients, Known, TypeOK, ClientTypes
    <3> QED
      BY <1>2, <3>1, CallersMoveNothing DEF InQueue, IsHeld, Unexecuted
  <2>2. outcome' = outcome
    BY <1>2, CallersMoveNothing
  <2>3. CASE answer' = answer
    BY <2>1, <2>2, <2>3, Dropped
  <2>4. ASSUME answer[c] = "none", answer' = [answer EXCEPT ![c] = outcome[c]],
               ~Unexecuted(c)
        PROVE  Lifecycle!Next
    <3>1. Phase[c] = "run"
      BY <2>4, PhaseOf
    <3>2. Phase' = Phase
      BY <2>1, SamePhase, PhaseFunctions
    <3>3. Lifecycle!Tell(c)
      BY <2>2, <2>4, <3>1, <3>2 DEF Lifecycle!Tell
    <3> QED
      BY <3>3 DEF Lifecycle!Next
  <2>5. CASE WaitCheck(c) /\ answer' # answer
    <3>1. caller[c] = "created" /\ result[c] # "none" /\ answer' = [answer EXCEPT ![c] = result[c]]
      BY <2>5 DEF WaitCheck, HasResult
    <3> QED
      BY <2>4, <3>1 DEF ToldOnce, Told, Unexecuted
  <2>6. CASE WaitReceive(c)
    <3>1. caller[c] = "waiting" /\ channel[c] # "none" /\ answer' = [answer EXCEPT ![c] = channel[c]]
      BY <2>6 DEF WaitReceive
    <3> QED
      BY <2>4, <3>1 DEF ToldOnce, Told, Unexecuted
  <2>7. WaitCheck(c) \/ WaitReceive(c) \/ answer' = answer
    BY <1>2 DEF CallerStep, FinishSubmit, EnqueueRecord, EnqueueNotify, CreateHistory,
       Await, ReturnAtOnce, WaitRegister, WaitTimeout, WaitLeave, HandleResult,
       AckRecord, AckWake, PersistResult, Cleanup, clients
  <2> QED
    BY <2>3, <2>5, <2>6, <2>7
\* A handler that takes the head of its queue.
<1>3. ASSUME NEW p \in Polls, NEW otherwise, PopOr(p, otherwise),
             pollPc[p] \in {"check", "woken"},
             UNCHANGED <<caller, answer, outcome, agentPc, agentCmd>>
      PROVE  Lifecycle!Next
  <2> DEFINE q == QueueOf(p)
  <2>1. /\ q \in Queues /\ queue[q] \in Seq(Commands)
        /\ pollCmd[p] = NoCommand
    BY <1>3, HomesAndQueues DEF TypeOK, BusTypes, DeliveryInv, HeldIsOlder
  <2>2. CASE queue[q] = <<>>
    <3>1. UNCHANGED <<queue, pollCmd>>
      BY <1>3, <2>2 DEF PopOr
    <3> QED
      BY <1>3, <3>1, Dropped DEF Known, InQueue, IsHeld
  <2>3. CASE queue[q] # <<>>
    <3>1. PICK d \in Commands : d = Head(queue[q])
      BY <2>1, <2>3
    <3>2. /\ queue'[q] = Tail(queue[q])
          /\ \A k \in Queues : k # q => queue'[k] = queue[k]
          /\ pollCmd'[p] = d
          /\ \A r \in Polls : r # p => pollCmd'[r] = pollCmd[r]
      BY <1>3, <2>1, <2>3, <3>1 DEF PopOr, TypeOK, BusTypes, PollTypes
    <3>3. /\ 1 \in 1..Len(queue[q])
          /\ queue[q][1] = d
          /\ \A i \in 1..Len(queue'[q]) : /\ i + 1 \in 1..Len(queue[q])
                                        /\ queue'[q][i] = queue[q][i + 1]
          /\ \A i \in 2..Len(queue[q]) : /\ i - 1 \in 1..Len(queue'[q])
                                        /\ queue'[q][i - 1] = queue[q][i]
      BY <2>1, <2>3, <3>1, <3>2
    <3>4. Home[d] = q /\ InQueue(d)
      BY <2>1, <3>3 DEF DeliveryInv, QueueSorted, InQueue
    <3>5. IsHeld(d)'
      BY <3>2 DEF IsHeld
    <3>7. ASSUME NEW x \in Commands, x # d
          PROVE  InQueue(x)' <=> InQueue(x)
      <4>1. CASE Home[x] = q
        <5>1. InQueue(x)' => InQueue(x)
          BY <3>3, <4>1 DEF InQueue
        <5>2. ASSUME NEW i \in 1..Len(queue[q]), queue[q][i] = x
              PROVE  InQueue(x)'
          <6>1. i \in 2..Len(queue[q])
            BY <3>3, <3>7, <5>2
          <6> QED
            BY <3>3, <4>1, <5>2, <6>1 DEF InQueue
        <5> QED
          BY <4>1, <5>1, <5>2 DEF InQueue
      <4>2. CASE Home[x] # q
        BY <3>2, <4>2, HomesAndQueues DEF InQueue
      <4> QED
        BY <4>1, <4>2
    <3>8. ASSUME NEW x \in Commands, x # d
          PROVE  IsHeld(x)' <=> IsHeld(x)
      BY <1>3, <2>1, <3>2, <3>8, NilAssumption DEF IsHeld
    <3>9. Phase[d] = "queued" /\ Phase'[d] = "taken"
      BY <3>4, <3>5, PhaseOf, PhaseOfNext
    <3>10. \A x \in Commands : (Known(x)' <=> Known(x)) /\ (Unexecuted(x)' <=> Unexecuted(x))
      BY <1>3 DEF Known, Unexecuted
    <3>11. Phase' = [Phase EXCEPT ![d] = "taken"]
      BY <3>7, <3>8, <3>9, <3>10, MovesOne
    <3>12. Lifecycle!Take(d)
      BY <1>3, <3>9, <3>11 DEF Lifecycle!Take
    <3> QED
      BY <3>12 DEF Lifecycle!Next
  <2> QED
    BY <2>2, <2>3
<1>4. ASSUME NEW p \in Polls, Serve(p) PROVE Lifecycle!Next
  <2>1. CASE PollCheck(p)
    BY <1>3, <2>1 DEF PollCheck, clients, agents
  <2>2. CASE PollSecondCheck(p)
    BY <1>3, <2>2 DEF PollSecondCheck, clients, agents
  <2>3. CASE PollWake(p) \/ PollTimeout(p) \/ PollMarkRunning(p)
    <3>1. UNCHANGED <<caller, answer, queue, pollCmd, agentPc, agentCmd, outcome>>
      BY <2>3 DEF PollWake, PollTimeout, PollMarkRunning, bus, clients, agents
    <3> QED
      BY <3>1, Dropped DEF Known, InQueue, IsHeld
  <2>4. CASE PollRespond(p)
    <3>1. /\ UNCHANGED <<caller, answer, queue, outcome>>
          /\ \A r \in Polls : pollCmd'[r] \in {pollCmd[r], NoCommand}
          /\ \A k \in Queues : agentPc'[k] = "execute" =>
               \/ agentPc[k] = "execute" /\ agentCmd'[k] = agentCmd[k]
               \/ agentCmd'[k] = pollCmd[p]
      BY <2>4, HomesAndQueues DEF PollRespond, Release, bus, clients, TypeOK, PollTypes, AgentTypes
    <3>2. \A x \in Commands : IsHeld(x)' => IsHeld(x)
      BY <3>1, NilAssumption DEF IsHeld
    <3> QED
      BY <3>1, <3>2, Dropped DEF Known, InQueue
  <2>5. CASE PollCancelled(p)
    <3>1. /\ UNCHANGED <<caller, answer, queue, agentPc, agentCmd, outcome>>
          /\ \A r \in Polls : pollCmd'[r] \in {pollCmd[r], NoCommand}
      BY <2>5 DEF PollCancelled, Release, bus, clients, agents, TypeOK, PollTypes
    <3>2. \A x \in Commands : IsHeld(x)' => IsHeld(x)
      BY <3>1, NilAssumption DEF IsHeld
    <3> QED
      BY <3>1, <3>2, Dropped DEF Known, InQueue
  <2> QED
    BY <1>4, <2>1, <2>2, <2>3, <2>4, <2>5 DEF Serve
<1>5. ASSUME NEW q \in Queues, AgentExecute(q) PROVE Lifecycle!Next
  <2>1. PICK d \in Commands : d = agentCmd[q]
    BY <1>5 DEF AgentExecute, AgentsHaveWork
  <2>2. PICK r \in Results : outcome' = [outcome EXCEPT ![d] = r]
    BY <1>5, <2>1 DEF AgentExecute
  <2>3. /\ UNCHANGED <<caller, answer, queue, pollCmd, agentCmd>>
        /\ agentPc[q] = "execute"
        /\ agentPc' = [agentPc EXCEPT ![q] = "report"]
    BY <1>5 DEF AgentExecute, bus, clients, polls
  <2>4. /\ outcome'[d] = r /\ r # "none"
        /\ \A x \in Commands : x # d => outcome'[x] = outcome[x]
        /\ \A k \in Queues : k # q => agentPc'[k] = agentPc[k]
        /\ agentPc'[q] = "report"
    BY <2>2, <2>3, ResultsAssumption DEF TypeOK, AgentTypes
  <2>5. IsHeld(d)
    BY <2>1, <2>3 DEF IsHeld
  <2>6. Phase[d] = "taken" /\ Phase'[d] = "run"
    BY <2>4, <2>5, PhaseOf, PhaseOfNext DEF Unexecuted
  <2>7. ASSUME NEW x \in Commands, x # d
        PROVE  /\ Known(x)' <=> Known(x)
               /\ Unexecuted(x)' <=> Unexecuted(x)
               /\ InQueue(x)' <=> InQueue(x)
               /\ IsHeld(x)' <=> IsHeld(x)
    BY <2>1, <2>3, <2>4, <2>7 DEF Known, Unexecuted, InQueue, IsHeld
  <2>8. Phase' = [Phase EXCEPT ![d] = "run"]
    BY <2>6, <2>7, MovesOne
  <2>9. Lifecycle!Run(d)
    BY <2>2, <2>3, <2>6, <2>8 DEF Lifecycle!Run
  <2> QED
    BY <2>9 DEF Lifecycle!Next
<1>6. ASSUME UNCHANGED <<caller, answer, queue, pollCmd, outcome>>,
             \A k \in Queues : agentPc'[k] = "execute" =>
               agentPc[k] = "execute" /\ agentCmd'[k] = agentCmd[k]
      PROVE  Lifecycle!Next
  BY <1>6, Dropped DEF Known, InQueue, IsHeld
<1>7. ASSUME NEW q \in Queues, AgentReport(q) \/ AgentGiveUp(q) PROVE Lifecycle!Next
  <2>1. /\ UNCHANGED <<caller, answer, queue, pollCmd, outcome>>
        /\ \A k \in Queues : agentPc'[k] = "execute" =>
             agentPc[k] = "execute" /\ agentCmd'[k] = agentCmd[k]
    BY <1>7 DEF AgentReport, AgentGiveUp, bus, clients, polls, TypeOK, AgentTypes
  <2> QED
    BY <1>6, <2>1
<1>8. ASSUME NEW p \in Polls, AgentPoll(p) PROVE Lifecycle!Next
  <2>1. /\ UNCHANGED <<caller, answer, queue, pollCmd, outcome>>
        /\ \A k \in Queues : agentPc'[k] = "execute" =>
             agentPc[k] = "execute" /\ agentCmd'[k] = agentCmd[k]
    BY <1>8 DEF AgentPoll, bus, clients, TypeOK, AgentTypes
  <2> QED
    BY <1>6, <2>1
<1>9. ASSUME NEW k \in Clusters, AgentCrash(k) PROVE Lifecycle!Next
  <2>1. /\ UNCHANGED <<caller, answer, queue, pollCmd, outcome>>
        /\ \A q \in Queues : agentPc'[q] = "execute" =>
             agentPc[q] = "execute" /\ agentCmd'[q] = agentCmd[q]
    BY <1>9 DEF AgentCrash, bus, clients
  <2> QED
    BY <1>6, <2>1
<1>10. ASSUME MasterRestart PROVE Lifecycle!Next
  <2>1. /\ UNCHANGED <<answer, outcome>>
        /\ \A c \in Commands : Known(c)' <=> Known(c)
        /\ \A q \in Queues : queue'[q] = <<>>
        /\ \A p \in Polls : pollCmd'[p] = NoCommand
        /\ \A q \in Queues : agentPc'[q] = "execute" =>
             agentPc[q] = "execute" /\ agentCmd'[q] = agentCmd[q]
    BY <1>10 DEF MasterRestart, Known
  <2>2. \A c \in Commands : (InQueue(c)' => InQueue(c)) /\ (IsHeld(c)' => IsHeld(c))
    BY <2>1, NilAssumption, HomesAndQueues DEF InQueue, IsHeld
  <2> QED
    BY <2>1, <2>2, Dropped
<1>11. ASSUME UNCHANGED vars PROVE Lifecycle!Next
  BY <1>6, <1>11 DEF vars, bus, clients, polls, agents
<1>12. ASSUME NEW q \in Queues, Work(q)
       PROVE  AgentExecute(q) \/ AgentReport(q) \/ \E p \in Polls : AgentPoll(p)
  <2>1. \A n \in Slots : <<q, n>> \in Polls
    BY DEF Polls
  <2> QED
    BY <1>12, <2>1 DEF Work
<1> QED
  BY <1>1, <1>2, <1>4, <1>5, <1>7, <1>8, <1>9, <1>10, <1>11, <1>12, Zenon
  DEF Next, CallerStep

(* The pipeline implements the life of a command: whatever the bus, its        *)
(* handlers, the Agents and the failures do, seen from outside a command is    *)
(* queued, taken, run and told in this order, each at most once, or lost.      *)
THEOREM Implementation == Spec => ImplementsLifecycle
<1>1. Init => Lifecycle!Init
  <2> SUFFICES ASSUME Init PROVE Lifecycle!Init
    OBVIOUS
  <2>1. Apart
    BY NilAssumption, HomesAndQueues DEF Init, Apart, Known, Unexecuted, InQueue, IsHeld
  <2>2. \A c \in Commands : Phase[c] = "new"
    BY <2>1, PhaseOf DEF Init, Known
  <2>3. Phase = [c \in Commands |-> "new"]
    BY <2>2, PhaseFunctions
  <2> QED
    BY <2>3 DEF Init, Lifecycle!Init
<1>2. TypeOK /\ AgentsHaveWork /\ DeliveryInv /\ Single /\ Told /\ ToldOnce
        /\ Apart /\ Apart' /\ [Next]_vars
        => [Lifecycle!Next]_Lifecycle!vars
  BY StepSimulation
<1>3. TypeOK /\ DeliveryInv /\ Single => Apart
  BY CasesApart
<1> QED
  BY <1>1, <1>2, <1>3, TypesAndWork, DeliveryInvariant, SingleInvariant, ToldInvariant,
     ToldOnceInvariant, PTL
  DEF Spec, ImplementsLifecycle, Lifecycle!Spec

=============================================================================
