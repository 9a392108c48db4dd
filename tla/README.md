# AtlHyper: specifications, model checking and proofs

AtlHyper watches Kubernetes clusters. A **Master** (`atlhyper_master_v2`, Go)
serves a web console and runs alerting, incident detection, deployment and AI
analysis. In each cluster an **Agent** (`atlhyper_agent_v2`, Go) collects
snapshots, sends heartbeats, fetches commands by long poll and executes them.
The Agent always calls the Master; the Master never calls an Agent.

These modules model the parts of that system in which goroutines, processes and
clocks interact. TLC checks them on small instances, and TLAPS proves the
theorems listed below for every value of the constants. `PROJECT.json` maps each
definition to the lines it models, lists the runs, and for each property a
faulty variant of the code that the property catches.

## 1. Inventory

### Components, their state and operations

| Component | State | Operations | Module |
|---|---|---|---|
| Command pipeline (`mq/memory`, `service/operations`, `agentsdk`, Agent `scheduler`, `gateway`) | queue and notification token per cluster and topic, status records, channels of waiting callers, history rows; each Agent loop | create, wait for result, poll, execute, report, clean up | `CommandBus`, `CommandLifecycle` |
| AIOps incidents (`aiops/statemachine`, `aiops/core`, `aiops/incident`) | an entry per entity with state and time stamps; rows of `aiops_incidents` | evaluate, callbacks, recovery loop, sweep, reload | `IncidentLifecycle` |
| Agent registry and heartbeat alerts (`datahub/memory`, `notifier/trigger/heartbeat.go`) | a record, snapshot and timeline per cluster; alerted clusters | heartbeat, snapshot, mark offline, wipe, check | `AgentRegistry` |
| Deployer (`deployer`) | last commit, paths being deployed, deployment history | poll, deploy path, sync now, restore, save configuration | `Deployer` |
| Console: session and clusters (`atlhyper_web`: `store`, `LoginDialog`, `Layout`, `SidebarFooter`, `SidebarClusterSelector`) | token, dialog, clusters and current cluster in memory and in localStorage | sign in and out, 401, list clusters, select, reload | `WebSession` |
| Console: pages and drawers (`app/cluster`, `app/observe`, `app/aiops`, `*DetailModal`) | rows, drawer, requests and refreshes in flight, command under way | open, refresh, filter, show item, restart or cordon | `ConsolePages`, `Console` |
| Console: AI chat (`app/aiops/chat`) | open conversation, messages, streams and the one Stop aborts | ask, stop, new, select, delete | `ChatSession` |
| AI providers' roles (`gateway/handler/admin/ai_provider.go`, its repository; `app/settings/ai`) | rows of `ai_providers`; per tab the list displayed and the role being saved; operations under way | assign, save, add, delete, list | `ProviderRoles` |
| Baselines and risk (`aiops/baseline`, `aiops/risk`) | statistics per entity and metric, dirty marks, first-anomaly times, risk maps | update, flush, load, clean up, calculate | planned |
| Background analysis (`aiops/enricher/background.go`) | queue of 64, recently seen incidents, budgets | submit, process, escalate | planned |
| Cluster events (`service/sync`, `notifier/trigger/event.go`) | event rows, last id seen | persist, retain, alert | planned |
| Redis bus and store (`mq/redis`, `datahub/redis`) | the same in Redis lists and keys | as the in-memory ones | bus planned |
| OTel ring (`datahub/memory/otel_ring.go`) | 90 slots, head, count | add, latest, since | planned |
| Alert channels, AI chat of the Master, SLO arithmetic, GitHub client, gateway, repositories, wiring, collection in the Agent, the console's administration and other settings pages, texts and layout | - | I/O, arithmetic or presentation | no |

### How they interact

* An Agent has four goroutines (`Scheduler.Start`): snapshots, heartbeats and one
  command loop per topic, `ops` and `ai`. They share the HTTP client and nothing
  else, so snapshots may arrive without heartbeats and one topic may hang without
  the other.
* A snapshot request stores the snapshot in the store and then runs, in the same
  request, the persisting of events, the update of SLO routes and the AIOps engine
  (`OnSnapshotReceived`, master.go:163-175). The engine scores the entities and
  calls the state machine, whose callbacks write incident rows while the state
  machine's mutex is held.
* Commands are created by the gateway, the deployer and the AI tools; all of them
  use the one bus, and wait for a result or not.
* The heartbeat trigger reads copies of the registry's records and hands its
  alerts to the notifier, which waits for all channels.
* The deployer sends its commands by the same bus and waits for their results.
* The console asks the gateway for everything by HTTP; the answer to a request
  is a callback of the page, and the page that made it may show something else by
  then. All pages share the session and the cluster store, and commands of a page
  end in the command pipeline.
* The settings page of the AI providers moves a role by two requests, one after the
  other, each computed from the list it displays. The handlers share nothing but the
  table: each reads it, decides, and writes in a statement of its own.
* A restarted Master has an empty bus and registry; incidents, history,
  baselines and the deployer's last commit are read back from the database.

### Behaviours that are hard, and what must hold

**Command pipeline.** A queue, a token channel of capacity 1, a status map and a
table of channels, each under a lock of its own; handlers outlive the clients that
gave them up; a report may be lost or late; either side may crash. It must execute
a command at most once and in order, never tell a caller anything but what the
execution returned, never leave a waiter behind, fetch every queued command in the
end, and keep one topic's trouble from the other.

**Incidents.** One time stamp serves all conditions of a state; the same entry is
touched by snapshot handlers and by the recovery loop; memory and database are
changed one after the other and either may fail in between. State machine and
table must agree, incidents must begin and recover only after the time their
conditions name, closed must stay closed, and the incident of a vanished entity
must be closed.

**Registry and alerts.** Three locks taken in turn by two writers, a decision that
is carried out later than it was made, a checker that works on copies. No false
alarm, no recovery of the dead, no cluster wiped before its absence was told, and
a cluster that is connected must end up online whatever was wiped.

**Deployer.** The last commit advances whatever became of its paths; a timeout
leaves a record pending while the command may still be executed; a restart takes one
path's record for all; the loop and manual syncs share the paths. It must not deploy
a path twice at once, claim success without it, go back by a sync, or forget a
change other than in the ways listed. The Agent passes over resources the cluster refuses.

**Console.** Answers in any order, each displayed; functions that remember the
render that built them; a cluster that changes under an open page; two items, two
clusters and two streams whose callbacks are not told apart. What is on the screen
must be what the page's header and titles say, commands must go where the user
looked, spinners and answers must end, Stop must stop.

**Roles of providers.** A check and the write it guards are two statements; an update
writes back roles read before; a role moves by two requests with a failure possible
between them; lists overtake each other. A role must have one holder, the message of success must be
true, and a page that has its answers must show the table.

**Baselines and risk.** One cluster's snapshot erases what belongs to others;
dirty marks are dropped before the write. **Analysis.** A full queue drops
(background.go:61); the budget is checked before it is spent (background.go:123). **Events.** The
last id passes events whose alert failed (event.go:115). **Redis bus.** The command is listed before its status
exists (redis/bus.go:86). **Ring.** 90 slots, head and count must agree at every fill level
(otel_ring.go:40). `PROJECT.json` lists the hazards that matter most at their lines.

## 2. The modules

| Module | Role |
|---|---|
| `CommandLifecycle` | abstract: the life of one command seen from outside the bus |
| `CommandBus` | the pipeline, one action per critical section, channel operation, database call or message |
| `MCCommandBus` | instances of it for TLC, and the two properties that need two topics |
| `CommandDeliveryProofs` | type correctness, order and at-most-once execution, polls that are served, wake-ups |
| `CommandResultsProofs` | what is told of a command, and to whom; the refinement of `CommandLifecycle` |
| `IncidentLifecycle` | state machine, incident rows, recovery loop, restart |
| `IncidentProofs` | type correctness, that incidents take the time they should, agreement of state machine and table, finality |
| `AgentRegistry` | records, wiping, heartbeat trigger |
| `AgentRegistryProofs` | type correctness, no false alarm, no recovery without a sign of life, nothing wiped untold, an absence told in bounded time |
| `Deployer` | poll loop, manual sync, deployment of a path, restart; the bus seen from outside |
| `DeployerProofs` | type correctness, exclusion, true records, what may be forgotten, no sync that goes back |
| `WebSession` | session and cluster store of one tab, localStorage, the gateway's list of clusters |
| `ConsolePages` | 24 pages and 16 drawers as data: when each rebuilds its fetch function, and what it offers |
| `Console` | one tab: a page, its drawer, its commands, on top of `WebSession` |
| `MCConsole` | the console's instance for TLC |
| `ConsoleProofs` | type correctness, what is displayed, where commands go, what spinners wait for |
| `ChatSession` | the chat page |
| `ChatSessionProofs` | type correctness, what is displayed, what Stop aborts |
| `ProviderRoles` | the providers' table, its handlers statement by statement, and the settings page in several tabs |
| `MCProviderRoles` | its instance for TLC |
| `ProviderRolesProofs` | all four properties of the roles |

Definitions whose comment begins "Faulty variant" are not part of the
specifications. Each is a plausible mistake in the definition below it and is there
to show that a property notices it.

### CommandBus

`queue`, `token`, `status`, `result`, `registered` and `channel` are the fields of
`MemoryBus`. A caller walks through `CreateCommand` (append, record, notify, insert
the history row) and, if it is one of `Awaited`, through `WaitCommandResult`
(check, register, receive or time out, leave). A handler of a long poll takes a
slot and walks through `WaitCommand` (first look, select, second look, mark
running, respond). An Agent loop polls, executes, reports and polls again; a report
walks through `handleResult` (record, wake, persist).

What the code does under two different locks is two actions. An Agent that gives up
a poll leaves its handler behind (`connected` is false), which may still pop a
command: that command is lost, since nothing queues it again. `ticket`, `sent` and
`ran` are history variables. `CommandLifecycle` knows a command only as new, queued,
taken, run or lost; `Phase` is the refinement mapping.

Failures (`Faults`): polls that break off, lost reports, Agent crashes, Master
restarts, failing database calls.

### IncidentLifecycle

`state`, `since`, `age` and `incident` are an entry of the state machine (a time
stamp is kept as the time since it, capped where no comparison can tell the
difference). `rowState`, `rowEntity`, `resolved` and `rows` are the table.
`evaluateEntity` holds the state machine's mutex through the callback, so the
transition in memory is one action, each database call another, and `writing` says
which call is under way; a restart may come between them. `Conditions` is the table
of `NewStateMachine` in its order, with the risk abstracted to the four intervals
between its thresholds. A call that treats several entities is modelled as its
turns, with other calls allowed between them: a superset of the behaviours, so the
safety properties hold of the code's coarser steps too.

### AgentRegistry

`status`, `beat` and `data` are the maps of `MemoryStore`. `SetSnapshot` is three
actions, one per lock; the wiping is a decision and three deletions, one per lock.
A round of `check` copies the list, remembering who is offline (`suspects`), and then
takes the clusters one by one in any order. `silence` is the real time since the last heartbeat
the Master received, and `quiet` the suspects that have given no sign of life since;
both serve the properties only. Snapshots of one cluster come one after the other,
as the Agent sends them from one goroutine.

`Punctual` says when time may pass: not before a connected Agent has sent its
heartbeat (every 15 s, for an expiry of 45 s), and not before a check that is due
is done, unless the fault `slow` lets sending take any time.
`dragged` remembers that it has, since the process started.

### Deployer

`last`, `deploying`, `loaded` and `todo` are the loop's. Its look at the repository is three
actions, `PollLoad` (the configuration), `PollFetch` (the newest commit) and `PollCompare` (the
affected paths), between which the configuration and the branch may change. A worker is the
loop or the manual sync of a path, and `pc` says where each is in `deployPath`: render, wait
for the answer, record. What is done under one hold of the mutex, or by one call, is one action.

The command bus is the queue `queue`, whose commands are executed in the order they
were sent, which `CommandDeliveryProofs!InOrder` proves of the pipeline, or are lost;
a wait may end before its command is executed. The Agent (`apply.go`) applies the resources of
a command one by one, passes over those the cluster refuses and answers with success
(`AgentApply`; `whole` has the commands of which none was refused); only an error before the
first resource is answered as one (`AgentFail`). It may stop before or after
(`AgentLose`). `applied` is the commit whose resources the Agent last applied for a path.

Commits are numbers, and `touched` says which paths each one changes. `forgotten` (the paths
that were passed over), `took` (the commands that were applied, as far as reported) and
`whole` are history variables. `Fails` bounds failures and restarts together by `MaxFaults`.

### WebSession, ConsolePages, Console

React's part is modelled by what it does to requests: a fetch function asks with
the values of the render that built it, is rebuilt when one of its dependencies
changes, and is then called at once. `ConsolePages` says for each page and drawer on
which changes that happens; `built` and `detailBuilt` are what the functions ask
for. A request in flight is a member of `asked` or `detailAsked`, and its answer is
displayed whatever was asked since, as in the code. `Mount` is a page that is
opened: new state, first request. A reload, and the choice of a cluster, which
reloads, start the stores from localStorage. `sending` remembers the render a
command was confirmed in, since its continuation calls the functions of that
render; after a navigation the command runs on without a page (`live`). The drawer and its
confirmation lie over the page and not over the sidebar: cluster, language and account can
be chosen beside them (`SidebarReachable`). Escape closes the drawer also under a
confirmation (`CloseDrawer`), which stays and can still be accepted.

Two history variables mark what the code does not guard against. `moved` holds the
clusters the store has left under the open page (a cluster that is no longer
listed); `crossed` says that a drawer was opened while a request or refresh for
another item was still to come. The properties are exact up to these two, so that
they say where the console can be trusted.

### ChatSession

`streams` are the answers under way, `abortRef` the one Stop would abort; callbacks
of a stream, of `getMessages` and of `createConversation` do not ask which
conversation is open, so every one of them is an action that may come at any
time. Messages and parts are represented by the conversation they belong to.
The demonstration's conversation `Demo` is none of the server's, though it has the
identifier of one (`DemoId`): whoever signs in while it is open finds its messages on the
screen under the server's conversation 1, and the next question goes there.

Two history variables name what is left behind. `foreign` has the conversations that had a
stream, a request or a part of an answer under way when the open one came up, or whose
messages stayed on the screen then, the demonstration's among them. `loose` has
the questions whose streams the page has lost sight of: running when another conversation came
up, or when the end of such a stream took the controller that Stop uses. The properties say
that nothing but these is displayed in a wrong conversation, and none but these escapes
Stop.

### ProviderRoles

`table` holds the roles of each provider that is not deleted, `rows` the identifiers
given out. An operation under way is a member of `Calls`: what its continuation
remembers is `call`, how far it is `phase`, and what its handler has read `seen`. A
handler is as many actions as it has statements: `Check` and `SetRoles`, `ReadRow` and
`RewriteRow`, one for deleting, adding and listing. A row that is gone is not written, and the
handler reports success all the same, as an UPDATE of no row does. On the page, `Assign`
computes both requests from the list of its render (`base`), `Answered` sends the
second one, `Finish` has the list loaded again unless there was an error, and `savingRole`
is one variable for all roles, as in the card: the end of one assignment frees the
select of another. `Open` covers both ways to the page: entering it, behind a
spinner, and signing in on it, over the demonstration's list.

A handler is given 10 seconds and the browser waits 30, so a handler does not outlive its request. The
card's own copy of the roles (`loadRoles`) is displayed and decides nothing. Of the
fields of a provider only the roles are kept.

Four history variables say where the code does not hold its promises. `unguarded` is set
when a handler writes roles although others are held than it had read; `sound` contains the
assignments computed from the table's own contents and alone since; `writer` is the tab whose
operation changed the table last; `excused` holds the tabs that had a failure, or two lists
under way, since their last reload.

## 3. The runs

Runs that must pass:

| Run | Instance | What it shows |
|---|---|---|
| `delivery` | 2 commands to one queue, 2 handler slots, broken polls, Agent crashes; fairness of handlers and loops only | at most once; in order; one token per queue is enough: every queued command is fetched |
| `results` | 2 awaited commands, lost reports, Master restarts, failing database | types; every answer, status and history row says what the execution returned; no orphan waiter; finished is final; `CommandLifecycle` is implemented |
| `topics` | 1 command to each topic, lost reports, only the `ai` side is fair | a hanging `ops` side holds up neither the commands of `ai` nor their callers |
| `incidents` | 1 entity, 2 incidents, 2 restarts, failing database | types; table and state machine agree; transitions take their time; closed stays closed; vanished entities' incidents are closed |
| `registry` | 1 cluster, 1 refused alert, 1 restart, rounds of alerts that may take any time | types; no false alarm; no recovery of the dead; nothing is wiped untold unless a round was held up; a connected cluster ends up online; each change is told |
| `deploys` | 2 paths, 2 commits, 1 request, 1 fault | types; deployments of a path exclude each other; success was applied; a sync never goes back; a path shown as in sync has the contents of the commit the loop has dealt with, but in the four ways listed |
| `console` | 2 clusters, 2 items, 2 filters, 5 pages of different kinds, 3 events | types; rows, details and commands belong to what the user sees; pages catch up; spinners end |
| `roles` | 2 tabs, 2 operations under way, 2 providers, 2 roles, 2 operations of the users after the pages were opened, 1 failure | types; a role has one holder; success is told of what happened; a tab that has its answers shows the table; each up to the exceptions above |
| `chat` | 2 conversations, 4 events | what is displayed belongs to the open conversation or to a foreign one; Stop aborts every answer the page has not lost sight of; answers end |

The reduced next-state relation of `delivery` (`FetchNext`) leaves out reports, records of
history, clean-up and restarts of the Master (not among the faults of the run): the others change
no queue, token, poll or loop and occur in none of their
guards, so that what is fetched and executed, and when, is the same with and without them.

Runs in which TLC finds what the code does against what is said of it (each is a
finding in `PROJECT.json`, with the quotation):

| Run | The shortest story |
|---|---|
| `recovery` | each snapshot of a recovered entity resets the stamp that the 48 hours are counted from: the incident stays in recovery |
| `insync` | a path is synchronised to a commit, a newer one is pushed, the loop skips the path and counts the newer commit as seen, the sync records success: the path is in sync |
| `wholly` | the cluster refuses a resource, the Agent names it in the text of an answer that counts as success, and the deployment is recorded as one |

### Departures that have no run of their own

The models contain these behaviours; no run is spent on them.

* `WaitCommandResult` looks for a result and registers its channel under two locks
  (bus.go:228): a report handled in between wakes nobody, and the caller waits for its timeout,
  though interfaces.go:29 says that it blocks until the result is reported.
* `EnqueueCommand` publishes a command before its status record exists (bus.go:93), and
  `CreateCommand` inserts the history row after both (command.go:83): a command executed and
  reported in between is pending for ever in the one or the other.
* The two exits of the state warning share one time stamp (trigger.go:71): an entity in
  danger for five minutes, less a moment, is closed by the first harmless
  evaluation, though machine.go:55 asks for five minutes of low risk ("风险持续低于阈值 5 分钟").
  `SustainedRisk` speaks of the entry of an incident and of its recovery only.
* A snapshot stored between two deletions of the wiping (store.go:129-148) outlives its
  record, and nothing looks at it again if the cluster stays away.
* A deployment whose answer does not come in time is recorded as pending for good
  (service.go:259), while its command may still be applied.
* In the console, a sign-in does not perform the action that asked for it
  (LoginDialog.tsx:36, against useRequireAuth.ts:5); the pod rows ask to sign in again after a
  sign-in, since their handlers are those of an earlier render (pod/page.tsx:140); a
  late 401 of an older token ends a newer session (useAuthError.ts:26).
* The timer started when a node's command was accepted is to "刷新详情 + 通知父组件" (refresh the detail
  and tell the parent, NodeDetailModal.tsx:76). It calls the fetch function of the render that sent the
  command: with another node's drawer open two seconds later, the first node's detail
  is loaded into it. DeploymentDetailModal.tsx:98 and 123 do the same.
* docs/design/archive/03-ai-role-routing-design.md:55 says "每个角色最多被一个 Provider 持有" (each role is
  held by one provider at most). ProviderRolesHandler reads the others' roles (ai_provider.go:501) and
  sets the roles in a later statement (521) without a transaction, so that two administrators can give
  a role to two providers; a list that cannot be read is taken for an empty one; and
  updateProvider (334) writes back the roles it read, undoing an assignment made meanwhile. `HeldByOne`
  excepts these three.
* When the second request of an assignment fails, the role has no holder and the
  card does not have its list reloaded (RoleOverviewCard.tsx:88-97). The next assignment is computed
  from that list: it can give a provider a role that was taken from it, and
  "unassigned" can be chosen and confirmed without any effect. Two assignments to one provider begun
  one soon after the other are computed from one list, and the later undoes the earlier. An
  administrator who signs in on the page can assign from the demonstration's list until
  the Master's has come.
* Pages whose fetch function is built once (cronjob/page.tsx:41 and twelve others) keep the
  cluster of their first render: on a first visit it is empty, and each request
  fails until the user navigates. `CatchesUp` is stated for the pages that follow.
* In the chat, signing in keeps the demonstration's conversation (hooks.ts:119): its messages stay
  until another is opened, the next question goes to the server's conversation of the same
  number, and the answer to it is shown below them. The reload after an answer replaces
  what a question sent since has shown (hooks.ts:97).

### Bounds, and why they are enough

* Commands: two. Order, loss of a token and mixing up two results need two;
  commands interact only through their queue, so a third repeats the second.
* Slots: two where handlers race, for the order of commands as for the token that an abandoned
  handler may take while the connected one sleeps. A third abandoned handler does what the second
  does: pops a command and finds no reader.
* Clusters: one for the pipeline. Queues of different clusters share no state
  except maps with one key each. One for the registry: rounds of `check` and of the
  wiping treat clusters independently; the proofs cover any number.
* Entities: one. Entries are independent apart from the one call under way. The
  proofs cover any number. Two incidents (`MaxIncidents`) let a second one open
  beside the first; `MaxRestarts` = 2 lets a restart meet what a restart left.
* Durations keep the order of the real ones: warn 1 < heal = escalate 2 <
  recover 3 < stale 4 < stable 5; expiry 2 = twice the check interval 1, wiping
  after 5. `WipedIsAlerted` needs the check to get more tries between expiry and
  wiping than are refused: in the code some 75 tries (30 min / 22.5 s), in the
  instance `MaxFailures` = 1 and three tries.
* Deployer: two paths, one of which may be a prefix of the other (`Outer`), two commits,
  one request of the console, one fault. A skipped path, a lost record and a rollback each
  need one path and two commits; the second path is what a restart confuses. One fault at any
  point is enough for each of the exceptions; a push or a changed configuration may fall between any
  two steps of the loop. The
  proofs cover any number.
* Console: `MaxEvents` = 3 counts what users and the gateway do (open, click, sign in, fail,
  change the list), while answers, refreshes and timers are unbounded. Every variable other than
  those is finite, so liveness is checked over infinite behaviours in which events stop.
  Crossing two items takes two openings, moving a cluster one event, a command two. `MCPages` has one page of
  each kind; pages of one kind differ in nothing the model reads. The proofs cover all pages and any number of events.
* Chat: `MaxEvents` = 4 and two conversations: a question, a change of conversation, a second
  question and Stop.
* Roles: two tabs, two operations under way and two after the openings are what it takes for a check of one
  administrator to fall between check and write of the other; an assignment is up to two requests with two statements
  each, so a failure, a stale list or an overtaking list has its place within one.
  Two roles show that `savingRole` and the list of a render confuse assignments of different roles. A
  tab is opened once. The proofs cover any number of all of these.
* `MaxFailures` and `MaxRestarts` bound how often a failure happens, not where.

### Fairness, and why the code justifies it

Weak fairness throughout, of steps a running goroutine takes by itself: a handler
goes on, a loop goes round (each is driven by a ticker or a timeout), a database
call returns, the clock advances. No request, failure or arrival is assumed to happen,
with two exceptions that are stated as such: snapshots of present entities keep
coming (`IncidentLifecycle`), and an Agent that is up keeps sending heartbeats
(`AgentRegistry`). In the console, intervals fire and every request is answered or
fails (axios has a timeout of 30 s); in the chat, a stream ends (the Master's chatTimeout is
3 minutes, and a connection that breaks is an end too). In `topics` fairness is given
only to what serves topic `ai`; in `delivery` only to handlers and loops, so that a caller may hang
between queueing its command and sending the token.

`CHECK_DEADLOCK FALSE` is set where the system may really stop: the pipeline, when all
commands are done and every fault is spent, the deployer, when no commit is left, and
the console, the chat and the providers' page, when users do nothing more.

## 4. The proofs

All theorems hold for every value of the constants that satisfies the named
assumptions (sets of any size, any durations in the stated order, any bounds, any
subset of the failures). They are proved without further axioms.

* `CommandDeliveryProofs!TypeCorrect`: `Spec => []TypeOK`. The only strengthening needed is
  that an agent's loop holds a command while it executes or reports (`AgentsHaveWork`).
* `CommandDeliveryProofs!InOrder` and `!Delivery`: order and at-most-once.
  Neither is inductive: a command in the hands of a handler or loop is
  in no queue. `DeliveryInv` therefore orders by ticket everything on a
  command's path: executed before held by the loop, before held by the connected
  handler, before held by abandoned handlers or queued; and says that a loop has at
  most one connected handler. At-most-once follows, since equal commands would have
  equal tickets. One lemma treats all steps that move no command forward
  (including crashes and restarts, which only drop some), and the four that do
  (append, pop, respond, execute) have one each.
* `CommandDeliveryProofs!Service` and `!Wakeups`, the safety behind `QueuedIsFetched`. A loop that
  waits always has a handler at work that will answer it, with every failure allowed. No handler
  sleeps beside a queued command unless the token or the caller's notification is still to come:
  this one needs that a queue has a single handler, and so that Agents neither give up polls
  nor crash (`Attended`). The hypothesis cannot be dropped: with the handler of a poll that
  was given up still waiting, two commands queued together leave one token, the old handler takes
  it, and the new one sleeps until its timer. That the command is fetched all the same
  is `QueuedIsFetched`, which run `delivery` checks with such handlers.
* `CommandResultsProofs!Truth`, `!Orphans`, `!FinishedForGood`, `!Implementation`. Before a
  command is executed it is in one place (`Single`: its queue, a handler or a loop), so its outcome is
  decided once; whatever is told of it later, in a channel, a status record, a row or an answer, is a
  copy of that outcome (`Told`), and the records that may still be made
  are made by a caller who has not told anything yet (`Unrecorded`). For the refinement, the
  cases of `Phase` exclude each other (`Apart`): a step that only drops commands
  is `Lose` or a stutter, and each other step moves one command by one step of its life.
  The theorem is about the safety part; `CommandLifecycle` claims no liveness.
  `!Waiters`: a caller that waits is registered or has its result in the channel, since a
  report takes the entry away only together with filling the channel, and with an outcome (`Told`).
* `IncidentProofs!IncidentTypeCorrect`, `!Durations`: `SustainedRisk` needs that the
  shared stamp never claims more time than the history variables saw: while an entry
  is healthy, `since` is at most `elevated`; while it is in incident, at most `calm`.
* `IncidentProofs!Tracking`, `!Finality`: `OpenIsTracked` needs to know what is being
  written and for whom (`CallInv`), that rows are numbered consecutively and an
  entry's incident is an open row of its own entity (`TableInv`), and that every
  open row no failure left behind is its entity's, and the newest such row, so that a
  restart takes it up again (`TrackedInv`). Finality
  follows because the only call that writes a state other than stable is for an
  incident that is still tracked.
* `AgentRegistryProofs!TypeCorrect`, `!FalseAlarms`, `!Recoveries`: what is believed
  of a cluster may be old, but only in one direction: a record's heartbeat is no older than
  the real one, offline implies a silence longer than `Expire`, a quiet cluster
  would be found silent again, and what a round has found alive is not
  quiet. These are proved with `slow` allowed, so also when a round takes for ever.
* `AgentRegistryProofs!Wiping`: `WipedIsAlerted`, from an invariant that bounds how long a silent cluster
  can go unalerted (`PatienceInv`). With n alerts refused so far, an unalerted
  cluster is silent for no longer than `Patience(n) == Expire + n * CheckEvery` and the time since the
  last round began; a round takes no time, so that what it found alive is still within `Expire` when it
  ends (`RoundAge`). A round that takes for ever delays an alert past any wiping: `dragged` says that
  time has passed during a round of this process, and the property and the invariant are
  about the time before (`Undragged`). One hypothesis:
  `Expire + (MaxFailures + 1) * CheckEvery <= WipeAfter`. The code's 45 s, 22.5 s and 30 min leave
  room for 77 refusals; the run's instance satisfies it (2 + 2 * 1 <= 5). The bound is tight: with
  `CheckEvery` = 2, TLC finds the property violated for `WipeAfter` = 5 and not for 6.
* `AgentRegistryProofs!Detection`: from the same invariant, how late an absence is told at most. With n
  alerts refused, a cluster silent for longer than `Patience(n + 1)` has been alerted. It is the
  safety behind the first half of `ChangesAreTold`, that an absence is told, while no round was held
  up.

* `DeployerProofs!TypeCorrect`, `!Exclusive`, `!Successes`: exclusion is
  inductive together with the types, since `deploying` is exactly what busy workers hold; true
  records need that an outcome is success only in a worker whose own stamp was
  applied (`Honest`).
* `DeployerProofs!Forgetting`: a path that is shown as in sync and whose applied contents lag behind the
  commit the loop deals with is in `todo` or in the loop's hands (`Accounted`), and so is one on which
  a sync deploys a commit the loop has left behind (`Overtaken`). A worker's success says what the
  cluster has because its command is the last one for its path, since it has the path to
  itself (`Own`), and its record is the newest since stamps are given in turn (`Dated`). A command whose worker has
  given up on it belongs to a path that is not shown as in sync, or is forgotten (`Shown`). The steps are
  treated by kind (`Kinds`: a worker begins, sends, ends, a command is taken, or nothing of this moves).
* `DeployerProofs!NoSyncRollsBack`: the command of a sync is no older than what its path has
  and than every command for the path before it in the queue, also those whose worker has given up on
  them (`Ordered`). A sync reads the newest commit and has the path to itself until its command is
  sent (`Exclusive`), so that all that was sent before it was read before.
* `ConsoleProofs!TypeCorrect`, `!Currency`, `!Titles`, `!Commands`, for all pages and any
  clusters, items and events: `Freshness` says that everything in flight, built or
  scheduled is for the current cluster or for one the store has moved away from;
  `Placed` that without a cluster there are no rows; `Aimed` that without a crossing
  everything in flight for the drawer, what it displays and the command under way are for
  its title; `Decided` that a confirmation was decided by what the drawer showed, which it still
  has after it was closed under it.
* `ConsoleProofs!Spinners` and `!Following`, the safety behind `SpinnersEnd` and `CatchesUp`: a spinner
  turns only while a request is in flight, or on a page that waits for a first
  cluster, and a page that follows the cluster or filter asks for what they are now. They need that an
  opened drawer can ask (`CanAsk`: it was opened on a row, so there was a cluster, and the
  store never goes back to none), and, of the 24 pages, that those which wait for a cluster follow it.
* `ChatSessionProofs!TypeCorrect`, `!StopAbortsTheAnswer`, `!DisplayMatches`, `!AnswersAreComing`: what Stop aborts is
  inductive with the types, for every stream that is not loose. What is displayed needs that what is in
  flight, the parts of answers and the messages are of the open conversation or of a foreign one,
  or are about to be replaced by those of the selected conversation (`Carried`). The last theorem has no
  exception: whatever comes together, while an answer is expected the stream
  that Stop would abort is running, so that something will end the wait.


* `ProviderRolesProofs!TypeCorrect`, `!OneHolderEach`, `!TrueMessages`, `!CurrentLists`, for any roles,
  tabs, operations, providers and failures. One holder: an assignment that has passed its check has no conflict
  with the list it has read (`Passed`), so that writing keeps one holder as long as the table
  holds what was read, and sets `unguarded` otherwise; any other write adds no role or sets it too. True messages: for an assignment in `sound`, who holds the role is, at each
  phase, what its requests so far have made of it (`Sound`), since nobody else has changed the table. Current
  lists: a tab that changed the table last and is not excused either shows the table or has an operation under
  way that will load it: one that has written, is about to reload, or carries
  the table's contents (`Settled`); a single list is under way in such a tab, so none overtakes it.

What only TLC checks: all
liveness (`QueuedIsFetched`, `TopicsDoNotBlock`, `AiCallersReturn`, `GoneIsClosed`,
`ConnectedIsOnline`, `ChangesAreTold`, `CatchesUp`, `SpinnersEnd`, `StreamingEnds`), which is out of the
prover's reach. Every invariant and action property of the passing runs is a theorem.

## 5. What is not modelled, and remarks

* Contents of commands, results, snapshots and alerts; formatting; logging.
* In the pipeline: `Cleanup` may remove any finished record at any time (the code
  waits, so the model has more behaviours); one connection per poll.
* In the incidents: severity, peak risk, recurrence count, timeline; the scoring.
  Entity keys carry no cluster, so an evaluation may stand for any cluster with an
  entity of that name, and the properties hold with the interference. Closing after 48 hours
  of recovery is reachable only by `SettleClose` of an entity that is evaluated by
  nobody, and such an entity is swept after 30 minutes: the path is dead in practice.
* In the registry: `SendWithTemplate` reports success when every channel failed, so
  "told" means accepted by the manager. A snapshot of a wiped cluster creates a
  record with a heartbeat it never had; `RecoveryIsAlive` therefore counts a snapshot as
  a sign of life.
* In the deployer: the contents of manifests and records (which resources were refused counts as all
  or not all), the source links, and the
  handler of Rollback, a placeholder that answers "rollback triggered" and changes nothing.
* In the console: restrictions applied in the browser, the log viewer, the tabs of drawers,
  second requests of a page (histograms, node histories, traces), the administration pages and
  the settings but for the AI providers, the SLO page, texts in three languages, types, charts and layout. The
  last four are most of its lines and decide nothing.
* In the roles: all other columns of a provider, budgets, models, the timeout of the tools; who may
  call a handler; lists of which only a part can be read.
* In the chat: the list of conversations; an error of the connection after the stream's own
  "done", which would call `onError` as well.
* Not modelled at all, with the reason in `PROJECT.json`: baselines and risk scoring,
  background analysis, cluster events, the Redis bus and store, the OTel ring, alert channels,
  the Master's chat loop, SLO arithmetic, GitHub client, gateway, repositories, wiring,
  collection.

## 6. Plan

1. Done: the pipeline, the incidents, the registry, the deployer, the console's session, pages
   and chat, the providers' roles, with their proofs.
2. `BaselineStore` (dirty marks, flush, load, clean-up across clusters), with the
   first-anomaly times of the scorer, and `RiskPropagation` as pure operators
   checked against a reference definition on all small graphs.
3. `AnalysisQueue` (bounded queue, de-duplication, budget) and `EventAlerts`
   (upsert, retention, last id).
4. `RedisBus` as a second refinement of `CommandLifecycle`; `OTelRing` against a
   sequence that keeps the last entries.
5. Liveness of the deployer: that the loop catches up with the branch, on an instance with one path.
6. Proofs: the safety behind `GoneIsClosed` and the return in `ChangesAreTold`, as was done
   for the pipeline, the console and the absence of a cluster; the ring's refinement.

A departure of section 3 that is settled in the code may become a run again, as a
property that holds.
