---------------------------- MODULE ChatSession ----------------------------
(***************************************************************************)
(* The chat page of the web console (useAIChat): the conversation that is  *)
(* open, the messages and the streamed answer on the screen, and the       *)
(* requests that are still to change them.  Messages and parts of answers  *)
(* are known by the conversation they belong to.                           *)
(*                                                                         *)
(* Which conversations the sidebar lists is left out: any that was created *)
(* may be chosen.                                                          *)
(***************************************************************************)
EXTENDS Naturals

CONSTANTS
  MaxConversations,   \* bound: conversations
  MaxEvents           \* bound: what users do, failures of requests

ASSUME BoundsAssumption == MaxConversations \in Nat \ {0} /\ MaxEvents \in Nat

Conversations == 1..MaxConversations
None == 0                       \* no conversation is open
Demo == MaxConversations + 1    \* the demonstration's, which no server has
DemoId == 1                     \* its identifier, which a server's has as well

VARIABLES
  signedIn,    \* isAuthenticated; without it the page is a demonstration
  aiStatus,
  checking,    \* getAISettings is not answered
  alerts,      \* alerts brought along from another page
  created,     \* conversations the server has created
  current,     \* currentConvId
  messages,    \* conversations of the messages on the screen
  streaming,   \* an answer is coming, the input offers to stop it
  segments,    \* conversations of the parts of answers received
  failed,      \* one of these parts is an error
  streams,     \* running streams: question and conversation
  abortRef,    \* question of the stream that Stop aborts, 0: none
  loads,       \* getMessages not answered: conversation, who asked, and when
  creating,    \* createConversation not answered: question, and who asked
  deleting,    \* deleteConversation not answered: conversation, was it open
  events,      \* how much of MaxEvents has happened
  foreign,     \* history variable: conversations that had something under way,
               \* or on the screen, when the open one came up
  loose        \* history variable: questions whose stream the page lost sight of

auth == <<signedIn, aiStatus, checking, alerts>>
view == <<current, messages, streaming, segments, failed>>
requests == <<streams, abortRef, loads, creating, deleting>>
history == <<foreign, loose>>
vars == <<auth, created, view, requests, events, history>>

Event == events < MaxEvents /\ events' = events + 1

(* Conversations whose answers or messages are still to come.              *)
InFlight == {s.conv : s \in streams} \cup {l.conv : l \in loads}

(* The open conversation changes: what is under way stays so, and what the *)
(* page keeps of other conversations is theirs.                            *)
Leaving(kept) ==
  /\ foreign' = InFlight \cup kept
  /\ loose' = {s.question : s \in streams}

-----------------------------------------------------------------------------
Init ==
  /\ signedIn \in BOOLEAN
  /\ aiStatus = IF signedIn THEN "loading" ELSE "ready"
  /\ checking = signedIn
  /\ alerts \in BOOLEAN
  /\ created \in {0, 1}
  /\ current = IF signedIn THEN None ELSE Demo
  /\ messages = IF signedIn THEN {} ELSE {Demo}
  /\ streaming = FALSE /\ segments = {} /\ failed = FALSE
  /\ streams = {} /\ abortRef = 0 /\ loads = {} /\ creating = {} /\ deleting = {}
  /\ events = 0
  /\ foreign = {} /\ loose = {}

(* Signing in on the page checks the configuration and changes nothing     *)
(* else: the demonstration's messages stay, and its identifier, which now  *)
(* means the server's conversation of that number.                         *)
SignIn ==
  /\ Event
  /\ ~signedIn
  /\ signedIn' = TRUE /\ checking' = TRUE
  /\ IF current = Demo
     THEN current' = DemoId /\ foreign' = foreign \cup {Demo}
     ELSE UNCHANGED <<current, foreign>>
  /\ UNCHANGED <<aiStatus, alerts, created, messages, streaming, segments, failed, requests,
                 loose>>

(* The effect of the demonstration: neither streams nor their parts are    *)
(* taken away.                                                             *)
Demonstrate ==
  /\ aiStatus' = "ready"
  /\ current' = Demo /\ messages' = {Demo}
  /\ Leaving(segments)
  /\ UNCHANGED <<checking, alerts, created, streaming, segments, failed, requests>>

(* By the user, or by a 401 to any request.                                *)
SignOut ==
  /\ Event
  /\ signedIn
  /\ signedIn' = FALSE
  /\ Demonstrate

SwitchLanguage ==
  /\ Event
  /\ ~signedIn
  /\ UNCHANGED signedIn
  /\ Demonstrate

ConfigChecked ==
  /\ checking
  /\ checking' = FALSE
  /\ aiStatus' \in {"ready", "chat_not_assigned", "not_configured"}
  /\ UNCHANGED <<signedIn, alerts, created, view, requests, events, history>>

-----------------------------------------------------------------------------
(* The buttons are there.                                                  *)
Usable == signedIn /\ aiStatus = "ready"

(* sendAndStream: the question joins the messages "before" it, its stream  *)
(* is the one Stop aborts.                                                 *)
SendAndStream(question, c, before) ==
  /\ messages' = before \cup {c}
  /\ streaming' = TRUE
  /\ segments' = {} /\ failed' = FALSE
  /\ streams' = streams \cup {[question |-> question, conv |-> c]}
  /\ abortRef' = question

(* handleSend: the input sends unless an answer is coming; without a       *)
(* conversation one is created first.                                      *)
Send ==
  /\ Event
  /\ Usable /\ ~streaming
  /\ IF current # None
     THEN /\ SendAndStream(events', current, messages)
          /\ UNCHANGED creating
     ELSE /\ creating' = creating \cup {[question |-> events', by |-> "send"]}
          /\ UNCHANGED <<messages, streaming, segments, failed, streams, abortRef>>
  /\ UNCHANGED <<auth, created, current, loads, deleting, history>>

New ==
  /\ Event
  /\ Usable
  /\ creating' = creating \cup {[question |-> events', by |-> "new"]}
  /\ UNCHANGED <<auth, created, view, streams, abortRef, loads, deleting, history>>

(* The effect that turns alerts into a question.                           *)
SendAlerts ==
  /\ Usable /\ alerts
  /\ alerts' = FALSE
  /\ creating' = creating \cup {[question |-> MaxEvents + 1, by |-> "alerts"]}
  /\ UNCHANGED <<signedIn, aiStatus, checking, created, view, streams, abortRef, loads,
                 deleting, events, history>>

(* The server has created a conversation: it is opened.                    *)
Opened(r) ==
  /\ r \in creating /\ created < MaxConversations
  /\ creating' = creating \ {r}
  /\ created' = created + 1
  /\ current' = created'
  /\ Leaving(IF r.by = "send" THEN messages ELSE {})
  /\ UNCHANGED <<auth, loads, deleting, events>>

(* Faulty variant: the messages of the conversation before it stay.        *)
CreatedNewOverMessages(r) ==
  /\ r.by = "new"
  /\ Opened(r)
  /\ segments' = {} /\ failed' = FALSE
  /\ UNCHANGED <<messages, streaming, streams, abortRef>>

CreatedNew(r) ==
  /\ r.by = "new"
  /\ Opened(r)
  /\ messages' = {}
  /\ segments' = {} /\ failed' = FALSE
  /\ UNCHANGED <<streaming, streams, abortRef>>

CreatedForQuestion(r) ==
  /\ r.by # "new"
  /\ Opened(r)
  /\ SendAndStream(r.question, created', IF r.by = "alerts" THEN {} ELSE messages)

CreateFails(r) ==
  /\ Event
  /\ r \in creating
  /\ creating' = creating \ {r}
  /\ UNCHANGED <<auth, created, view, streams, abortRef, loads, deleting, history>>

-----------------------------------------------------------------------------
(* handleSelect: a stream is left running, and is no longer shown.         *)
Select(c) ==
  /\ Event
  /\ Usable
  /\ current' = c
  /\ streaming' = FALSE
  /\ segments' = {} /\ failed' = FALSE
  /\ loads' = loads \cup {[conv |-> c, by |-> "select", id |-> events']}
  /\ Leaving({})
  /\ UNCHANGED <<auth, created, messages, streams, abortRef, creating, deleting>>

(* The messages of a conversation that has none yet are an empty list.     *)
MessagesArrive(l) ==
  /\ l \in loads
  /\ loads' = loads \ {l}
  /\ messages' \in {{}, {l.conv}}
  /\ IF l.by = "done" THEN segments' = {} /\ failed' = FALSE
     ELSE UNCHANGED <<segments, failed>>
  /\ UNCHANGED <<auth, created, current, streaming, streams, abortRef, creating, deleting,
                 events, history>>

MessagesFail(l) ==
  /\ Event
  /\ l \in loads
  /\ loads' = loads \ {l}
  /\ messages' = IF l.by = "select" THEN {} ELSE messages
  /\ UNCHANGED <<auth, created, current, streaming, segments, failed, streams, abortRef,
                 creating, deleting, history>>

(* handleDelete knows the conversation that was open when it was called.   *)
Delete(c) ==
  /\ Event
  /\ Usable
  /\ deleting' = deleting \cup {[conv |-> c, open |-> (c = current)]}
  /\ UNCHANGED <<auth, created, view, streams, abortRef, loads, creating, history>>

Deleted(d) ==
  /\ d \in deleting
  /\ deleting' = deleting \ {d}
  /\ IF d.open
     THEN /\ current' = None /\ messages' = {}
          /\ Leaving(segments)
     ELSE UNCHANGED <<current, messages, history>>
  /\ UNCHANGED <<auth, created, streaming, segments, failed, streams, abortRef, loads,
                 creating, events>>

DeleteFails(d) ==
  /\ Event
  /\ d \in deleting
  /\ deleting' = deleting \ {d}
  /\ UNCHANGED <<auth, created, view, streams, abortRef, loads, creating, history>>

-----------------------------------------------------------------------------
(* streamChat calls back for every part, and once at the end: done (also   *)
(* when the connection ends without a word), or an error.  None of it asks *)
(* which conversation is open.                                             *)
Chunk(s) ==
  /\ s \in streams
  /\ segments' = segments \cup {s.conv}
  /\ UNCHANGED <<auth, created, current, messages, streaming, failed, requests, events, history>>

(* Each end takes the controller with it, whosever it is: the others are   *)
(* out of reach of Stop.                                                   *)
Ended(s) ==
  /\ s \in streams
  /\ streams' = streams \ {s}
  /\ abortRef' = 0
  /\ loose' = IF s.question \in loose THEN {r.question : r \in streams'} ELSE loose
  /\ UNCHANGED <<auth, created, current, messages, creating, deleting, events, foreign>>

StreamDone(s) ==
  /\ Ended(s)
  /\ streaming' = FALSE
  /\ loads' = loads \cup {[conv |-> s.conv, by |-> "done", id |-> s.question]}
  /\ UNCHANGED <<segments, failed>>

(* Faulty variant: an error is shown, and the answer still expected.       *)
StreamFailsStreaming(s) ==
  /\ Ended(s)
  /\ segments' = segments \cup {s.conv} /\ failed' = TRUE
  /\ UNCHANGED <<streaming, loads>>

StreamFails(s) ==
  /\ Ended(s)
  /\ segments' = segments \cup {s.conv} /\ failed' = TRUE
  /\ streaming' = FALSE
  /\ UNCHANGED loads

(* Faulty variant: the controller is forgotten before it aborts.           *)
StopWithoutAbort ==
  /\ Event
  /\ streaming
  /\ streaming' = FALSE /\ abortRef' = 0
  /\ UNCHANGED <<auth, created, current, messages, segments, failed, streams, loads, creating,
                 deleting, history>>

(* handleStop: an aborted stream calls nobody back.                        *)
Stop ==
  /\ Event
  /\ streaming
  /\ streams' = {s \in streams : s.question # abortRef}
  /\ streaming' = FALSE /\ abortRef' = 0
  /\ UNCHANGED <<auth, created, current, messages, segments, failed, loads, creating,
                 deleting, history>>

-----------------------------------------------------------------------------
Next ==
  \/ SignIn \/ SignOut \/ SwitchLanguage \/ ConfigChecked
  \/ Send \/ New \/ SendAlerts \/ Stop
  \/ \E r \in creating : CreatedNew(r) \/ CreatedForQuestion(r) \/ CreateFails(r)
  \/ \E c \in 1..created : Select(c) \/ Delete(c)
  \/ \E l \in loads : MessagesArrive(l) \/ MessagesFail(l)
  \/ \E d \in deleting : Deleted(d) \/ DeleteFails(d)
  \/ \E s \in streams : Chunk(s) \/ StreamDone(s) \/ StreamFails(s)

Spec == Init /\ [][Next]_vars

Streams == [question : 1..MaxEvents + 1, conv : Conversations]

(* The Master ends every answer within chatTimeout; a connection that      *)
(* breaks is an end or an error.                                           *)
Fairness == \A s \in Streams : WF_vars(StreamDone(s) \/ StreamFails(s))

FairSpec == Spec /\ Fairness

-----------------------------------------------------------------------------
(* What a reader sees: the messages, and below them the answer that is     *)
(* coming or has failed; without either, the empty page.                   *)
Displayed ==
  IF messages = {} /\ ~streaming THEN {}
  ELSE messages \cup (IF streaming \/ failed THEN segments ELSE {})

(* Once the messages a conversation was opened with have come, all that is *)
(* displayed belongs to it, or to a conversation that had an answer or     *)
(* messages under way when it came up, or was on the screen and stayed     *)
(* there: of a first question's conversation, of the demonstration.        *)
(* Nothing else is left behind.                                            *)
MessagesMatch ==
  (\A l \in loads : l.by = "select" => l.conv # current)
    => Displayed \subseteq {current} \cup foreign

(* An answer is generated only while the page offers to stop it, for the   *)
(* conversation that is open, and Stop would abort it: only one that was   *)
(* running when a conversation came up, or when the end of such a one took *)
(* the controller, goes on unseen.                                         *)
StopAborts ==
  \A s \in streams : s.question \notin loose =>
    streaming /\ s.question = abortRef /\ s.conv = current

(* No answer is expected for ever, whatever conversations were opened,     *)
(* left and deleted since the question.                                    *)
StreamingEnds == streaming ~> ~streaming
=============================================================================
