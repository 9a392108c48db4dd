-------------------------- MODULE ChatSessionProofs --------------------------
(***************************************************************************)
(* Proofs about ChatSession, for any number of conversations and events:   *)
(* that Stop aborts the answer that is coming, that what is displayed      *)
(* belongs to the conversation that is open, and that every answer the     *)
(* page expects has a stream that will end it.                             *)
(***************************************************************************)
EXTENDS ChatSession, TLAPS

Loads     == [conv : Conversations, by : {"select", "done"}, id : 1..MaxEvents + 1]
Creations == [question : 1..MaxEvents + 1, by : {"send", "new", "alerts"}]
Deletions == [conv : Conversations, open : BOOLEAN]

TypeOK ==
  /\ signedIn \in BOOLEAN /\ alerts \in BOOLEAN /\ checking \in BOOLEAN
  /\ aiStatus \in {"loading", "ready", "chat_not_assigned", "not_configured"}
  /\ created \in 0..MaxConversations
  /\ current \in Conversations \cup {None, Demo}
  /\ signedIn => current # Demo
  /\ messages \subseteq Conversations \cup {Demo} /\ segments \subseteq Conversations
  /\ streaming \in BOOLEAN /\ failed \in BOOLEAN
  /\ foreign \subseteq Conversations \cup {Demo} /\ loose \subseteq 1..MaxEvents + 1
  /\ streams \subseteq Streams
  /\ abortRef \in 0..MaxEvents + 1
  /\ loads \subseteq Loads
  /\ creating \subseteq Creations
  /\ deleting \subseteq Deletions
  /\ events \in 0..MaxEvents

(* What is under way, or on the screen, is of the open conversation or of  *)
(* one that the page has brought along; messages may also be about to be   *)
(* replaced.                                                               *)
Near == {current} \cup foreign
Awaited == \E l \in loads : l.by = "select" /\ l.conv = current
Carried ==
  /\ InFlight \subseteq Near
  /\ segments \subseteq Near
  /\ messages \subseteq Near \/ Awaited

-----------------------------------------------------------------------------
(* Types. *)

LEMMA NumberFacts ==
  /\ DemoId \in Conversations /\ DemoId # Demo
  /\ None \notin Conversations /\ Demo \notin Conversations /\ Demo # None
  /\ MaxConversations \in Nat /\ MaxEvents \in Nat
  /\ MaxEvents + 1 \in 1..MaxEvents + 1 /\ 0 \in 0..MaxEvents + 1
  /\ \A n \in 1..MaxEvents + 1 : n \in 0..MaxEvents + 1
BY BoundsAssumption DEF DemoId, Demo, None, Conversations

LEMMA EventFacts ==
  ASSUME TypeOK, Event
  PROVE  events' \in 0..MaxEvents /\ events' \in 1..MaxEvents + 1
BY BoundsAssumption DEF TypeOK, Event

LEMMA InitTypeOK == Init => TypeOK
<1> SUFFICES ASSUME Init PROVE TypeOK
  OBVIOUS
<1>1. created \in 0..MaxConversations /\ events \in 0..MaxEvents
  BY BoundsAssumption DEF Init
<1>2. QED
  BY <1>1, NumberFacts DEF Init, TypeOK

LEMMA SendAndStreamTypes ==
  ASSUME TypeOK, NEW question \in 1..MaxEvents + 1, NEW c \in Conversations,
         NEW before \in SUBSET (Conversations \cup {Demo}), SendAndStream(question, c, before)
  PROVE  /\ messages' \subseteq Conversations \cup {Demo}
         /\ streaming' \in BOOLEAN /\ failed' \in BOOLEAN
         /\ segments' \subseteq Conversations
         /\ streams' \subseteq Streams
         /\ abortRef' \in 0..MaxEvents + 1
<1>1. abortRef' \in 0..MaxEvents + 1
  BY NumberFacts DEF SendAndStream
<1>2. streams' \subseteq Streams
  BY DEF TypeOK, SendAndStream, Streams
<1>3. QED
  BY <1>1, <1>2 DEF SendAndStream

LEMMA LeavingTypes ==
  ASSUME TypeOK, NEW kept \in SUBSET (Conversations \cup {Demo}), Leaving(kept)
  PROVE  foreign' \subseteq Conversations \cup {Demo} /\ loose' \subseteq 1..MaxEvents + 1
<1>1. InFlight \subseteq Conversations
  BY DEF InFlight, TypeOK, Streams, Loads
<1>2. {s.question : s \in streams} \subseteq 1..MaxEvents + 1
  BY DEF TypeOK, Streams
<1>3. QED
  BY <1>1, <1>2 DEF Leaving

LEMMA OpenedTypes ==
  ASSUME TypeOK, NEW r, Opened(r)
  PROVE  /\ created' \in 0..MaxConversations
         /\ created' \in Conversations /\ current' = created'
         /\ creating' \subseteq Creations
         /\ foreign' \subseteq Conversations \cup {Demo} /\ loose' \subseteq 1..MaxEvents + 1
         /\ r \in Creations
<1>1. created' \in 0..MaxConversations /\ created' \in Conversations /\ current' = created'
  BY BoundsAssumption DEF TypeOK, Opened, Conversations
<1>2. foreign' \subseteq Conversations \cup {Demo} /\ loose' \subseteq 1..MaxEvents + 1
  <2> DEFINE kept == IF r.by = "send" THEN messages ELSE {}
  <2>1. kept \subseteq Conversations \cup {Demo} /\ Leaving(kept)
    BY DEF Opened, TypeOK
  <2>2. QED
    BY <2>1, LeavingTypes
<1>3. QED
  BY <1>1, <1>2 DEF TypeOK, Opened

LEMMA SessionTypes ==
  ASSUME TypeOK, SignIn \/ SignOut \/ SwitchLanguage \/ ConfigChecked
  PROVE  TypeOK'
<1>1. CASE SignIn
  <2>1. events' \in 0..MaxEvents
    BY <1>1, EventFacts DEF SignIn
  <2>2. current' \in Conversations \cup {None, Demo} /\ current' # Demo
    <3>1. CASE current = Demo
      BY <1>1, <3>1, NumberFacts DEF SignIn
    <3>2. CASE current # Demo
      BY <1>1, <3>2 DEF SignIn, TypeOK
    <3>3. QED
      BY <3>1, <3>2
  <2>3. foreign' \subseteq Conversations \cup {Demo}
    BY <1>1 DEF SignIn, TypeOK
  <2>4. /\ signedIn' = TRUE /\ checking' = TRUE
        /\ UNCHANGED <<aiStatus, alerts, created, messages, streaming, segments, failed, streams,
                      abortRef, loads, creating, deleting, loose>>
    BY <1>1 DEF SignIn, requests
  <2>5. QED
    BY <2>1, <2>2, <2>3, <2>4 DEF TypeOK
<1>2. CASE SignOut \/ SwitchLanguage
  <2>1. Demonstrate /\ ~signedIn' /\ signedIn' \in BOOLEAN /\ Event
    <3>1. CASE SignOut
      BY <3>1 DEF SignOut
    <3>2. CASE SwitchLanguage
      BY <3>2 DEF SwitchLanguage, TypeOK
    <3>3. QED
      BY <1>2, <3>1, <3>2
  <2>2. segments \subseteq Conversations \cup {Demo} /\ Leaving(segments)
    BY <2>1 DEF TypeOK, Demonstrate
  <2>3. foreign' \subseteq Conversations \cup {Demo} /\ loose' \subseteq 1..MaxEvents + 1
    BY <2>2, LeavingTypes
  <2>4. QED
    BY <2>1, <2>3, EventFacts DEF Demonstrate, TypeOK, requests
<1>3. CASE ConfigChecked
  BY <1>3 DEF ConfigChecked, TypeOK, view, requests, history
<1>4. QED
  BY <1>1, <1>2, <1>3

LEMMA SendTypes ==
  ASSUME TypeOK, Send \/ New \/ SendAlerts \/ Stop
  PROVE  TypeOK'
<1>1. CASE Send
  <2>1. events' \in 0..MaxEvents /\ events' \in 1..MaxEvents + 1
    BY <1>1, EventFacts DEF Send
  <2>2. CASE current # None
    <3>1. current \in Conversations /\ messages \in SUBSET (Conversations \cup {Demo})
      BY <1>1, <2>2 DEF TypeOK, Send, Usable
    <3>2. SendAndStream(events', current, messages) /\ UNCHANGED creating
      BY <1>1, <2>2 DEF Send
    <3>3. QED
      BY <1>1, <2>1, <3>1, <3>2, SendAndStreamTypes DEF Send, TypeOK, auth, history
  <2>3. CASE current = None
    <3>1. creating' \subseteq Creations
      BY <1>1, <2>1, <2>3 DEF Send, TypeOK, Creations
    <3>2. QED
      BY <1>1, <2>1, <2>3, <3>1 DEF Send, TypeOK, auth, history
  <2>4. QED
    BY <2>2, <2>3
<1>2. CASE New
  <2>1. events' \in 0..MaxEvents /\ events' \in 1..MaxEvents + 1
    BY <1>2, EventFacts DEF New
  <2>2. creating' \subseteq Creations
    BY <1>2, <2>1 DEF New, TypeOK, Creations
  <2>3. QED
    BY <1>2, <2>1, <2>2 DEF New, TypeOK, auth, view, history
<1>3. CASE SendAlerts
  <2>1. creating' \subseteq Creations
    BY <1>3, NumberFacts DEF SendAlerts, TypeOK, Creations
  <2>2. QED
    BY <1>3, <2>1 DEF SendAlerts, TypeOK, view, history
<1>4. CASE Stop
  BY <1>4, EventFacts, NumberFacts DEF Stop, TypeOK, auth, history
<1>5. QED
  BY <1>1, <1>2, <1>3, <1>4

LEMMA CreationTypes ==
  ASSUME TypeOK, NEW r \in creating,
         CreatedNew(r) \/ CreatedForQuestion(r) \/ CreateFails(r)
  PROVE  TypeOK'
<1>1. CASE CreatedNew(r)
  <2>1. Opened(r)
    BY <1>1 DEF CreatedNew
  <2>2. UNCHANGED <<auth, loads, deleting, events>>
    BY <2>1 DEF Opened
  <2>3. current' \in Conversations \cup {None, Demo} /\ current' # Demo
    BY <2>1, OpenedTypes, NumberFacts
  <2>4. /\ created' \in 0..MaxConversations /\ creating' \subseteq Creations
        /\ foreign' \subseteq Conversations \cup {Demo} /\ loose' \subseteq 1..MaxEvents + 1
    BY <2>1, OpenedTypes
  <2>5. messages' = {} /\ segments' = {} /\ failed' = FALSE
        /\ UNCHANGED <<streaming, streams, abortRef>>
    BY <1>1 DEF CreatedNew
  <2>6. QED
    BY <2>2, <2>3, <2>4, <2>5 DEF TypeOK, auth
<1>2. CASE CreatedForQuestion(r)
  <2> DEFINE before == IF r.by = "alerts" THEN {} ELSE messages
  <2>1. Opened(r) /\ SendAndStream(r.question, created', before)
    BY <1>2 DEF CreatedForQuestion
  <2>2. UNCHANGED <<auth, loads, deleting, events>>
    BY <2>1 DEF Opened
  <2>3. before \in SUBSET (Conversations \cup {Demo})
    BY DEF TypeOK
  <2>4. r.question \in 1..MaxEvents + 1 /\ created' \in Conversations
    BY <2>1, OpenedTypes DEF Creations
  <2>5. /\ messages' \subseteq Conversations \cup {Demo}
        /\ streaming' \in BOOLEAN /\ failed' \in BOOLEAN
        /\ segments' \subseteq Conversations
        /\ streams' \subseteq Streams
        /\ abortRef' \in 0..MaxEvents + 1
    BY <2>1, <2>3, <2>4, SendAndStreamTypes
  <2>6. current' \in Conversations \cup {None, Demo} /\ current' # Demo
    BY <2>1, OpenedTypes, NumberFacts
  <2>7. /\ created' \in 0..MaxConversations /\ creating' \subseteq Creations
        /\ foreign' \subseteq Conversations \cup {Demo} /\ loose' \subseteq 1..MaxEvents + 1
    BY <2>1, OpenedTypes
  <2>8. QED
    BY <2>2, <2>5, <2>6, <2>7 DEF TypeOK, auth
<1>3. CASE CreateFails(r)
  BY <1>3, EventFacts DEF CreateFails, TypeOK, auth, view, history
<1>4. QED
  BY <1>1, <1>2, <1>3

LEMMA SelectionTypes ==
  ASSUME TypeOK, NEW c \in 1..created, Select(c) \/ Delete(c)
  PROVE  TypeOK'
<1>1. c \in Conversations
  BY BoundsAssumption DEF TypeOK, Conversations
<1>2. CASE Select(c)
  <2>1. events' \in 0..MaxEvents /\ events' \in 1..MaxEvents + 1
    BY <1>2, EventFacts DEF Select
  <2>2. loads' \subseteq Loads
    BY <1>1, <1>2, <2>1 DEF Select, TypeOK, Loads
  <2>3. foreign' \subseteq Conversations \cup {Demo} /\ loose' \subseteq 1..MaxEvents + 1
    BY <1>2, LeavingTypes DEF Select
  <2>4. current' \in Conversations /\ current' # Demo
    BY <1>1, <1>2, NumberFacts DEF Select
  <2>5. QED
    BY <1>2, <2>1, <2>2, <2>3, <2>4 DEF Select, TypeOK, auth
<1>3. CASE Delete(c)
  <2>1. PICK b \in BOOLEAN : b = (c = current)
    OBVIOUS
  <2>2. [conv |-> c, open |-> b] \in Deletions
    BY <1>1 DEF Deletions
  <2>3. deleting' = deleting \cup {[conv |-> c, open |-> b]}
    BY <1>3, <2>1, Zenon DEF Delete
  <2>4. deleting' \subseteq Deletions
    BY <2>2, <2>3 DEF TypeOK
  <2>5. QED
    BY <1>3, <2>4, EventFacts DEF Delete, TypeOK, auth, view, history
<1>4. QED
  BY <1>2, <1>3

LEMMA AnswerTypes ==
  ASSUME TypeOK,
         \/ \E l \in loads : MessagesArrive(l) \/ MessagesFail(l)
         \/ \E d \in deleting : Deleted(d) \/ DeleteFails(d)
  PROVE  TypeOK'
<1>1. ASSUME NEW l \in loads, MessagesArrive(l) PROVE TypeOK'
  BY <1>1 DEF MessagesArrive, TypeOK, Loads, auth, history
<1>2. ASSUME NEW l \in loads, MessagesFail(l) PROVE TypeOK'
  BY <1>2, EventFacts DEF MessagesFail, TypeOK, auth, history
<1>3. ASSUME NEW d \in deleting, Deleted(d) PROVE TypeOK'
  <2>1. CASE d.open
    <3>1. foreign' \subseteq Conversations \cup {Demo} /\ loose' \subseteq 1..MaxEvents + 1
      BY <1>3, <2>1, LeavingTypes DEF Deleted, TypeOK
    <3>2. QED
      BY <1>3, <2>1, <3>1, NumberFacts DEF Deleted, TypeOK, auth
  <2>2. CASE ~d.open
    BY <1>3, <2>2 DEF Deleted, TypeOK, auth, history
  <2>3. QED
    BY <2>1, <2>2
<1>4. ASSUME NEW d \in deleting, DeleteFails(d) PROVE TypeOK'
  BY <1>4, EventFacts DEF DeleteFails, TypeOK, auth, view, history
<1>5. QED
  BY <1>1, <1>2, <1>3, <1>4

LEMMA EndedTypes ==
  ASSUME TypeOK, NEW s, Ended(s)
  PROVE  /\ UNCHANGED <<signedIn, aiStatus, checking, alerts, created, current, messages,
                        creating, deleting, events, foreign>>
         /\ streams' \subseteq Streams /\ abortRef' \in 0..MaxEvents + 1
         /\ loose' \subseteq 1..MaxEvents + 1
<1>1. streams' \subseteq Streams /\ abortRef' \in 0..MaxEvents + 1
  BY NumberFacts DEF Ended, TypeOK
<1>2. {r.question : r \in streams'} \subseteq 1..MaxEvents + 1
  BY <1>1 DEF Streams
<1>3. QED
  BY <1>1, <1>2 DEF Ended, TypeOK, auth

LEMMA StreamTypes ==
  ASSUME TypeOK, NEW s \in streams, Chunk(s) \/ StreamDone(s) \/ StreamFails(s)
  PROVE  TypeOK'
<1>1. s.conv \in Conversations
  BY DEF TypeOK, Streams
<1>2. CASE Chunk(s)
  BY <1>1, <1>2 DEF Chunk, TypeOK, auth, requests, history
<1>3. CASE StreamDone(s)
  <2>1. loads' \subseteq Loads
    BY <1>1, <1>3 DEF StreamDone, TypeOK, Loads, Streams
  <2>2. QED
    BY <1>3, <2>1, EndedTypes DEF StreamDone, TypeOK
<1>4. CASE StreamFails(s)
  BY <1>1, <1>4, EndedTypes DEF StreamFails, TypeOK
<1>5. QED
  BY <1>2, <1>3, <1>4

LEMMA NextTypeOK == TypeOK /\ [Next]_vars => TypeOK'
<1> SUFFICES ASSUME TypeOK, [Next]_vars PROVE TypeOK'
  OBVIOUS
<1>1. CASE Next
  BY <1>1, SessionTypes, SendTypes, CreationTypes, SelectionTypes, AnswerTypes, StreamTypes
  DEF Next
<1>2. CASE UNCHANGED vars
  BY <1>2 DEF vars, auth, view, requests, history, TypeOK
<1>3. QED
  BY <1>1, <1>2

(* Every variable of the chat keeps its type: questions have names of their*)
(* own range, nothing is loaded or deleted that is no conversation.        *)
THEOREM TypeCorrect == Spec => []TypeOK
<1>1. Init => TypeOK
  BY InitTypeOK
<1>2. TypeOK /\ [Next]_vars => TypeOK'
  BY NextTypeOK
<1>3. QED
  BY <1>1, <1>2, PTL DEF Spec

-----------------------------------------------------------------------------
(* Stop. *)

LEMMA InitStopAborts == Init => StopAborts
BY DEF Init, StopAborts

(* Every stream is out of sight, or there is one that is not.              *)
LEMMA AllLoose ==
  ASSUME \A s \in streams' : s.question \in loose'
  PROVE  StopAborts'
BY DEF StopAborts

(* The streams the page has in sight are one.                              *)
LEMMA OneInSight ==
  ASSUME TypeOK, StopAborts, NEW s \in streams, NEW r \in streams,
         s.question \notin loose, r.question \notin loose
  PROVE  r = s
<1>1. r.question = s.question /\ r.conv = s.conv
  BY DEF StopAborts
<1>2. QED
  BY <1>1 DEF TypeOK, Streams

(* A question is sent while no stream is in sight.                         *)
LEMMA SentAborts ==
  ASSUME NEW question, NEW c, NEW before,
         \A s \in streams : s.question \in loose', current' = c,
         SendAndStream(question, c, before)
  PROVE  StopAborts'
BY DEF SendAndStream, StopAborts

(* The end of one leaves the others out of sight.                          *)
LEMMA EndedAborts ==
  ASSUME TypeOK, StopAborts, NEW s, Ended(s)
  PROVE  StopAborts'
<1>1. s \in streams /\ streams' = streams \ {s}
  BY DEF Ended
<1>2. CASE s.question \in loose
  BY <1>2, AllLoose DEF Ended
<1>3. CASE s.question \notin loose
  <2>1. \A r \in streams' : r.question \in loose
    BY <1>1, <1>3, OneInSight
  <2>2. QED
    BY <1>3, <2>1, AllLoose DEF Ended
<1>4. QED
  BY <1>2, <1>3

LEMMA NextStopAborts == TypeOK /\ StopAborts /\ [Next]_vars => StopAborts'
<1> SUFFICES ASSUME TypeOK, StopAborts, [Next]_vars PROVE StopAborts'
  OBVIOUS
<1>1. CASE SignIn
  <2>1. \A s \in streams : s.conv # Demo
    BY NumberFacts DEF TypeOK, Streams
  <2>2. CASE current = Demo
    <3>1. \A s \in streams : s.question \in loose
      BY <2>1, <2>2 DEF StopAborts
    <3>2. QED
      BY <1>1, <3>1, AllLoose DEF SignIn, requests
  <2>3. CASE current # Demo
    BY <1>1, <2>3 DEF SignIn, requests, StopAborts
  <2>4. QED
    BY <2>2, <2>3
<1>2. CASE ConfigChecked \/ New \/ SendAlerts
  BY <1>2 DEF ConfigChecked, New, SendAlerts, view, requests, history, StopAborts
<1>3. CASE SignOut \/ SwitchLanguage
  BY <1>3, AllLoose DEF SignOut, SwitchLanguage, Demonstrate, Leaving, requests
<1>4. CASE Send
  <2>1. CASE current # None
    <3>1. \A s \in streams : s.question \in loose
      BY <1>4 DEF Send, StopAborts
    <3>2. QED
      BY <1>4, <2>1, <3>1, SentAborts DEF Send, history
  <2>2. CASE current = None
    BY <1>4, <2>2 DEF Send, history, StopAborts
  <2>3. QED
    BY <2>1, <2>2
<1>5. CASE Stop
  <2>1. \A s \in streams' : s.question \in loose
    BY <1>5 DEF Stop, StopAborts
  <2>2. QED
    BY <1>5, <2>1, AllLoose DEF Stop, history
<1>6. ASSUME NEW r \in creating, CreatedNew(r) PROVE StopAborts'
  BY <1>6, AllLoose DEF CreatedNew, Opened, Leaving
<1>7. ASSUME NEW r \in creating, CreatedForQuestion(r) PROVE StopAborts'
  <2>1. \A s \in streams : s.question \in loose'
    BY <1>7 DEF CreatedForQuestion, Opened, Leaving
  <2>2. QED
    BY <1>7, <2>1, SentAborts DEF CreatedForQuestion, Opened
<1>8. ASSUME NEW r \in creating, CreateFails(r) PROVE StopAborts'
  BY <1>8 DEF CreateFails, view, history, StopAborts
<1>9. ASSUME NEW c \in 1..created, Select(c) PROVE StopAborts'
  BY <1>9, AllLoose DEF Select, Leaving
<1>10. ASSUME NEW c \in 1..created, Delete(c) PROVE StopAborts'
  BY <1>10 DEF Delete, view, history, StopAborts
<1>11. ASSUME NEW l \in loads, MessagesArrive(l) \/ MessagesFail(l) PROVE StopAborts'
  BY <1>11 DEF MessagesArrive, MessagesFail, history, StopAborts
<1>12. ASSUME NEW d \in deleting, Deleted(d) PROVE StopAborts'
  <2>1. CASE d.open
    BY <1>12, <2>1, AllLoose DEF Deleted, Leaving
  <2>2. CASE ~d.open
    BY <1>12, <2>2 DEF Deleted, history, StopAborts
  <2>3. QED
    BY <2>1, <2>2
<1>13. ASSUME NEW d \in deleting, DeleteFails(d) PROVE StopAborts'
  BY <1>13 DEF DeleteFails, view, history, StopAborts
<1>14. ASSUME NEW s \in streams, Chunk(s) PROVE StopAborts'
  BY <1>14 DEF Chunk, requests, history, StopAborts
<1>15. ASSUME NEW s \in streams, StreamDone(s) \/ StreamFails(s) PROVE StopAborts'
  BY <1>15, EndedAborts DEF StreamDone, StreamFails
<1>16. CASE UNCHANGED vars
  BY <1>16 DEF vars, view, requests, history, StopAborts
<1>17. QED
  BY <1>1, <1>2, <1>3, <1>4, <1>5, <1>6, <1>7, <1>8, <1>9, <1>10, <1>11, <1>12, <1>13, <1>14,
     <1>15, <1>16, Zenon
  DEF Next

(* A stream that the page has not lost sight of is the one it expects an   *)
(* answer from, of the open conversation, and the one that Stop aborts;    *)
(* whatever other streams were left running, end or fail.                  *)
THEOREM StopAbortsTheAnswer == Spec => []StopAborts
<1>1. Init => TypeOK /\ StopAborts
  BY InitTypeOK, InitStopAborts
<1>2. (TypeOK /\ StopAborts) /\ [Next]_vars => (TypeOK /\ StopAborts)'
  BY NextTypeOK, NextStopAborts
<1>3. QED
  BY <1>1, <1>2, PTL DEF Spec

-----------------------------------------------------------------------------
(* What is displayed. *)

LEMMA InitCarried == Init => Carried
BY DEF Init, Carried, InFlight, Near

(* Steps that change nothing of what is displayed or to come.              *)
LEMMA SameCarried ==
  ASSUME Carried, UNCHANGED <<current, messages, segments, streams, loads, foreign>>
  PROVE  Carried'
BY DEF Carried, InFlight, Near, Awaited

(* Another conversation comes up, with a question of its own or without.   *)
LEMMA LeftCarried ==
  ASSUME NEW kept, Leaving(kept), InFlight' \subseteq InFlight \cup {current'},
         segments' \subseteq kept,
         messages' \subseteq kept \cup {current'} \/ Awaited'
  PROVE  Carried'
BY DEF Leaving, Carried, Near

LEMMA NextCarried == TypeOK /\ Carried /\ [Next]_vars => Carried'
<1> SUFFICES ASSUME TypeOK, Carried, [Next]_vars PROVE Carried'
  OBVIOUS
<1>1. CASE SignIn
  <2>1. CASE current = Demo
    <3>1. ~Awaited
      BY <2>1, NumberFacts DEF Awaited, TypeOK, Loads
    <3>2. Near \subseteq Near'
      BY <1>1, <2>1 DEF SignIn, Near
    <3>3. UNCHANGED <<messages, segments, InFlight>>
      BY <1>1 DEF SignIn, requests, InFlight
    <3>4. QED
      BY <3>1, <3>2, <3>3 DEF Carried
  <2>2. CASE current # Demo
    BY <1>1, <2>2, SameCarried DEF SignIn, requests
  <2>3. QED
    BY <2>1, <2>2
<1>2. CASE ConfigChecked \/ New \/ SendAlerts
  BY <1>2, SameCarried DEF ConfigChecked, New, SendAlerts, view, requests, history
<1>3. CASE SignOut \/ SwitchLanguage
  <2>1. Demonstrate
    BY <1>3 DEF SignOut, SwitchLanguage
  <2>2. InFlight' = InFlight
    BY <2>1 DEF Demonstrate, requests, InFlight
  <2>3. QED
    BY <2>1, <2>2, LeftCarried DEF Demonstrate
<1>4. CASE Send
  <2>1. CASE current # None
    <3>1. SendAndStream(events', current, messages) /\ UNCHANGED <<current, loads, foreign>>
      BY <1>4, <2>1 DEF Send, history
    <3>2. InFlight' \subseteq InFlight \cup {current}
      BY <3>1 DEF SendAndStream, InFlight
    <3>3. Awaited => Awaited'
      BY <3>1 DEF Awaited
    <3>4. QED
      BY <3>1, <3>2, <3>3 DEF SendAndStream, Carried, Near
  <2>2. CASE current = None
    BY <1>4, <2>2, SameCarried DEF Send, history
  <2>3. QED
    BY <2>1, <2>2
<1>5. CASE Stop
  <2>1. InFlight' \subseteq InFlight /\ UNCHANGED <<current, messages, segments, loads, foreign>>
    BY <1>5 DEF Stop, history, InFlight
  <2>2. QED
    BY <2>1 DEF Carried, Near, Awaited
<1>6. ASSUME NEW r \in creating, CreatedNew(r) PROVE Carried'
  <2>1. Leaving({}) /\ messages' = {} /\ segments' = {} /\ UNCHANGED <<streams, loads>>
    BY <1>6 DEF CreatedNew, Opened
  <2>2. InFlight' = InFlight
    BY <2>1 DEF InFlight
  <2>3. QED
    BY <2>1, <2>2, LeftCarried
<1>7. ASSUME NEW r \in creating, CreatedForQuestion(r) PROVE Carried'
  <2> DEFINE kept == IF r.by = "send" THEN messages ELSE {}
  <2> DEFINE before == IF r.by = "alerts" THEN {} ELSE messages
  <2>1. /\ Leaving(kept) /\ current' = created' /\ loads' = loads
        /\ SendAndStream(r.question, created', before)
    BY <1>7 DEF CreatedForQuestion, Opened
  <2>2. kept = before
    BY <1>7 DEF CreatedForQuestion, TypeOK, Creations
  <2>3. InFlight' \subseteq InFlight \cup {current'}
    BY <2>1 DEF SendAndStream, InFlight
  <2>4. segments' = {} /\ messages' = before \cup {current'}
    BY <2>1 DEF SendAndStream
  <2> HIDE DEF kept, before
  <2>5. QED
    BY <2>1, <2>2, <2>3, <2>4, LeftCarried
<1>8. ASSUME NEW r \in creating, CreateFails(r) PROVE Carried'
  BY <1>8, SameCarried DEF CreateFails, view, history
<1>9. ASSUME NEW c \in 1..created, Select(c) PROVE Carried'
  <2> DEFINE l == [conv |-> c, by |-> "select", id |-> events']
  <2>1. /\ Leaving({}) /\ current' = c /\ segments' = {}
        /\ streams' = streams /\ loads' = loads \cup {l}
    BY <1>9 DEF Select
  <2>2. InFlight' \subseteq InFlight \cup {current'}
    BY <2>1 DEF InFlight
  <2>3. Awaited'
    <3>1. l \in loads' /\ l.by = "select" /\ l.conv = current'
      BY <2>1
    <3> HIDE DEF l
    <3>2. QED
      BY <3>1 DEF Awaited
  <2> HIDE DEF l
  <2>4. segments' \subseteq {} /\ {} \subseteq {current'}
    BY <2>1
  <2>5. QED
    BY <2>1, <2>2, <2>3, <2>4, LeftCarried
<1>10. ASSUME NEW c \in 1..created, Delete(c) PROVE Carried'
  BY <1>10, SameCarried DEF Delete, view, history
<1>11. ASSUME NEW l \in loads, MessagesArrive(l) PROVE Carried'
  <2>1. UNCHANGED <<current, streams, foreign>> /\ loads' \subseteq loads
    BY <1>11 DEF MessagesArrive, history
  <2>2. segments' = {} \/ segments' = segments
    BY <1>11, Zenon DEF MessagesArrive
  <2>3. messages' \subseteq {l.conv} /\ l.conv \in InFlight
    BY <1>11 DEF MessagesArrive, InFlight
  <2>4. InFlight' \subseteq InFlight
    BY <2>1 DEF InFlight
  <2>5. QED
    BY <2>1, <2>2, <2>3, <2>4 DEF Carried, Near
<1>12. ASSUME NEW l \in loads, MessagesFail(l) PROVE Carried'
  <2>1. UNCHANGED <<current, segments, streams, foreign>> /\ loads' = loads \ {l}
    BY <1>12 DEF MessagesFail, history
  <2>2. InFlight' \subseteq InFlight
    BY <2>1 DEF InFlight
  <2>3. CASE l.by = "select"
    BY <1>12, <2>1, <2>2, <2>3 DEF MessagesFail, Carried, Near
  <2>4. CASE l.by # "select"
    <3>1. messages' = messages
      BY <1>12, <2>4 DEF MessagesFail
    <3>2. Awaited => Awaited'
      BY <2>1, <2>4 DEF Awaited
    <3>3. QED
      BY <2>1, <2>2, <3>1, <3>2 DEF Carried, Near
  <2>5. QED
    BY <2>3, <2>4
<1>13. ASSUME NEW d \in deleting, Deleted(d) PROVE Carried'
  <2>1. CASE d.open
    <3>1. Leaving(segments) /\ messages' = {} /\ UNCHANGED <<segments, streams, loads>>
      BY <1>13, <2>1 DEF Deleted
    <3>2. InFlight' = InFlight
      BY <3>1 DEF InFlight
    <3>3. QED
      BY <3>1, <3>2, LeftCarried
  <2>2. CASE ~d.open
    BY <1>13, <2>2, SameCarried DEF Deleted, history
  <2>3. QED
    BY <2>1, <2>2
<1>14. ASSUME NEW d \in deleting, DeleteFails(d) PROVE Carried'
  BY <1>14, SameCarried DEF DeleteFails, view, history
<1>15. ASSUME NEW s \in streams, Chunk(s) \/ StreamDone(s) \/ StreamFails(s) PROVE Carried'
  <2>1. /\ UNCHANGED <<current, messages, foreign>>
        /\ segments' \subseteq segments \cup {s.conv}
        /\ streams' \subseteq streams
        /\ \A l \in loads' : l \in loads \/ l.conv = s.conv
        /\ loads \subseteq loads'
    BY <1>15 DEF Chunk, StreamDone, StreamFails, Ended, requests, history
  <2>2. s.conv \in InFlight
    BY DEF InFlight
  <2>3. InFlight' \subseteq InFlight
    BY <2>1, <2>2 DEF InFlight
  <2>4. Awaited => Awaited'
    BY <2>1 DEF Awaited
  <2>5. QED
    BY <2>1, <2>2, <2>3, <2>4 DEF Carried, Near
<1>16. CASE UNCHANGED vars
  BY <1>16, SameCarried DEF vars, view, requests, history
<1>17. QED
  BY <1>1, <1>2, <1>3, <1>4, <1>5, <1>6, <1>7, <1>8, <1>9, <1>10, <1>11, <1>12, <1>13, <1>14,
     <1>15, <1>16, Zenon
  DEF Next

(* Once the messages a conversation was opened with have come, all that is *)
(* displayed belongs to it, or to one that had something under way or on   *)
(* the screen when it came up; also after signing in on the demonstration, *)
(* and for any number of conversations, questions and failures.            *)
THEOREM DisplayMatches == Spec => []MessagesMatch
<1> DEFINE IInv == TypeOK /\ Carried
<1>1. Init => IInv
  BY InitTypeOK, InitCarried
<1>2. IInv /\ [Next]_vars => IInv'
  BY NextTypeOK, NextCarried
<1>3. IInv => MessagesMatch
  BY DEF Carried, Near, Awaited, MessagesMatch, Displayed
<1>4. QED
  BY <1>1, <1>2, <1>3, PTL DEF Spec

-----------------------------------------------------------------------------
(* What Stop finds, also when streams are out of sight: while an answer is *)
(* expected, the stream that handleStop aborts is running.                 *)
StopFindsAStream == streaming => \E s \in streams : s.question = abortRef

LEMMA SentRuns ==
  ASSUME NEW question, NEW c, NEW before, SendAndStream(question, c, before)
  PROVE  StopFindsAStream'
<1>1. [question |-> question, conv |-> c] \in streams' /\ abortRef' = question
  BY DEF SendAndStream
<1>2. QED
  BY <1>1 DEF StopFindsAStream

LEMMA NextFindsAStream == StopFindsAStream /\ [Next]_vars => StopFindsAStream'
<1> SUFFICES ASSUME StopFindsAStream, [Next]_vars PROVE StopFindsAStream'
  OBVIOUS
<1>1. CASE SignIn \/ SignOut \/ SwitchLanguage \/ ConfigChecked \/ New \/ SendAlerts
  BY <1>1
  DEF SignIn, SignOut, SwitchLanguage, Demonstrate, ConfigChecked, New, SendAlerts, view, requests,
      StopFindsAStream
<1>2. CASE Send
  <2>1. CASE current # None
    BY <1>2, <2>1, SentRuns DEF Send
  <2>2. CASE current = None
    BY <1>2, <2>2 DEF Send, StopFindsAStream
  <2>3. QED
    BY <2>1, <2>2
<1>3. CASE Stop
  BY <1>3 DEF Stop, StopFindsAStream
<1>4. ASSUME NEW r \in creating, CreatedNew(r) \/ CreateFails(r) PROVE StopFindsAStream'
  BY <1>4 DEF CreatedNew, CreateFails, view, StopFindsAStream
<1>5. ASSUME NEW r \in creating, CreatedForQuestion(r) PROVE StopFindsAStream'
  BY <1>5, SentRuns DEF CreatedForQuestion
<1>6. ASSUME NEW c \in 1..created, Select(c) \/ Delete(c) PROVE StopFindsAStream'
  BY <1>6 DEF Select, Delete, view, StopFindsAStream
<1>7. ASSUME NEW l \in loads, MessagesArrive(l) \/ MessagesFail(l) PROVE StopFindsAStream'
  BY <1>7 DEF MessagesArrive, MessagesFail, StopFindsAStream
<1>8. ASSUME NEW d \in deleting, Deleted(d) \/ DeleteFails(d) PROVE StopFindsAStream'
  BY <1>8 DEF Deleted, DeleteFails, view, StopFindsAStream
<1>9. ASSUME NEW s \in streams, Chunk(s) \/ StreamDone(s) \/ StreamFails(s) PROVE StopFindsAStream'
  BY <1>9 DEF Chunk, StreamDone, StreamFails, Ended, requests, StopFindsAStream
<1>10. CASE UNCHANGED vars
  BY <1>10 DEF vars, view, requests, StopFindsAStream
<1>11. QED
  BY <1>1, <1>2, <1>3, <1>4, <1>5, <1>6, <1>7, <1>8, <1>9, <1>10, Zenon DEF Next

(* Whatever conversations are opened, left and deleted meanwhile: while the*)
(* page expects an answer, a stream is running that will end it, and Stop  *)
(* has a stream to abort.                                                  *)
THEOREM AnswersAreComing == Spec => []StopFindsAStream
<1>1. Init => StopFindsAStream
  BY DEF Init, StopFindsAStream
<1>2. QED
  BY <1>1, NextFindsAStream, PTL DEF Spec
=============================================================================
