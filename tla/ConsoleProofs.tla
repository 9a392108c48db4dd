--------------------------- MODULE ConsoleProofs ---------------------------
(***************************************************************************)
(* Theorems about the console, for any pages, clusters, lists of clusters, *)
(* items and filters, and however often users act and requests fail.       *)
(*                                                                         *)
(* Fresh and Aimed carry what is displayed back to the requests it comes   *)
(* from: every request, built function and pending refresh already names   *)
(* the cluster and the item its answer will be shown for.                  *)
(***************************************************************************)
EXTENDS Console, TLAPS

-----------------------------------------------------------------------------
(* Lists of clusters, and what the store takes from them.                  *)
LEMMA HeadListed ==
  ASSUME NEW l \in Lists, l # << >>
  PROVE  Head(l) \in Clusters
  BY ListsAssumption

LEMMA ListedIsCluster ==
  ASSUME NEW l \in Lists, NEW c \in ToSet(l)
  PROVE  c \in Clusters
  BY ListsAssumption DEF ToSet

LEMMA InitialIsPlace ==
  ASSUME NEW l \in Lists, NEW s \in Clusters \cup {None}
  PROVE  InitialCluster(l, s) \in Clusters \cup {None}
  BY HeadListed, ListedIsCluster DEF InitialCluster

(* A function asks for what it was built for, or for nothing.              *)
LEMMA RequestsAsk ==
  ASSUME NEW p, NEW q
  PROVE  Requests(p, q) \subseteq {q}
  BY DEF Requests

-----------------------------------------------------------------------------
(* The shared stores keep their types.                                     *)
LEMMA LoadTypes ==
  ASSUME SessionTypeOK, NEW l \in Lists, NEW s \in Clusters \cup {None}, Load(l, s),
         events' \in 0..MaxEvents
  PROVE  SessionTypeOK'
  BY InitialIsPlace DEF SessionTypeOK, Load

LEMMA EventTypes ==
  ASSUME SessionTypeOK, Event
  PROVE  events' \in 0..MaxEvents
  BY EventsAssumption DEF SessionTypeOK, Event

LEMMA SessionStepTypes ==
  ASSUME SessionTypeOK, SessionStep
  PROVE  SessionTypeOK'
<1>1. CASE OpenLoginDialog
  BY <1>1, EventTypes DEF SessionTypeOK, OpenLoginDialog, store
<1>2. CASE SignOut
  BY <1>2, EventTypes, ListsAssumption, EventsAssumption DEF SessionTypeOK, SignOut, Logout
<1>3. CASE CloseLoginDialog
  BY <1>3 DEF SessionTypeOK, CloseLoginDialog, store
<1>4. CASE Submit
  BY <1>4, EventTypes DEF SessionTypeOK, Submit, store
<1>5. CASE SignedIn
  <2>1. token' \in 0..MaxEvents + 1 /\ events' \in 0..MaxEvents
    BY <1>5, EventsAssumption DEF SessionTypeOK, SignedIn
  <2> QED
    BY <1>5, <2>1, ListsAssumption DEF SessionTypeOK, SignedIn
<1>6. CASE SignInRefused
  <2>1. token' \in 0..MaxEvents + 1 /\ events' \in 0..MaxEvents
    BY <1>6, EventsAssumption DEF SessionTypeOK, SignInRefused, Unauthorized, Logout
  <2> QED
    BY <1>6, <2>1, ListsAssumption DEF SessionTypeOK, SignInRefused, Unauthorized, Logout
<1>7. CASE SignInFails
  BY <1>7 DEF SessionTypeOK, SignInFails, store
<1>8. CASE Revoke
  BY <1>8, EventTypes DEF SessionTypeOK, Revoke, store
<1>9. CASE ServeOther
  BY <1>9, EventTypes DEF SessionTypeOK, ServeOther, session, store
<1>10. CASE ListFails
  BY <1>10, EventTypes DEF SessionTypeOK, ListFails, session, store
<1> QED
  BY <1>1, <1>2, <1>3, <1>4, <1>5, <1>6, <1>7, <1>8, <1>9, <1>10 DEF SessionStep

LEMMA SetClusterIdsTypes ==
  ASSUME SessionTypeOK, NEW l \in Lists, SetClusterIds(l)
  PROVE  /\ ids' \in Lists /\ storedIds' \in Lists
         /\ current' \in Clusters \cup {None} /\ storedId' \in Clusters \cup {None}
  BY HeadListed DEF SessionTypeOK, SetClusterIds, store

(* Of the steps of the page, seven touch the shared stores.                *)
LEMMA SessionTypes ==
  ASSUME TypeOK, [Next]_vars
  PROVE  SessionTypeOK'
<1> SessionTypeOK
  BY DEF TypeOK
<1>1. CASE SessionStep
  BY <1>1, SessionStepTypes
<1>2. ASSUME NEW p \in Pages, Navigate(p) PROVE SessionTypeOK'
  BY <1>2, EventTypes DEF Navigate, SessionTypeOK, session, store
<1>3. CASE Reload
  BY <1>3, EventTypes, LoadTypes DEF Reload, SessionTypeOK
<1>4. ASSUME NEW c \in Clusters, ChooseCluster(c) PROVE SessionTypeOK'
  BY <1>4, EventTypes, LoadTypes DEF ChooseCluster, SelectCluster, SessionTypeOK
<1>5. CASE ClustersArrive
  BY <1>5, SetClusterIdsTypes DEF ClustersArrive, ListAnswered, SessionTypeOK, session
<1>6. CASE Refused
  BY <1>6, ListsAssumption, EventsAssumption
  DEF Refused, Unauthorized, Logout, SessionTypeOK
<1>7. ASSUME NEW d, NEW b, RequireAuth(b, d), Event,
             UNCHANGED <<token, revoked, submitting, store, served, listing>>
      PROVE  SessionTypeOK'
  BY <1>7, EventTypes DEF RequireAuth, SessionTypeOK, store
<1>8. ASSUME UNCHANGED <<session, store, served, listing>>, Event \/ UNCHANGED events
      PROVE  SessionTypeOK'
  BY <1>8, EventTypes DEF SessionTypeOK, session, store
<1>9. CASE UNCHANGED vars
  BY <1>9, <1>8 DEF vars, sessionVars
<1>10. ASSUME NEW q \in asked, ListArrives(q) \/ FetchFails(q) PROVE SessionTypeOK'
  BY <1>10, <1>8 DEF ListArrives, FetchFails, Fails, sessionVars
<1>11. ASSUME NEW d \in detailAsked, DetailArrives(d) \/ DetailFails(d) PROVE SessionTypeOK'
  BY <1>11, <1>8 DEF DetailArrives, DetailFails, Fails, sessionVars
<1>12. ASSUME NEW i \in Items, OpenItem(i) PROVE SessionTypeOK'
  BY <1>12, <1>8 DEF OpenItem
<1>13. ASSUME NEW i \in Items, AskRestart(i) PROVE SessionTypeOK'
  BY <1>13, <1>7 DEF AskRestart
<1>14. CASE AskAct
  BY <1>14, <1>7 DEF AskAct
<1>15. ASSUME NEW f \in Filters, SetFilter(f) PROVE SessionTypeOK'
  BY <1>15, <1>8 DEF SetFilter
<1>16. CASE SwitchLanguage \/ TogglePause \/ CommandFails
  BY <1>16, <1>8 DEF SwitchLanguage, TogglePause, CommandFails
<1>17. CASE Tick \/ CloseDrawer \/ Cancel \/ Confirm \/ Accepted
  BY <1>17, <1>8 DEF Tick, CloseDrawer, Cancel, Confirm, Accepted, sessionVars
<1>18. ASSUME NEW t \in later, RefreshAfter(t) PROVE SessionTypeOK'
  BY <1>18, <1>8 DEF RefreshAfter, sessionVars
<1> QED
  BY <1>1, <1>2, <1>3, <1>4, <1>5, <1>6, <1>9, <1>10, <1>11, <1>12, <1>13, <1>14,
     <1>15, <1>16, <1>17, <1>18 DEF Next

-----------------------------------------------------------------------------
(* Types of what the pages keep.                                           *)
LEMMA NothingIsNone ==
  Nothing \notin Details /\ Nothing \notin Queries /\ Nothing \notin Command
<1>1. "item" \notin DOMAIN Nothing /\ "filter" \notin DOMAIN Nothing
  BY DEF Nothing
<1>2. /\ \A d \in Details : "item" \in DOMAIN d
      /\ \A q \in Queries : "filter" \in DOMAIN q
      /\ \A m \in Command : "item" \in DOMAIN m
  BY DEF Details, Queries, Command
<1> QED
  BY <1>1, <1>2

LEMMA FetchDetailTypes ==
  ASSUME DrawerTypeOK, NEW d \in Details \cup {Nothing}, FetchDetail(d)
  PROVE  detailAsked' \subseteq Details /\ detailLoading' \in BOOLEAN /\ detailFailed' \in BOOLEAN
  BY DEF DrawerTypeOK, FetchDetail

LEMMA MountTypes ==
  ASSUME NEW p \in Pages, current' \in Places, Mount(p)
  PROVE  ListTypeOK' /\ DrawerTypeOK' /\ HistoryTypeOK' /\ confirming' = Nothing /\ later' = {}
<1>1. built' \in Queries /\ asked' \subseteq Queries
  BY RequestsAsk, FiltersAssumption DEF Mount, Queries
<1>2. loading' \in BOOLEAN /\ rowsSignedIn' \in BOOLEAN
  BY DEF Mount
<1> QED
  BY <1>1, <1>2, FiltersAssumption DEF Mount, ListTypeOK, DrawerTypeOK, HistoryTypeOK

LEMMA RebuildTypes ==
  ASSUME ListTypeOK, DrawerTypeOK, current' \in Places, filter' \in Filters, NEW c, Rebuild(c)
  PROVE  /\ built' \in Queries /\ asked' \subseteq Queries
         /\ detailBuilt' \in Details \cup {Nothing}
         /\ detailAsked' \subseteq Details
         /\ detailLoading' \in BOOLEAN /\ detailFailed' \in BOOLEAN
<1>1. built' \in Queries /\ asked' \subseteq Queries
  BY RequestsAsk DEF Rebuild, ListTypeOK, Queries
<1>2. detailBuilt' \in Details \cup {Nothing}
  BY DEF Rebuild, DrawerTypeOK, Details
<1>3. \/ FetchDetail(detailBuilt')
      \/ UNCHANGED <<detailAsked, detailLoading, detailFailed>>
  BY DEF Rebuild
<1> QED
  BY <1>1, <1>2, <1>3, FetchDetailTypes DEF DrawerTypeOK

(* What TypeOK needs to be inductive: an open drawer has a title, and what *)
(* is to be confirmed about its item was decided by what it shows; it      *)
(* still shows that when it is closed.                                     *)
Decided ==
  /\ open => title # None
  /\ page.drawer.acts /\ confirming # Nothing => title # None /\ detail # Nothing

(* Rows that are restarted open a drawer that only shows.                  *)
LEMMA RestartingPages ==
  ASSUME NEW p \in Pages, p.restarts
  PROVE  ~p.drawer.acts
  BY PagesAssumption DEF AllPages, BuiltOnce, Page, Dependencies, Drawer, NoDrawer, PodDetailModal,
     CronJobPage, DaemonSetPage, DeploymentPage, IngressPage, JobPage, LimitRangePage,
     NetworkPolicyPage, PVPage, PVCPage, ResourceQuotaPage, ServiceAccountPage, ServicePage,
     StatefulSetPage, NamespacePage, NodePage, PodPage, EventPage, OverviewPage, MetricsPage,
     LogsPage, ApmPage, RiskPage, IncidentsPage, TopologyPage

PageTypeOK == ListTypeOK /\ DrawerTypeOK /\ CommandTypeOK /\ HistoryTypeOK /\ Decided

LEMMA PageTypes ==
  ASSUME TypeOK, Decided, SessionTypeOK', [Next]_vars
  PROVE  PageTypeOK'
<1>a. /\ SessionTypeOK /\ ListTypeOK /\ DrawerTypeOK /\ CommandTypeOK /\ HistoryTypeOK
      /\ current \in Places /\ current' \in Places
  BY DEF TypeOK, SessionTypeOK, Places
<1>b. ASSUME UNCHANGED pageVars PROVE PageTypeOK'
  BY <1>a, <1>b DEF PageTypeOK, ListTypeOK, DrawerTypeOK, CommandTypeOK, HistoryTypeOK, Decided,
     pageVars, list, drawer, command, history
<1>c. ASSUME NEW p \in Pages, Mount(p), sending' \in Command \cup {Nothing} PROVE PageTypeOK'
  <2>1. open' = FALSE
    BY <1>c DEF Mount
  <2> QED
    BY <1>a, <1>c, <2>1, MountTypes DEF PageTypeOK, CommandTypeOK, Decided
<1>d. ASSUME UNCHANGED <<page, paused, shown, loading, title, open, detail, command>>,
             rowsSignedIn' \in BOOLEAN, filter' \in Filters, HistoryTypeOK', NEW c, Rebuild(c)
      PROVE  PageTypeOK'
  BY <1>a, <1>d, RebuildTypes DEF PageTypeOK, ListTypeOK, DrawerTypeOK, CommandTypeOK, Decided,
     command
<1>e. ASSUME UNCHANGED <<page, drawer, command, history>>, ListTypeOK' PROVE PageTypeOK'
  BY <1>a, <1>e DEF PageTypeOK, DrawerTypeOK, CommandTypeOK, HistoryTypeOK, Decided,
     drawer, command, history
<1>f. ASSUME UNCHANGED <<list, history>>, DrawerTypeOK', CommandTypeOK', Decided' PROVE PageTypeOK'
  BY <1>a, <1>f DEF PageTypeOK, ListTypeOK, HistoryTypeOK, list, history
<1>1. CASE SessionStep \/ UNCHANGED vars
  BY <1>1, <1>b DEF SessionStep, vars
<1>2. ASSUME NEW p \in Pages, Navigate(p) PROVE PageTypeOK'
  <2>1. sending' \in Command \cup {Nothing}
    BY <1>a, <1>2 DEF Navigate, CommandTypeOK, Command
  <2> QED
    BY <1>2, <1>c, <2>1 DEF Navigate
<1>3. CASE Reload
  BY <1>3, <1>a, <1>c DEF Reload, ListTypeOK
<1>4. ASSUME NEW c \in Clusters, ChooseCluster(c) PROVE PageTypeOK'
  BY <1>4, <1>a, <1>c DEF ChooseCluster, ListTypeOK
<1>5. CASE ClustersArrive
  <2>1. HistoryTypeOK' /\ rowsSignedIn' \in BOOLEAN /\ filter' \in Filters
    BY <1>a, <1>5 DEF ClustersArrive, HistoryTypeOK, ListTypeOK
  <2> QED
    BY <1>5, <1>d, <2>1 DEF ClustersArrive
<1>6. ASSUME NEW f \in Filters, SetFilter(f) PROVE PageTypeOK'
  BY <1>a, <1>6, <1>d DEF SetFilter, ListTypeOK, HistoryTypeOK, history
<1>7. CASE SwitchLanguage
  <2>1. rowsSignedIn' \in BOOLEAN
    BY <1>7 DEF SwitchLanguage
  <2> QED
    BY <1>a, <1>7, <1>d, <2>1 DEF SwitchLanguage, ListTypeOK, HistoryTypeOK, history
<1>8. CASE TogglePause
  <2>1. paused' \in BOOLEAN /\ asked' \subseteq Queries
    BY <1>a, <1>8, RequestsAsk DEF TogglePause, ListTypeOK
  <2> QED
    BY <1>a, <1>8, <1>e, <2>1 DEF TogglePause, ListTypeOK
<1>9. CASE Tick
  <2>1. asked' \subseteq Queries
    BY <1>a, <1>9, RequestsAsk DEF Tick, ListTypeOK
  <2> QED
    BY <1>a, <1>9, <1>e, <2>1 DEF Tick, ListTypeOK
<1>10. ASSUME NEW q \in asked, ListArrives(q) \/ FetchFails(q) PROVE PageTypeOK'
  BY <1>a, <1>10, <1>e DEF ListArrives, FetchFails, ListTypeOK
<1>11. ASSUME NEW i \in Items, OpenItem(i) PROVE PageTypeOK'
  <2>1. detailBuilt' \in Details \cup {Nothing}
    BY <1>a, <1>11 DEF OpenItem, DrawerTypeOK, Details
  <2>2. DrawerTypeOK'
    BY <1>a, <1>11, <2>1, FetchDetailTypes DEF OpenItem, DrawerTypeOK
  <2>3. Decided'
    BY <1>11, ItemsAssumption DEF OpenItem, Decided, Unobstructed, command
  <2>4. CommandTypeOK' /\ ListTypeOK'
    BY <1>a, <1>11 DEF OpenItem, CommandTypeOK, ListTypeOK, command, list
  <2>5. HistoryTypeOK'
    <3>1. crossed' \in BOOLEAN
      BY <1>11 DEF OpenItem
    <3> QED
      BY <1>a, <1>11, <3>1 DEF OpenItem, HistoryTypeOK
  <2> QED
    BY <2>2, <2>3, <2>4, <2>5 DEF PageTypeOK
<1>12. CASE CloseDrawer
  BY <1>a, <1>12, <1>f DEF CloseDrawer, DrawerTypeOK, CommandTypeOK, Decided, command, list
<1>13. ASSUME NEW d \in detailAsked, DetailArrives(d) \/ DetailFails(d) PROVE PageTypeOK'
  <2>1. DrawerTypeOK'
    BY <1>a, <1>13 DEF DetailArrives, DetailFails, DrawerTypeOK
  <2>2. Decided'
    BY <1>a, <1>13, NothingIsNone DEF DetailArrives, DetailFails, DrawerTypeOK, Decided, command, list
  <2> QED
    BY <1>a, <1>13, <1>f, <2>1, <2>2 DEF DetailArrives, DetailFails, CommandTypeOK, command
<1>14. ASSUME NEW i \in Items, AskRestart(i) PROVE PageTypeOK'
  <2>1. shown \in Queries
    BY <1>a, <1>14 DEF AskRestart, Rows, ListTypeOK
  <2>2. confirming' \in Details \cup {Nothing}
    BY <1>a, <1>14, <2>1 DEF AskRestart, RequireAuth, CommandTypeOK, Details, Queries
  <2>3. Decided' /\ DrawerTypeOK'
    BY <1>a, <1>14, RestartingPages DEF AskRestart, Decided, Unobstructed, ListTypeOK, DrawerTypeOK,
       drawer, list
  <2> QED
    BY <1>a, <1>14, <1>f, <2>2, <2>3 DEF AskRestart, CommandTypeOK
<1>15. CASE AskAct
  <2>1. confirming' \in Details \cup {Nothing}
    BY <1>a, <1>15 DEF AskAct, RequireAuth, CommandTypeOK, DrawerTypeOK
  <2>2. Decided' /\ DrawerTypeOK'
    BY <1>a, <1>15 DEF AskAct, Decided, DrawerTypeOK, drawer, list
  <2> QED
    BY <1>a, <1>15, <1>f, <2>1, <2>2 DEF AskAct, CommandTypeOK
<1>16. CASE Cancel
  BY <1>a, <1>16, <1>f DEF Cancel, DrawerTypeOK, CommandTypeOK, Decided, drawer, list
<1>17. CASE Confirm
  <2> DEFINE about == IF page.drawer.acts THEN detail ELSE confirming
             item  == IF page.drawer.acts THEN title ELSE confirming.item
  <2>1. about \in Details /\ item \in Items
    BY <1>a, <1>17 DEF Confirm, Decided, DrawerTypeOK, CommandTypeOK, Details
  <2>2. token \in Nat /\ current \in Places
    BY <1>a, EventsAssumption DEF SessionTypeOK
  <2>3. sending' \in Command
    <3>1. sending' = [cluster |-> current, item |-> item, about |-> about, token |-> token,
                      live |-> TRUE, query |-> built,
                      detail |-> IF page.drawer.acts THEN detailBuilt ELSE Nothing]
      BY <1>17 DEF Confirm
    <3>2. (IF page.drawer.acts THEN detailBuilt ELSE Nothing) \in Details \cup {Nothing}
      BY <1>a DEF DrawerTypeOK
    <3>3. built \in Queries
      BY <1>a DEF ListTypeOK
    <3> HIDE DEF about, item
    <3> QED
      BY <2>1, <2>2, <3>1, <3>2, <3>3 DEF Command
  <2> QED
    BY <1>a, <1>17, <1>f, <2>3 DEF Confirm, DrawerTypeOK, CommandTypeOK, Decided, drawer, list
<1>18. CASE Accepted
  <2>1. later' \subseteq [query : Queries, detail : Details \cup {Nothing}]
    <3>1. sending \in Command
      BY <1>a, <1>18 DEF Accepted, CommandTypeOK
    <3>2. [query |-> sending.query, detail |-> sending.detail]
             \in [query : Queries, detail : Details \cup {Nothing}]
      BY <3>1 DEF Command
    <3> QED
      BY <1>a, <1>18, <3>2 DEF Accepted, CommandTypeOK
  <2>2. DrawerTypeOK' /\ Decided'
    BY <1>a, <1>18 DEF Accepted, DrawerTypeOK, Decided, drawer, list
  <2>3. confirming' \in Details \cup {Nothing} /\ sending' = Nothing
    BY <1>a, <1>18 DEF Accepted, CommandTypeOK
  <2> QED
    BY <1>a, <1>18, <1>f, <2>1, <2>2, <2>3 DEF Accepted, CommandTypeOK
<1>19. CASE Refused \/ CommandFails
  BY <1>a, <1>19, <1>f DEF Refused, CommandFails, DrawerTypeOK, CommandTypeOK, Decided, drawer,
     list
<1>20. ASSUME NEW t \in later, RefreshAfter(t) PROVE PageTypeOK'
  <2>1. t.query \in Queries /\ t.detail \in Details \cup {Nothing}
    BY <1>a DEF CommandTypeOK
  <2>2. DrawerTypeOK'
    BY <1>a, <1>20, <2>1, FetchDetailTypes DEF RefreshAfter, DrawerTypeOK
  <2>3. ListTypeOK'
    BY <1>a, <1>20, <2>1, RequestsAsk DEF RefreshAfter, ListTypeOK
  <2>4. CommandTypeOK' /\ HistoryTypeOK' /\ Decided'
    BY <1>a, <1>20 DEF RefreshAfter, CommandTypeOK, HistoryTypeOK, Decided, history
  <2> QED
    BY <2>2, <2>3, <2>4 DEF PageTypeOK
<1> QED
  BY <1>1, <1>2, <1>3, <1>4, <1>5, <1>6, <1>7, <1>8, <1>9, <1>10, <1>11, <1>12, <1>13, <1>14,
     <1>15, <1>16, <1>17, <1>18, <1>19, <1>20 DEF Next

LEMMA TypeInit ==
  ASSUME Init
  PROVE  TypeOK /\ Decided
<1>1. SessionTypeOK
  <2>1. /\ storedIds \in Lists /\ served \in Lists /\ ids \in Lists
        /\ storedId \in Clusters \cup {None}
    BY ListsAssumption DEF Init, SessionInit
  <2>2. current \in Clusters \cup {None}
    BY <2>1, InitialIsPlace DEF Init, SessionInit
  <2>3. /\ token \in 0..MaxEvents + 1 /\ revoked \in 0..MaxEvents + 1
        /\ events \in 0..MaxEvents
    BY EventsAssumption DEF Init, SessionInit
  <2> QED
    BY <2>1, <2>2, <2>3 DEF Init, SessionInit, SessionTypeOK
<1>2. current \in Places
  BY <1>1 DEF SessionTypeOK, Places
<1>3. built \in Queries /\ asked \subseteq Queries
  BY <1>2, RequestsAsk, FiltersAssumption DEF Init, Queries
<1>4. loading \in BOOLEAN /\ rowsSignedIn \in BOOLEAN
  BY DEF Init
<1> QED
  BY <1>1, <1>3, <1>4, FiltersAssumption
  DEF Init, TypeOK, ListTypeOK, DrawerTypeOK, CommandTypeOK, HistoryTypeOK, Decided

(* Every variable of the console and of the stores it shares keeps its     *)
(* type.                                                                   *)
THEOREM TypeCorrect == Spec => [](TypeOK /\ Decided)
<1>1. ASSUME TypeOK /\ Decided, [Next]_vars PROVE (TypeOK /\ Decided)'
  BY <1>1, SessionTypes, PageTypes DEF TypeOK, PageTypeOK
<1> QED
  BY <1>1, TypeInit, PTL DEF Spec

-----------------------------------------------------------------------------
(* x is about the current cluster, or one the store has left under the     *)
(* open page.                                                              *)
Fresh(x) == x = Nothing \/ x.cluster = current \/ x.cluster \in moved

FreshRequests ==
  /\ Fresh(built) /\ Fresh(detailBuilt)
  /\ \A q \in asked : Fresh(q)
  /\ \A d \in detailAsked : Fresh(d)
  /\ \A t \in later : Fresh(t.query) /\ Fresh(t.detail)
  /\ sending # Nothing /\ sending.live => Fresh(sending.query) /\ Fresh(sending.detail)

FreshAnswers == Fresh(shown) /\ Fresh(detail) /\ Fresh(confirming)

(* A command still on its way to a page names the cluster it is about.     *)
FreshCommand ==
  sending # Nothing /\ sending.live =>
    sending.about.cluster = sending.cluster \/ sending.about.cluster \in moved

Freshness == FreshRequests /\ FreshAnswers /\ FreshCommand

(* What is fresh stays so while the page does.                             *)
LEMMA FreshStays ==
  ASSUME UNCHANGED <<current, moved>> \/ moved' = moved \cup {current},
         NEW x, Fresh(x)
  PROVE  Fresh(x)'
  BY DEF Fresh

LEMMA FreshRequested ==
  ASSUME NEW p, NEW q, Fresh(q), NEW r \in Requests(p, q)
  PROVE  Fresh(r)
  BY RequestsAsk

LEMMA FetchDetailFresh ==
  ASSUME NEW d, FetchDetail(d)
  PROVE  detailAsked' \subseteq detailAsked \cup {d}
  BY DEF FetchDetail

LEMMA MountFresh ==
  ASSUME NEW p, Mount(p), sending' = Nothing \/ sending'.live = FALSE
  PROVE  Freshness'
<1>1. Fresh(built)'
  BY DEF Mount, Fresh
<1>2. \A q \in asked' : q = built'
  BY RequestsAsk DEF Mount
<1> QED
  BY <1>1, <1>2
  DEF Mount, Freshness, FreshRequests, FreshAnswers, FreshCommand, Fresh

LEMMA FreshnessStep ==
  ASSUME TypeOK, Decided, Freshness, [Next]_vars
  PROVE  Freshness'
<1>a. FreshRequests /\ FreshAnswers /\ FreshCommand
  BY DEF Freshness
<1>b. ASSUME UNCHANGED <<current, pageVars>> PROVE Freshness'
  BY <1>a, <1>b DEF Freshness, FreshRequests, FreshAnswers, FreshCommand, Fresh,
     pageVars, list, drawer, command, history
(* Steps that leave the command, the store and the past alone.             *)
<1>c. ASSUME UNCHANGED <<current, moved, command>>,
             Fresh(built)', Fresh(shown)', Fresh(detailBuilt)', Fresh(detail)',
             \A q \in asked' : Fresh(q)', \A d \in detailAsked' : Fresh(d)'
      PROVE  Freshness'
  BY <1>a, <1>c DEF Freshness, FreshRequests, FreshAnswers, FreshCommand, Fresh, command
(* Steps of the command only.                                              *)
<1>d. ASSUME UNCHANGED <<current, list, drawer, history>>,
             Fresh(confirming)', \A t \in later' : Fresh(t.query)' /\ Fresh(t.detail)',
             sending' # Nothing /\ sending'.live =>
               /\ Fresh(sending.query)' /\ Fresh(sending.detail)'
               /\ \/ sending'.about.cluster = sending'.cluster
                  \/ sending'.about.cluster \in moved
      PROVE  Freshness'
  BY <1>a, <1>d DEF Freshness, FreshRequests, FreshAnswers, FreshCommand, Fresh,
     list, drawer, history
(* The functions are built anew, perhaps for a cluster the store moved to. *)
<1>e. ASSUME NEW c, Rebuild(c), UNCHANGED <<shown, title, open, detail, command>>,
             \/ UNCHANGED <<current, moved>>
             \/ moved' = moved \cup {current}
      PROVE  Freshness'
  <2>1. \A x : Fresh(x) => Fresh(x)'
    BY <1>e, FreshStays
  <2>2. Fresh(built)'
    BY <1>a, <1>e, <2>1 DEF Rebuild, FreshRequests, Fresh
  <2>3. \A q \in asked' : Fresh(q)'
    <3>1. \A q \in asked' : q \in asked \/ q = built'
      BY <1>e, RequestsAsk DEF Rebuild
    <3> QED
      BY <1>a, <2>1, <2>2, <3>1 DEF FreshRequests
  <2>4. Fresh(detailBuilt)'
    BY <1>a, <1>e, <2>1 DEF Rebuild, FreshRequests, Fresh
  <2>5. \A d \in detailAsked' : Fresh(d)'
    <3>1. \A d \in detailAsked' : d \in detailAsked \/ d = detailBuilt'
      BY <1>e, FetchDetailFresh DEF Rebuild
    <3> QED
      BY <1>a, <2>1, <2>4, <3>1 DEF FreshRequests
  <2>6. \A t \in later' : Fresh(t.query)' /\ Fresh(t.detail)'
    BY <1>a, <1>e, <2>1 DEF FreshRequests, command
  <2>7. FreshAnswers'
    BY <1>a, <1>e, <2>1 DEF FreshAnswers, Fresh, command
  <2>8. moved \subseteq moved'
    BY <1>e
  <2>9. FreshCommand'
    BY <1>a, <1>e, <2>8 DEF FreshCommand, command
  <2>10. sending' # Nothing /\ sending'.live => Fresh(sending.query)' /\ Fresh(sending.detail)'
    BY <1>a, <1>e, <2>1 DEF FreshRequests, Fresh, command
  <2> QED
    BY <2>2, <2>3, <2>4, <2>5, <2>6, <2>7, <2>9, <2>10 DEF Freshness, FreshRequests
<1>1. CASE SessionStep
  <2>1. UNCHANGED current
    BY <1>1 DEF SessionStep, OpenLoginDialog, SignOut, Logout, CloseLoginDialog, Submit, SignedIn,
       SignInRefused, Unauthorized, SignInFails, Revoke, ServeOther, ListFails, store
  <2> QED
    BY <1>1, <1>b, <2>1 DEF SessionStep
<1>2. CASE UNCHANGED vars
  BY <1>2, <1>b DEF vars, sessionVars, store
<1>3. ASSUME NEW p \in Pages, Navigate(p) PROVE Freshness'
  <2>1. sending' = Nothing \/ sending'.live = FALSE
    BY <1>3 DEF Navigate, TypeOK, CommandTypeOK, Command
  <2> QED
    BY <1>3, <2>1, MountFresh DEF Navigate
<1>4. CASE Reload \/ \E c \in Clusters : ChooseCluster(c)
  BY <1>4, MountFresh DEF Reload, ChooseCluster
<1>5. CASE ClustersArrive
  BY <1>5, <1>e DEF ClustersArrive
<1>6. ASSUME NEW f \in Filters, SetFilter(f) PROVE Freshness'
  BY <1>6, <1>e DEF SetFilter, store, history
<1>7. CASE SwitchLanguage
  BY <1>7, <1>e DEF SwitchLanguage, store, history
<1>8. CASE TogglePause \/ Tick
  <2>1. \A q \in asked' : q \in asked \/ q = built
    BY <1>8, RequestsAsk DEF TogglePause, Tick
  <2>2. \A q \in asked' : Fresh(q)
    BY <1>a, <2>1 DEF FreshRequests
  <2>3. UNCHANGED <<current, moved, command, built, shown, detailBuilt, detail, detailAsked>>
    BY <1>8 DEF TogglePause, Tick, sessionVars, store, drawer, history
  <2> QED
    BY <1>a, <1>c, <2>2, <2>3 DEF FreshRequests, FreshAnswers, Fresh
<1>9. ASSUME NEW q \in asked, ListArrives(q) \/ FetchFails(q) PROVE Freshness'
  <2>1. shown' = q \/ shown' = shown
    BY <1>9 DEF ListArrives, FetchFails
  <2>2. UNCHANGED <<current, moved, command, built, detailBuilt, detail, detailAsked>>
    BY <1>9 DEF ListArrives, FetchFails, sessionVars, store, drawer, history
  <2>3. asked' \subseteq asked
    BY <1>9 DEF ListArrives, FetchFails
  <2> QED
    BY <1>a, <1>9, <1>c, <2>1, <2>2, <2>3 DEF FreshRequests, FreshAnswers, Fresh
<1>10. ASSUME NEW i \in Items, OpenItem(i) PROVE Freshness'
  <2>1. UNCHANGED <<current, moved, command, built, shown, asked, detail>>
    BY <1>10 DEF OpenItem, store, list
  <2>2. Fresh(detailBuilt')
    BY <1>a, <1>10 DEF OpenItem, FreshRequests, Fresh
  <2>3. detailAsked' \subseteq detailAsked \cup {detailBuilt'}
    BY <1>10, FetchDetailFresh DEF OpenItem
  <2> QED
    BY <1>a, <1>c, <2>1, <2>2, <2>3 DEF FreshRequests, FreshAnswers, Fresh
<1>11. CASE CloseDrawer
  BY <1>a, <1>11, <1>c
  DEF CloseDrawer, sessionVars, store, list, history, FreshRequests, FreshAnswers, Fresh
<1>12. ASSUME NEW d \in detailAsked, DetailArrives(d) \/ DetailFails(d) PROVE Freshness'
  <2>1. detail' = d \/ detail' = detail
    BY <1>12 DEF DetailArrives, DetailFails
  <2>2. UNCHANGED <<current, moved, command, built, shown, asked, detailBuilt>>
    BY <1>12 DEF DetailArrives, DetailFails, sessionVars, store, list, history
  <2>3. detailAsked' \subseteq detailAsked
    BY <1>12 DEF DetailArrives, DetailFails
  <2> QED
    BY <1>a, <1>12, <1>c, <2>1, <2>2, <2>3 DEF FreshRequests, FreshAnswers, Fresh
<1>13. ASSUME NEW i \in Items, AskRestart(i) PROVE Freshness'
  <2>1. Fresh(confirming)'
    BY <1>a, <1>13 DEF AskRestart, RequireAuth, Rows, FreshAnswers, Fresh, store, history
  <2> QED
    BY <1>a, <1>13, <1>d, <2>1
    DEF AskRestart, FreshRequests, FreshCommand, Fresh, store, history
<1>14. CASE AskAct
  <2>1. Fresh(confirming)'
    BY <1>a, <1>14 DEF AskAct, RequireAuth, FreshAnswers, Fresh, store, history
  <2> QED
    BY <1>a, <1>14, <1>d, <2>1 DEF AskAct, FreshRequests, FreshCommand, Fresh, store, history
<1>15. CASE Cancel
  BY <1>a, <1>15, <1>d DEF Cancel, FreshRequests, FreshCommand, Fresh, sessionVars, store, history
<1>16. CASE Confirm
  <2> DEFINE about == IF page.drawer.acts THEN detail ELSE confirming
  <2>1. about # Nothing /\ Fresh(about)
    BY <1>a, <1>16 DEF Confirm, Decided, FreshAnswers
  <2>2. /\ sending'.about = about /\ sending'.cluster = current
        /\ sending'.query = built /\ sending'.detail = IF page.drawer.acts THEN detailBuilt ELSE Nothing
    BY <1>16 DEF Confirm
  <2>3. UNCHANGED <<current, list, drawer, history, confirming, later>>
    BY <1>16 DEF Confirm, sessionVars, store
  <2>4. sending'.about.cluster = sending'.cluster \/ sending'.about.cluster \in moved
    BY <2>1, <2>2 DEF Fresh
  <2>5. Fresh(sending.query)' /\ Fresh(sending.detail)'
    BY <1>a, <2>2, <2>3 DEF FreshRequests, Fresh, history
  <2> QED
    BY <1>a, <1>d, <2>3, <2>4, <2>5 DEF FreshRequests, FreshAnswers, Fresh, history
<1>17. CASE Accepted
  <2>1. \A t \in later' : Fresh(t.query) /\ Fresh(t.detail)
    BY <1>a, <1>17 DEF Accepted, FreshRequests
  <2>2. confirming' = Nothing \/ confirming' = confirming
    BY <1>17 DEF Accepted
  <2> QED
    BY <1>a, <1>17, <1>d, <2>1, <2>2
    DEF Accepted, FreshAnswers, Fresh, sessionVars, store, history
<1>18. CASE Refused \/ CommandFails
  BY <1>a, <1>18, <1>d
  DEF Refused, Unauthorized, Logout, CommandFails, FreshRequests, FreshAnswers, Fresh, store, history
<1>19. ASSUME NEW t \in later, RefreshAfter(t) PROVE Freshness'
  <2>1. Fresh(t.query) /\ Fresh(t.detail)
    BY <1>a DEF FreshRequests
  <2>2. asked' \subseteq asked \cup {t.query} /\ detailAsked' \subseteq detailAsked \cup {t.detail}
    BY <1>19, RequestsAsk, FetchDetailFresh DEF RefreshAfter
  <2>3. UNCHANGED <<current, moved, built, shown, detailBuilt, detail, confirming, sending>>
    BY <1>19 DEF RefreshAfter, sessionVars, store, history
  <2>4. later' \subseteq later
    BY <1>19 DEF RefreshAfter
  <2>5. FreshRequests'
    BY <1>a, <2>1, <2>2, <2>3, <2>4 DEF FreshRequests, Fresh
  <2> QED
    BY <1>a, <2>3, <2>5 DEF Freshness, FreshAnswers, FreshCommand, Fresh
<1> QED
  BY <1>1, <1>2, <1>3, <1>4, <1>5, <1>6, <1>7, <1>8, <1>9, <1>10, <1>11, <1>12, <1>13, <1>14,
     <1>15, <1>16, <1>17, <1>18, <1>19 DEF Next

LEMMA FreshnessInit ==
  ASSUME Init
  PROVE  Freshness
<1>1. \A q \in asked : q = built
  BY RequestsAsk DEF Init
<1> QED
  BY <1>1 DEF Init, Freshness, FreshRequests, FreshAnswers, FreshCommand, Fresh

(* Rows and details on the screen are those of the cluster the header      *)
(* names, but for clusters the store itself left under the open page: no   *)
(* answer comes too late, no function is too old.                          *)
THEOREM Currency == Spec => []ShownIsCurrent
<1>1. ASSUME Freshness PROVE ShownIsCurrent
  BY <1>1 DEF Freshness, FreshAnswers, Fresh, ShownIsCurrent
<1> QED
  BY <1>1, FreshnessInit, FreshnessStep, TypeCorrect, PTL DEF Spec

-----------------------------------------------------------------------------
(* Without a cluster there are no rows to click.                           *)
Placed == current = None => shown = Nothing /\ moved = {}

LEMMA PlacedStep ==
  ASSUME TypeOK, Freshness, Placed, [Next]_vars
  PROVE  Placed'
<1>1. ASSUME UNCHANGED <<current, shown, moved>> PROVE Placed'
  BY <1>1 DEF Placed
<1>2. ASSUME NEW p, Mount(p) PROVE Placed'
  BY <1>2 DEF Mount, Placed
<1>3. CASE ClustersArrive
  <2>1. current' = current \/ current' \in Clusters
    BY <1>3, HeadListed DEF ClustersArrive, ListAnswered, SetClusterIds, store, TypeOK, SessionTypeOK
  <2> QED
    BY <1>3, <2>1, NoneAssumption DEF ClustersArrive, Placed
<1>4. ASSUME NEW q \in asked, ListArrives(q) PROVE Placed'
  <2>1. q.cluster # None /\ Fresh(q) /\ q # Nothing
    BY <1>4, NothingIsNone DEF ListArrives, Freshness, FreshRequests, TypeOK, ListTypeOK
  <2>2. current # None
    BY <2>1 DEF Fresh, Placed
  <2> QED
    BY <1>4, <2>2 DEF ListArrives, Placed, sessionVars, store
<1>5. CASE SessionStep
  BY <1>5, <1>1 DEF SessionStep, OpenLoginDialog, SignOut, Logout, CloseLoginDialog, Submit, SignedIn,
     SignInRefused, Unauthorized, SignInFails, Revoke, ServeOther, ListFails, store,
     pageVars, list, history
<1>6. CASE UNCHANGED vars
  BY <1>6, <1>1 DEF vars, sessionVars, store, pageVars, list, history
<1>7. ASSUME NEW p \in Pages, Navigate(p) PROVE Placed'
  BY <1>7, <1>2 DEF Navigate
<1>8. CASE Reload \/ \E c \in Clusters : ChooseCluster(c)
  BY <1>8, <1>2 DEF Reload, ChooseCluster
<1>9. CASE SwitchLanguage \/ TogglePause \/ Tick \/ \E f \in Filters : SetFilter(f)
  BY <1>9, <1>1 DEF SwitchLanguage, TogglePause, Tick, SetFilter, sessionVars, store, history
<1>10. CASE \E q \in asked : FetchFails(q)
  BY <1>10, <1>1 DEF FetchFails, store, history
<1>11. CASE \E d \in detailAsked : DetailArrives(d) \/ DetailFails(d)
  BY <1>11, <1>1 DEF DetailArrives, DetailFails, sessionVars, store, list, history
<1>12. CASE CloseDrawer \/ \E i \in Items : OpenItem(i) \/ AskRestart(i)
  BY <1>12, <1>1 DEF CloseDrawer, OpenItem, AskRestart, sessionVars, store, list, history
<1>13. CASE AskAct \/ Cancel \/ Confirm \/ Accepted \/ Refused \/ CommandFails
  BY <1>13, <1>1 DEF AskAct, Cancel, Confirm, Accepted, Refused, Unauthorized, Logout,
     CommandFails, sessionVars, store, list, history
<1>14. CASE \E t \in later : RefreshAfter(t)
  BY <1>14, <1>1 DEF RefreshAfter, sessionVars, store, history
<1> QED
  BY <1>3, <1>4, <1>5, <1>6, <1>7, <1>8, <1>9, <1>10, <1>11, <1>12, <1>13, <1>14 DEF Next

-----------------------------------------------------------------------------
(* Until the drawer is opened with a request for another item under way,   *)
(* whatever may still ask for or bring a detail has the title's item.      *)
Titled(d) == d = Nothing \/ d.item = title

AimedRequests ==
  /\ Titled(detailBuilt)
  /\ \A d \in detailAsked : Titled(d)
  /\ \A t \in later : Titled(t.detail)
  /\ sending # Nothing /\ sending.live => Titled(sending.detail)

AimedDetail == Titled(detail) \/ detailLoading \/ detailFailed

AimedConfirmation == page.drawer.acts /\ confirming # Nothing => Titled(detail)

AimedCommand == sending # Nothing /\ sending.live => sending.about.item = sending.item

Aimed == ~crossed => AimedRequests /\ AimedDetail /\ AimedConfirmation /\ AimedCommand

(* A call of a fetch function shows the spinner, or changes nothing.       *)
LEMMA FetchDetailSpins ==
  ASSUME NEW d, FetchDetail(d), AimedDetail, UNCHANGED <<title, detail>>
  PROVE  AimedDetail'
  BY DEF FetchDetail, AimedDetail, Titled

LEMMA AimedStep ==
  ASSUME TypeOK, Decided, Placed, Aimed, [Next]_vars, ~crossed'
  PROVE  (AimedRequests /\ AimedDetail /\ AimedConfirmation /\ AimedCommand)'
<1> DEFINE Goal == AimedRequests /\ AimedDetail /\ AimedConfirmation /\ AimedCommand
<1>a. ASSUME ~crossed PROVE AimedRequests /\ AimedDetail /\ AimedConfirmation /\ AimedCommand
  BY <1>a DEF Aimed
<1>b. ASSUME NEW p, Mount(p), sending' = Nothing \/ sending'.live = FALSE PROVE Goal'
  BY <1>b DEF Mount, AimedRequests, AimedDetail, AimedConfirmation, AimedCommand, Titled
<1>c. ASSUME UNCHANGED <<page, drawer, command, crossed>> PROVE Goal'
  BY <1>a, <1>c DEF AimedRequests, AimedDetail, AimedConfirmation, AimedCommand, Titled,
     drawer, command
<1>d. ASSUME NEW c, Rebuild(c), UNCHANGED <<page, title, open, detail, command, crossed>>
      PROVE  Goal'
  <2>1. Titled(detailBuilt)'
    BY <1>a, <1>d DEF Rebuild, AimedRequests, Titled
  <2>2. \A d \in detailAsked' : d \in detailAsked \/ d = detailBuilt'
    BY <1>d, FetchDetailFresh DEF Rebuild
  <2>3. AimedRequests'
    BY <1>a, <1>d, <2>1, <2>2 DEF AimedRequests, Titled, command
  <2>4. AimedDetail'
    BY <1>a, <1>d, FetchDetailSpins DEF Rebuild, AimedDetail, Titled
  <2>5. (AimedConfirmation /\ AimedCommand)'
    BY <1>a, <1>d DEF AimedConfirmation, AimedCommand, Titled, command
  <2> QED
    BY <2>3, <2>4, <2>5
(* Steps of the command only.                                              *)
<1>e. ASSUME UNCHANGED <<page, drawer, crossed>>,
             \A t \in later' : Titled(t.detail),
             sending' # Nothing /\ sending'.live =>
               Titled(sending'.detail) /\ sending'.about.item = sending'.item,
             page.drawer.acts /\ confirming' # Nothing => Titled(detail)
      PROVE  Goal'
  BY <1>a, <1>e DEF AimedRequests, AimedDetail, AimedConfirmation, AimedCommand, Titled, drawer
<1>1. CASE SessionStep \/ UNCHANGED vars
  BY <1>1, <1>c DEF SessionStep, vars, pageVars, list, history
<1>2. ASSUME NEW p \in Pages, Navigate(p) PROVE Goal'
  <2>1. sending' = Nothing \/ sending'.live = FALSE
    BY <1>2 DEF Navigate, TypeOK, CommandTypeOK, Command
  <2> QED
    BY <1>2, <2>1, <1>b DEF Navigate
<1>3. CASE Reload \/ \E c \in Clusters : ChooseCluster(c)
  BY <1>3, <1>b DEF Reload, ChooseCluster
<1>4. CASE ClustersArrive \/ SwitchLanguage \/ \E f \in Filters : SetFilter(f)
  BY <1>4, <1>d DEF ClustersArrive, SwitchLanguage, SetFilter, history
<1>5. CASE TogglePause \/ Tick \/ \E q \in asked : ListArrives(q) \/ FetchFails(q)
  BY <1>5, <1>c DEF TogglePause, Tick, ListArrives, FetchFails, history
<1>6. ASSUME NEW i \in Items, OpenItem(i) PROVE Goal'
  <2>1. ~crossed /\ \A d \in detailAsked \cup {t.detail : t \in later}
                         \cup (IF sending = Nothing THEN {} ELSE {sending.detail}) :
                      d = Nothing \/ d.item = i
    BY <1>6 DEF OpenItem
  <2>2. title' = i /\ UNCHANGED <<detail, sending, later, confirming>> /\ confirming = Nothing
    BY <1>6 DEF OpenItem, command, Unobstructed
  <2>3. Titled(detailBuilt)'
    BY <1>a, <1>6, <2>1, <2>2 DEF OpenItem, AimedRequests, Titled
  <2>4. detailAsked' \subseteq detailAsked \cup {detailBuilt'}
    BY <1>6, FetchDetailFresh DEF OpenItem
  <2>5. AimedRequests'
    BY <2>1, <2>2, <2>3, <2>4 DEF AimedRequests, Titled
  <2>6. AimedDetail'
    <3>1. CASE i = title
      BY <1>a, <1>6, <2>1, <2>2, <3>1, FetchDetailSpins DEF OpenItem
    <3>2. CASE i # title
      <4>1. detailBuilt' = [cluster |-> current, item |-> i]
        BY <1>6, <3>2 DEF OpenItem
      <4>2. current # None
        BY <1>6 DEF OpenItem, Rows, Placed
      <4>3. detailBuilt' \in Details
        BY <4>1 DEF Details, TypeOK, SessionTypeOK, Places
      <4>4. detailBuilt' # Nothing /\ Requests(page.drawer, detailBuilt') # {}
        BY <4>1, <4>2, <4>3, NothingIsNone DEF Requests
      <4>5. detailLoading'
        BY <1>6, <4>4 DEF OpenItem, FetchDetail
      <4> QED
        BY <4>5 DEF AimedDetail
    <3> QED
      BY <3>1, <3>2
  <2>7. AimedConfirmation'
    BY <2>2 DEF AimedConfirmation
  <2>8. AimedCommand'
    BY <1>a, <2>1, <2>2 DEF AimedCommand
  <2> QED
    BY <2>5, <2>6, <2>7, <2>8
<1>7. CASE CloseDrawer
  BY <1>a, <1>7
  DEF CloseDrawer, AimedRequests, AimedDetail, AimedConfirmation, AimedCommand, Titled,
      list, command, history
<1>8. ASSUME NEW d \in detailAsked, DetailArrives(d) \/ DetailFails(d) PROVE Goal'
  <2>1. Titled(d) /\ ~crossed
    BY <1>a, <1>8 DEF AimedRequests, DetailArrives, DetailFails, history
  <2>2. UNCHANGED <<page, title, open, detailBuilt, command>> /\ detailAsked' \subseteq detailAsked
    BY <1>8 DEF DetailArrives, DetailFails, list
  <2>3. detail' = d \/ (detail' = detail /\ detailFailed')
    BY <1>8 DEF DetailArrives, DetailFails
  <2> QED
    BY <1>a, <2>1, <2>2, <2>3
    DEF AimedRequests, AimedDetail, AimedConfirmation, AimedCommand, Titled, command
<1>9. ASSUME NEW i \in Items, AskRestart(i) PROVE Goal'
  BY <1>a, <1>9, <1>e, RestartingPages
  DEF AskRestart, AimedRequests, AimedCommand, TypeOK, ListTypeOK, list, history
<1>10. CASE AskAct
  <2>1. Titled(detail)
    BY <1>a, <1>10 DEF AskAct, AimedDetail, history
  <2> QED
    BY <1>a, <1>10, <1>e, <2>1 DEF AskAct, AimedRequests, AimedCommand, list, history
<1>11. CASE Cancel
  BY <1>a, <1>11, <1>e DEF Cancel, AimedRequests, AimedCommand, list, history
<1>12. CASE Confirm
  <2>1. UNCHANGED <<page, drawer, crossed, confirming, later>> /\ confirming # Nothing
    BY <1>12 DEF Confirm, list, history
  <2>2. /\ sending'.about = (IF page.drawer.acts THEN detail ELSE confirming)
        /\ sending'.item = (IF page.drawer.acts THEN title ELSE confirming.item)
        /\ sending'.detail = (IF page.drawer.acts THEN detailBuilt ELSE Nothing)
    BY <1>12 DEF Confirm
  <2>3. AimedRequests /\ AimedConfirmation
    BY <1>a, <2>1
  <2>4. Titled(sending'.detail)
    BY <2>2, <2>3 DEF AimedRequests, Titled
  <2>5. sending'.about.item = sending'.item
    BY <2>1, <2>2, <2>3 DEF AimedConfirmation, Titled, Decided
  <2> QED
    BY <1>e, <2>1, <2>3, <2>4, <2>5 DEF AimedRequests, AimedConfirmation
<1>13. CASE Accepted
  BY <1>a, <1>13, <1>e DEF Accepted, AimedRequests, AimedConfirmation, list, history
<1>14. CASE Refused \/ CommandFails
  BY <1>a, <1>14, <1>e DEF Refused, CommandFails, AimedRequests, AimedConfirmation, list, history
<1>15. ASSUME NEW t \in later, RefreshAfter(t) PROVE Goal'
  <2>1. Titled(t.detail)
    BY <1>a, <1>15 DEF AimedRequests, RefreshAfter, history
  <2>2. detailAsked' \subseteq detailAsked \cup {t.detail} /\ later' \subseteq later
    BY <1>15, FetchDetailFresh DEF RefreshAfter
  <2>3. UNCHANGED <<page, title, open, detailBuilt, detail, confirming, sending, crossed>>
    BY <1>15 DEF RefreshAfter, history
  <2>4. AimedDetail'
    BY <1>a, <1>15, <2>3, FetchDetailSpins DEF RefreshAfter
  <2> QED
    BY <1>a, <2>1, <2>2, <2>3, <2>4 DEF AimedRequests, AimedConfirmation, AimedCommand, Titled
<1> QED
  BY <1>1, <1>2, <1>3, <1>4, <1>5, <1>6, <1>7, <1>8, <1>9, <1>10, <1>11, <1>12, <1>13, <1>14,
     <1>15 DEF Next

(* All of it together is inductive.                                        *)
Inv == TypeOK /\ Decided /\ Freshness /\ Placed /\ Aimed

LEMMA Inductive == Spec => []Inv
<1>1. ASSUME Init PROVE Inv
  BY <1>1, TypeInit, FreshnessInit
  DEF Init, Inv, Placed, Aimed, AimedRequests, AimedDetail, AimedConfirmation, AimedCommand, Titled
<1>2. ASSUME Inv, [Next]_vars PROVE Inv'
  <2>1. (TypeOK /\ Decided)'
    BY <1>2, SessionTypes, PageTypes DEF Inv, TypeOK, PageTypeOK
  <2>2. Aimed'
    BY <1>2, AimedStep DEF Inv, Aimed
  <2> QED
    BY <1>2, <2>1, <2>2, FreshnessStep, PlacedStep DEF Inv
<1> QED
  BY <1>1, <1>2, PTL DEF Spec

(* The drawer shows the item of its title, unless it was opened while a    *)
(* request or a refresh for another item was still to come.                *)
THEOREM Titles == Spec => []DetailMatchesTitle
<1>1. ASSUME Inv PROVE DetailMatchesTitle
  BY <1>1 DEF Inv, Aimed, AimedDetail, Titled, DetailMatchesTitle
<1> QED
  BY <1>1, Inductive, PTL

(* A command goes to the cluster and names the item the user was looking   *)
(* at when it was decided, with the same two exceptions.                   *)
THEOREM Commands == Spec => []CommandsMatch
<1>1. ASSUME Inv PROVE CommandsMatch
  BY <1>1 DEF Inv, Aimed, AimedCommand, Freshness, FreshCommand, CommandsMatch
<1> QED
  BY <1>1, Inductive, PTL

-----------------------------------------------------------------------------
(* The safety behind the two liveness properties.  A spinner of the list   *)
(* turns only while a request is in flight, whose answer or failure stops  *)
(* it, or on a page that waits for a first cluster; that of an open drawer *)
(* only while a request is in flight.                                      *)
SpinnersAreAnswered ==
  /\ loading => asked # {} \/ (page.waits /\ current = None)
  /\ open /\ detailLoading => detailAsked # {}

(* A page that follows the cluster, or the filter, asks at its next        *)
(* interval for what they are now.                                         *)
AsksForCurrent ==
  /\ "cluster" \in page.rebuilt => built.cluster = current
  /\ "filter" \in page.rebuilt => built.filter = filter

(* A drawer that was opened can always ask: it was opened on a row, so     *)
(* there was a cluster, and the store never goes back to none under an     *)
(* open page.                                                              *)
CanAsk == title # None =>
  current # None /\ detailBuilt \in Details /\ detailBuilt.cluster # None

Spinning ==
  /\ loading => asked # {} \/ (page.waits /\ current = None)
  /\ detailLoading => title = None \/ detailAsked # {}

Followed == AsksForCurrent /\ CanAsk /\ Spinning

(* A page that waits for a cluster notices when one comes.                 *)
LEMMA WaitingPages ==
  ASSUME NEW p \in Pages, p.waits
  PROVE  "cluster" \in p.rebuilt
  BY PagesAssumption DEF AllPages, BuiltOnce, Page, Dependencies,
     CronJobPage, DaemonSetPage, DeploymentPage, IngressPage, JobPage, LimitRangePage,
     NetworkPolicyPage, PVPage, PVCPage, ResourceQuotaPage, ServiceAccountPage, ServicePage,
     StatefulSetPage, NamespacePage, NodePage, PodPage, EventPage, OverviewPage, MetricsPage,
     LogsPage, ApmPage, RiskPage, IncidentsPage, TopologyPage

(* With a cluster, a function asks.                                        *)
LEMMA ClusterAsks ==
  ASSUME NEW p, NEW q, q.cluster # None
  PROVE  Requests(p, q) = {q}
  BY DEF Requests

(* A call of the drawer's function asks, or leaves the requests and the    *)
(* spinner as they are.                                                    *)
LEMMA FetchDetailAsks ==
  ASSUME NEW d, FetchDetail(d)
  PROVE  \/ detailAsked' # {}
         \/ UNCHANGED <<detailAsked, detailLoading>>
  BY DEF FetchDetail

LEMMA MountFollows ==
  ASSUME NEW p, Mount(p)
  PROVE  Followed'
<1>1. AsksForCurrent' /\ CanAsk'
  BY DEF Mount, AsksForCurrent, CanAsk
<1>2. asked' = {} => current' = None
  BY ClusterAsks DEF Mount
<1>3. Spinning'
  BY <1>2 DEF Mount, Spinning
<1> QED
  BY <1>1, <1>3 DEF Followed

LEMMA RebuildFollows ==
  ASSUME TypeOK, Followed, NEW c, Rebuild(c),
         UNCHANGED <<page, loading, title>>,
         current' = current \/ (current' # None /\ "cluster" \in c),
         filter' = filter \/ "filter" \in c,
         current' \in Places
  PROVE  Followed'
<1>1. AsksForCurrent'
  BY DEF Followed, AsksForCurrent, Rebuild
<1>2. title # None => current' # None
  BY DEF Followed, CanAsk
<1>3. CanAsk'
  <2>1. detailBuilt' = detailBuilt \/ detailBuilt' = [cluster |-> current', item |-> title]
    BY DEF Rebuild
  <2>2. title # None => title \in Items
    BY DEF TypeOK, DrawerTypeOK
  <2> QED
    BY <1>2, <2>1, <2>2 DEF Followed, CanAsk, Details
<1>4. detailLoading' => title' = None \/ detailAsked' # {}
  <2>1. \/ FetchDetail(detailBuilt')
        \/ UNCHANGED <<detailAsked, detailLoading>>
    BY DEF Rebuild
  <2> QED
    BY <2>1, FetchDetailAsks DEF Followed, Spinning
<1>5. loading' => asked' # {} \/ (page'.waits /\ current' = None)
  <2>1. asked \subseteq asked'
    BY DEF Rebuild
  <2>2. SUFFICES ASSUME loading, asked = {}, current' # None PROVE asked' # {}
    BY <2>1 DEF Followed, Spinning
  <2>3. page \in Pages /\ page.waits
    BY <2>2 DEF Followed, Spinning, TypeOK, ListTypeOK
  <2>4. "cluster" \in c /\ "cluster" \in page.rebuilt
    BY <2>2, <2>3, WaitingPages DEF Followed, Spinning
  <2>5. built' = [cluster |-> current', filter |-> filter'] /\ asked' = asked \cup Requests(page, built')
    BY <2>4 DEF Rebuild
  <2> QED
    BY <2>2, <2>5, ClusterAsks
<1> QED
  BY <1>1, <1>3, <1>4, <1>5 DEF Followed, Spinning

LEMMA FollowedStep ==
  ASSUME TypeOK, TypeOK', Placed, Followed, [Next]_vars
  PROVE  Followed'
<1>a. ASSUME UNCHANGED <<current, page, filter, built, loading, title, detailBuilt, detailLoading,
                         detailAsked>>,
             asked \subseteq asked'
      PROVE  Followed'
  BY <1>a DEF Followed, AsksForCurrent, CanAsk, Spinning
<1>1. CASE SessionStep
  BY <1>1, <1>a DEF SessionStep, OpenLoginDialog, SignOut, Logout, CloseLoginDialog, Submit, SignedIn,
     SignInRefused, Unauthorized, SignInFails, Revoke, ServeOther, ListFails, store,
     pageVars, list, drawer
<1>2. CASE UNCHANGED vars
  BY <1>2, <1>a DEF vars, sessionVars, store, pageVars, list, drawer
<1>3. CASE Reload \/ \E p \in Pages : Navigate(p)
  BY <1>3, MountFollows DEF Reload, Navigate
<1>4. CASE \E c \in Clusters : ChooseCluster(c)
  BY <1>4, MountFollows DEF ChooseCluster
<1>5. CASE ClustersArrive
  <2> DEFINE c == IF current' = current THEN {} ELSE {"cluster"}
  <2>1. current' \in Places
    BY DEF TypeOK, SessionTypeOK, Places
  <2>2. current' = current \/ current' \in Clusters
    BY <1>5, HeadListed DEF ClustersArrive, ListAnswered, SetClusterIds, store, TypeOK, SessionTypeOK
  <2>3. Rebuild(c) /\ UNCHANGED <<page, loading, title, filter>>
    BY <1>5 DEF ClustersArrive
  <2>4. current' = current \/ (current' # None /\ "cluster" \in c)
    BY <2>2, NoneAssumption
  <2> HIDE DEF c
  <2> QED
    BY <2>1, <2>3, <2>4, RebuildFollows
<1>6. ASSUME NEW f \in Filters, SetFilter(f) PROVE Followed'
  <2>1. current' = current /\ current' \in Places
    BY <1>6 DEF SetFilter, store, TypeOK, SessionTypeOK, Places
  <2> QED
    BY <1>6, <2>1, RebuildFollows DEF SetFilter
<1>7. CASE SwitchLanguage
  <2>1. current' = current /\ current' \in Places
    BY <1>7 DEF SwitchLanguage, store, TypeOK, SessionTypeOK, Places
  <2> QED
    BY <1>7, <2>1, RebuildFollows DEF SwitchLanguage
<1>8. CASE TogglePause \/ Tick
  BY <1>8, <1>a DEF TogglePause, Tick, sessionVars, store, drawer
<1>9. CASE \E q \in asked : ListArrives(q) \/ FetchFails(q)
  BY <1>9 DEF ListArrives, FetchFails, sessionVars, store, drawer, Followed, AsksForCurrent, CanAsk,
     Spinning
<1>10. ASSUME NEW i \in Items, OpenItem(i) PROVE Followed'
  <2>1. current # None /\ current \in Places
    BY <1>10 DEF OpenItem, Rows, Placed, TypeOK, SessionTypeOK, Places
  <2>2. UNCHANGED <<current, page, filter, built, loading, asked>> /\ title' = i
    BY <1>10 DEF OpenItem, store, list
  <2>3. detailBuilt' \in Details /\ detailBuilt'.cluster # None
    BY <1>10, <2>1, ItemsAssumption DEF OpenItem, Followed, CanAsk, Details
  <2>4. detailAsked' # {}
    BY <1>10, <2>3, NothingIsNone, ClusterAsks DEF OpenItem, FetchDetail
  <2> QED
    BY <2>1, <2>2, <2>3, <2>4 DEF Followed, AsksForCurrent, CanAsk, Spinning
<1>11. CASE \E d \in detailAsked : DetailArrives(d) \/ DetailFails(d)
  BY <1>11 DEF DetailArrives, DetailFails, sessionVars, store, list, Followed, AsksForCurrent, CanAsk,
     Spinning
<1>12. CASE CloseDrawer \/ AskAct \/ Cancel \/ Confirm \/ Accepted \/ \E i \in Items : AskRestart(i)
  BY <1>12, <1>a DEF CloseDrawer, AskAct, Cancel, Confirm, Accepted, AskRestart, sessionVars, store,
     list, drawer
<1>13. CASE Refused \/ CommandFails
  BY <1>13, <1>a DEF Refused, Unauthorized, Logout, CommandFails, store, list, drawer
<1>14. ASSUME NEW t \in later, RefreshAfter(t) PROVE Followed'
  <2>1. UNCHANGED <<current, page, filter, built, loading, title, detailBuilt>> /\ asked \subseteq asked'
    BY <1>14 DEF RefreshAfter, sessionVars, store
  <2>2. detailLoading' => title' = None \/ detailAsked' # {}
    BY <1>14, <2>1, FetchDetailAsks DEF RefreshAfter, Followed, Spinning
  <2> QED
    BY <2>1, <2>2 DEF Followed, AsksForCurrent, CanAsk, Spinning
<1> QED
  BY <1>1, <1>2, <1>3, <1>4, <1>5, <1>6, <1>7, <1>8, <1>9, <1>10, <1>11, <1>12, <1>13, <1>14
  DEF Next

LEMMA FollowedAlways == Spec => [](Followed /\ Decided)
<1>1. ASSUME Init PROVE Followed
  <2>1. asked = {} => current = None
    BY <1>1, ClusterAsks DEF Init
  <2> QED
    BY <1>1, <2>1 DEF Init, Followed, AsksForCurrent, CanAsk, Spinning
<1>2. ASSUME Inv, Inv', Followed, [Next]_vars PROVE Followed'
  BY <1>2, FollowedStep DEF Inv
<1>3. Inv => Decided
  BY DEF Inv
<1> QED
  BY <1>1, <1>2, <1>3, Inductive, PTL DEF Spec

(* A spinner that turns is waiting for an answer, or for a first cluster:  *)
(* of any pages, whatever overtakes what, none is left turning with        *)
(* nothing to stop it.                                                     *)
THEOREM Spinners == Spec => []SpinnersAreAnswered
<1>1. ASSUME Followed, Decided PROVE SpinnersAreAnswered
  BY <1>1 DEF Followed, Spinning, Decided, SpinnersAreAnswered
<1> QED
  BY <1>1, FollowedAlways, PTL

(* The next request of a page is never for a cluster or a filter it should *)
(* have followed: none of its rebuilds is missed.                          *)
THEOREM Following == Spec => []AsksForCurrent
<1>1. Followed => AsksForCurrent
  BY DEF Followed
<1> QED
  BY <1>1, FollowedAlways, PTL
=============================================================================
