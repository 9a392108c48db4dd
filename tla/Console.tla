------------------------------ MODULE Console ------------------------------
(***************************************************************************)
(* One tab of the web console: a page that lists what one cluster reports, *)
(* the drawer that shows an item of it, and the commands sent from both,   *)
(* on top of the session and the cluster store every page shares.          *)
(*                                                                         *)
(* Requests are answered in any order, and an answer is displayed whatever *)
(* the page has asked for since.  Requests that ask the same are one       *)
(* member of a set: the answers are displayed the same.  Whether an error  *)
(* hides the rows is left out; it only takes choices from the user.        *)
(***************************************************************************)
EXTENDS WebSession, ConsolePages

CONSTANTS
  Pages,     \* the pages that can be opened
  Items,     \* names of rows, the same in every cluster
  Filters,   \* what a list can be restricted to by the server
  NoFilter   \* no restriction

ASSUME PagesAssumption   == Pages \subseteq AllPages
ASSUME ItemsAssumption   == None \notin Items
ASSUME FiltersAssumption == NoFilter \in Filters

VARIABLES
  page,           \* the page that is open
  filter,         \* the restriction chosen on it
  rowsSignedIn,   \* isAuthenticated, as the handlers of the rows know it
  built,          \* what its fetch function asks for
  paused,         \* the refresh timer is off
  asked,          \* list requests in flight
  shown,          \* the answer whose rows are displayed
  loading,        \* the page shows a spinner
  title,          \* the item the drawer is titled with, None: never opened
  open,           \* the drawer is open
  detailBuilt,    \* what the drawer's fetch function asks for
  detailAsked,    \* its requests in flight
  detail,         \* the answer it displays
  detailLoading,  \* it shows a spinner
  detailFailed,   \* it shows an error
  confirming,     \* the command whose confirmation is asked
  sending,        \* the command that was sent and not answered
  later,          \* refreshes due two seconds after a command
  moved,          \* clusters the store has left since the page was opened
  crossed         \* the drawer was opened while it might still load another item

list   == <<page, filter, rowsSignedIn, built, paused, asked, shown, loading>>
drawer == <<title, open, detailBuilt, detailAsked, detail, detailLoading, detailFailed>>
command == <<confirming, sending, later>>
history == <<moved, crossed>>
pageVars == <<list, drawer, command, history>>
vars == <<sessionVars, pageVars>>

Places  == Clusters \cup {None}
Queries == [cluster : Places, filter : Filters]
Details == [cluster : Places, item : Items]
Nothing == [cluster |-> None, nothing |-> TRUE]   \* no answer, no request, no command
Command == [cluster : Places, item : Items, about : Details, token : Nat,
            live : BOOLEAN, query : Queries, detail : Details \cup {Nothing}]

ListTypeOK ==
  /\ page \in Pages /\ filter \in Filters
  /\ rowsSignedIn \in BOOLEAN /\ paused \in BOOLEAN /\ loading \in BOOLEAN
  /\ built \in Queries /\ asked \subseteq Queries /\ shown \in Queries \cup {Nothing}

DrawerTypeOK ==
  /\ title \in Items \cup {None}
  /\ open \in BOOLEAN /\ detailLoading \in BOOLEAN /\ detailFailed \in BOOLEAN
  /\ detailBuilt \in Details \cup {Nothing} /\ detail \in Details \cup {Nothing}
  /\ detailAsked \subseteq Details

CommandTypeOK ==
  /\ confirming \in Details \cup {Nothing}
  /\ sending \in Command \cup {Nothing}
  /\ later \subseteq [query : Queries, detail : Details \cup {Nothing}]

HistoryTypeOK == moved \subseteq Places /\ crossed \in BOOLEAN

TypeOK ==
  SessionTypeOK /\ ListTypeOK /\ DrawerTypeOK /\ CommandTypeOK /\ HistoryTypeOK

-----------------------------------------------------------------------------
(* The requests a call of a fetch function makes.                          *)
Requests(p, q) == IF p.asksNothing /\ q.cluster = None THEN {} ELSE {q}

(* Faulty variant: the early return is gone.                               *)
FetchDetailAlways(d) ==
  detailAsked' = detailAsked \cup {d} /\ detailLoading' = TRUE /\ detailFailed' = FALSE

(* Faulty variant: the spinner is not set.                                 *)
FetchDetailQuietly(d) ==
  IF d # Nothing /\ Requests(page.drawer, d) # {}
  THEN detailAsked' = detailAsked \cup {d} /\ detailFailed' = FALSE /\ UNCHANGED detailLoading
  ELSE UNCHANGED <<detailAsked, detailLoading, detailFailed>>

(* A call of the drawer's fetch function d: fetchDetail.                   *)
FetchDetail(d) ==
  LET asks == d # Nothing /\ Requests(page.drawer, d) # {}
  IN IF asks
     THEN detailAsked' = detailAsked \cup {d} /\ detailLoading' = TRUE /\ detailFailed' = FALSE
     ELSE UNCHANGED <<detailAsked, detailLoading, detailFailed>>

(* A page is mounted: its state is new, its function is built and called,  *)
(* its Layout asks for the clusters.                                       *)
Mount(p) ==
  /\ page' = p /\ filter' = NoFilter /\ paused' = FALSE
  /\ rowsSignedIn' = (token' # 0)
  /\ built' = [cluster |-> current', filter |-> NoFilter]
  /\ asked' = Requests(p, built')
  /\ shown' = Nothing
  /\ loading' = (asked' # {} \/ p.waits)
  /\ title' = None /\ open' = FALSE
  /\ detailBuilt' = Nothing /\ detail' = Nothing /\ detailAsked' = {}
  /\ detailLoading' = TRUE /\ detailFailed' = FALSE
  /\ confirming' = Nothing /\ later' = {}
  /\ moved' = {} /\ crossed' = FALSE

(* Faulty variant: the page asks once for the new values, its timer for    *)
(* the old.                                                                *)
RebuildKeepsTimer(changed) ==
  /\ asked' = IF changed \cap page.rebuilt # {}
              THEN asked \cup Requests(page, [cluster |-> current', filter |-> filter'])
              ELSE asked
  /\ UNCHANGED <<built, detailBuilt, detailAsked, detailLoading, detailFailed>>

(* What React does after "changed" did: functions that depend on it are    *)
(* built anew, with everything as it is now, and called.                   *)
Rebuild(changed) ==
  /\ IF changed \cap page.rebuilt # {}
     THEN /\ built' = [cluster |-> current', filter |-> filter']
          /\ asked' = asked \cup Requests(page, built')
     ELSE UNCHANGED <<built, asked>>
  /\ IF changed \cap page.drawer.rebuilt # {} /\ title # None
     THEN /\ detailBuilt' = [cluster |-> current', item |-> title]
          /\ IF open THEN FetchDetail(detailBuilt')
             ELSE UNCHANGED <<detailAsked, detailLoading, detailFailed>>
     ELSE UNCHANGED <<detailBuilt, detailAsked, detailLoading, detailFailed>>

(* Nothing lies over the page: no drawer, no dialog.                       *)
Unobstructed == ~open /\ ~dialog /\ confirming = Nothing

(* The sidebar lies above all of the page, its drawer and its confirmation *)
(* too; the sign-in dialog covers it.                                      *)
SidebarReachable == ~dialog

Rows == shown # Nothing /\ ~loading

-----------------------------------------------------------------------------
Init ==
  /\ SessionInit
  /\ page \in Pages /\ filter = NoFilter /\ paused = FALSE
  /\ rowsSignedIn = (token # 0)
  /\ built = [cluster |-> current, filter |-> NoFilter]
  /\ asked = Requests(page, built)
  /\ shown = Nothing
  /\ loading = (asked # {} \/ page.waits)
  /\ title = None /\ open = FALSE
  /\ detailBuilt = Nothing /\ detail = Nothing /\ detailAsked = {}
  /\ detailLoading = TRUE /\ detailFailed = FALSE
  /\ confirming = Nothing /\ sending = Nothing /\ later = {}
  /\ moved = {} /\ crossed = FALSE

(* A link or the browser's back button: the old page is unmounted with its *)
(* timers, its requests run on unseen.                                     *)
Navigate(p) ==
  /\ Event
  /\ listing' = TRUE
  /\ UNCHANGED <<session, store, served>>
  /\ Mount(p)
  /\ sending' = IF sending = Nothing THEN Nothing ELSE [sending EXCEPT !.live = FALSE]

Reload ==
  /\ Event
  /\ Load(storedIds, storedId)
  /\ Mount(page)
  /\ sending' = Nothing

(* Faulty variant: the selector does not reload.                           *)
ChooseClusterInPlace(c) ==
  /\ Event
  /\ SidebarReachable
  /\ Len(ids) > 1 /\ c \in ToSet(ids)
  /\ current' = c /\ storedId' = c
  /\ UNCHANGED <<session, ids, storedIds, served, listing, pageVars>>

ChooseCluster(c) ==
  /\ SidebarReachable
  /\ SelectCluster(c)
  /\ Mount(page)
  /\ sending' = Nothing

(* The answer of the Layout's request may move the cluster from under an   *)
(* open page.                                                              *)
ClustersArrive ==
  /\ ListAnswered
  /\ UNCHANGED filter
  /\ Rebuild(IF current' = current THEN {} ELSE {"cluster"})
  /\ moved' = IF current' = current THEN moved ELSE moved \cup {current}
  /\ UNCHANGED <<page, rowsSignedIn, paused, shown, loading,
                 title, open, detail, command, crossed>>

SetFilter(f) ==
  /\ Event
  /\ Unobstructed
  /\ "filter" \in page.rebuilt /\ f # filter
  /\ filter' = f
  /\ UNCHANGED <<session, store, served, listing>>
  /\ Rebuild({"filter"})
  /\ UNCHANGED <<page, rowsSignedIn, paused, shown, loading, title, open, detail, command, history>>

(* The handlers of the pod rows are rebuilt with the column titles.        *)
SwitchLanguage ==
  /\ Event
  /\ SidebarReachable
  /\ rowsSignedIn' = (token # 0)
  /\ UNCHANGED <<session, store, served, listing, filter>>
  /\ Rebuild({"language"})
  /\ UNCHANGED <<page, paused, shown, loading, title, open, detail, command, history>>

TogglePause ==
  /\ Event
  /\ Unobstructed
  /\ page.pause # "never"
  /\ paused' = ~paused
  /\ asked' = asked \cup (IF paused /\ page.pause = "asks" THEN Requests(page, built) ELSE {})
  /\ UNCHANGED <<session, store, served, listing, page, filter, rowsSignedIn, built, shown,
                 loading, drawer, command, history>>

-----------------------------------------------------------------------------
(* useAutoRefresh's interval.                                              *)
Tick ==
  /\ ~paused
  /\ asked' = asked \cup Requests(page, built)
  /\ UNCHANGED <<sessionVars, page, filter, rowsSignedIn, built, paused, shown, loading,
                 drawer, command, history>>

(* The answer of a list request; a failure leaves the rows.                *)
ListArrives(q) ==
  /\ q \in asked /\ q.cluster # None
  /\ asked' = asked \ {q}
  /\ shown' = q
  /\ loading' = FALSE
  /\ UNCHANGED <<sessionVars, page, filter, rowsSignedIn, built, paused, drawer, command, history>>

(* A cluster the Master does not know, or no cluster, is an error; others  *)
(* fail now and then.                                                      *)
Fails(c) ==
  IF c \in ToSet(served) THEN Event ELSE UNCHANGED events

FetchFails(q) ==
  /\ q \in asked
  /\ Fails(q.cluster)
  /\ asked' = asked \ {q}
  /\ loading' = FALSE
  /\ UNCHANGED <<session, store, served, listing, page, filter, rowsSignedIn, built, paused,
                 shown, drawer, command, history>>

-----------------------------------------------------------------------------
(* A row is clicked.  The drawer's function is built for another item      *)
(* only.                                                                   *)
OpenItem(i) ==
  /\ Event
  /\ Unobstructed
  /\ Rows /\ page.drawer # NoDrawer
  /\ title' = i /\ open' = TRUE
  /\ detailBuilt' = IF title = i THEN detailBuilt ELSE [cluster |-> current, item |-> i]
  /\ FetchDetail(detailBuilt')
  /\ crossed' = (crossed \/ \E d \in detailAsked \cup {t.detail : t \in later}
                                 \cup (IF sending = Nothing THEN {} ELSE {sending.detail}) :
                              d # Nothing /\ d.item # i)
  /\ UNCHANGED <<session, store, served, listing, list, detail, command, moved>>

(* Escape closes the drawer under a dialog as well, and the dialog stays.  *)
CloseDrawer ==
  /\ open
  /\ open' = FALSE
  /\ UNCHANGED <<sessionVars, list, title, detailBuilt, detailAsked, detail, detailLoading,
                 detailFailed, command, history>>

DetailArrives(d) ==
  /\ d \in detailAsked
  /\ detailAsked' = detailAsked \ {d}
  /\ detail' = d
  /\ detailLoading' = FALSE
  /\ UNCHANGED <<sessionVars, list, title, open, detailBuilt, detailFailed, command, history>>

(* Faulty variant: no finally.                                             *)
DetailFailsSpinning(d) ==
  /\ d \in detailAsked
  /\ Fails(d.cluster)
  /\ detailAsked' = detailAsked \ {d}
  /\ detailFailed' = TRUE
  /\ UNCHANGED <<session, store, served, listing, list, title, open, detailBuilt, detail,
                 detailLoading, command, history>>

DetailFails(d) ==
  /\ d \in detailAsked
  /\ Fails(d.cluster)
  /\ detailAsked' = detailAsked \ {d}
  /\ detailLoading' = FALSE
  /\ detailFailed' = TRUE
  /\ UNCHANGED <<session, store, served, listing, list, title, open, detailBuilt, detail,
                 command, history>>

-----------------------------------------------------------------------------
(* useRequireAuth: asks for the confirmation of a command about d, or      *)
(* first to sign in.                                                       *)
RequireAuth(signedIn, d) ==
  IF signedIn THEN confirming' = d /\ UNCHANGED dialog
  ELSE dialog' = TRUE /\ UNCHANGED confirming

AskRestart(i) ==
  /\ Event
  /\ Unobstructed
  /\ Rows /\ page.restarts
  /\ RequireAuth(rowsSignedIn, [cluster |-> shown.cluster, item |-> i])
  /\ UNCHANGED <<token, revoked, submitting, store, served, listing, list, drawer,
                 sending, later, history>>

(* Faulty variant: the buttons are not hidden by the spinner.              *)
AskActWhileLoading ==
  /\ Event
  /\ open /\ page.drawer.acts /\ ~dialog /\ confirming = Nothing
  /\ detail # Nothing
  /\ RequireAuth(token # 0, detail)
  /\ UNCHANGED <<token, revoked, submitting, store, served, listing, list, drawer,
                 sending, later, history>>

AskAct ==
  /\ Event
  /\ open /\ page.drawer.acts /\ ~dialog /\ confirming = Nothing
  /\ detail # Nothing /\ ~detailLoading /\ ~detailFailed
  /\ RequireAuth(token # 0, detail)
  /\ UNCHANGED <<token, revoked, submitting, store, served, listing, list, drawer,
                 sending, later, history>>

Cancel ==
  /\ confirming # Nothing
  /\ confirming' = Nothing
  /\ UNCHANGED <<sessionVars, list, drawer, sending, later, history>>

(* The command names the current cluster, and the row, or the title of the *)
(* drawer; a drawer, open or closed, decides what to do by the detail it   *)
(* has now.                                                                *)
Confirm ==
  /\ confirming # Nothing /\ sending = Nothing
  /\ sending' =
       [cluster |-> current, token |-> token, live |-> TRUE, query |-> built,
        item   |-> IF page.drawer.acts THEN title ELSE confirming.item,
        about  |-> IF page.drawer.acts THEN detail ELSE confirming,
        detail |-> IF page.drawer.acts THEN detailBuilt ELSE Nothing]
  /\ UNCHANGED <<sessionVars, list, drawer, confirming, later, history>>

Accepted ==
  /\ sending # Nothing /\ sending.token > revoked
  /\ sending' = Nothing
  /\ IF sending.live
     THEN /\ confirming' = Nothing
          /\ later' = later \cup {[query |-> sending.query, detail |-> sending.detail]}
     ELSE UNCHANGED <<confirming, later>>
  /\ UNCHANGED <<sessionVars, list, drawer, history>>

Refused ==
  /\ sending # Nothing /\ sending.token <= revoked
  /\ sending' = Nothing
  /\ Unauthorized
  /\ UNCHANGED <<revoked, submitting, served, listing, events, list, drawer,
                 confirming, later, history>>

CommandFails ==
  /\ Event
  /\ sending # Nothing
  /\ sending' = Nothing
  /\ UNCHANGED <<session, store, served, listing, list, drawer, confirming, later, history>>

(* The refresh after a command calls the functions of the render that sent *)
(* it.                                                                     *)
RefreshAfter(t) ==
  /\ t \in later
  /\ later' = later \ {t}
  /\ asked' = asked \cup Requests(page, t.query)
  /\ FetchDetail(t.detail)
  /\ UNCHANGED <<sessionVars, page, filter, rowsSignedIn, built, paused, shown, loading,
                 title, open, detailBuilt, detail, confirming, sending, history>>

-----------------------------------------------------------------------------
SessionStep ==
  /\ \/ SidebarReachable /\ (OpenLoginDialog \/ SignOut)
     \/ CloseLoginDialog \/ Submit \/ SignedIn \/ SignInRefused \/ SignInFails
     \/ Revoke \/ ServeOther \/ ListFails
  /\ UNCHANGED pageVars

Next ==
  \/ SessionStep
  \/ \E p \in Pages : Navigate(p)
  \/ Reload
  \/ \E c \in Clusters : ChooseCluster(c)
  \/ ClustersArrive
  \/ \E f \in Filters : SetFilter(f)
  \/ SwitchLanguage \/ TogglePause
  \/ Tick
  \/ \E q \in asked : ListArrives(q) \/ FetchFails(q)
  \/ \E i \in Items : OpenItem(i) \/ AskRestart(i)
  \/ CloseDrawer
  \/ \E d \in detailAsked : DetailArrives(d) \/ DetailFails(d)
  \/ AskAct \/ Cancel \/ Confirm
  \/ Accepted \/ Refused \/ CommandFails
  \/ \E t \in later : RefreshAfter(t)

Spec == Init /\ [][Next]_vars

(* Intervals fire, and axios gives every request an answer or a timeout.   *)
Fairness ==
  /\ WF_vars(Tick)
  /\ \A q \in Queries : WF_vars(ListArrives(q) \/ FetchFails(q))
  /\ \A d \in Details : WF_vars(DetailArrives(d) \/ DetailFails(d))

FairSpec == Spec /\ Fairness

-----------------------------------------------------------------------------
(* Rows and details on the screen are those of the cluster the header      *)
(* names, unless the store itself left their cluster, no longer listed,    *)
(* while the page was open.                                                *)
ShownIsCurrent ==
  \A answer \in {shown, detail} \ {Nothing} :
    answer.cluster = current \/ answer.cluster \in moved

(* The drawer shows the item of its title, unless it was opened while a    *)
(* request, or a refresh, for another item was still to come.              *)
DetailMatchesTitle ==
  open /\ detail # Nothing /\ ~detailLoading /\ ~detailFailed
    => detail.item = title \/ crossed

(* A command goes to the cluster and the item the user was looking at when *)
(* it was decided, with the same two exceptions.                           *)
CommandsMatch ==
  sending # Nothing /\ sending.live =>
    /\ sending.about.cluster = sending.cluster \/ sending.about.cluster \in moved
    /\ sending.about.item = sending.item \/ crossed

(* A page that follows its cluster and filter ends up showing the answer   *)
(* for both, however late the answers for others arrive.                   *)
CatchesUp ==
  <>[]("cluster" \in page.rebuilt /\ current \in ToSet(served) /\ ~paused
         => /\ shown # Nothing /\ shown.cluster = current
            /\ "filter" \in page.rebuilt => shown.filter = filter)

(* No spinner turns for ever, but for pages without any cluster.           *)
SpinnersEnd ==
  <>[](/\ loading => page.waits /\ current = None
       /\ ~(open /\ detailLoading))
=============================================================================
