----------------------------- MODULE WebSession -----------------------------
(***************************************************************************)
(* What every page of the web console shares: who is signed in             *)
(* (authStore), which cluster is looked at (clusterStore), what of it is   *)
(* kept in localStorage, and what a 401 does to it.                        *)
(***************************************************************************)
EXTENDS Naturals, Sequences, SequencesExt

CONSTANTS
  Clusters,   \* identifiers of clusters
  Lists,      \* the cluster lists the gateway may answer with
  None,       \* no cluster: the empty string
  MaxEvents   \* bound: what users do, and changes and failures of the server

ASSUME NoneAssumption   == None \notin Clusters
ASSUME ListsAssumption  == Lists \subseteq Seq(Clusters) /\ << >> \in Lists
ASSUME EventsAssumption == MaxEvents \in Nat

VARIABLES
  token,       \* number of the sign-in whose token is held, 0 when signed out
  revoked,     \* the server refuses the tokens up to this one
  dialog,      \* isLoginDialogOpen
  submitting,  \* the login form was sent and not answered
  ids,         \* clusterStore.clusterIds
  current,     \* clusterStore.currentClusterId
  storedIds,   \* localStorage "clusterIds"
  storedId,    \* localStorage "currentClusterId"
  served,      \* the list of clusters the gateway answers with now
  listing,     \* the Layout's getClusterList is not answered
  events       \* what has happened of MaxEvents

session == <<token, revoked, dialog, submitting>>
store   == <<ids, current, storedIds, storedId>>
sessionVars == <<session, store, served, listing, events>>

Event == events < MaxEvents /\ events' = events + 1

SessionTypeOK ==
  /\ token \in 0..MaxEvents + 1 /\ revoked \in 0..MaxEvents + 1
  /\ dialog \in BOOLEAN /\ submitting \in BOOLEAN /\ listing \in BOOLEAN
  /\ ids \in Lists /\ storedIds \in Lists /\ served \in Lists
  /\ current \in Clusters \cup {None} /\ storedId \in Clusters \cup {None}
  /\ events \in 0..MaxEvents

-----------------------------------------------------------------------------
(* clusterStore.getInitialState: the saved cluster, else the first of the  *)
(* saved list, and always one of the saved list if there is one.           *)
InitialCluster(list, saved) ==
  IF list = << >> THEN saved
  ELSE IF saved \in ToSet(list) THEN saved ELSE Head(list)

(* clusterStore.setClusterIds: an empty list is ignored; a current cluster *)
(* that is not listed gives way to the first, and the page stays.          *)
SetClusterIds(list) ==
  IF list = << >> THEN UNCHANGED store
  ELSE /\ ids' = list /\ storedIds' = list
       /\ IF current \in ToSet(list)
          THEN UNCHANGED <<current, storedId>>
          ELSE current' = Head(list) /\ storedId' = Head(list)

(* authStore.logout also removes the cluster list from localStorage, not   *)
(* the current cluster.                                                    *)
Logout ==
  /\ token' = 0
  /\ storedIds' = << >>
  /\ UNCHANGED <<ids, current, storedId>>

(* The interceptor's 401: useAuthError signs out and asks to sign in,      *)
(* whichever request the refusal answers.                                  *)
Unauthorized == Logout /\ dialog' = TRUE

-----------------------------------------------------------------------------
SessionInit ==
  /\ token \in {0, 1}                 \* a token of an earlier visit
  /\ revoked = 0 /\ dialog = FALSE /\ submitting = FALSE
  /\ served \in Lists \ {<< >>}
  /\ storedIds \in {<< >>, served}
  /\ storedId \in Clusters \cup {None}
  /\ ids = storedIds
  /\ current = InitialCluster(storedIds, storedId)
  /\ listing = TRUE
  /\ events = 0

(* The menu's sign-in and sign-out, and the dialog's close button.         *)
OpenLoginDialog ==
  /\ Event
  /\ token = 0 /\ ~dialog
  /\ dialog' = TRUE
  /\ UNCHANGED <<token, revoked, submitting, store, served, listing>>

CloseLoginDialog ==
  /\ dialog
  /\ dialog' = FALSE
  /\ UNCHANGED <<token, revoked, submitting, store, served, listing, events>>

SignOut ==
  /\ Event
  /\ token # 0
  /\ Logout
  /\ UNCHANGED <<revoked, dialog, submitting, served, listing>>

Submit ==
  /\ Event
  /\ dialog /\ ~submitting
  /\ submitting' = TRUE
  /\ UNCHANGED <<token, revoked, dialog, store, served, listing>>

(* LoginDialog.handleSubmit, the answer.  The Master answers with a token   *)
(* and no cluster_ids: setLoginData stores an empty list and the cluster   *)
(* store keeps its own.  closeLoginDialog discards the pending action, so  *)
(* executePendingAction, called next, finds none: a sign-in does not       *)
(* perform what it was asked for.                                          *)
SignedIn ==
  /\ submitting
  /\ submitting' = FALSE
  /\ token' = events + 1              \* a number no earlier token has
  /\ storedIds' = << >>
  /\ dialog' = FALSE
  /\ UNCHANGED <<revoked, ids, current, storedId, served, listing, events>>

(* A wrong password is a 401 like any other.                               *)
SignInRefused ==
  /\ submitting
  /\ submitting' = FALSE
  /\ Unauthorized
  /\ UNCHANGED <<revoked, served, listing, events>>

SignInFails ==
  /\ submitting
  /\ submitting' = FALSE
  /\ UNCHANGED <<token, revoked, dialog, store, served, listing, events>>

(* The server: tokens expire, clusters come and go.                        *)
Revoke ==
  /\ Event
  /\ revoked < token
  /\ revoked' = token
  /\ UNCHANGED <<token, dialog, submitting, store, served, listing>>

ServeOther ==
  /\ Event
  /\ served' \in Lists \ {served}
  /\ UNCHANGED <<session, store, listing>>

(* The Layout of a page that is opened asks for the clusters once.         *)
ListAnswered ==
  /\ listing
  /\ listing' = FALSE
  /\ SetClusterIds(served)
  /\ UNCHANGED <<session, served, events>>

ListFails ==
  /\ Event
  /\ listing
  /\ listing' = FALSE
  /\ UNCHANGED <<session, store, served>>

(* The browser loads the application again: the stores start from what     *)
(* localStorage holds, given here.                                         *)
Load(list, saved) ==
  /\ ids' = list /\ storedIds' = list
  /\ current' = InitialCluster(list, saved) /\ storedId' = saved
  /\ dialog' = FALSE /\ submitting' = FALSE
  /\ listing' = TRUE
  /\ UNCHANGED <<token, revoked, served>>

(* ClusterSelector.handleSelect: only offered for a choice of clusters;    *)
(* stores the cluster and reloads.                                         *)
SelectCluster(c) ==
  /\ Event
  /\ Len(ids) > 1 /\ c \in ToSet(ids)
  /\ Load(storedIds, c)
=============================================================================
