--------------------------- MODULE ProviderRoles ----------------------------
(***************************************************************************)
(* Which AI provider plays which role: the providers' table of the Master, *)
(* the handlers that change it, each with its own statements and nothing   *)
(* that holds them together, and the settings page of the web console,     *)
(* open in several tabs, which moves a role with two requests computed     *)
(* from the list it displays.                                              *)
(*                                                                         *)
(* Of a provider only the roles matter here.  A handler dies with its      *)
(* request: its statements run before the browser gives up (10 against 30  *)
(* seconds) or not at all.                                                 *)
(***************************************************************************)
EXTENDS Naturals

CONSTANTS
  Roles,          \* the valid roles
  Tabs,           \* administrators' tabs of the console
  Calls,          \* operations that may be under way together
  MaxProviders,   \* bound: rows ever in the table
  MaxBegun,       \* bound: operations begun by the users
  MaxFaults,      \* bound: statements and requests that fail
  Demo,           \* the list of the demonstration
  NoRole, NoTab

ASSUME ConstantsAssumption ==
  /\ MaxProviders \in Nat /\ MaxBegun \in Nat /\ MaxFaults \in Nat
  /\ NoRole \notin Roles /\ NoTab \notin Tabs

Providers == 1..MaxProviders
NoProvider == 0

(* A list of providers with the roles of each.                             *)
Listed == UNION {[S -> SUBSET Roles] : S \in SUBSET Providers}
NoRows == [p \in {} |-> {}]

ASSUME DemoAssumption == Demo \in Listed

VARIABLES
  table,       \* the rows that are not deleted
  rows,        \* identifiers given out
  page,        \* of each tab: closed, loading (its spinner), ready
  shown,       \* of each tab: data.providers
  savingRole,  \* of each tab: the role whose select is disabled
  call,        \* the operations under way
  phase,       \* how far each of them is
  seen,        \* what the handler of each has read
  begun,       \* how much of MaxBegun has happened
  faults,      \* how much of MaxFaults has happened
  unguarded,   \* roles were written although others were held than the handler had read
  sound,       \* assignments begun on the table's own contents and alone since
  writer,      \* the tab whose operation was the last to change the table
  excused      \* tabs with a failure, or overlapping lists, since their last reload

server == <<table, rows>>
console == <<page, shown, savingRole>>
bounds == <<begun, faults>>
history == <<unguarded, sound, writer, excused>>
vars == <<server, console, call, phase, seen, bounds, history>>

Holders(list, r) == {p \in DOMAIN list : r \in list[p]}
Exclusive(list) == \A r \in Roles : \A p, q \in Holders(list, r) : p = q
Held(list) == {h \in (DOMAIN list) \X Roles : h[2] \in list[h[1]]}

(* providers.find over the list, which is ordered by identifier.           *)
IsFirst(list, r, h) ==
  IF Holders(list, r) = {} THEN h = NoProvider
  ELSE h \in Holders(list, r) /\ \A p \in Holders(list, r) : h <= p

Kinds == {"open", "assign", "edit", "delete", "create"}
Phases == {"free", "sent", "checked", "written", "told", "failed", "asked", "served"}
CallsOfPage ==
  [kind : Kinds, tab : Tabs \cup {NoTab}, role : Roles \cup {NoRole},
   holder : Providers \cup {NoProvider}, target : Providers \cup {NoProvider},
   part : {"remove", "add"}, base : Listed]
NoCall == [kind |-> "open", tab |-> NoTab, role |-> NoRole, holder |-> NoProvider,
           target |-> NoProvider, part |-> "add", base |-> NoRows]

Loading(i) == phase[i] \in {"asked", "served"}
Saving(t) ==
  \E i \in Calls : /\ call[i].tab = t /\ call[i].kind \in {"edit", "create"}
                   /\ phase[i] \in {"sent", "checked", "written"}

-----------------------------------------------------------------------------
Init ==
  /\ rows \in 0..MaxProviders
  /\ table \in Listed /\ DOMAIN table \subseteq 1..rows /\ Exclusive(table)
  /\ page = [t \in Tabs |-> "closed"]
  /\ shown = [t \in Tabs |-> NoRows]
  /\ savingRole = [t \in Tabs |-> NoRole]
  /\ call = [i \in Calls |-> NoCall]
  /\ phase = [i \in Calls |-> "free"]
  /\ seen = [i \in Calls |-> NoRows]
  /\ begun = 0 /\ faults = 0
  /\ unguarded = FALSE /\ sound = {} /\ writer = NoTab /\ excused = {}

Begin(i, c, ph) ==
  /\ phase[i] = "free"
  /\ call' = [call EXCEPT ![i] = c]
  /\ phase' = [phase EXCEPT ![i] = ph]
  /\ UNCHANGED <<seen, faults>>

Ask == begun < MaxBegun /\ begun' = begun + 1
Fault == faults < MaxFaults /\ faults' = faults + 1

End(i) ==
  /\ phase' = [phase EXCEPT ![i] = "free"]
  /\ call' = [call EXCEPT ![i] = NoCall]
  /\ seen' = [seen EXCEPT ![i] = NoRows]
  /\ sound' = sound \ {i}

(* The page asks for the list when it is entered, behind a spinner, or when *)
(* somebody signs in on it, over the demonstration's list.                  *)
Open(i, t) ==
  /\ page[t] = "closed"
  /\ Begin(i, [NoCall EXCEPT !.tab = t], "asked")
  /\ \/ page' = [page EXCEPT ![t] = "loading"] /\ UNCHANGED shown
     \/ page' = [page EXCEPT ![t] = "ready"] /\ shown' = [shown EXCEPT ![t] = Demo]
  /\ UNCHANGED <<server, savingRole, begun, history>>

(* handleRoleAssign: role r to provider p, or to none; the list is that of  *)
(* the render, for both of its requests.                                    *)
Assign(i, t, r, p, h) ==
  /\ Ask
  /\ page[t] = "ready"
  /\ savingRole[t] # r
  /\ p \in DOMAIN shown[t] \cup {NoProvider}
  /\ IsFirst(shown[t], r, h)
  /\ Begin(i, [kind |-> "assign", tab |-> t, role |-> r, holder |-> h, target |-> p,
               part |-> IF h = NoProvider THEN "add" ELSE "remove", base |-> shown[t]],
           IF h = NoProvider /\ p = NoProvider THEN "told" ELSE "sent")
  /\ savingRole' = [savingRole EXCEPT ![t] = r]
  /\ sound' = IF shown[t] = table /\ Exclusive(table) THEN sound \cup {i} ELSE sound
  /\ UNCHANGED <<server, page, shown, unguarded, writer, excused>>

(* What the request of an assignment names and sends.                       *)
Named(i) == IF call[i].part = "remove" THEN call[i].holder ELSE call[i].target
Sent(i) == IF call[i].part = "remove"
           THEN call[i].base[call[i].holder] \ {call[i].role}
           ELSE call[i].base[call[i].target] \cup {call[i].role}

(* handleSaveProvider and handleDeleteProvider.                             *)
Edit(i, t, p) ==
  /\ Ask
  /\ page[t] = "ready" /\ p \in DOMAIN shown[t] /\ ~Saving(t)
  /\ Begin(i, [NoCall EXCEPT !.kind = "edit", !.tab = t, !.target = p], "sent")
  /\ UNCHANGED <<server, console, history>>

Delete(i, t, p) ==
  /\ Ask
  /\ page[t] = "ready" /\ p \in DOMAIN shown[t]
  /\ Begin(i, [NoCall EXCEPT !.kind = "delete", !.tab = t, !.target = p], "sent")
  /\ UNCHANGED <<server, console, history>>

Create(i, t) ==
  /\ Ask
  /\ page[t] = "ready" /\ ~Saving(t)
  /\ Begin(i, [NoCall EXCEPT !.kind = "create", !.tab = t], "sent")
  /\ UNCHANGED <<server, console, history>>

-----------------------------------------------------------------------------
(* The handlers.  Whatever changes the table is remembered for the history. *)
Write(i, new) ==
  /\ table' = new
  /\ writer' = IF new = table THEN writer ELSE call[i].tab
  /\ sound' = IF new = table THEN sound ELSE sound \cap {i}
  /\ phase' = [phase EXCEPT ![i] = "written"]
  /\ UNCHANGED <<console, call, seen, bounds, excused>>

(* UPDATE ... WHERE id = x AND deleted_at IS NULL                           *)
With(x, roles) == [p \in DOMAIN table |-> IF p = x THEN roles ELSE table[p]]

Doing(i, kind, ph) == call[i].kind = kind /\ phase[i] = ph

Read(i, list) ==
  /\ seen' = [seen EXCEPT ![i] = list]
  /\ phase' = [phase EXCEPT ![i] = "checked"]
  /\ UNCHANGED <<server, console, call, begun, history>>

(* Another provider of the list holds one of the roles.                     *)
Conflict(i, list) ==
  \E p \in DOMAIN list \ {Named(i)} : list[p] \cap Sent(i) # {}

(* Faulty variant: the roles are set without a look at the other providers. *)
CheckNothing(i) ==
  /\ Doing(i, "assign", "sent")
  /\ Read(i, table)
  /\ UNCHANGED faults

(* ProviderRolesHandler: the list is read and compared, a list that cannot  *)
(* be read is taken for empty, and the roles are then set by id alone.      *)
Check(i) ==
  /\ Doing(i, "assign", "sent")
  /\ ~Conflict(i, table)
  /\ Read(i, table)
  /\ UNCHANGED faults

CheckWithoutList(i) ==
  /\ Fault
  /\ Doing(i, "assign", "sent")
  /\ Read(i, NoRows)

Fails(i) ==
  /\ IF call[i].kind = "assign"
     THEN /\ phase' = [phase EXCEPT ![i] = "failed"]
          /\ sound' = sound \ {i}
          /\ UNCHANGED <<call, seen>>
     ELSE End(i)
  /\ excused' = excused \cup {call[i].tab}
  /\ UNCHANGED <<server, console, begun, unguarded, writer>>

Refuse(i) ==
  /\ Doing(i, "assign", "sent")
  /\ Conflict(i, table)
  /\ Fails(i)
  /\ UNCHANGED faults

SetRoles(i) ==
  /\ Doing(i, "assign", "checked")
  /\ Write(i, With(Named(i), Sent(i)))
  /\ unguarded' = (unguarded \/ Held(seen[i]) # Held(table))
  /\ UNCHANGED rows

(* updateProvider: the row is read, and written back with all its columns.  *)
ReadRow(i) ==
  /\ Doing(i, "edit", "sent")
  /\ call[i].target \in DOMAIN table
  /\ Read(i, [p \in {call[i].target} |-> table[p]])
  /\ UNCHANGED faults

RowGone(i) ==
  /\ Doing(i, "edit", "sent")
  /\ call[i].target \notin DOMAIN table
  /\ Fails(i)
  /\ UNCHANGED faults

RewriteRow(i) ==
  LET x == call[i].target IN
  /\ Doing(i, "edit", "checked")
  /\ Write(i, With(x, seen[i][x]))
  /\ unguarded' = (unguarded \/ (x \in DOMAIN table /\ table[x] # seen[i][x]))
  /\ UNCHANGED rows

(* deleteProvider: the row stays, its identifier is not given out again.    *)
DropRow(i) ==
  /\ Doing(i, "delete", "sent")
  /\ Write(i, [p \in DOMAIN table \ {call[i].target} |-> table[p]])
  /\ UNCHANGED <<rows, unguarded>>

(* Faulty variant: an identifier is given out again.                        *)
InsertUncounted(i) ==
  /\ Doing(i, "create", "sent")
  /\ rows < MaxProviders
  /\ Write(i, [p \in DOMAIN table \cup {rows + 1} |-> IF p = rows + 1 THEN {} ELSE table[p]])
  /\ UNCHANGED <<rows, unguarded>>

(* createProvider: a new provider plays no role.                            *)
InsertRow(i) ==
  /\ Doing(i, "create", "sent")
  /\ rows < MaxProviders
  /\ rows' = rows + 1
  /\ Write(i, [p \in DOMAIN table \cup {rows + 1} |-> IF p = rows + 1 THEN {} ELSE table[p]])
  /\ UNCHANGED unguarded

(* A statement or the connection fails, before the change or after it.      *)
Fail(i) ==
  /\ Fault
  /\ phase[i] \in {"sent", "checked", "written"}
  /\ Fails(i)

-----------------------------------------------------------------------------
(* loadData, once more.                                                     *)
Reload(i) ==
  LET t == call[i].tab IN
  /\ phase' = [phase EXCEPT ![i] = "asked"]
  /\ seen' = [seen EXCEPT ![i] = NoRows]
  /\ sound' = sound \ {i}
  /\ excused' = IF \E j \in Calls : call[j].tab = t /\ Loading(j)
                THEN excused \cup {t} ELSE excused \ {t}
  /\ UNCHANGED <<server, page, shown, call, bounds, unguarded, writer>>

AddFollows(i) ==
  /\ call[i].kind = "assign" /\ call[i].part = "remove" /\ call[i].target # NoProvider

Told(i) ==
  /\ phase' = [phase EXCEPT ![i] = "told"]
  /\ UNCHANGED <<server, console, call, seen, bounds, history>>

(* Faulty variant: the request that adds the role is not sent.              *)
AnsweredOnce(i) ==
  /\ phase[i] = "written"
  /\ IF call[i].kind = "assign" THEN Told(i)
     ELSE Reload(i) /\ UNCHANGED savingRole

(* The handler's answer: the request that adds the role comes after the one *)
(* that takes it away; every other operation reloads the list.              *)
Answered(i) ==
  /\ phase[i] = "written"
  /\ IF AddFollows(i)
     THEN /\ call' = [call EXCEPT ![i].part = "add"]
          /\ phase' = [phase EXCEPT ![i] = "sent"]
          /\ seen' = [seen EXCEPT ![i] = NoRows]
          /\ UNCHANGED <<server, console, bounds, history>>
     ELSE IF call[i].kind = "assign" THEN Told(i)
     ELSE Reload(i) /\ UNCHANGED savingRole

(* Faulty variant: the page does not reload its list after an assignment.   *)
FinishQuietly(i) ==
  /\ phase[i] \in {"told", "failed"}
  /\ savingRole' = [savingRole EXCEPT ![call[i].tab] = NoRole]
  /\ End(i) /\ UNCHANGED <<server, page, shown, bounds, unguarded, writer, excused>>

(* After the message the card asks for the roles again, and has the page    *)
(* reload its list only if there was no error.                              *)
Finish(i) ==
  /\ phase[i] \in {"told", "failed"}
  /\ savingRole' = [savingRole EXCEPT ![call[i].tab] = NoRole]
  /\ IF phase[i] = "told"
     THEN Reload(i)
     ELSE End(i) /\ UNCHANGED <<server, page, shown, bounds, unguarded, writer, excused>>

(* listProviders                                                            *)
ServeList(i) ==
  /\ phase[i] = "asked"
  /\ seen' = [seen EXCEPT ![i] = table]
  /\ phase' = [phase EXCEPT ![i] = "served"]
  /\ UNCHANGED <<server, console, call, bounds, history>>

(* A list that cannot be loaded leaves the one displayed.                   *)
Loaded(i) ==
  LET t == call[i].tab IN
  /\ Loading(i)
  /\ End(i)
  /\ page' = [page EXCEPT ![t] = "ready"]
  /\ \/ /\ phase[i] = "served"
        /\ shown' = [shown EXCEPT ![t] = seen[i]]
        /\ UNCHANGED <<faults, excused>>
     \/ /\ Fault
        /\ excused' = excused \cup {t}
        /\ UNCHANGED shown
  /\ UNCHANGED <<server, savingRole, begun, unguarded, writer>>

-----------------------------------------------------------------------------
Handle(i) ==
  \/ Check(i) \/ CheckWithoutList(i) \/ Refuse(i) \/ SetRoles(i)
  \/ ReadRow(i) \/ RowGone(i) \/ RewriteRow(i)
  \/ DropRow(i) \/ InsertRow(i) \/ ServeList(i) \/ Fail(i)

Continue(i) == Answered(i) \/ Finish(i) \/ Loaded(i)

Next ==
  \E i \in Calls :
    \/ Handle(i) \/ Continue(i)
    \/ \E t \in Tabs :
         \/ Open(i, t) \/ Create(i, t)
         \/ \E p \in Providers : Edit(i, t, p) \/ Delete(i, t, p)
         \/ \E r \in Roles : \E p, h \in Providers \cup {NoProvider} : Assign(i, t, r, p, h)

Spec == Init /\ [][Next]_vars

-----------------------------------------------------------------------------
(* Every variable has its type, rows have identifiers given out, and a      *)
(* request names a provider of the list it was computed from.               *)
TypeOK ==
  /\ rows \in 0..MaxProviders
  /\ table \in Listed /\ DOMAIN table \subseteq 1..rows
  /\ page \in [Tabs -> {"closed", "loading", "ready"}]
  /\ shown \in [Tabs -> Listed]
  /\ savingRole \in [Tabs -> Roles \cup {NoRole}]
  /\ call \in [Calls -> CallsOfPage]
  /\ phase \in [Calls -> Phases]
  /\ seen \in [Calls -> Listed]
  /\ begun \in 0..MaxBegun /\ faults \in 0..MaxFaults
  /\ unguarded \in BOOLEAN /\ sound \subseteq Calls
  /\ writer \in Tabs \cup {NoTab} /\ excused \subseteq Tabs
  /\ \A i \in Calls : phase[i] # "free" => call[i].tab \in Tabs
  /\ \A i \in Calls :
       call[i].kind = "assign" /\ phase[i] \in {"sent", "checked", "written"} =>
         Named(i) \in DOMAIN call[i].base

(* A role is held by one provider at most, whichever tabs assign, edit,     *)
(* delete and create in whatever order and whatever fails, as long as no    *)
(* handler wrote roles on other holdings than it had read.                  *)
HeldByOne == unguarded \/ Exclusive(table)

(* The message that a role was assigned is true: the chosen provider holds  *)
(* it, and nobody else; provided that the list the two requests were        *)
(* computed from was the table's and nothing else changed the table since.  *)
SuccessIsTrue ==
  \A i \in sound : phase[i] = "told" =>
    Holders(table, call[i].role) = {call[i].target} \ {NoProvider}

(* A tab whose own operation was the last to change the table displays the  *)
(* table once its answers have come, unless one of them was a failure or    *)
(* its lists overtook each other.                                           *)
SettledIsCurrent ==
  \A t \in Tabs \ excused :
    writer = t /\ (\A i \in Calls : phase[i] # "free" => call[i].tab # t)
      => shown[t] = table
=============================================================================
