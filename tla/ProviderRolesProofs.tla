------------------------ MODULE ProviderRolesProofs -------------------------
(***************************************************************************)
(* Theorems about ProviderRoles, for any providers, roles, tabs, calls,    *)
(* faults and demonstration's list.                                        *)
(***************************************************************************)
EXTENDS ProviderRoles, TLAPS

LEMMA ListedIntro ==
  ASSUME NEW S \in SUBSET Providers, NEW f \in [S -> SUBSET Roles]
  PROVE  f \in Listed
  BY DEF Listed

LEMMA ListedElim ==
  ASSUME NEW f \in Listed
  PROVE  /\ DOMAIN f \subseteq Providers
         /\ f \in [DOMAIN f -> SUBSET Roles]
         /\ \A p \in DOMAIN f : f[p] \subseteq Roles
<1>1. PICK S \in SUBSET Providers : f \in [S -> SUBSET Roles]
  BY DEF Listed
<1> QED BY <1>1

LEMMA NoRowsListed == NoRows \in Listed /\ DOMAIN NoRows = {}
<1>1. NoRows \in [{} -> SUBSET Roles] /\ {} \in SUBSET Providers /\ DOMAIN NoRows = {}
  BY DEF NoRows
<1> QED BY <1>1, ListedIntro

LEMMA NotAProvider == NoProvider \notin Providers
  BY DEF NoProvider, Providers

-----------------------------------------------------------------------------
(* What a request names was on the list it was computed from.               *)
OfCall(i) ==
  /\ phase[i] # "free" => call[i].tab \in Tabs
  /\ call[i].kind = "assign" =>
       /\ call[i].role \in Roles
       /\ IsFirst(call[i].base, call[i].role, call[i].holder)
       /\ call[i].target \in DOMAIN call[i].base \cup {NoProvider}
       /\ phase[i] \in {"sent", "checked", "written"} => Named(i) # NoProvider
  /\ Doing(i, "edit", "checked") => call[i].target \in DOMAIN seen[i]

Simple ==
  /\ rows \in 0..MaxProviders
  /\ table \in Listed /\ DOMAIN table \subseteq 1..rows
  /\ page \in [Tabs -> {"closed", "loading", "ready"}]
  /\ shown \in [Tabs -> Listed]
  /\ savingRole \in [Tabs -> Roles \cup {NoRole}]
  /\ call \in [Calls -> CallsOfPage]
  /\ phase \in [Calls -> Phases]
  /\ seen \in [Calls -> Listed]
  /\ begun \in 0..MaxBegun /\ faults \in 0..MaxFaults
  /\ unguarded \in BOOLEAN /\ sound \subseteq Calls
  /\ writer \in Tabs \cup {NoTab} /\ excused \subseteq Tabs

Typed == Simple /\ \A i \in Calls : OfCall(i)

LEMMA HolderListed ==
  ASSUME NEW list \in Listed, NEW r, NEW h, IsFirst(list, r, h)
  PROVE  h \in DOMAIN list \cup {NoProvider}
  BY DEF IsFirst, Holders

LEMMA NamedListed ==
  ASSUME Typed, NEW i \in Calls, call[i].kind = "assign",
         phase[i] \in {"sent", "checked", "written"}
  PROVE  /\ Named(i) \in DOMAIN call[i].base
         /\ Named(i) \in Providers
         /\ Sent(i) \in SUBSET Roles
<1>1. call[i] \in CallsOfPage /\ call[i].base \in Listed
  BY DEF Typed, Simple, CallsOfPage
<1>2. OfCall(i)
  BY DEF Typed
<1>3. call[i].holder \in DOMAIN call[i].base \cup {NoProvider}
  BY <1>1, <1>2, HolderListed DEF OfCall
<1>4. Named(i) \in DOMAIN call[i].base
  BY <1>2, <1>3 DEF OfCall, Named
<1> QED BY <1>1, <1>2, <1>4, ListedElim DEF Named, Sent, OfCall

LEMMA TypedIsTypeOK == Typed => TypeOK
<1> SUFFICES ASSUME Typed PROVE TypeOK
  OBVIOUS
<1>1. \A i \in Calls :
        call[i].kind = "assign" /\ phase[i] \in {"sent", "checked", "written"} =>
          Named(i) \in DOMAIN call[i].base
  BY NamedListed
<1> QED BY <1>1 DEF Typed, Simple, OfCall, TypeOK

LEMMA NoCallTyped == NoCall \in CallsOfPage /\ NoCall.kind = "open"
  BY NoRowsListed DEF NoCall, CallsOfPage, Kinds

LEMMA InitTyped == Init => Typed
<1> SUFFICES ASSUME Init PROVE Typed
  OBVIOUS
<1>1. 0 \in 0..MaxBegun /\ 0 \in 0..MaxFaults
  BY ConstantsAssumption
<1>2. Simple
  BY <1>1, NoRowsListed, NoCallTyped DEF Init, Simple, Phases
<1>3. \A i \in Calls : OfCall(i)
  BY NoCallTyped DEF Init, OfCall, Doing
<1> QED BY <1>2, <1>3 DEF Typed

(* The other calls are as they were.                                        *)
LEMMA OneCall ==
  ASSUME Typed, Simple', NEW i \in Calls, OfCall(i)',
         \A j \in Calls \ {i} :
           call'[j] = call[j] /\ phase'[j] = phase[j] /\ seen'[j] = seen[j]
  PROVE  Typed'
  BY DEF Typed, OfCall, Named, Doing

(* A step is an action of one call.                                         *)
LEMMA NextCases ==
  ASSUME Next
  PROVE  \E i \in Calls :
           \/ Check(i) \/ CheckWithoutList(i) \/ Refuse(i) \/ SetRoles(i)
           \/ ReadRow(i) \/ RowGone(i) \/ RewriteRow(i)
           \/ DropRow(i) \/ InsertRow(i) \/ ServeList(i) \/ Fail(i)
           \/ Answered(i) \/ Finish(i) \/ Loaded(i)
           \/ \E t \in Tabs :
                \/ Open(i, t) \/ Create(i, t)
                \/ \E p \in Providers : Edit(i, t, p) \/ Delete(i, t, p)
                \/ \E r \in Roles : \E p, h \in Providers \cup {NoProvider} :
                     Assign(i, t, r, p, h)
  BY DEF Next, Handle, Continue

-----------------------------------------------------------------------------
(* Type correctness, a group of actions at a time.                          *)

LEMMA BeginTypes ==
  ASSUME Typed, NEW i \in Calls, NEW c \in CallsOfPage, NEW ph \in Phases, Begin(i, c, ph)
  PROVE  /\ call' \in [Calls -> CallsOfPage] /\ phase' \in [Calls -> Phases]
         /\ seen' \in [Calls -> Listed] /\ faults' \in 0..MaxFaults
         /\ call'[i] = c /\ phase'[i] = ph
         /\ \A j \in Calls \ {i} :
              call'[j] = call[j] /\ phase'[j] = phase[j] /\ seen'[j] = seen[j]
  BY DEF Begin, Typed, Simple

LEMMA AskTypes == ASSUME Simple, Ask PROVE begun' \in 0..MaxBegun
  BY ConstantsAssumption DEF Simple, Ask

LEMMA FaultTypes == ASSUME Simple, Fault PROVE faults' \in 0..MaxFaults
  BY ConstantsAssumption DEF Simple, Fault

LEMMA OpenTypes == ASSUME Typed, NEW i \in Calls, NEW t \in Tabs, Open(i, t) PROVE Typed'
<1> DEFINE c == [NoCall EXCEPT !.tab = t]
<1>1. c \in CallsOfPage /\ c.tab = t /\ c.kind = "open" /\ "asked" \in Phases
  BY NoCallTyped DEF CallsOfPage, NoCall, Phases
<1>2. Begin(i, c, "asked")
  BY DEF Open
<1> HIDE DEF c
<1>3. OfCall(i)'
  BY <1>1, <1>2, BeginTypes DEF OfCall, Doing
<1>4. page' \in [Tabs -> {"closed", "loading", "ready"}] /\ shown' \in [Tabs -> Listed]
  BY DemoAssumption DEF Open, Typed, Simple
<1>5. Simple'
  BY <1>1, <1>2, <1>4, BeginTypes DEF Open, Typed, Simple, server, history
<1> QED BY <1>1, <1>2, <1>3, <1>5, BeginTypes, OneCall

LEMMA OtherTypes ==
  ASSUME Typed, NEW i \in Calls, NEW t \in Tabs,
         Create(i, t) \/ \E p \in Providers : Edit(i, t, p) \/ Delete(i, t, p)
  PROVE  Typed'
<1>1. PICK c \in CallsOfPage : c.tab = t /\ c.kind # "assign" /\ Begin(i, c, "sent")
  <2> DEFINE c(k, x) == [NoCall EXCEPT !.kind = k, !.tab = t, !.target = x]
  <2>1. \A k \in {"edit", "delete"}, p \in Providers :
          c(k, p) \in CallsOfPage /\ c(k, p).tab = t /\ c(k, p).kind = k
    BY NoCallTyped DEF CallsOfPage, NoCall, Kinds
  <2>2. [NoCall EXCEPT !.kind = "create", !.tab = t] \in CallsOfPage
    BY NoCallTyped DEF CallsOfPage, NoCall, Kinds
  <2>3. CASE Create(i, t)
    BY <2>2, <2>3 DEF Create, NoCall
  <2>4. ASSUME NEW p \in Providers, Edit(i, t, p)
        PROVE  \E d \in CallsOfPage : d.tab = t /\ d.kind # "assign" /\ Begin(i, d, "sent")
    BY <2>1, <2>4 DEF Edit
  <2>5. ASSUME NEW p \in Providers, Delete(i, t, p)
        PROVE  \E d \in CallsOfPage : d.tab = t /\ d.kind # "assign" /\ Begin(i, d, "sent")
    BY <2>1, <2>5 DEF Delete
  <2> QED BY <2>3, <2>4, <2>5
<1>2. "sent" \in Phases
  BY DEF Phases
<1>3. OfCall(i)'
  BY <1>1, <1>2, BeginTypes DEF OfCall, Doing
<1>4. Ask /\ UNCHANGED <<server, console, history>>
  BY DEF Create, Edit, Delete
<1>5. Simple'
  BY <1>1, <1>2, <1>4, BeginTypes, AskTypes DEF Typed, Simple, server, console, history
<1> QED BY <1>1, <1>2, <1>3, <1>5, BeginTypes, OneCall

LEMMA AssignTypes ==
  ASSUME Typed, NEW i \in Calls, NEW t \in Tabs, NEW r \in Roles,
         NEW p \in Providers \cup {NoProvider}, NEW h \in Providers \cup {NoProvider},
         Assign(i, t, r, p, h)
  PROVE  Typed'
<1> DEFINE part == IF h = NoProvider THEN "add" ELSE "remove"
           c == [kind |-> "assign", tab |-> t, role |-> r, holder |-> h, target |-> p,
                 part |-> part, base |-> shown[t]]
           ph == IF h = NoProvider /\ p = NoProvider THEN "told" ELSE "sent"
<1>1. c \in CallsOfPage /\ ph \in Phases
  BY DEF CallsOfPage, Kinds, Phases, Typed, Simple
<1>2. Begin(i, c, ph) /\ IsFirst(shown[t], r, h) /\ p \in DOMAIN shown[t] \cup {NoProvider}
  BY DEF Assign
<1>3. /\ c.tab = t /\ c.kind = "assign" /\ c.role = r /\ c.holder = h
      /\ c.target = p /\ c.base = shown[t] /\ c.part = part
  OBVIOUS
<1>4. ph # "told" => (IF part = "remove" THEN h ELSE p) # NoProvider
  OBVIOUS
<1> HIDE DEF c, ph
<1>5. call'[i] = c /\ phase'[i] = ph
  BY <1>1, <1>2, BeginTypes
<1>6. OfCall(i)'
  BY <1>2, <1>3, <1>4, <1>5 DEF OfCall, Named, Doing
<1>7. Simple'
  BY <1>1, <1>2, BeginTypes, AskTypes DEF Assign, Typed, Simple, server
<1> QED BY <1>1, <1>2, <1>6, <1>7, BeginTypes, OneCall

(* A write: the row named is changed, taken away or added.                  *)
LEMMA WithListed ==
  ASSUME Typed, NEW x, NEW roles \in SUBSET Roles
  PROVE  With(x, roles) \in Listed /\ DOMAIN With(x, roles) = DOMAIN table
<1>1. table \in Listed
  BY DEF Typed, Simple
<1>2. With(x, roles) \in [DOMAIN table -> SUBSET Roles]
  BY <1>1, ListedElim DEF With
<1> QED BY <1>1, <1>2, ListedElim, ListedIntro DEF With

LEMMA WriteTypes ==
  ASSUME Typed, NEW i \in Calls, NEW new \in Listed, Write(i, new),
         phase[i] \in {"sent", "checked"},
         rows' \in 0..MaxProviders, DOMAIN new \subseteq 1..rows', unguarded' \in BOOLEAN
  PROVE  Typed'
<1>1. call[i].tab \in Tabs
  BY DEF Typed, OfCall
<1>2. Simple'
  BY <1>1 DEF Write, Typed, Simple, Phases, console, bounds
<1>3. OfCall(i)'
  BY DEF Write, Typed, Simple, OfCall, Named, Doing
<1> QED BY <1>2, <1>3, OneCall DEF Write, Typed, Simple

LEMMA WriterTypes ==
  ASSUME Typed, NEW i \in Calls,
         SetRoles(i) \/ RewriteRow(i) \/ DropRow(i) \/ InsertRow(i)
  PROVE  Typed'
<1>1. /\ table \in Listed /\ DOMAIN table \subseteq 1..rows /\ rows \in 0..MaxProviders
      /\ unguarded \in BOOLEAN /\ MaxProviders \in Nat
      /\ \A p \in DOMAIN table : table[p] \in SUBSET Roles
  BY ConstantsAssumption, ListedElim DEF Typed, Simple
<1>2. CASE SetRoles(i)
  <2>1. With(Named(i), Sent(i)) \in Listed /\ DOMAIN With(Named(i), Sent(i)) = DOMAIN table
    BY <1>2, NamedListed, WithListed DEF SetRoles, Doing
  <2>2. phase[i] = "checked" /\ rows' = rows /\ unguarded' \in BOOLEAN
    BY <1>1, <1>2 DEF SetRoles, Doing
  <2> QED BY <1>1, <1>2, <2>1, <2>2, WriteTypes DEF SetRoles
<1>3. CASE RewriteRow(i)
  <2> DEFINE x == call[i].target
  <2>1. seen[i] \in Listed /\ x \in DOMAIN seen[i]
    BY <1>3 DEF RewriteRow, Typed, Simple, OfCall
  <2>2. With(x, seen[i][x]) \in Listed /\ DOMAIN With(x, seen[i][x]) = DOMAIN table
    BY <2>1, ListedElim, WithListed
  <2>3. phase[i] = "checked" /\ rows' = rows /\ unguarded' \in BOOLEAN
    BY <1>1, <1>3 DEF RewriteRow, Doing
  <2> QED BY <1>1, <1>3, <2>2, <2>3, WriteTypes DEF RewriteRow
<1>4. CASE DropRow(i)
  <2> DEFINE rest == DOMAIN table \ {call[i].target}
             new == [p \in rest |-> table[p]]
  <2>1. rest \in SUBSET Providers
    BY <1>1, ListedElim
  <2>2. new \in [rest -> SUBSET Roles]
    BY <1>1
  <2>3. new \in Listed /\ DOMAIN new \subseteq 1..rows
    BY <1>1, <2>1, <2>2, ListedIntro
  <2>4. phase[i] = "sent" /\ rows' = rows /\ unguarded' \in BOOLEAN /\ Write(i, new)
    BY <1>1, <1>4 DEF DropRow, Doing
  <2> HIDE DEF new
  <2> QED BY <1>1, <2>3, <2>4, WriteTypes
<1>5. CASE InsertRow(i)
  <2> DEFINE more == DOMAIN table \cup {rows + 1}
             new == [p \in more |-> IF p = rows + 1 THEN {} ELSE table[p]]
  <2>0. rows + 1 \in 1..MaxProviders /\ rows' = rows + 1
    BY <1>1, <1>5 DEF InsertRow
  <2>1. more \in SUBSET Providers
    BY <1>1, <2>0, ListedElim DEF Providers
  <2>2. new \in [more -> SUBSET Roles]
    BY <1>1
  <2>3. DOMAIN new \subseteq 1..rows'
    <3>1. 1..rows \subseteq 1..rows' /\ rows + 1 \in 1..rows'
      BY <1>1, <2>0
    <3> QED BY <1>1, <2>0, <3>1
  <2>4. /\ phase[i] = "sent" /\ rows' \in 0..MaxProviders /\ unguarded' \in BOOLEAN
        /\ Write(i, new)
    BY <1>1, <1>5, <2>0 DEF InsertRow, Doing
  <2>5. new \in Listed
    BY <2>1, <2>2, ListedIntro
  <2> HIDE DEF new
  <2> QED BY <2>3, <2>4, <2>5, WriteTypes
<1> QED BY <1>2, <1>3, <1>4, <1>5

LEMMA ReadTypes ==
  ASSUME Typed, NEW i \in Calls,
         Check(i) \/ CheckWithoutList(i) \/ ReadRow(i) \/ ServeList(i)
  PROVE  Typed'
<1>1. table \in Listed /\ "checked" \in Phases /\ "served" \in Phases
  BY DEF Typed, Simple, Phases
<1>2. CASE ServeList(i)
  <2>1. Simple'
    BY <1>1, <1>2 DEF ServeList, Typed, Simple, server, console, bounds, history
  <2>2. OfCall(i)'
    BY <1>2 DEF ServeList, Typed, Simple, OfCall, Doing
  <2> QED BY <1>2, <2>1, <2>2, OneCall DEF ServeList, Typed, Simple
<1>3. ASSUME NEW list \in Listed, Read(i, list), faults' \in 0..MaxFaults,
             phase[i] = "sent",
             call[i].kind = "assign" \/ call[i].target \in DOMAIN list
      PROVE  Typed'
  <2>1. Simple'
    BY <1>1, <1>3 DEF Read, Typed, Simple, server, console, history
  <2>2. OfCall(i)'
    BY <1>3 DEF Read, Typed, Simple, OfCall, Doing, Named
  <2> QED BY <1>3, <2>1, <2>2, OneCall DEF Read, Typed, Simple
<1>4. faults \in 0..MaxFaults
  BY DEF Typed, Simple
<1>5. CASE Check(i)
  BY <1>1, <1>3, <1>4, <1>5 DEF Check, Doing
<1>6. CASE CheckWithoutList(i)
  BY <1>3, <1>6, NoRowsListed, FaultTypes DEF CheckWithoutList, Doing, Typed
<1>7. CASE ReadRow(i)
  <2> DEFINE x == call[i].target
             row == [p \in {x} |-> table[p]]
  <2>1. x \in DOMAIN table /\ x \in Providers
    BY <1>1, <1>7, ListedElim DEF ReadRow
  <2>2. {x} \in SUBSET Providers /\ row \in [{x} -> SUBSET Roles]
    BY <1>1, <2>1, ListedElim
  <2>3. row \in Listed /\ x \in DOMAIN row
    BY <2>2, ListedIntro
  <2>4. Read(i, row) /\ phase[i] = "sent" /\ faults' = faults
    BY <1>7 DEF ReadRow, Doing
  <2> HIDE DEF row
  <2> QED BY <1>3, <1>4, <2>3, <2>4
<1> QED BY <1>2, <1>5, <1>6, <1>7

LEMMA EndTypes ==
  ASSUME Typed, NEW i \in Calls, End(i)
  PROVE  /\ call' \in [Calls -> CallsOfPage] /\ phase' \in [Calls -> Phases]
         /\ seen' \in [Calls -> Listed] /\ sound' \subseteq Calls
         /\ OfCall(i)'
         /\ \A j \in Calls \ {i} :
              call'[j] = call[j] /\ phase'[j] = phase[j] /\ seen'[j] = seen[j]
  BY NoCallTyped, NoRowsListed DEF End, Typed, Simple, OfCall, Phases, Doing

LEMMA FailsTypes ==
  ASSUME Typed, NEW i \in Calls, Fails(i), phase[i] # "free", faults' \in 0..MaxFaults
  PROVE  Typed'
<1>1. call[i].tab \in Tabs /\ "failed" \in Phases
  BY DEF Typed, OfCall, Phases
<1>2. CASE call[i].kind = "assign"
  <2>1. Simple'
    BY <1>1, <1>2 DEF Fails, Typed, Simple, server, console
  <2>2. OfCall(i)'
    BY <1>2 DEF Fails, Typed, Simple, OfCall, Doing
  <2> QED BY <1>2, <2>1, <2>2, OneCall DEF Fails, Typed, Simple
<1>3. CASE call[i].kind # "assign"
  <2>1. End(i)
    BY <1>3 DEF Fails
  <2>2. Simple'
    BY <1>1, <2>1, EndTypes DEF Fails, Typed, Simple, server, console
  <2> QED BY <2>1, <2>2, EndTypes, OneCall
<1> QED BY <1>2, <1>3

LEMMA FailureTypes ==
  ASSUME Typed, NEW i \in Calls, Refuse(i) \/ RowGone(i) \/ Fail(i)
  PROVE  Typed'
<1>1. faults \in 0..MaxFaults
  BY DEF Typed, Simple
<1> QED BY <1>1, FailsTypes, FaultTypes DEF Refuse, RowGone, Fail, Doing, Typed

LEMMA ReloadTypes ==
  ASSUME Typed, NEW i \in Calls, Reload(i), phase[i] # "free",
         savingRole' \in [Tabs -> Roles \cup {NoRole}]
  PROVE  Typed'
<1>1. call[i].tab \in Tabs /\ "asked" \in Phases
  BY DEF Typed, OfCall, Phases
<1>2. Simple'
  BY <1>1, NoRowsListed DEF Reload, Typed, Simple, server, bounds
<1>3. OfCall(i)'
  BY <1>1 DEF Reload, Typed, Simple, OfCall, Doing
<1> QED BY <1>2, <1>3, OneCall DEF Reload, Typed, Simple

LEMMA AnsweredTypes ==
  ASSUME Typed, NEW i \in Calls, Answered(i)
  PROVE  Typed'
<1>1. CASE AddFollows(i)
  <2>1. /\ call' = [call EXCEPT ![i].part = "add"]
        /\ phase' = [phase EXCEPT ![i] = "sent"]
        /\ seen' = [seen EXCEPT ![i] = NoRows]
        /\ UNCHANGED <<server, console, bounds, history>>
    BY <1>1 DEF Answered
  <2>2. call[i] \in CallsOfPage /\ "sent" \in Phases
    BY DEF Typed, Simple, Phases
  <2>3. [call[i] EXCEPT !.part = "add"] \in CallsOfPage
    BY <2>2 DEF CallsOfPage
  <2>4. call' \in [Calls -> CallsOfPage] /\ call'[i] = [call[i] EXCEPT !.part = "add"]
    BY <2>1, <2>3 DEF Typed, Simple
  <2>5. Simple'
    BY <2>1, <2>2, <2>4, NoRowsListed DEF Typed, Simple, server, console, bounds, history
  <2>6. /\ call'[i].kind = call[i].kind /\ call'[i].tab = call[i].tab
        /\ call'[i].role = call[i].role /\ call'[i].holder = call[i].holder
        /\ call'[i].target = call[i].target /\ call'[i].base = call[i].base
        /\ call'[i].part = "add"
    BY <2>2, <2>4 DEF CallsOfPage
  <2>7. phase'[i] = "sent" /\ phase[i] = "written"
    BY <1>1, <2>1 DEF Answered, Typed, Simple
  <2>8. OfCall(i)'
    BY <1>1, <2>6, <2>7 DEF Typed, OfCall, AddFollows, Named, Doing
  <2> QED BY <2>1, <2>5, <2>8, OneCall DEF Typed, Simple
<1>2. CASE ~AddFollows(i) /\ call[i].kind = "assign"
  <2>1. Told(i) /\ phase[i] = "written" /\ "told" \in Phases
    BY <1>2 DEF Answered, Phases
  <2>2. Simple'
    BY <2>1 DEF Told, Typed, Simple, server, console, bounds, history
  <2>3. OfCall(i)'
    BY <2>1 DEF Told, Typed, Simple, OfCall, Doing
  <2> QED BY <2>1, <2>2, <2>3, OneCall DEF Told, Typed, Simple
<1>3. CASE ~AddFollows(i) /\ call[i].kind # "assign"
  BY <1>3, ReloadTypes DEF Answered, Typed, Simple
<1> QED BY <1>1, <1>2, <1>3

LEMMA FinishTypes ==
  ASSUME Typed, NEW i \in Calls, Finish(i)
  PROVE  Typed'
<1>1. phase[i] # "free" /\ call[i].tab \in Tabs
  BY DEF Finish, Typed, OfCall
<1>2. savingRole' \in [Tabs -> Roles \cup {NoRole}]
  BY <1>1 DEF Finish, Typed, Simple
<1>3. CASE phase[i] = "told"
  BY <1>1, <1>2, <1>3, ReloadTypes DEF Finish
<1>4. CASE phase[i] # "told"
  <2>1. End(i) /\ UNCHANGED <<server, page, shown, bounds, unguarded, writer, excused>>
    BY <1>4 DEF Finish
  <2>2. Simple'
    BY <1>2, <2>1, EndTypes DEF Typed, Simple, server, bounds
  <2> QED BY <2>1, <2>2, EndTypes, OneCall
<1> QED BY <1>3, <1>4

LEMMA LoadedTypes ==
  ASSUME Typed, NEW i \in Calls, Loaded(i)
  PROVE  Typed'
<1>1. End(i) /\ call[i].tab \in Tabs /\ seen[i] \in Listed
  BY DEF Loaded, Loading, Typed, OfCall, Simple
<1>2. /\ page' \in [Tabs -> {"closed", "loading", "ready"}]
      /\ shown' \in [Tabs -> Listed] /\ excused' \subseteq Tabs /\ faults' \in 0..MaxFaults
  BY <1>1, FaultTypes DEF Loaded, Typed, Simple
<1>3. Simple'
  BY <1>1, <1>2, EndTypes DEF Loaded, Typed, Simple, server
<1> QED BY <1>1, <1>3, EndTypes, OneCall

LEMMA StutterTypes == ASSUME Typed, UNCHANGED vars PROVE Typed'
  BY DEF Typed, Simple, OfCall, Named, Doing, vars, server, console, bounds, history

LEMMA NextTypes == ASSUME Typed, [Next]_vars PROVE Typed'
<1>1. CASE UNCHANGED vars
  BY <1>1, StutterTypes
<1>2. CASE Next
  BY <1>2, NextCases, OpenTypes, OtherTypes, AssignTypes, WriterTypes, ReadTypes,
     FailureTypes, AnsweredTypes, FinishTypes, LoadedTypes, ZenonT(30)
<1> QED BY <1>1, <1>2

(* Rows, lists, calls and their histories keep their types, and every        *)
(* request names a provider of the list it was computed from.                *)
THEOREM TypeCorrect == Spec => []TypeOK
<1>1. Spec => []Typed
  BY InitTyped, NextTypes, PTL DEF Spec
<1> QED BY <1>1, TypedIsTypeOK, PTL

-----------------------------------------------------------------------------
(* What a step does to the table, and to the calls it is not a step of.      *)
Writer(i) == SetRoles(i) \/ RewriteRow(i) \/ DropRow(i) \/ InsertRow(i)

Others(i) ==
  \A j \in Calls \ {i} : call'[j] = call[j] /\ phase'[j] = phase[j] /\ seen'[j] = seen[j]

LEMMA WriteOthers ==
  ASSUME Typed, NEW i \in Calls, NEW new, Write(i, new)
  PROVE  Others(i) /\ call'[i] = call[i] /\ phase'[i] = "written" /\ seen'[i] = seen[i]
  BY DEF Write, Others, Typed, Simple

LEMMA EndOthers ==
  ASSUME Typed, NEW i \in Calls, End(i)
  PROVE  Others(i) /\ phase'[i] = "free" /\ call'[i] = NoCall /\ sound' = sound \ {i}
  BY DEF End, Others, Typed, Simple

LEMMA ReloadOthers ==
  ASSUME Typed, NEW i \in Calls, Reload(i)
  PROVE  /\ Others(i) /\ call'[i] = call[i] /\ phase'[i] = "asked" /\ sound' = sound \ {i}
         /\ UNCHANGED <<server, page, shown, bounds, unguarded, writer>>
  BY DEF Reload, Others, Typed, Simple

LEMMA FailsOthers ==
  ASSUME Typed, NEW i \in Calls, Fails(i)
  PROVE  /\ Others(i) /\ phase'[i] \in {"failed", "free"} /\ sound' = sound \ {i}
         /\ excused' = excused \cup {call[i].tab}
         /\ UNCHANGED <<server, console, unguarded, writer>>
<1>1. CASE call[i].kind = "assign"
  BY <1>1 DEF Fails, Others, Typed, Simple
<1>2. CASE call[i].kind # "assign"
  BY <1>2, EndOthers DEF Fails
<1> QED BY <1>1, <1>2

LEMMA BeginOthers ==
  ASSUME Typed, NEW i \in Calls, NEW c, NEW ph, Begin(i, c, ph)
  PROVE  Others(i) /\ call'[i] = c /\ phase'[i] = ph /\ phase[i] = "free"
  BY DEF Begin, Others, Typed, Simple

-----------------------------------------------------------------------------
(* One holder.  A handler that passed the check read a list in which nobody  *)
(* else holds what it is about to write; if it still is the table's, writing *)
(* keeps the holders apart.                                                  *)
Passed(i) ==
  Doing(i, "assign", "checked") => ~Conflict(i, seen[i])

OneHolder == HeldByOne /\ \A i \in Calls : Passed(i)

LEMMA WithKeepsApart ==
  ASSUME Exclusive(table), NEW x, NEW roles,
         \A p \in DOMAIN table \ {x} : table[p] \cap roles = {}
  PROVE  Exclusive(With(x, roles))
  BY DEF Exclusive, Holders, With

LEMMA SetRolesApart ==
  ASSUME Typed, OneHolder, NEW i \in Calls, SetRoles(i)
  PROVE  HeldByOne'
<1> SUFFICES ASSUME ~unguarded' PROVE Exclusive(table)'
  BY DEF HeldByOne
<1>1. Exclusive(table) /\ Held(seen[i]) = Held(table) /\ ~Conflict(i, seen[i])
  BY DEF SetRoles, OneHolder, HeldByOne, Passed
<1>2. Sent(i) \subseteq Roles
  BY NamedListed DEF SetRoles, Doing
<1>3. ASSUME NEW p \in DOMAIN table \ {Named(i)}, NEW r \in table[p] \cap Sent(i)
      PROVE  FALSE
  <2>1. <<p, r>> \in Held(table)
    BY <1>2, <1>3 DEF Held
  <2>2. p \in DOMAIN seen[i] /\ r \in seen[i][p]
    BY <1>1, <2>1 DEF Held
  <2> QED BY <1>1, <1>3, <2>2 DEF Conflict
<1>4. table' = With(Named(i), Sent(i))
  BY DEF SetRoles, Write
<1>5. Exclusive(With(Named(i), Sent(i)))
  BY <1>1, <1>3, WithKeepsApart
<1> QED BY <1>4, <1>5 DEF Exclusive, Holders

LEMMA RewriteApart ==
  ASSUME Typed, OneHolder, NEW i \in Calls, RewriteRow(i)
  PROVE  HeldByOne'
<1> SUFFICES ASSUME ~unguarded' PROVE Exclusive(table)'
  BY DEF HeldByOne
<1> DEFINE x == call[i].target
<1>1. Exclusive(table) /\ (x \in DOMAIN table => table[x] = seen[i][x])
  BY DEF RewriteRow, OneHolder, HeldByOne
<1>2. table \in [DOMAIN table -> SUBSET Roles]
  BY ListedElim DEF Typed, Simple
<1>3. With(x, seen[i][x]) = table
  BY <1>1, <1>2 DEF With
<1>4. table' = table
  BY <1>3 DEF RewriteRow, Write
<1> QED BY <1>1, <1>4 DEF Exclusive, Holders

LEMMA WriterOne ==
  ASSUME Typed, OneHolder, NEW i \in Calls, Writer(i)
  PROVE  OneHolder'
<1>1. PICK new : Write(i, new)
  BY DEF Writer, SetRoles, RewriteRow, DropRow, InsertRow
<1>2. \A j \in Calls : Passed(j)'
  BY <1>1, WriteOthers DEF OneHolder, Passed, Others, Doing, Conflict, Named, Sent
<1>3. HeldByOne'
  <2>1. CASE DropRow(i)
    BY <2>1 DEF DropRow, Write, OneHolder, HeldByOne, Exclusive, Holders
  <2>2. CASE InsertRow(i)
    BY <2>2 DEF InsertRow, Write, OneHolder, HeldByOne, Exclusive, Holders
  <2> QED BY <2>1, <2>2, SetRolesApart, RewriteApart DEF Writer
<1> QED BY <1>2, <1>3 DEF OneHolder

(* Every other step leaves the table alone.                                  *)
LEMMA SameTableOne ==
  ASSUME Typed, OneHolder, NEW i \in Calls, Others(i), Passed(i)', UNCHANGED <<table, unguarded>>
  PROVE  OneHolder'
<1>1. HeldByOne'
  BY DEF OneHolder, HeldByOne, Exclusive, Holders
<1>2. \A j \in Calls : Passed(j)'
  BY DEF OneHolder, Passed, Others, Doing, Conflict, Named, Sent
<1> QED BY <1>1, <1>2 DEF OneHolder

LEMMA CheckOne ==
  ASSUME Typed, OneHolder, NEW i \in Calls,
         Check(i) \/ CheckWithoutList(i) \/ ReadRow(i) \/ ServeList(i)
  PROVE  OneHolder'
<1>1. Others(i) /\ UNCHANGED <<table, unguarded>>
  BY DEF Check, CheckWithoutList, ReadRow, ServeList, Read, Others, Typed, Simple, server, history
<1>2. CASE Check(i)
  <2>1. seen'[i] = table /\ call' = call
    BY <1>2 DEF Check, Read, Typed, Simple
  <2>2. Passed(i)'
    BY <1>2, <2>1 DEF Check, Passed, Conflict, Named, Sent
  <2> QED BY <1>1, <2>2, SameTableOne
<1>3. CASE CheckWithoutList(i)
  <2>1. seen'[i] = NoRows
    BY <1>3 DEF CheckWithoutList, Read, Typed, Simple
  <2>2. Passed(i)'
    BY <2>1, NoRowsListed DEF Passed, Conflict
  <2> QED BY <1>1, <2>2, SameTableOne
<1>4. CASE ReadRow(i)
  <2>1. Passed(i)'
    BY <1>4 DEF ReadRow, Read, Passed, Doing
  <2> QED BY <1>1, <2>1, SameTableOne
<1>5. CASE ServeList(i)
  <2>1. Passed(i)'
    BY <1>5 DEF ServeList, Passed, Doing, Typed, Simple
  <2> QED BY <1>1, <2>1, SameTableOne
<1> QED BY <1>2, <1>3, <1>4, <1>5

LEMMA AnswerOne ==
  ASSUME Typed, OneHolder, NEW i \in Calls,
         Refuse(i) \/ RowGone(i) \/ Fail(i) \/ Answered(i) \/ Finish(i) \/ Loaded(i)
  PROVE  OneHolder'
<1>1. CASE Fails(i)
  BY <1>1, FailsOthers, SameTableOne DEF Passed, Doing, server
<1>2. ASSUME Reload(i) PROVE OneHolder'
  BY <1>2, ReloadOthers, SameTableOne DEF Passed, Doing, server
<1>3. ASSUME End(i), UNCHANGED <<table, unguarded>> PROVE OneHolder'
  BY <1>3, EndOthers, SameTableOne DEF Passed, Doing
<1>4. CASE Answered(i)
  <2>1. CASE AddFollows(i)
    <3>1. phase'[i] = "sent" /\ Others(i) /\ UNCHANGED <<table, unguarded>>
      BY <1>4, <2>1 DEF Answered, Others, Typed, Simple, server, history
    <3> QED BY <3>1, SameTableOne DEF Passed, Doing
  <2>2. CASE ~AddFollows(i) /\ call[i].kind = "assign"
    <3>1. phase'[i] = "told" /\ Others(i) /\ UNCHANGED <<table, unguarded>>
      BY <1>4, <2>2 DEF Answered, Told, Others, Typed, Simple, server, history
    <3> QED BY <3>1, SameTableOne DEF Passed, Doing
  <2> QED BY <1>2, <1>4, <2>1, <2>2 DEF Answered
<1>5. CASE Finish(i)
  BY <1>2, <1>3, <1>5 DEF Finish, server
<1>6. CASE Loaded(i)
  BY <1>3, <1>6 DEF Loaded, server
<1> QED BY <1>1, <1>4, <1>5, <1>6 DEF Refuse, RowGone, Fail

LEMMA BeginOne ==
  ASSUME Typed, OneHolder, NEW i \in Calls, NEW c, NEW ph, Begin(i, c, ph),
         ph # "checked", UNCHANGED <<table, unguarded>>
  PROVE  OneHolder'
  BY BeginOthers, SameTableOne DEF Passed, Doing

(* What begins, whoever begins it.                                           *)
Begins(i, t) ==
  \/ Open(i, t) \/ Create(i, t)
  \/ \E p \in Providers : Edit(i, t, p) \/ Delete(i, t, p)
  \/ \E r \in Roles : \E p, h \in Providers \cup {NoProvider} : Assign(i, t, r, p, h)

LEMMA BeginsOthers ==
  ASSUME Typed, NEW i \in Calls, NEW t \in Tabs, Begins(i, t)
  PROVE  /\ Others(i) /\ phase[i] = "free" /\ phase'[i] \in {"asked", "sent", "told"}
         /\ call'[i].tab = t
         /\ UNCHANGED <<server, unguarded, writer, excused>>
<1>1. CASE Open(i, t)
  BY <1>1, BeginOthers DEF Open, NoCall, history
<1>2. ASSUME NEW p \in Providers, NEW k \in Kinds,
             Begin(i, [NoCall EXCEPT !.kind = k, !.tab = t, !.target = p], "sent")
      PROVE  Others(i) /\ phase[i] = "free" /\ phase'[i] = "sent" /\ call'[i].tab = t
  <2>1. [NoCall EXCEPT !.kind = k, !.tab = t, !.target = p].tab = t
    BY DEF NoCall
  <2> QED BY <1>2, <2>1, BeginOthers
<1>3. ASSUME NEW p \in Providers, Edit(i, t, p) \/ Delete(i, t, p)
      PROVE  /\ Others(i) /\ phase[i] = "free" /\ phase'[i] = "sent" /\ call'[i].tab = t
             /\ UNCHANGED <<server, unguarded, writer, excused>>
  BY <1>2, <1>3 DEF Edit, Delete, Kinds, history
<1>5. CASE Create(i, t)
  <2>1. [NoCall EXCEPT !.kind = "create", !.tab = t].tab = t
    BY DEF NoCall
  <2>2. Begin(i, [NoCall EXCEPT !.kind = "create", !.tab = t], "sent")
    BY <1>5 DEF Create
  <2>3. Others(i) /\ phase[i] = "free" /\ phase'[i] = "sent" /\ call'[i].tab = t
    BY <2>1, <2>2, BeginOthers
  <2> QED BY <1>5, <2>3 DEF Create, history
<1>4. ASSUME NEW r \in Roles, NEW p \in Providers \cup {NoProvider},
             NEW h \in Providers \cup {NoProvider}, Assign(i, t, r, p, h)
      PROVE  /\ Others(i) /\ phase[i] = "free" /\ phase'[i] \in {"sent", "told"}
             /\ call'[i].tab = t
             /\ UNCHANGED <<server, unguarded, writer, excused>>
  BY <1>4, BeginOthers DEF Assign
<1> QED BY <1>1, <1>3, <1>4, <1>5 DEF Begins

LEMMA Cases ==
  ASSUME Next
  PROVE  \E i \in Calls :
           \/ Writer(i)
           \/ Check(i) \/ CheckWithoutList(i) \/ ReadRow(i) \/ ServeList(i)
           \/ Refuse(i) \/ RowGone(i) \/ Fail(i) \/ Answered(i) \/ Finish(i) \/ Loaded(i)
           \/ \E t \in Tabs : Begins(i, t)
  BY NextCases DEF Writer, Begins

LEMMA BeginsOne ==
  ASSUME Typed, OneHolder, NEW i \in Calls, NEW t \in Tabs, Begins(i, t)
  PROVE  OneHolder'
<1>1. Passed(i)'
  BY BeginsOthers DEF Passed, Doing
<1> QED BY <1>1, BeginsOthers, SameTableOne DEF server

LEMMA NextOne == ASSUME Typed, OneHolder, [Next]_vars PROVE OneHolder'
<1>1. CASE UNCHANGED vars
  BY <1>1 DEF OneHolder, HeldByOne, Passed, Exclusive, Holders, Conflict, Named, Sent, Doing,
              vars, server, history
<1>2. CASE Next
  BY <1>2, Cases, WriterOne, CheckOne, AnswerOne, BeginsOne
<1> QED BY <1>1, <1>2

(* No role has two holders unless roles were written on other holdings than  *)
(* the handler had read, whoever does what in whatever order.                *)
THEOREM OneHolderEach == Spec => []HeldByOne
<1>1. Init => OneHolder
  BY DEF Init, OneHolder, HeldByOne, Passed, Doing
<1>2. OneHolder => HeldByOne
  BY DEF OneHolder
<1> QED BY <1>1, <1>2, InitTyped, NextTypes, NextOne, PTL DEF Spec

-----------------------------------------------------------------------------
(* True messages.  As long as an assignment is alone with the table it       *)
(* described, the table is that list, then the list without the role's       *)
(* holder, then the list with the new one.                                   *)
Sound(i) ==
  LET c == call[i] IN
  /\ c.kind = "assign" /\ phase[i] \in {"sent", "checked", "written", "told"}
  /\ DOMAIN table = DOMAIN c.base
  /\ phase[i] \in {"sent", "checked"} /\ c.part = "remove" =>
       table = c.base /\ Exclusive(c.base)
  /\ phase[i] \in {"sent", "checked"} /\ c.part # "remove" => Holders(table, c.role) = {}
  /\ phase[i] = "written" /\ c.part = "remove" => Holders(table, c.role) = {}
  /\ phase[i] = "told" \/ (phase[i] = "written" /\ c.part # "remove") =>
       Holders(table, c.role) = {c.target} \ {NoProvider}

Sounds == \A i \in sound : Sound(i)

LEMMA SoundsTrue == Sounds => SuccessIsTrue
  BY DEF Sounds, Sound, SuccessIsTrue

LEMMA SameSound ==
  ASSUME NEW i, Sound(i), call'[i] = call[i], phase'[i] = phase[i], table' = table
  PROVE  Sound(i)'
  BY DEF Sound, Exclusive, Holders

LEMMA SetRolesSound ==
  ASSUME Typed, NEW i \in Calls, SetRoles(i), Sound(i)
  PROVE  Sound(i)'
<1> DEFINE c == call[i]
<1>1. /\ call'[i] = c /\ phase'[i] = "written" /\ phase[i] = "checked" /\ c.kind = "assign"
      /\ table' = With(Named(i), Sent(i))
  BY WriteOthers DEF SetRoles, Write, Doing
<1>2. /\ IsFirst(c.base, c.role, c.holder) /\ c.role \in Roles
      /\ Named(i) # NoProvider /\ Named(i) \in DOMAIN c.base
  BY <1>1, NamedListed DEF Typed, OfCall
<1>3. DOMAIN table' = DOMAIN c.base
  BY <1>1 DEF With, Sound
<1>4. CASE c.part = "remove"
  <2>1. table = c.base /\ Exclusive(c.base) /\ Named(i) = c.holder
        /\ Sent(i) = c.base[c.holder] \ {c.role}
    BY <1>1, <1>4 DEF Sound, Named, Sent
  <2>2. ASSUME NEW p \in Holders(table', c.role) PROVE FALSE
    <3>1. p \in DOMAIN table /\ p # c.holder /\ c.role \in table[p]
      BY <1>1, <2>1, <2>2 DEF Holders, With
    <3>2. p \in Holders(c.base, c.role) /\ c.holder \in Holders(c.base, c.role)
      BY <1>2, <2>1, <3>1 DEF Holders, IsFirst
    <3> QED BY <1>2, <2>1, <3>1, <3>2 DEF Exclusive
  <2>3. Holders(table', c.role) = {}
    BY <2>2
  <2>4. call'[i].part = "remove" /\ call'[i].role = c.role /\ call'[i].base = c.base
        /\ call'[i].kind = "assign" /\ phase'[i] = "written"
    BY <1>1, <1>4
  <2>5. Holders(table', call'[i].role) = {} /\ DOMAIN table' = DOMAIN call'[i].base
    BY <1>3, <2>3, <2>4
  <2> HIDE DEF c
  <2> QED BY <2>4, <2>5 DEF Sound
<1>5. CASE c.part # "remove"
  <2>1. Holders(table, c.role) = {} /\ Named(i) = c.target
        /\ Sent(i) = c.base[c.target] \cup {c.role}
    BY <1>1, <1>5 DEF Sound, Named, Sent
  <2>2. c.target \in DOMAIN table /\ c.target # NoProvider
    BY <1>2, <2>1 DEF Sound
  <2>3. Holders(table', c.role) = {c.target}
    BY <1>1, <2>1, <2>2 DEF Holders, With
  <2> QED BY <1>1, <1>3, <1>5, <2>2, <2>3 DEF Sound
<1> QED BY <1>4, <1>5

LEMMA WriterSound ==
  ASSUME Typed, Sounds, NEW i \in Calls, Writer(i)
  PROVE  Sounds'
<1>1. PICK new : Write(i, new)
  BY DEF Writer, SetRoles, RewriteRow, DropRow, InsertRow
<1>2. ASSUME NEW j \in sound', j # i PROVE Sound(j)'
  <2>1. table' = table /\ j \in sound /\ j \in Calls
    BY <1>1, <1>2 DEF Write, Typed, Simple
  <2> QED BY <1>1, <1>2, <2>1, WriteOthers, SameSound DEF Others, Sounds
<1>3. ASSUME i \in sound' PROVE Sound(i)'
  <2>1. i \in sound /\ call[i].kind = "assign"
    BY <1>1, <1>3 DEF Write, Sounds, Sound
  <2> QED BY <2>1, SetRolesSound DEF Writer, RewriteRow, DropRow, InsertRow, Doing, Sounds
<1> QED BY <1>2, <1>3 DEF Sounds

LEMMA SameTableSound ==
  ASSUME Typed, Sounds, NEW i \in Calls, Others(i), table' = table,
         \A j \in sound' : j # i => j \in sound,
         i \in sound' => Sound(i)'
  PROVE  Sounds'
<1>1. ASSUME NEW j \in sound', j # i PROVE Sound(j)'
  <2>1. j \in sound /\ j \in Calls
    BY <1>1 DEF Typed, Simple
  <2> QED BY <1>1, <2>1, SameSound DEF Others, Sounds
<1> QED BY <1>1 DEF Sounds

LEMMA CheckSound ==
  ASSUME Typed, Sounds, NEW i \in Calls,
         Check(i) \/ CheckWithoutList(i) \/ ReadRow(i) \/ ServeList(i)
  PROVE  Sounds'
<1>1. Others(i) /\ UNCHANGED <<table, sound>> /\ call'[i] = call[i]
  BY DEF Check, CheckWithoutList, ReadRow, ServeList, Read, Others, Typed, Simple, server, history
<1>2. \/ phase[i] = "sent" /\ phase'[i] = "checked"
      \/ phase[i] = "asked"
  BY DEF Check, CheckWithoutList, ReadRow, ServeList, Read, Doing, Typed, Simple
<1>3. i \in sound' => Sound(i)'
  BY <1>1, <1>2 DEF Sounds, Sound, Exclusive, Holders
<1> QED BY <1>1, <1>3, SameTableSound

LEMMA AnswerSound ==
  ASSUME Typed, Sounds, NEW i \in Calls,
         Refuse(i) \/ RowGone(i) \/ Fail(i) \/ Answered(i) \/ Finish(i) \/ Loaded(i)
  PROVE  Sounds'
<1>1. CASE Fails(i)
  BY <1>1, FailsOthers, SameTableSound DEF server
<1>2. ASSUME Reload(i) PROVE Sounds'
  BY <1>2, ReloadOthers, SameTableSound DEF server
<1>3. ASSUME End(i), UNCHANGED table PROVE Sounds'
  BY <1>3, EndOthers, SameTableSound
<1>4. CASE Answered(i)
  <2>0. phase[i] = "written"
    BY <1>4 DEF Answered
  <2>1. CASE AddFollows(i)
    <3>1. /\ phase'[i] = "sent" /\ Others(i) /\ UNCHANGED <<table, sound>>
          /\ call'[i] = [call[i] EXCEPT !.part = "add"]
      BY <1>4, <2>1 DEF Answered, Others, Typed, Simple, server, history
    <3>2. /\ call'[i].kind = call[i].kind /\ call'[i].role = call[i].role
          /\ call'[i].target = call[i].target /\ call'[i].base = call[i].base
          /\ call'[i].part = "add"
      BY <3>1 DEF Typed, Simple, CallsOfPage
    <3>3. i \in sound' => Sound(i)'
      BY <2>0, <2>1, <3>1, <3>2 DEF Sounds, Sound, Holders, AddFollows
    <3> QED BY <3>1, <3>3, SameTableSound
  <2>2. CASE ~AddFollows(i) /\ call[i].kind = "assign"
    <3>1. /\ phase'[i] = "told" /\ Others(i) /\ UNCHANGED <<table, sound>> /\ call'[i] = call[i]
      BY <1>4, <2>2 DEF Answered, Told, Others, Typed, Simple, server, history
    <3>2. i \in sound' => Sound(i)'
      BY <2>0, <2>2, <3>1 DEF Sounds, Sound, Holders, AddFollows
    <3> QED BY <3>1, <3>2, SameTableSound
  <2> QED BY <1>2, <1>4, <2>1, <2>2 DEF Answered
<1>5. CASE Finish(i)
  BY <1>2, <1>3, <1>5 DEF Finish, server
<1>6. CASE Loaded(i)
  BY <1>3, <1>6 DEF Loaded, server
<1> QED BY <1>1, <1>4, <1>5, <1>6 DEF Refuse, RowGone, Fail

LEMMA BeginsSound ==
  ASSUME Typed, Sounds, NEW i \in Calls, NEW t \in Tabs, Begins(i, t)
  PROVE  Sounds'
<1>1. Others(i) /\ table' = table /\ phase[i] = "free"
  BY BeginsOthers DEF server
<1>2. i \notin sound
  BY <1>1 DEF Sounds, Sound
<1>3. ASSUME NEW r \in Roles, NEW p \in Providers \cup {NoProvider},
             NEW h \in Providers \cup {NoProvider}, Assign(i, t, r, p, h)
      PROVE  Sounds'
  <2> DEFINE part == IF h = NoProvider THEN "add" ELSE "remove"
             c == [kind |-> "assign", tab |-> t, role |-> r, holder |-> h, target |-> p,
                   part |-> part, base |-> shown[t]]
             ph == IF h = NoProvider /\ p = NoProvider THEN "told" ELSE "sent"
  <2>1. call'[i] = c /\ phase'[i] = ph
    BY <1>3, BeginOthers DEF Assign
  <2>2. /\ c.kind = "assign" /\ c.role = r /\ c.target = p /\ c.part = part
        /\ c.base = shown[t]
    OBVIOUS
  <2>3. IsFirst(shown[t], r, h)
    BY <1>3 DEF Assign
  <2>4. h = NoProvider => Holders(shown[t], r) = {}
    <3>1. DOMAIN shown[t] \subseteq Providers
      BY ListedElim DEF Typed, Simple
    <3> QED BY <2>3, <3>1, NotAProvider DEF IsFirst, Holders
  <2> HIDE DEF c
  <2>5. i \in sound' => shown[t] = table /\ Exclusive(table)
    BY <1>2, <1>3 DEF Assign
  <2>6. i \in sound' => Sound(i)'
    BY <1>1, <2>1, <2>2, <2>4, <2>5 DEF Sound, Exclusive, Holders
  <2>7. \A j \in sound' : j # i => j \in sound
    BY <1>3 DEF Assign
  <2> QED BY <1>1, <2>6, <2>7, SameTableSound
<1>4. ASSUME UNCHANGED sound PROVE Sounds'
  BY <1>1, <1>2, <1>4, SameTableSound
<1> QED BY <1>3, <1>4 DEF Begins, Open, Create, Edit, Delete, history

LEMMA NextSound == ASSUME Typed, Sounds, [Next]_vars PROVE Sounds'
<1>1. CASE UNCHANGED vars
  BY <1>1 DEF Sounds, Sound, Exclusive, Holders, vars, server, history
<1>2. CASE Next
  BY <1>2, Cases, WriterSound, CheckSound, AnswerSound, BeginsSound
<1> QED BY <1>1, <1>2

(* When the page says that a role was assigned, the provider chosen holds it *)
(* and nobody else, for every assignment begun on the table's own contents   *)
(* with nothing else changing the table since.                               *)
THEOREM TrueMessages == Spec => []SuccessIsTrue
<1>1. Init => Sounds
  BY DEF Init, Sounds
<1> QED BY <1>1, SoundsTrue, InitTyped, NextTypes, NextSound, PTL DEF Spec

-----------------------------------------------------------------------------
(* Current lists.  For a tab without excuse one list at most is under way;   *)
(* when the tab was the last to change the table and has no operation left   *)
(* that will ask again, that list is the table or still to be read, and      *)
(* without any the table is displayed.                                       *)
ListOf(i, t) == call[i].tab = t /\ Loading(i)
Pending(t) ==
  \E i \in Calls : call[i].tab = t /\ phase[i] \in {"sent", "checked", "written", "told"}

Settled(t) ==
  t \notin excused =>
    /\ \A i, j \in Calls : ListOf(i, t) /\ ListOf(j, t) => i = j
    /\ writer = t /\ ~Pending(t) =>
         /\ \A i \in Calls : ListOf(i, t) /\ phase[i] = "served" => seen[i] = table
         /\ (\A i \in Calls : ~ListOf(i, t)) => shown[t] = table

Untouched(t) ==
  page[t] = "closed" => /\ \A i \in Calls : phase[i] # "free" => call[i].tab # t
                        /\ writer # t

Lists == \A t \in Tabs : Settled(t) /\ Untouched(t)

LEMMA ListsCurrent == Lists => SettledIsCurrent
<1> SUFFICES ASSUME Lists, NEW t \in Tabs \ excused, writer = t,
                    \A i \in Calls : phase[i] # "free" => call[i].tab # t
             PROVE  shown[t] = table
  BY DEF SettledIsCurrent
<1>1. ~Pending(t) /\ \A i \in Calls : ~ListOf(i, t)
  BY DEF Pending, ListOf, Loading
<1> QED BY <1>1 DEF Lists, Settled

(* A tab whose calls a step leaves alone.                                    *)
LEMMA OtherTab ==
  ASSUME Typed, NEW i \in Calls, Others(i), NEW t \in Tabs, Settled(t), Untouched(t),
         phase[i] # "free" => call[i].tab # t, phase'[i] # "free" => call'[i].tab # t,
         t \notin excused' => t \notin excused, page'[t] = page[t], shown'[t] = shown[t],
         \/ table' = table /\ writer' = writer
         \/ writer' # t
  PROVE  Settled(t)' /\ Untouched(t)'
<1>1. \A j \in Calls : ListOf(j, t)' <=> ListOf(j, t)
  BY DEF ListOf, Loading, Others
<1>2. Pending(t)' <=> Pending(t)
  BY DEF Pending, Others
<1>3. \A j \in Calls : ListOf(j, t) => j # i
  BY DEF ListOf, Loading
<1>4. Untouched(t)'
  BY DEF Untouched, Others
<1>5. Settled(t)'
  <2> SUFFICES ASSUME t \notin excused' PROVE Settled(t)'
    BY DEF Settled
  <2>1. \A j \in Calls : ListOf(j, t)' => phase'[j] = phase[j] /\ seen'[j] = seen[j]
    BY <1>1, <1>3 DEF Others
  <2> QED BY <1>1, <1>2, <2>1 DEF Settled
<1> QED BY <1>4, <1>5

(* The tab of the step: an operation goes on, so it will ask again.          *)
LEMMA GoesOn ==
  ASSUME Typed, NEW i \in Calls, Others(i), NEW t \in Tabs, Settled(t), Untouched(t),
         phase'[i] \in {"sent", "checked", "written", "told"}, call'[i].tab = t,
         ~Loading(i), t \notin excused' => t \notin excused, page'[t] # "closed"
  PROVE  Settled(t)' /\ Untouched(t)'
<1>1. Pending(t)'
  BY DEF Pending
<1>2. \A j \in Calls : ListOf(j, t)' => ListOf(j, t)
  BY DEF ListOf, Loading, Others
<1> QED BY <1>1, <1>2 DEF Settled, Untouched

LEMMA OpenTab ==
  ASSUME Typed, Lists, NEW i \in Calls, phase[i] # "free"
  PROVE  call[i].tab \in Tabs /\ page[call[i].tab] # "closed"
  BY DEF Typed, OfCall, Lists, Untouched

(* The other tabs, of a step of call i that displays nothing in them.        *)
LEMMA OtherTabs ==
  ASSUME Typed, Lists, NEW i \in Calls, Others(i), phase[i] # "free",
         phase'[i] # "free" => call'[i].tab = call[i].tab,
         \A t \in Tabs \ {call[i].tab} :
           /\ t \notin excused' => t \notin excused
           /\ page'[t] = page[t] /\ shown'[t] = shown[t],
         \/ table' = table /\ writer' = writer
         \/ writer' = call[i].tab
  PROVE  \A t \in Tabs \ {call[i].tab} : Settled(t)' /\ Untouched(t)'
  BY OtherTab DEF Lists

LEMMA WriterLists ==
  ASSUME Typed, Lists, NEW i \in Calls, Writer(i)
  PROVE  Lists'
<1>0. PICK u \in Tabs : u = call[i].tab
  BY OpenTab DEF Writer, SetRoles, RewriteRow, DropRow, InsertRow, Doing
<1>1. PICK new : Write(i, new)
  BY DEF Writer, SetRoles, RewriteRow, DropRow, InsertRow
<1>2. phase[i] \in {"sent", "checked"}
  BY DEF Writer, SetRoles, RewriteRow, DropRow, InsertRow, Doing
<1>3. /\ Others(i) /\ call'[i] = call[i] /\ phase'[i] = "written"
      /\ excused' = excused /\ page' = page /\ shown' = shown
      /\ (table' = table /\ writer' = writer) \/ writer' = u
  BY <1>0, <1>1, WriteOthers DEF Write, console
<1>4. Settled(u)' /\ Untouched(u)'
  <2>1. page'[u] # "closed" /\ ~Loading(i) /\ call'[i].tab = u
    BY <1>0, <1>2, <1>3, OpenTab DEF Loading
  <2> QED BY <1>3, <2>1, GoesOn DEF Lists
<1>5. \A t \in Tabs \ {u} : Settled(t)' /\ Untouched(t)'
  BY <1>0, <1>2, <1>3, OtherTabs
<1> QED BY <1>4, <1>5 DEF Lists

LEMMA CheckLists ==
  ASSUME Typed, Lists, NEW i \in Calls,
         Check(i) \/ CheckWithoutList(i) \/ ReadRow(i) \/ ServeList(i)
  PROVE  Lists'
<1>0. PICK u \in Tabs : u = call[i].tab
  BY OpenTab DEF Check, CheckWithoutList, ReadRow, ServeList, Doing
<1>1. Others(i) /\ UNCHANGED <<table, page, shown, writer, excused>> /\ call'[i] = call[i]
  BY DEF Check, CheckWithoutList, ReadRow, ServeList, Read, Others, Typed, Simple,
         server, console, history
<1>2. \/ phase[i] = "sent" /\ phase'[i] = "checked"
      \/ phase[i] = "asked" /\ phase'[i] = "served" /\ seen'[i] = table
  BY DEF Check, CheckWithoutList, ReadRow, ServeList, Read, Doing, Typed, Simple
<1>3. \A t \in Tabs \ {u} : Settled(t)' /\ Untouched(t)'
  BY <1>0, <1>1, <1>2, OtherTabs
<1>4. CASE phase'[i] = "checked"
  <2>1. Settled(u)' /\ Untouched(u)'
    BY <1>0, <1>1, <1>2, <1>4, OpenTab, GoesOn DEF Loading, Lists
  <2> QED BY <1>3, <2>1 DEF Lists
<1>5. CASE phase'[i] = "served"
  <2>1. u \in Tabs /\ page[u] # "closed" /\ Settled(u)
    BY <1>0, <1>2, <1>5, OpenTab DEF Lists
  <2>2. \A j \in Calls : ListOf(j, u)' <=> ListOf(j, u)
    BY <1>1, <1>2, <1>5 DEF ListOf, Loading, Others
  <2>3. Pending(u)' <=> Pending(u)
    BY <1>1, <1>2, <1>5 DEF Pending, Others
  <2>4. ListOf(i, u)
    BY <1>0, <1>2, <1>5 DEF ListOf, Loading
  <2>5. Settled(u)'
    BY <1>1, <1>2, <1>5, <2>1, <2>2, <2>3, <2>4 DEF Settled, Others
  <2>6. Untouched(u)'
    BY <1>1, <2>1 DEF Untouched
  <2> QED BY <1>3, <2>5, <2>6 DEF Lists
<1> QED BY <1>2, <1>4, <1>5

LEMMA FailsLists ==
  ASSUME Typed, Lists, NEW i \in Calls, Fails(i), phase[i] \in {"sent", "checked", "written"}
  PROVE  Lists'
<1>0. PICK u \in Tabs : u = call[i].tab
  BY OpenTab
<1>1. /\ Others(i) /\ excused' = excused \cup {u} /\ UNCHANGED <<table, page, shown, writer>>
      /\ phase'[i] # "free" => call'[i] = call[i]
  <2>1. phase'[i] # "free" => call'[i] = call[i]
    <3>1. CASE call[i].kind = "assign"
      BY <3>1 DEF Fails
    <3>2. CASE call[i].kind # "assign"
      BY <3>2, EndOthers DEF Fails
    <3> QED BY <3>1, <3>2
  <2> QED BY <1>0, <2>1, FailsOthers DEF server, console
<1>2. \A t \in Tabs \ {u} : Settled(t)' /\ Untouched(t)'
  BY <1>0, <1>1, OtherTabs
<1>3. Settled(u)'
  BY <1>1 DEF Settled
<1>4. Untouched(u)'
  BY <1>0, <1>1, OpenTab DEF Untouched
<1> QED BY <1>2, <1>3, <1>4 DEF Lists

LEMMA ReloadLists ==
  ASSUME Typed, Lists, NEW i \in Calls, Reload(i), phase[i] \in {"written", "told"}
  PROVE  Lists'
<1>0. PICK u \in Tabs : u = call[i].tab
  BY OpenTab
<1>1. /\ Others(i) /\ call'[i] = call[i] /\ phase'[i] = "asked"
      /\ UNCHANGED <<table, page, shown, writer>>
      /\ excused' = IF \E j \in Calls : ListOf(j, u)
                    THEN excused \cup {u} ELSE excused \ {u}
  BY <1>0, ReloadOthers DEF Reload, server, ListOf
<1>2. \A t \in Tabs \ {u} : Settled(t)' /\ Untouched(t)'
  BY <1>0, <1>1, OtherTabs
<1>3. Untouched(u)'
  BY <1>0, <1>1, OpenTab DEF Untouched
<1>4. CASE \E j \in Calls : ListOf(j, u)
  BY <1>1, <1>2, <1>3, <1>4 DEF Lists, Settled
<1>5. CASE ~\E j \in Calls : ListOf(j, u)
  <2>1. \A j \in Calls : ListOf(j, u)' <=> j = i
    BY <1>0, <1>1, <1>5 DEF ListOf, Loading, Others
  <2>2. Settled(u)'
    BY <1>1, <2>1 DEF Settled
  <2> QED BY <1>2, <1>3, <2>2 DEF Lists
<1> QED BY <1>4, <1>5

LEMMA AnsweredLists ==
  ASSUME Typed, Lists, NEW i \in Calls, Answered(i)
  PROVE  Lists'
<1>0. PICK u \in Tabs : u = call[i].tab
  BY OpenTab DEF Answered
<1>1. phase[i] = "written"
  BY DEF Answered
<1>2. CASE ~AddFollows(i) /\ call[i].kind # "assign"
  BY <1>1, <1>2, ReloadLists DEF Answered
<1>3. CASE AddFollows(i) \/ call[i].kind = "assign"
  <2>1. /\ Others(i) /\ phase'[i] \in {"sent", "told"}
        /\ UNCHANGED <<table, page, shown, writer, excused>>
    BY <1>3 DEF Answered, Told, Others, Typed, Simple, server, console, history
  <2>2. call'[i].tab = u
    BY <1>0, <1>3 DEF Answered, Told, Typed, Simple, CallsOfPage
  <2>3. \A t \in Tabs \ {u} : Settled(t)' /\ Untouched(t)'
    BY <1>0, <1>1, <2>1, <2>2, OtherTabs
  <2>4. Settled(u)' /\ Untouched(u)'
    BY <1>0, <1>1, <2>1, <2>2, OpenTab, GoesOn DEF Loading, Lists
  <2> QED BY <2>3, <2>4 DEF Lists
<1> QED BY <1>2, <1>3

LEMMA FinishLists ==
  ASSUME Typed, Lists, NEW i \in Calls, Finish(i)
  PROVE  Lists'
<1>0. PICK u \in Tabs : u = call[i].tab
  BY OpenTab DEF Finish
<1>1. CASE phase[i] = "told"
  BY <1>1, ReloadLists DEF Finish
<1>2. CASE phase[i] = "failed"
  <2>1. /\ End(i) /\ UNCHANGED <<table, page, shown, writer, excused>>
        /\ Others(i) /\ phase'[i] = "free"
    BY <1>2, EndOthers DEF Finish, server
  <2>2. \A t \in Tabs \ {u} : Settled(t)' /\ Untouched(t)'
    BY <1>0, <1>2, <2>1, OtherTabs
  <2>3. \A j \in Calls : ListOf(j, u)' <=> ListOf(j, u)
    BY <1>2, <2>1 DEF ListOf, Loading, Others
  <2>4. Pending(u)' <=> Pending(u)
    BY <1>2, <2>1 DEF Pending, Others
  <2>5. ~ListOf(i, u)
    BY <1>2 DEF ListOf, Loading
  <2>6. Settled(u)'
    BY <2>1, <2>3, <2>4, <2>5 DEF Settled, Others, Lists
  <2>7. Untouched(u)'
    BY <1>0, <1>2, <2>1, OpenTab DEF Untouched
  <2> QED BY <2>2, <2>6, <2>7 DEF Lists
<1> QED BY <1>1, <1>2 DEF Finish

LEMMA LoadedLists ==
  ASSUME Typed, Lists, NEW i \in Calls, Loaded(i)
  PROVE  Lists'
<1>0. PICK u \in Tabs : u = call[i].tab
  BY OpenTab DEF Loaded, Loading
<1>1. /\ Loading(i) /\ Others(i) /\ phase'[i] = "free"
      /\ page' = [page EXCEPT ![u] = "ready"] /\ UNCHANGED <<table, writer>>
      /\ \/ phase[i] = "served" /\ shown' = [shown EXCEPT ![u] = seen[i]] /\ excused' = excused
         \/ excused' = excused \cup {u} /\ shown' = shown
  BY <1>0, EndOthers DEF Loaded, server
<1>2. /\ page \in [Tabs -> {"closed", "loading", "ready"}] /\ shown \in [Tabs -> Listed]
      /\ phase[i] # "free"
  BY <1>1 DEF Typed, Simple, Loading
<1>3. \A t \in Tabs \ {u} : Settled(t)' /\ Untouched(t)'
  BY <1>0, <1>1, <1>2, OtherTabs
<1>4. Untouched(u)'
  BY <1>1, <1>2 DEF Untouched
<1>5. Settled(u)'
  <2> SUFFICES ASSUME u \notin excused' PROVE Settled(u)'
    BY DEF Settled
  <2>1. phase[i] = "served" /\ shown'[u] = seen[i] /\ u \notin excused
    BY <1>1, <1>2
  <2>2. ListOf(i, u)
    BY <1>0, <1>1 DEF ListOf
  <2>3. \A j \in Calls : ~ListOf(j, u)'
    <3>1. \A j \in Calls : ListOf(j, u) => j = i
      BY <2>1, <2>2 DEF Lists, Settled
    <3> QED BY <1>1, <3>1 DEF ListOf, Loading, Others
  <2>4. Pending(u) => Pending(u)'
    BY <1>1 DEF Pending, Others, Loading
  <2>5. writer = u /\ ~Pending(u) => seen[i] = table
    BY <2>1, <2>2 DEF Lists, Settled
  <2> QED BY <1>1, <2>1, <2>3, <2>4, <2>5 DEF Settled
<1> QED BY <1>3, <1>4, <1>5 DEF Lists

LEMMA BeginsLists ==
  ASSUME Typed, Lists, NEW i \in Calls, NEW u \in Tabs, Begins(i, u)
  PROVE  Lists'
<1>1. /\ Others(i) /\ phase[i] = "free" /\ phase'[i] \in {"asked", "sent", "told"}
      /\ call'[i].tab = u /\ UNCHANGED <<table, writer, excused>>
  BY BeginsOthers DEF server
<1>2. /\ page \in [Tabs -> {"closed", "loading", "ready"}] /\ shown \in [Tabs -> Listed]
  BY DEF Typed, Simple
<1>3. \/ Open(i, u)
      \/ page[u] = "ready" /\ UNCHANGED <<page, shown>> /\ phase'[i] \in {"sent", "told"}
  <2>1. ASSUME NEW r \in Roles, NEW p \in Providers \cup {NoProvider},
               NEW h \in Providers \cup {NoProvider}, Assign(i, u, r, p, h)
        PROVE  page[u] = "ready" /\ UNCHANGED <<page, shown>> /\ phase'[i] \in {"sent", "told"}
    <3>1. PICK c : Begin(i, c, IF h = NoProvider /\ p = NoProvider THEN "told" ELSE "sent")
      BY <2>1 DEF Assign
    <3> QED BY <2>1, <3>1, BeginOthers DEF Assign
  <2>2. ASSUME NEW c, Begin(i, c, "sent") PROVE phase'[i] = "sent"
    BY <2>2, BeginOthers
  <2>3. ASSUME NEW p \in Providers, Edit(i, u, p) \/ Delete(i, u, p)
        PROVE  page[u] = "ready" /\ UNCHANGED <<page, shown>> /\ phase'[i] \in {"sent", "told"}
    BY <2>2, <2>3 DEF Edit, Delete, console
  <2>4. ASSUME Create(i, u)
        PROVE  page[u] = "ready" /\ UNCHANGED <<page, shown>> /\ phase'[i] \in {"sent", "told"}
    BY <2>2, <2>4 DEF Create, console
  <2> QED BY <2>1, <2>3, <2>4 DEF Begins
<1>4. \A t \in Tabs \ {u} : page'[t] = page[t] /\ shown'[t] = shown[t]
  BY <1>2, <1>3 DEF Open
<1>5. \A t \in Tabs \ {u} : Settled(t)' /\ Untouched(t)'
  BY <1>1, <1>4, OtherTab DEF Lists
<1>6. CASE Open(i, u)
  <2>1. page[u] = "closed" /\ page'[u] # "closed"
    BY <1>2, <1>6 DEF Open
  <2>2. writer # u /\ \A j \in Calls : phase[j] # "free" => call[j].tab # u
    BY <2>1 DEF Lists, Untouched
  <2>3. \A j \in Calls : ListOf(j, u)' => j = i
    BY <1>1, <2>2 DEF ListOf, Loading, Others
  <2>4. Settled(u)' /\ Untouched(u)'
    BY <1>1, <2>1, <2>2, <2>3 DEF Settled, Untouched
  <2> QED BY <1>5, <2>4 DEF Lists
<1>7. CASE page[u] = "ready" /\ UNCHANGED <<page, shown>> /\ phase'[i] \in {"sent", "told"}
  <2>1. Settled(u)' /\ Untouched(u)'
    BY <1>1, <1>7, GoesOn DEF Loading, Lists
  <2> QED BY <1>5, <2>1 DEF Lists
<1> QED BY <1>3, <1>6, <1>7

LEMMA FailureLists ==
  ASSUME Typed, Lists, NEW i \in Calls, Refuse(i) \/ RowGone(i) \/ Fail(i)
  PROVE  Lists'
  BY FailsLists DEF Refuse, RowGone, Fail, Doing

LEMMA NextLists == ASSUME Typed, Lists, [Next]_vars PROVE Lists'
<1>1. CASE UNCHANGED vars
  BY <1>1 DEF Lists, Settled, Untouched, ListOf, Pending, Loading, vars, server, console, history
<1>2. CASE Next
  BY <1>2, Cases, WriterLists, CheckLists, FailureLists, AnsweredLists, FinishLists,
     LoadedLists, BeginsLists
<1> QED BY <1>1, <1>2

(* The tab that was the last to change the table displays it once its        *)
(* answers have come, whatever the other tabs do, unless a request of its    *)
(* own failed or its lists overtook each other.                              *)
THEOREM CurrentLists == Spec => []SettledIsCurrent
<1>1. Init => Lists
  BY ConstantsAssumption DEF Init, Lists, Settled, Untouched, ListOf, Loading
<1> QED BY <1>1, ListsCurrent, InitTyped, NextTypes, NextLists, PTL DEF Spec
=============================================================================
