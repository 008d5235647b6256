-------------------------- MODULE ProvidersProofs --------------------------
(***************************************************************************)
(* Theorems about Providers, for any number of accounts, models, syncs,    *)
(* edits and rows.                                                         *)
(*                                                                         *)
(* Both parts are about what was read before it is written.  A sync plans  *)
(* on the bindings it has seen: SyncFits says that a binding of its plan   *)
(* is still one of that account and model, unless the account is gone.  An *)
(* edit clears the defaults its first statement has seen: EditFits says    *)
(* that any other default is among them, or locked by it, until another    *)
(* edit crosses it.                                                        *)
(*                                                                         *)
(* The last part is about the pages of ProvidersPage.  That they are       *)
(* current in the end follows from what can still be said of them while    *)
(* handlers are under way: on the manager, that a list is still to be read *)
(* or shown after the last change (Coming, Newer); on the page of models,  *)
(* that what it lists and the toggles that were granted, and not yet       *)
(* answered, are together what the server has (Agrees).                    *)
(***************************************************************************)
EXTENDS Providers, ProvidersPage, FiniteSetTheorems, TLAPS

\* What the constants must be for that: NoId is none of the others.
ConstantsFit ==
  NoId \notin Accounts /\ NoId \notin Edits /\ MaxRows \in Nat /\ MaxDrops \in Nat

\* Bindings are of accounts that exist,
RowsLive == \A i \in DOMAIN rows : rows[i] # NoRow => Live(rows[i].account)

\* and two that are linked are of different accounts or models.
Once(rs) ==
  \A i, j \in DOMAIN rs :
     rs[i].linked /\ rs[j].linked /\ rs[i].account = rs[j].account /\ rs[i].model = rs[j].model => i = j

LinkedOnce == Once(rows)

SyncFits(s) ==
  LET a == syncs[s].account IN
  /\ syncs[s].pc \in {"unused", "done", "failed"} => syncs[s].kind = "none"
  /\ syncs[s].pc \in {"listed", "locked", "planned"} => a \in Accounts /\ accounts[a].state # "unused"
  /\ syncs[s].pc = "planned" =>
       /\ syncs[s].kind = "job"
       /\ accounts[a].state # "deleted" =>
            \A m \in syncs[s].models : LET i == syncs[s].match[m] IN
               i # 0 => rows[i].account = a /\ rows[i].model = m

SyncsFit == \A s \in Syncs : SyncFits(s)

\* An edit that has not been crossed has seen every default but its own account.
SeesDefaults(e) ==
  \A a \in Defaults \ {edits[e].account} :
     IF edits[e].pc = "clearing" THEN a \in edits[e].seen ELSE accounts[a].lock = e

EditFits(e) ==
  edits[e].pc \in {"clearing", "cleared"} =>
    /\ edits[e].account \in Accounts
    /\ edits[e].default = "yes" => edits[e].status # "disabled" /\ (edits[e].crossed \/ SeesDefaults(e))

EditsFit == \A e \in Edits : EditFits(e)

DefaultsLive == \A a \in Defaults : Live(a)

CrossedDone ==
  \A a, b \in Defaults : a # b => \E e \in Edits : edits[e].pc = "done" /\ edits[e].crossed

BindingsInv == RowsLive /\ LinkedOnce /\ SyncsFit

DefaultsInv == EditsFit /\ DefaultsLive /\ CrossedDone

-----------------------------------------------------------------------------
(* Records.                                                                *)

LEMMA AccountTyped ==
  ASSUME NEW x \in Account
  PROVE  /\ x.state \in {"unused", "live", "deleted"} /\ x.enabled \in BOOLEAN /\ x.default \in BOOLEAN
         /\ x.lock \in Edits \cup {NoId}
BY DEF Account

LEMMA AccountLocked ==
  ASSUME NEW x \in Account, NEW l \in Edits \cup {NoId}
  PROVE  LET y == [x EXCEPT !.lock = l] IN
         y \in Account /\ y.state = x.state /\ y.default = x.default /\ y.enabled = x.enabled /\ y.lock = l
BY DEF Account

LEMMA AccountCleared ==
  ASSUME NEW x \in Account
  PROVE  LET y == [x EXCEPT !.default = FALSE] IN
         y \in Account /\ y.state = x.state /\ ~y.default /\ y.lock = x.lock
BY DEF Account

LEMMA NoAccountTyped ==
  ASSUME NEW state \in {"unused", "live", "deleted"}
  PROVE  /\ NoAccount(state) \in Account
         /\ NoAccount(state).state = state /\ NoAccount(state).lock = NoId /\ NoAccount(state).default = FALSE
BY DEF NoAccount, Account

LEMMA RowTyped ==
  ASSUME NEW x \in Row
  PROVE  x.account \in Accounts /\ x.model \in Models /\ x.linked \in BOOLEAN /\ x.enabled \in BOOLEAN
BY DEF Row

LEMMA NoRowFields == NoRow.account = NoId /\ NoRow.linked = FALSE /\ NoRow.enabled = FALSE
BY DEF NoRow

LEMMA RowLinked ==
  ASSUME NEW x \in Row
  PROVE  LET y == [x EXCEPT !.linked = TRUE] IN
         y \in Row /\ y.account = x.account /\ y.model = x.model /\ y.linked /\ y.enabled = x.enabled
BY DEF Row

LEMMA RowUnlinked ==
  ASSUME NEW x \in Row
  PROVE  LET y == [x EXCEPT !.linked = FALSE] IN
         y \in Row /\ y.account = x.account /\ y.model = x.model /\ ~y.linked /\ y.enabled = x.enabled
BY DEF Row

LEMMA RowEnabled ==
  ASSUME NEW x \in Row
  PROVE  LET y == [x EXCEPT !.enabled = TRUE] IN
         y \in Row /\ y.account = x.account /\ y.model = x.model /\ y.linked = x.linked
BY DEF Row

LEMMA RowDisabled ==
  ASSUME NEW x \in Row
  PROVE  LET y == [x EXCEPT !.enabled = FALSE] IN
         y \in Row /\ y.account = x.account /\ y.model = x.model /\ y.linked = x.linked /\ ~y.enabled
BY DEF Row

LEMMA RowToggled ==
  ASSUME NEW x \in Row
  PROVE  LET y == [x EXCEPT !.enabled = ~@] IN
         y \in Row /\ y.account = x.account /\ y.model = x.model /\ y.linked = x.linked
BY DEF Row

\* A row is one of an account, and no row has none.
LEMMA RowIsOne ==
  ASSUME ConstantsFit, NEW x \in Row \cup {NoRow}
  PROVE  /\ x # NoRow <=> x \in Row
         /\ \A a \in Accounts : x.account = a => x \in Row
BY RowTyped, NoRowFields DEF ConstantsFit

LEMMA SyncTyped ==
  ASSUME NEW x \in Sync
  PROVE  /\ x.pc \in {"unused", "listed", "locked", "planned", "done", "failed"} /\ x.kind \in {"none", "job", "refresh"}
         /\ x.account \in Accounts \cup {NoId} /\ x.models \in SUBSET Models /\ x.match \in [Models -> 0..MaxRows]
BY DEF Sync

LEMMA SyncOverTyped ==
  ASSUME ConstantsFit, NEW pc \in {"unused", "listed", "done", "failed"}
  PROVE  SyncOver(pc) \in Sync /\ SyncOver(pc).pc = pc /\ SyncOver(pc).kind = "none"
<1>1. NoMatch \in [Models -> 0..MaxRows]
  BY DEF NoMatch, ConstantsFit
<1> QED BY <1>1 DEF SyncOver, Sync

Listing(kind, a, ms) == [SyncOver("listed") EXCEPT !.kind = kind, !.account = a, !.models = ms]

LEMMA SyncListed ==
  ASSUME ConstantsFit, NEW kind \in {"job", "refresh"}, NEW a \in Accounts, NEW ms \in SUBSET Models
  PROVE  /\ Listing(kind, a, ms) \in Sync
         /\ Listing(kind, a, ms).pc = "listed" /\ Listing(kind, a, ms).account = a
<1> DEFINE x == SyncOver("listed")
<1>1. x \in Sync /\ x.pc = "listed"
  BY SyncOverTyped
<1>2. Listing(kind, a, ms) = [x EXCEPT !.kind = kind, !.account = a, !.models = ms]
  BY DEF Listing
<1> HIDE DEF x
<1> QED BY <1>1, <1>2 DEF Sync

LEMMA SyncMoved ==
  ASSUME NEW x \in Sync, NEW match \in [Models -> 0..MaxRows]
  PROVE  /\ [x EXCEPT !.pc = "locked"] \in Sync /\ [x EXCEPT !.pc = "locked"].pc = "locked"
         /\ [x EXCEPT !.pc = "locked"].account = x.account
         /\ LET y == [x EXCEPT !.pc = "planned", !.match = match]
            IN  /\ y \in Sync /\ y.pc = "planned" /\ y.match = match
                /\ y.kind = x.kind /\ y.account = x.account /\ y.models = x.models
BY DEF Sync

LEMMA EditTyped ==
  ASSUME NEW x \in Edit
  PROVE  /\ x.pc \in {"unused", "clearing", "cleared", "done", "failed"} /\ x.op \in {"none", "create", "patch"}
         /\ x.account \in Accounts \cup {NoId} /\ x.status \in {"keep", "enabled", "disabled"}
         /\ x.default \in {"keep", "yes", "no"} /\ x.seen \in SUBSET Accounts /\ x.crossed \in BOOLEAN
BY DEF Edit

LEMMA EditOverTyped ==
  ASSUME NEW pc \in {"unused", "done", "failed"}, NEW crossed \in BOOLEAN
  PROVE  EditOver(pc, crossed) \in Edit /\ EditOver(pc, crossed).pc = pc /\ EditOver(pc, crossed).crossed = crossed
BY DEF EditOver, Edit

LEMMA EditArrived ==
  ASSUME NEW pc \in {"clearing", "cleared"}, NEW op \in {"create", "patch"}, NEW a \in Accounts,
         NEW status \in {"keep", "enabled", "disabled"}, NEW default \in {"keep", "yes", "no"},
         NEW seen \in SUBSET Accounts
  PROVE  LET y == [pc |-> pc, op |-> op, account |-> a, status |-> status, default |-> default, crossed |-> FALSE,
                   seen |-> seen]
         IN  /\ y \in Edit /\ y.pc = pc /\ y.account = a /\ y.status = status /\ y.default = default /\ y.seen = seen
BY DEF Edit

LEMMA EditCleared ==
  ASSUME NEW x \in Edit, NEW seen \in SUBSET Accounts
  PROVE  LET y == [x EXCEPT !.pc = "cleared", !.seen = seen]
         IN  /\ y \in Edit /\ y.pc = "cleared" /\ y.op = x.op /\ y.account = x.account /\ y.status = x.status
             /\ y.default = x.default /\ y.crossed = x.crossed
BY DEF Edit

LEMMA EditCrossed ==
  ASSUME NEW x \in Edit
  PROVE  LET y == [x EXCEPT !.crossed = TRUE]
         IN  /\ y \in Edit /\ y.pc = x.pc /\ y.op = x.op /\ y.account = x.account /\ y.status = x.status
             /\ y.default = x.default /\ y.crossed
BY DEF Edit

-----------------------------------------------------------------------------
(* What is written to the bindings.                                        *)

\* The catalog entries that a job gives to bindings: what else they say stays, and a binding
\* gets an entry that no other of its account has.
LEMMA JobWritesKeep ==
  ASSUME ConstantsFit, TypeOK, NEW s \in Syncs, syncs[s].account \in Accounts
  PROVE  LET rs == JobWrites(s) IN
         /\ rs \in [1..MaxRows -> Row \cup {NoRow}]
         /\ \A i \in 1..MaxRows :
              /\ rs[i] = NoRow <=> rows[i] = NoRow
              /\ rs[i].account = rows[i].account /\ rs[i].model = rows[i].model /\ rs[i].enabled = rows[i].enabled
              /\ rs[i].linked # rows[i].linked =>
                   rs[i].linked /\ Matched(s, i) /\ Linked(rows, rows[i].account, rows[i].model) \ {i} = {}
<1> DEFINE rs == JobWrites(s)
<1>1. rows \in [1..MaxRows -> Row \cup {NoRow}] /\ DOMAIN rows = 1..MaxRows
  BY DEF TypeOK
<1>2. rs = [i \in 1..MaxRows |-> IF Matched(s, i) THEN Relink(rows, i)[i] ELSE rows[i]]
  BY <1>1 DEF JobWrites
<1>3. \A i \in 1..MaxRows :
        /\ rs[i] \in Row \cup {NoRow}
        /\ rs[i] = NoRow <=> rows[i] = NoRow
        /\ rs[i].account = rows[i].account /\ rs[i].model = rows[i].model /\ rs[i].enabled = rows[i].enabled
        /\ rs[i].linked # rows[i].linked =>
             rs[i].linked /\ Matched(s, i) /\ Linked(rows, rows[i].account, rows[i].model) \ {i} = {}
  <2> SUFFICES ASSUME NEW i \in 1..MaxRows
      PROVE  /\ rs[i] \in Row \cup {NoRow}
             /\ rs[i] = NoRow <=> rows[i] = NoRow
             /\ rs[i].account = rows[i].account /\ rs[i].model = rows[i].model /\ rs[i].enabled = rows[i].enabled
             /\ rs[i].linked # rows[i].linked =>
                  rs[i].linked /\ Matched(s, i) /\ Linked(rows, rows[i].account, rows[i].model) \ {i} = {}
    OBVIOUS
  <2>1. rs[i] = rows[i] \/ ~(rs[i] = rows[i])
    OBVIOUS
  <2>2. CASE rs[i] = rows[i]
    BY <2>2, <1>1
  <2>3. CASE rs[i] # rows[i]
    <3> DEFINE x == rows[i]
    <3>1. Matched(s, i) /\ rs[i] = Relink(rows, i)[i]
      BY <1>2, <2>3
    <3>2. Linked(rows, x.account, x.model) \ {i} = {} /\ rs[i] = [x EXCEPT !.linked = TRUE]
      BY <1>1, <2>3, <3>1 DEF Relink
    <3>3. x \in Row
      BY <1>1, <3>1, RowIsOne DEF Matched
    <3>4. rs[i] \in Row /\ rs[i] # NoRow /\ x # NoRow
      BY <3>2, <3>3, RowLinked, RowIsOne
    <3>5. rs[i].account = x.account /\ rs[i].model = x.model /\ rs[i].enabled = x.enabled /\ rs[i].linked
      BY <3>2, <3>3, RowLinked
    <3> QED BY <3>1, <3>2, <3>4, <3>5
  <2> QED BY <2>1, <2>2, <2>3
<1>4. rs \in [1..MaxRows -> Row \cup {NoRow}]
  BY <1>2, <1>3
<1> QED BY <1>3, <1>4

\* A binding that is inserted takes a free row, for a model whose entry no binding of the
\* account has; another keeps all but its switch, and that too without enable.
OnlyInserts(rs, a, new, enable, out) ==
  /\ out \in [1..MaxRows -> Row \cup {NoRow}]
  /\ \A i \in 1..MaxRows : rs[i] # NoRow =>
       /\ out[i] # NoRow /\ out[i].account = rs[i].account /\ out[i].model = rs[i].model
       /\ out[i].linked = rs[i].linked
       /\ out[i] = rs[i] \/ (enable /\ rs[i].account = a /\ rs[i].model \in new)
  /\ \A i \in 1..MaxRows : rs[i] = NoRow /\ out[i] # NoRow =>
       out[i].account = a /\ out[i].model \in new /\ Linked(rs, a, out[i].model) = {}
  /\ \A i, j \in 1..MaxRows :
       rs[i] = NoRow /\ rs[j] = NoRow /\ out[i] # NoRow /\ out[j] # NoRow /\ out[i].model = out[j].model => i = j

LEMMA InsertedKeeps ==
  ASSUME ConstantsFit, NEW rs \in [1..MaxRows -> Row \cup {NoRow}], NEW a \in Accounts, NEW new \in SUBSET Models,
         NEW enable \in {TRUE, FALSE}, NEW out \in Inserted(rs, a, new, enable)
  PROVE  OnlyInserts(rs, a, new, enable, out)
<1> DEFINE missing == {m \in new : Linked(rs, a, m) = {}}
           Put(at, i) == \E m \in missing : at[m] = i
           of(at, i) == CHOOSE m \in missing : at[m] = i
<1>1. DOMAIN rs = 1..MaxRows
  OBVIOUS
<1>2. PICK at \in Injection(missing, Fresh(rs)) :
        out = [i \in 1..MaxRows |->
                 IF Put(at, i) THEN [account |-> a, model |-> of(at, i), linked |-> TRUE, enabled |-> TRUE]
                 ELSE IF enable /\ \E m \in new : i \in Linked(rs, a, m) THEN [rs[i] EXCEPT !.enabled = TRUE]
                 ELSE rs[i]]
  BY <1>1 DEF Inserted
<1>3. at \in [missing -> Fresh(rs)]
  BY DEF Injection
<1>4. \A i \in 1..MaxRows : Put(at, i) =>
        /\ of(at, i) \in missing /\ at[of(at, i)] = i /\ i \in Fresh(rs)
        /\ out[i] \in Row /\ out[i].account = a /\ out[i].model = of(at, i)
  <2> SUFFICES ASSUME NEW i \in 1..MaxRows, Put(at, i)
      PROVE  /\ of(at, i) \in missing /\ at[of(at, i)] = i /\ i \in Fresh(rs)
             /\ out[i] \in Row /\ out[i].account = a /\ out[i].model = of(at, i)
    OBVIOUS
  <2>1. of(at, i) \in missing /\ at[of(at, i)] = i
    OBVIOUS
  <2>2. i \in Fresh(rs) /\ of(at, i) \in Models
    BY <1>3, <2>1
  <2> HIDE DEF missing, of
  <2>3. out[i] = [account |-> a, model |-> of(at, i), linked |-> TRUE, enabled |-> TRUE]
    BY <1>2
  <2> QED BY <2>1, <2>2, <2>3 DEF Row
<1>5. \A i \in 1..MaxRows : ~Put(at, i) =>
        \/ out[i] = rs[i]
        \/ /\ enable /\ rs[i] \in Row /\ rs[i].account = a /\ rs[i].model \in new
           /\ out[i] = [rs[i] EXCEPT !.enabled = TRUE]
  <2> SUFFICES ASSUME NEW i \in 1..MaxRows, ~Put(at, i), out[i] # rs[i]
      PROVE  /\ enable /\ rs[i] \in Row /\ rs[i].account = a /\ rs[i].model \in new
             /\ out[i] = [rs[i] EXCEPT !.enabled = TRUE]
    OBVIOUS
  <2>1. enable /\ (\E m \in new : i \in Linked(rs, a, m)) /\ out[i] = [rs[i] EXCEPT !.enabled = TRUE]
    BY <1>2
  <2>2. rs[i].account = a /\ rs[i].model \in new
    BY <2>1 DEF Linked
  <2> QED BY <2>1, <2>2, RowIsOne
<1> HIDE DEF missing, of, Put
<1>6. \A i \in 1..MaxRows : rs[i] # NoRow =>
        /\ ~Put(at, i)
        /\ out[i] # NoRow /\ out[i].account = rs[i].account /\ out[i].model = rs[i].model
        /\ out[i].linked = rs[i].linked
        /\ out[i] = rs[i] \/ (enable /\ rs[i].account = a /\ rs[i].model \in new)
  <2> SUFFICES ASSUME NEW i \in 1..MaxRows, rs[i] # NoRow
      PROVE  /\ ~Put(at, i)
             /\ out[i] # NoRow /\ out[i].account = rs[i].account /\ out[i].model = rs[i].model
             /\ out[i].linked = rs[i].linked
             /\ out[i] = rs[i] \/ (enable /\ rs[i].account = a /\ rs[i].model \in new)
    OBVIOUS
  <2>1. ~Put(at, i)
    BY <1>4 DEF Fresh
  <2>2. CASE out[i] = rs[i]
    BY <2>1, <2>2
  <2>3. CASE out[i] # rs[i]
    <3>1. rs[i] \in Row /\ out[i] = [rs[i] EXCEPT !.enabled = TRUE]
      BY <1>5, <2>1, <2>3
    <3>2. out[i] \in Row
      BY <3>1, RowEnabled
    <3>3. out[i].account = rs[i].account /\ out[i].model = rs[i].model /\ out[i].linked = rs[i].linked
      BY <3>1, RowEnabled
    <3> QED BY <1>5, <2>1, <2>3, <3>2, <3>3, RowIsOne
  <2> QED BY <2>2, <2>3
<1>7. \A i \in 1..MaxRows : rs[i] = NoRow /\ out[i] # NoRow => Put(at, i)
  BY <1>5, RowIsOne
<1>8. \A i \in 1..MaxRows : out[i] \in Row \cup {NoRow}
  <2> SUFFICES ASSUME NEW i \in 1..MaxRows PROVE out[i] \in Row \cup {NoRow}
    OBVIOUS
  <2>1. CASE Put(at, i)
    BY <1>4, <2>1
  <2>2. CASE ~Put(at, i)
    BY <1>5, <2>2, RowEnabled
  <2> QED BY <2>1, <2>2
<1>9. out \in [1..MaxRows -> Row \cup {NoRow}]
  BY <1>2, <1>8
<1>10. \A i \in 1..MaxRows : rs[i] = NoRow /\ out[i] # NoRow =>
         out[i].account = a /\ out[i].model \in new /\ Linked(rs, a, out[i].model) = {}
  BY <1>4, <1>7 DEF missing
<1>11. \A i, j \in 1..MaxRows :
         rs[i] = NoRow /\ rs[j] = NoRow /\ out[i] # NoRow /\ out[j] # NoRow /\ out[i].model = out[j].model => i = j
  BY <1>4, <1>7
<1> QED BY <1>6, <1>9, <1>10, <1>11 DEF OnlyInserts

-----------------------------------------------------------------------------
LEMMA InitInv == ASSUME ConstantsFit, Init PROVE TypeOK /\ BindingsInv /\ DefaultsInv
<1>1. \A a \in Accounts : accounts[a] \in Account /\ accounts[a].default = FALSE
  BY NoAccountTyped DEF Init
<1>2. \A s \in Syncs : syncs[s] \in Sync /\ syncs[s].pc = "unused" /\ syncs[s].kind = "none"
  BY SyncOverTyped DEF Init
<1>3. \A e \in Edits : edits[e] \in Edit /\ edits[e].pc = "unused"
  BY EditOverTyped DEF Init
<1>4. \A i \in 1..MaxRows : rows[i] = NoRow
  BY DEF Init
<1>5. TypeOK
  <2>1. accounts \in [Accounts -> Account] /\ syncs \in [Syncs -> Sync] /\ edits \in [Edits -> Edit]
    BY <1>1, <1>2, <1>3 DEF Init
  <2>2. rows \in [1..MaxRows -> Row \cup {NoRow}]
    BY <1>4 DEF Init
  <2>3. locks \in [Accounts -> Syncs \cup {NoId}] /\ drops \in 0..MaxDrops
    BY DEF Init, ConstantsFit
  <2> QED BY <2>1, <2>2, <2>3 DEF TypeOK
<1>6. BindingsInv
  BY <1>2, <1>4, NoRowFields DEF Init, BindingsInv, RowsLive, LinkedOnce, Once, SyncsFit, SyncFits
<1>7. DefaultsInv
  BY <1>1, <1>3 DEF DefaultsInv, EditsFit, EditFits, DefaultsLive, CrossedDone, Defaults
<1> QED BY <1>5, <1>6, <1>7

-----------------------------------------------------------------------------
(* The bindings.                                                           *)

\* An account is created, then deleted.
StatesMove ==
  \A a \in Accounts : \/ accounts'[a].state = accounts[a].state
                      \/ accounts[a].state = "unused" /\ accounts'[a].state = "live"
                      \/ accounts[a].state = "live" /\ accounts'[a].state = "deleted"

\* The bindings of an account stay until it is deleted.
RowsStay ==
  \A i \in 1..MaxRows : rows[i] # NoRow /\ accounts'[rows[i].account].state # "deleted" =>
     rows'[i].account = rows[i].account /\ rows'[i].model = rows[i].model

LEMMA SyncStays ==
  ASSUME ConstantsFit, TypeOK, NEW s \in Syncs, SyncFits(s), syncs'[s] = syncs[s], StatesMove, RowsStay
  PROVE  SyncFits(s)'
<1> DEFINE a == syncs[s].account
<1>1. syncs[s] \in Sync
  BY DEF TypeOK
<1>2. ASSUME syncs[s].pc \in {"listed", "locked", "planned"} PROVE a \in Accounts /\ accounts'[a].state # "unused"
  BY <1>2 DEF SyncFits, StatesMove
<1>3. ASSUME syncs[s].pc = "planned", accounts'[a].state # "deleted", NEW m \in syncs[s].models, syncs[s].match[m] # 0
      PROVE  rows'[syncs[s].match[m]].account = a /\ rows'[syncs[s].match[m]].model = m
  <2> DEFINE i == syncs[s].match[m]
  <2>1. a \in Accounts /\ accounts[a].state # "deleted"
    BY <1>2, <1>3 DEF StatesMove
  <2>2. rows[i].account = a /\ rows[i].model = m
    BY <1>3, <2>1 DEF SyncFits
  <2>3. i \in 1..MaxRows
    BY <1>1, <1>3, SyncTyped DEF ConstantsFit
  <2>4. rows[i] # NoRow
    BY <2>1, <2>2, NoRowFields DEF ConstantsFit
  <2> QED BY <1>3, <2>2, <2>3, <2>4 DEF RowsStay
<1> QED BY <1>2, <1>3 DEF SyncFits

\* A step of one sync that changes no binding.
LEMMA SyncSteps ==
  ASSUME ConstantsFit, TypeOK, BindingsInv, NEW s \in Syncs, NEW x \in Sync, syncs' = [syncs EXCEPT ![s] = x],
         UNCHANGED <<accounts, rows, edits, drops>>, locks' \in [Accounts -> Syncs \cup {NoId}], SyncFits(s)'
  PROVE  TypeOK' /\ BindingsInv'
<1>1. TypeOK'
  BY DEF TypeOK
<1>2. StatesMove /\ RowsStay
  BY DEF StatesMove, RowsStay
<1>3. \A q \in Syncs \ {s} : SyncFits(q)'
  <2> SUFFICES ASSUME NEW q \in Syncs \ {s} PROVE SyncFits(q)'
    OBVIOUS
  <2>1. syncs'[q] = syncs[q]
    BY DEF TypeOK
  <2>2. SyncFits(q)
    BY DEF BindingsInv, SyncsFit
  <2> QED BY <1>2, <2>1, <2>2, SyncStays
<1>4. SyncsFit'
  BY <1>3 DEF SyncsFit
<1>5. RowsLive' /\ LinkedOnce'
  BY DEF BindingsInv, RowsLive, LinkedOnce, Once, Live
<1> QED BY <1>1, <1>4, <1>5 DEF BindingsInv

LEMMA ReleaseIs ==
  ASSUME ConstantsFit, TypeOK, NEW s \in Syncs, NEW pc \in {"done", "failed"}, Release(s, pc)
  PROVE  /\ locks' \in [Accounts -> Syncs \cup {NoId}] /\ syncs' \in [Syncs -> Sync]
         /\ syncs' = [syncs EXCEPT ![s] = SyncOver(pc)]
         /\ syncs'[s] = SyncOver(pc) /\ syncs'[s].pc = pc /\ syncs'[s].kind = "none"
         /\ \A q \in Syncs \ {s} : syncs'[q] = syncs[q]
BY SyncOverTyped DEF Release, TypeOK

LEMMA ListModelsStep ==
  ASSUME ConstantsFit, TypeOK, BindingsInv, NEW s \in Syncs, NEW kind \in {"job", "refresh"}, NEW a \in Accounts,
         NEW ms \in SUBSET Models, ListModels(s, kind, a, ms)
  PROVE  TypeOK' /\ BindingsInv'
<1>1. UNCHANGED <<accounts, rows, edits, drops>> /\ locks' \in [Accounts -> Syncs \cup {NoId}]
  BY DEF ListModels, TypeOK
<1>2. Live(a)
  BY DEF ListModels
<1>3. ASSUME NEW pc \in {"done", "failed"}, syncs' = [syncs EXCEPT ![s] = SyncOver(pc)]
      PROVE  TypeOK' /\ BindingsInv'
  <2>1. syncs'[s].pc = pc /\ syncs'[s].kind = "none" /\ SyncOver(pc) \in Sync
    BY <1>3, SyncOverTyped DEF TypeOK
  <2>2. SyncFits(s)'
    BY <2>1 DEF SyncFits
  <2> QED BY <1>1, <1>3, <2>1, <2>2, SyncSteps
<1>4. CASE kind = "job" /\ ~accounts[a].enabled
  BY <1>3, <1>4 DEF ListModels
<1>5. CASE ~(kind = "job" /\ ~accounts[a].enabled) /\ ms = {} /\ kind = "job"
  BY <1>3, <1>5 DEF ListModels
<1>6. CASE ~(kind = "job" /\ ~accounts[a].enabled) /\ ms = {} /\ kind # "job"
  BY <1>3, <1>6 DEF ListModels
<1>7. CASE ~(kind = "job" /\ ~accounts[a].enabled) /\ ms # {}
  <2> DEFINE x == Listing(kind, a, ms)
  <2>1. syncs' = [syncs EXCEPT ![s] = x]
    BY <1>7 DEF ListModels, Listing
  <2>2. x \in Sync /\ x.pc = "listed" /\ x.account = a
    BY SyncListed
  <2> HIDE DEF x
  <2>3. syncs'[s] = x
    BY <2>1 DEF TypeOK
  <2>4. accounts'[a].state # "unused"
    BY <1>1, <1>2 DEF Live
  <2>5. SyncFits(s)'
    BY <2>2, <2>3, <2>4 DEF SyncFits
  <2> QED BY <1>1, <2>1, <2>2, <2>5, SyncSteps
<1> QED BY <1>4, <1>5, <1>6, <1>7

LEMMA LockAccountStep ==
  ASSUME ConstantsFit, TypeOK, BindingsInv, NEW s \in Syncs, LockAccount(s)
  PROVE  TypeOK' /\ BindingsInv'
<1> DEFINE x == [syncs[s] EXCEPT !.pc = "locked"]
<1>1. syncs[s] \in Sync /\ SyncFits(s) /\ syncs[s].pc = "listed"
  BY DEF TypeOK, BindingsInv, SyncsFit, LockAccount
<1>2. x \in Sync /\ x.pc = "locked" /\ x.account = syncs[s].account
  BY <1>1, SyncMoved, SyncTyped
<1>3. syncs' = [syncs EXCEPT ![s] = x] /\ UNCHANGED <<accounts, rows, edits, drops>>
  BY DEF LockAccount
<1>4. locks' \in [Accounts -> Syncs \cup {NoId}]
  BY DEF LockAccount, TypeOK
<1> HIDE DEF x
<1>5. syncs'[s] = x
  BY <1>3 DEF TypeOK
<1>6. SyncFits(s)'
  BY <1>1, <1>2, <1>3, <1>5 DEF SyncFits
<1> QED BY <1>2, <1>3, <1>4, <1>6, SyncSteps

LEMMA SyncFailsStep ==
  ASSUME ConstantsFit, TypeOK, BindingsInv, NEW s \in Syncs, SyncFails(s)
  PROVE  TypeOK' /\ BindingsInv'
<1>1. Release(s, "failed") /\ UNCHANGED <<accounts, rows, edits, drops>>
  BY DEF SyncFails
<1>2. SyncFits(s)'
  BY <1>1, ReleaseIs DEF SyncFits
<1> DEFINE x == SyncOver("failed")
<1>3. x \in Sync
  BY SyncOverTyped
<1>4. locks' \in [Accounts -> Syncs \cup {NoId}]
  BY <1>1, ReleaseIs
<1>5. syncs' = [syncs EXCEPT ![s] = x]
  BY <1>1, ReleaseIs
<1>6. UNCHANGED <<accounts, rows, edits, drops>>
  BY <1>1
<1> HIDE DEF x
<1> QED BY <1>2, <1>3, <1>4, <1>5, <1>6, SyncSteps

\* The plan names bindings that are there.
LEMMA PlanBindingWritesStep ==
  ASSUME ConstantsFit, TypeOK, BindingsInv, NEW s \in Syncs, PlanBindingWrites(s)
  PROVE  TypeOK' /\ BindingsInv'
<1> DEFINE a == syncs[s].account
<1>1. PICK match \in [Models -> 0..MaxRows] :
        /\ \A m \in Models : IF m \in syncs[s].models /\ Linked(rows, a, m) # {}
                            THEN match[m] \in Linked(rows, a, m) ELSE match[m] = 0
        /\ syncs' = [syncs EXCEPT ![s].pc = "planned", ![s].match = match]
  BY DEF PlanBindingWrites
<1> DEFINE x == [syncs[s] EXCEPT !.pc = "planned", !.match = match]
<1>2. syncs[s] \in Sync /\ SyncFits(s) /\ syncs[s].pc = "locked" /\ syncs[s].kind = "job"
  BY DEF TypeOK, BindingsInv, SyncsFit, PlanBindingWrites
<1>3. x \in Sync /\ x.pc = "planned" /\ x.match = match /\ x.kind = "job" /\ x.account = a /\ x.models = syncs[s].models
  BY <1>2, SyncMoved
<1>4. syncs' = [syncs EXCEPT ![s] = x] /\ UNCHANGED <<accounts, rows, edits, drops>>
  BY <1>1 DEF PlanBindingWrites, TypeOK
<1>5. locks' \in [Accounts -> Syncs \cup {NoId}]
  BY DEF PlanBindingWrites, TypeOK
<1> HIDE DEF x
<1>6. syncs'[s] = x
  BY <1>4 DEF TypeOK
<1>7. \A m \in syncs[s].models : match[m] # 0 => rows[match[m]].account = a /\ rows[match[m]].model = m
  BY <1>1, <1>2, SyncTyped DEF Linked
<1>8. a \in Accounts /\ accounts[a].state # "unused"
  BY <1>2 DEF SyncFits
<1>9. SyncFits(s)'
  BY <1>3, <1>4, <1>6, <1>7, <1>8 DEF SyncFits
<1> QED BY <1>3, <1>4, <1>5, <1>9, SyncSteps

\* The writes of a sync: rs are the bindings before those that it inserts.
LEMMA RowsWritten ==
  ASSUME ConstantsFit, TypeOK, BindingsInv, NEW s \in Syncs, Release(s, "done"), UNCHANGED <<accounts, edits, drops>>,
         NEW rs \in [1..MaxRows -> Row \cup {NoRow}], Once(rs),
         \A i \in 1..MaxRows : /\ rs[i] = NoRow <=> rows[i] = NoRow
                               /\ rs[i].account = rows[i].account /\ rs[i].model = rows[i].model,
         NEW a \in Accounts, NEW new \in SUBSET Models, NEW enable \in {TRUE, FALSE}, new # {} => Live(a),
         rows' \in Inserted(rs, a, new, enable)
  PROVE  TypeOK' /\ BindingsInv'
<1>1. /\ rows' \in [1..MaxRows -> Row \cup {NoRow}]
      /\ \A i \in 1..MaxRows : rs[i] # NoRow =>
           /\ rows'[i] # NoRow /\ rows'[i].account = rs[i].account /\ rows'[i].model = rs[i].model
           /\ rows'[i].linked = rs[i].linked
      /\ \A i \in 1..MaxRows : rs[i] = NoRow /\ rows'[i] # NoRow =>
           rows'[i].account = a /\ rows'[i].model \in new /\ Linked(rs, a, rows'[i].model) = {}
      /\ \A i, j \in 1..MaxRows :
           rs[i] = NoRow /\ rs[j] = NoRow /\ rows'[i] # NoRow /\ rows'[j] # NoRow /\ rows'[i].model = rows'[j].model
             => i = j
  <2>1. OnlyInserts(rs, a, new, enable, rows')
    BY InsertedKeeps
  <2> QED BY <2>1 DEF OnlyInserts
<1>2. TypeOK'
  BY <1>1, ReleaseIs DEF TypeOK
<1>3. \A b \in Accounts : Live(b)' <=> Live(b)
  BY DEF Live
<1>4. RowsLive'
  <2>1. ASSUME NEW i \in 1..MaxRows, rows'[i] # NoRow PROVE Live(rows'[i].account)
    <3>1. CASE rs[i] = NoRow
      <4>1. rows'[i].account = a /\ rows'[i].model \in new
        BY <1>1, <2>1, <3>1
      <4> QED BY <4>1
    <3>2. CASE rs[i] # NoRow
      <4>1. rows'[i].account = rows[i].account /\ rows[i] # NoRow
        BY <1>1, <3>2
      <4> QED BY <4>1 DEF BindingsInv, RowsLive, TypeOK
    <3> QED BY <3>1, <3>2
  <2>2. DOMAIN rows' = 1..MaxRows
    BY <1>1
  <2> QED BY <2>1, <2>2 DEF RowsLive, Live
<1>5. LinkedOnce'
  <2> SUFFICES ASSUME NEW i \in 1..MaxRows, NEW j \in 1..MaxRows, rows'[i].linked, rows'[j].linked,
                      rows'[i].account = rows'[j].account, rows'[i].model = rows'[j].model
               PROVE  i = j
    BY <1>1 DEF LinkedOnce, Once
  <2>1. rows'[i] # NoRow /\ rows'[j] # NoRow
    BY NoRowFields
  <2>2. CASE rs[i] = NoRow /\ rs[j] = NoRow
    BY <1>1, <2>1, <2>2
  <2>3. CASE rs[i] # NoRow /\ rs[j] # NoRow
    <3>1. rs[i].linked /\ rs[j].linked /\ rs[i].account = rs[j].account /\ rs[i].model = rs[j].model
      BY <1>1, <2>3
    <3> QED BY <3>1 DEF Once
  <2>4. CASE rs[i] = NoRow /\ rs[j] # NoRow
    BY <1>1, <2>1, <2>4 DEF Linked
  <2>5. CASE rs[i] # NoRow /\ rs[j] = NoRow
    BY <1>1, <2>1, <2>5 DEF Linked
  <2> QED BY <2>2, <2>3, <2>4, <2>5
<1>6. StatesMove /\ RowsStay
  BY <1>1 DEF StatesMove, RowsStay
<1>7. \A q \in Syncs : SyncFits(q)'
  <2> SUFFICES ASSUME NEW q \in Syncs PROVE SyncFits(q)'
    OBVIOUS
  <2>1. CASE q = s
    BY <2>1, ReleaseIs DEF SyncFits
  <2>2. CASE q # s
    BY <2>2, <1>6, ReleaseIs, SyncStays DEF BindingsInv, SyncsFit
  <2> QED BY <2>1, <2>2
<1> QED BY <1>2, <1>4, <1>5, <1>7 DEF BindingsInv, SyncsFit

LEMMA PersistModelsStep ==
  ASSUME ConstantsFit, TypeOK, BindingsInv, NEW s \in Syncs, PersistModels(s)
  PROVE  TypeOK' /\ BindingsInv'
<1> DEFINE a == syncs[s].account
           new == {m \in syncs[s].models : syncs[s].match[m] = 0}
           rs == JobWrites(s)
<1>1. SyncFits(s) /\ syncs[s] \in Sync /\ syncs[s].pc = "planned" /\ a \in Accounts
  BY DEF BindingsInv, SyncsFit, SyncFits, PersistModels, TypeOK
<1>2. new \in SUBSET Models
  BY <1>1, SyncTyped
<1>3. /\ Release(s, "done") /\ UNCHANGED <<accounts, edits, drops>> /\ (new # {} => Live(a))
      /\ rows' \in Inserted(rs, a, new, FALSE)
  BY DEF PersistModels
<1>4. /\ rs \in [1..MaxRows -> Row \cup {NoRow}]
      /\ \A i \in 1..MaxRows :
           /\ rs[i] = NoRow <=> rows[i] = NoRow
           /\ rs[i].account = rows[i].account /\ rs[i].model = rows[i].model
           /\ rs[i].linked # rows[i].linked =>
                rs[i].linked /\ Matched(s, i) /\ Linked(rows, rows[i].account, rows[i].model) \ {i} = {}
  BY <1>1, JobWritesKeep
<1> HIDE DEF rs
<1>5. Once(rs)
  <2> SUFFICES ASSUME NEW i \in 1..MaxRows, NEW j \in 1..MaxRows, rs[i].linked, rs[j].linked,
                      rs[i].account = rs[j].account, rs[i].model = rs[j].model, i # j
               PROVE  FALSE
    BY <1>4 DEF Once
  <2>1. rows[i].account = rows[j].account /\ rows[i].model = rows[j].model /\ DOMAIN rows = 1..MaxRows
    BY <1>4 DEF TypeOK
  <2>2. rows[i] \in Row \cup {NoRow} /\ rows[j] \in Row \cup {NoRow}
    BY DEF TypeOK
  <2>3. rs[i] # NoRow /\ rs[j] # NoRow
    BY NoRowFields
  <2>4. rows[i].linked \in BOOLEAN /\ rows[j].linked \in BOOLEAN
    BY <2>2, RowTyped, NoRowFields
  <2>5. CASE rows[i].linked /\ rows[j].linked
    BY <2>1, <2>5 DEF BindingsInv, LinkedOnce, Once
  <2>6. CASE rows[i].linked /\ ~rows[j].linked
    <3>1. Linked(rows, rows[j].account, rows[j].model) \ {j} = {}
      BY <1>4, <2>6
    <3>2. i \in Linked(rows, rows[j].account, rows[j].model)
      BY <2>1, <2>6 DEF Linked
    <3> QED BY <3>1, <3>2
  <2>7. CASE ~rows[i].linked /\ rows[j].linked
    <3>1. Linked(rows, rows[i].account, rows[i].model) \ {i} = {}
      BY <1>4, <2>7
    <3>2. j \in Linked(rows, rows[i].account, rows[i].model)
      BY <2>1, <2>7 DEF Linked
    <3> QED BY <3>1, <3>2
  <2>8. CASE ~rows[i].linked /\ ~rows[j].linked
    <3>1. Matched(s, i) /\ Matched(s, j)
      BY <1>4, <2>8
    <3>2. PICK m \in syncs[s].models : syncs[s].match[m] = i
      BY <3>1 DEF Matched
    <3>3. PICK k \in syncs[s].models : syncs[s].match[k] = j
      BY <3>1 DEF Matched
    <3>4. rows[i].account = a /\ rows[i] # NoRow
      BY <1>4, <2>3, <3>1 DEF Matched
    <3>5. accounts[a].state # "deleted"
      BY <3>4 DEF BindingsInv, RowsLive, TypeOK, Live
    <3>6. i # 0 /\ j # 0
      OBVIOUS
    <3>7. rows[i].model = m /\ rows[j].model = k
      BY <1>1, <3>2, <3>3, <3>5, <3>6 DEF SyncFits
    <3> QED BY <2>1, <3>2, <3>3, <3>7
  <2> QED BY <2>4, <2>5, <2>6, <2>7, <2>8
<1> HIDE DEF new, a
<1> QED BY <1>1, <1>2, <1>3, <1>4, <1>5, RowsWritten

\* Disabled: all but the switch stays.
LEMMA DisabledKeeps ==
  ASSUME ConstantsFit, TypeOK, NEW a \in Accounts, NEW ms
  PROVE  LET rs == Disabled(a, ms) IN
         /\ rs \in [1..MaxRows -> Row \cup {NoRow}]
         /\ \A i \in 1..MaxRows :
              /\ rs[i] = NoRow <=> rows[i] = NoRow
              /\ rs[i].account = rows[i].account /\ rs[i].model = rows[i].model /\ rs[i].linked = rows[i].linked
              /\ rs[i].account = a /\ rs[i].linked /\ rs[i].model \notin ms => ~rs[i].enabled
<1> DEFINE rs == Disabled(a, ms)
<1>1. rows \in [1..MaxRows -> Row \cup {NoRow}] /\ DOMAIN rows = 1..MaxRows
  BY DEF TypeOK
<1>2. rs = [i \in 1..MaxRows |-> IF rows[i].account = a /\ rows[i].linked /\ rows[i].model \notin ms
                                 THEN [rows[i] EXCEPT !.enabled = FALSE] ELSE rows[i]]
  BY <1>1 DEF Disabled
<1>3. \A i \in 1..MaxRows :
        /\ rs[i] \in Row \cup {NoRow}
        /\ rs[i] = NoRow <=> rows[i] = NoRow
        /\ rs[i].account = rows[i].account /\ rs[i].model = rows[i].model /\ rs[i].linked = rows[i].linked
        /\ rs[i].account = a /\ rs[i].linked /\ rs[i].model \notin ms => ~rs[i].enabled
  <2> SUFFICES ASSUME NEW i \in 1..MaxRows
      PROVE  /\ rs[i] \in Row \cup {NoRow}
             /\ rs[i] = NoRow <=> rows[i] = NoRow
             /\ rs[i].account = rows[i].account /\ rs[i].model = rows[i].model /\ rs[i].linked = rows[i].linked
             /\ rs[i].account = a /\ rs[i].linked /\ rs[i].model \notin ms => ~rs[i].enabled
    OBVIOUS
  <2>1. CASE ~(rows[i].account = a /\ rows[i].linked /\ rows[i].model \notin ms)
    BY <1>1, <1>2, <2>1
  <2>2. CASE rows[i].account = a /\ rows[i].linked /\ rows[i].model \notin ms
    <3>1. rows[i] \in Row /\ rs[i] = [rows[i] EXCEPT !.enabled = FALSE]
      BY <1>1, <1>2, <2>2, RowIsOne
    <3>2. /\ rs[i] \in Row /\ rs[i].account = rows[i].account /\ rs[i].model = rows[i].model
          /\ rs[i].linked = rows[i].linked /\ ~rs[i].enabled
      BY <3>1, RowDisabled
    <3> QED BY <3>1, <3>2, RowIsOne
  <2> QED BY <2>1, <2>2
<1> QED BY <1>2, <1>3

LEMMA RefreshModelsStep ==
  ASSUME ConstantsFit, TypeOK, BindingsInv, NEW s \in Syncs, RefreshModels(s)
  PROVE  TypeOK' /\ BindingsInv'
<1> DEFINE a == syncs[s].account
           ms == syncs[s].models
           rs == Disabled(a, ms)
<1>1. SyncFits(s) /\ syncs[s] \in Sync /\ a \in Accounts /\ ms \in SUBSET Models
  BY SyncTyped DEF BindingsInv, SyncsFit, SyncFits, RefreshModels, TypeOK
<1>2. Release(s, "done") /\ UNCHANGED <<accounts, edits, drops>> /\ Live(a) /\ rows' \in Inserted(rs, a, ms, TRUE)
  BY DEF RefreshModels
<1>3. /\ rs \in [1..MaxRows -> Row \cup {NoRow}]
      /\ \A i \in 1..MaxRows :
           /\ rs[i] = NoRow <=> rows[i] = NoRow
           /\ rs[i].account = rows[i].account /\ rs[i].model = rows[i].model /\ rs[i].linked = rows[i].linked
  BY <1>1, DisabledKeeps
<1> HIDE DEF rs
<1>4. Once(rs)
  BY <1>3 DEF BindingsInv, LinkedOnce, Once, TypeOK
<1> HIDE DEF a, ms
<1> QED BY <1>1, <1>2, <1>3, <1>4, RowsWritten

\* A step of another kind: syncs go on as they are.
LEMMA SyncsStay ==
  ASSUME ConstantsFit, TypeOK, BindingsInv, UNCHANGED syncs, StatesMove, RowsStay
  PROVE  SyncsFit'
BY SyncStays DEF BindingsInv, SyncsFit

\* Edits create accounts, and change no binding.
LEMMA BindingsWhileEdited ==
  ASSUME ConstantsFit, TypeOK, BindingsInv, UNCHANGED <<rows, syncs>>,
         \A a \in Accounts : \/ accounts'[a].state = accounts[a].state
                             \/ accounts[a].state = "unused" /\ accounts'[a].state = "live"
  PROVE  BindingsInv'
<1>1. StatesMove /\ RowsStay
  BY DEF StatesMove, RowsStay
<1>2. RowsLive'
  <2>1. ASSUME NEW i \in 1..MaxRows, rows[i] # NoRow PROVE accounts'[rows[i].account].state = "live"
    <3>1. rows[i].account \in Accounts /\ Live(rows[i].account)
      BY <2>1, RowTyped DEF BindingsInv, RowsLive, TypeOK
    <3> QED BY <3>1 DEF Live
  <2> QED BY <2>1 DEF RowsLive, Live, TypeOK
<1>3. LinkedOnce'
  BY DEF BindingsInv, LinkedOnce
<1> QED BY <1>1, <1>2, <1>3, SyncsStay DEF BindingsInv

LEMMA DeleteAccountBindings ==
  ASSUME ConstantsFit, TypeOK, BindingsInv, NEW a \in Accounts, DeleteAccount(a)
  PROVE  TypeOK' /\ BindingsInv'
<1>1. accounts' = [accounts EXCEPT ![a] = NoAccount("deleted")] /\ Live(a) /\ UNCHANGED <<syncs, locks, edits, drops>>
  BY DEF DeleteAccount
<1>2. /\ accounts' \in [Accounts -> Account] /\ accounts'[a].state = "deleted"
      /\ \A b \in Accounts \ {a} : accounts'[b] = accounts[b]
  BY <1>1, NoAccountTyped DEF TypeOK
<1>3. rows' = [i \in 1..MaxRows |-> IF rows[i].account = a THEN NoRow ELSE rows[i]] /\ DOMAIN rows = 1..MaxRows
  BY DEF DeleteAccount, TypeOK
<1>4. TypeOK'
  BY <1>1, <1>2, <1>3 DEF TypeOK
<1>5. StatesMove
  BY <1>1, <1>2 DEF StatesMove, Live
<1>6. RowsStay
  BY <1>2, <1>3 DEF RowsStay
<1>7. RowsLive'
  <2>1. ASSUME NEW i \in 1..MaxRows, rows'[i] # NoRow PROVE accounts'[rows'[i].account].state = "live"
    <3>1. rows'[i] = rows[i] /\ rows[i].account # a
      BY <1>3, <2>1
    <3>2. rows[i].account \in Accounts /\ Live(rows[i].account)
      BY <2>1, <3>1, RowTyped DEF BindingsInv, RowsLive, TypeOK
    <3> QED BY <1>2, <3>1, <3>2 DEF Live
  <2> QED BY <1>3, <2>1 DEF RowsLive, Live
<1>8. LinkedOnce'
  BY <1>3, NoRowFields DEF BindingsInv, LinkedOnce, Once
<1> QED BY <1>1, <1>4, <1>5, <1>6, <1>7, <1>8, SyncsStay DEF BindingsInv

\* Rows that keep their account and model, and get no catalog entry.
LEMMA RowsSwitched ==
  ASSUME ConstantsFit, TypeOK, BindingsInv, UNCHANGED <<accounts, syncs, locks, edits>>, drops' \in 0..MaxDrops,
         rows' \in [1..MaxRows -> Row \cup {NoRow}],
         \A i \in 1..MaxRows : /\ rows'[i] = NoRow <=> rows[i] = NoRow
                               /\ rows'[i].account = rows[i].account /\ rows'[i].model = rows[i].model
                               /\ rows'[i].linked => rows[i].linked
  PROVE  TypeOK' /\ BindingsInv'
<1>1. TypeOK'
  BY DEF TypeOK
<1>2. StatesMove /\ RowsStay
  BY DEF StatesMove, RowsStay
<1>3. RowsLive' /\ LinkedOnce'
  BY DEF TypeOK, BindingsInv, RowsLive, LinkedOnce, Once, Live
<1> QED BY <1>1, <1>2, <1>3, SyncsStay DEF BindingsInv

LEMMA ToggleBindingStep ==
  ASSUME ConstantsFit, TypeOK, BindingsInv, NEW i \in DOMAIN rows, ToggleBinding(i)
  PROVE  TypeOK' /\ BindingsInv'
<1> DEFINE x == [rows[i] EXCEPT !.enabled = ~@]
<1>1. rows[i] \in Row /\ DOMAIN rows = 1..MaxRows
  BY DEF ToggleBinding, TypeOK
<1>2. x \in Row /\ x.account = rows[i].account /\ x.model = rows[i].model /\ x.linked = rows[i].linked
  BY <1>1, RowToggled
<1>3. rows' = [rows EXCEPT ![i] = x] /\ UNCHANGED <<accounts, syncs, locks, edits, drops>>
  BY DEF ToggleBinding
<1> HIDE DEF x
<1>4. rows' \in [1..MaxRows -> Row \cup {NoRow}] /\ rows'[i] = x /\ \A j \in 1..MaxRows \ {i} : rows'[j] = rows[j]
  BY <1>1, <1>2, <1>3 DEF TypeOK
<1>5. x # NoRow /\ rows[i] # NoRow
  BY <1>1, <1>2, RowIsOne
<1>6. \A j \in 1..MaxRows : /\ rows'[j] = NoRow <=> rows[j] = NoRow
                            /\ rows'[j].account = rows[j].account /\ rows'[j].model = rows[j].model
                            /\ rows'[j].linked => rows[j].linked
  BY <1>2, <1>4, <1>5
<1>7. drops' \in 0..MaxDrops
  BY <1>3 DEF TypeOK
<1> QED BY <1>3, <1>4, <1>6, <1>7, RowsSwitched

LEMMA DropCatalogEntryStep ==
  ASSUME ConstantsFit, TypeOK, BindingsInv, NEW m \in Models, DropCatalogEntry(m)
  PROVE  TypeOK' /\ BindingsInv'
<1>1. /\ UNCHANGED <<accounts, syncs, locks, edits>> /\ drops' = drops + 1 /\ drops < MaxDrops
      /\ rows' = [i \in 1..MaxRows |-> IF rows[i].model = m THEN [rows[i] EXCEPT !.linked = FALSE] ELSE rows[i]]
  BY DEF DropCatalogEntry, TypeOK
<1>2. drops' \in 0..MaxDrops
  BY <1>1 DEF TypeOK, ConstantsFit
<1>3. \A i \in 1..MaxRows :
        /\ rows'[i] \in Row \cup {NoRow}
        /\ rows'[i] = NoRow <=> rows[i] = NoRow
        /\ rows'[i].account = rows[i].account /\ rows'[i].model = rows[i].model
        /\ rows'[i].linked => rows[i].linked
  <2> SUFFICES ASSUME NEW i \in 1..MaxRows
      PROVE  /\ rows'[i] \in Row \cup {NoRow}
             /\ rows'[i] = NoRow <=> rows[i] = NoRow
             /\ rows'[i].account = rows[i].account /\ rows'[i].model = rows[i].model
             /\ rows'[i].linked => rows[i].linked
    OBVIOUS
  <2>1. rows[i] \in Row \cup {NoRow}
    BY DEF TypeOK
  <2>2. CASE rows[i].model # m
    BY <1>1, <2>1, <2>2
  <2>3. CASE rows[i].model = m /\ rows[i] \in Row
    <3>1. rows'[i] = [rows[i] EXCEPT !.linked = FALSE]
      BY <1>1, <2>3
    <3>2. /\ rows'[i] \in Row /\ rows'[i].account = rows[i].account /\ rows'[i].model = rows[i].model
          /\ ~rows'[i].linked
      BY <2>3, <3>1, RowUnlinked
    <3> QED BY <2>3, <3>2, RowIsOne
  <2>4. CASE rows[i].model = m /\ rows[i] = NoRow
    <3>1. rows'[i] = [NoRow EXCEPT !.linked = FALSE]
      BY <1>1, <2>4
    <3>2. rows'[i] = NoRow
      BY <3>1 DEF NoRow
    <3> QED BY <2>4, <3>2
  <2> QED BY <2>1, <2>2, <2>3, <2>4
<1>4. rows' \in [1..MaxRows -> Row \cup {NoRow}]
  BY <1>1, <1>3
<1> QED BY <1>1, <1>2, <1>3, <1>4, RowsSwitched

-----------------------------------------------------------------------------
(* The default account.                                                    *)

\* What an edit does to the others: nothing, or it crosses them.
OthersStay(e) ==
  \A d \in Edits \ {e} :
     \/ edits'[d] = edits[d]
     \/ edits[d].pc \in {"clearing", "cleared"} /\ edits'[d] = [edits[d] EXCEPT !.crossed = TRUE]

\* No account is made a default, and the locks of the others' stay.
NoNewDefault(e) ==
  \A a \in Defaults' : /\ a \in Defaults /\ Live(a)'
                       /\ accounts'[a].lock = accounts[a].lock \/ accounts[a].lock \in {e, NoId}

LEMMA OtherFits ==
  ASSUME ConstantsFit, TypeOK, NEW e \in Edits, OthersStay(e), NEW d \in Edits \ {e}, EditFits(d),
         edits'[d].crossed \/ NoNewDefault(e)
  PROVE  EditFits(d)'
<1>1. edits[d] \in Edit /\ d # NoId
  BY DEF TypeOK, ConstantsFit
<1>2. /\ edits'[d].pc = edits[d].pc /\ edits'[d].account = edits[d].account /\ edits'[d].status = edits[d].status
      /\ edits'[d].default = edits[d].default
      /\ edits'[d] = edits[d] \/ edits'[d].crossed
  <2>1. CASE edits'[d] = edits[d]
    BY <2>1
  <2>2. CASE edits'[d] = [edits[d] EXCEPT !.crossed = TRUE]
    BY <1>1, <2>2, EditCrossed
  <2> QED BY <2>1, <2>2 DEF OthersStay
<1>3. SeesDefaults(d) /\ NoNewDefault(e) /\ edits'[d] = edits[d] => SeesDefaults(d)'
  <2> SUFFICES ASSUME SeesDefaults(d), NoNewDefault(e), edits'[d] = edits[d], NEW a \in Defaults' \ {edits[d].account}
               PROVE  IF edits[d].pc = "clearing" THEN a \in edits[d].seen ELSE accounts'[a].lock = d
    BY DEF SeesDefaults
  <2>1. a \in Defaults \ {edits[d].account}
    BY DEF NoNewDefault
  <2>2. accounts'[a].lock = accounts[a].lock \/ accounts[a].lock \in {e, NoId}
    BY DEF NoNewDefault
  <2> QED BY <1>1, <2>1, <2>2 DEF SeesDefaults
<1>4. CASE edits'[d].crossed
  BY <1>2, <1>4 DEF EditFits
<1>5. CASE ~edits'[d].crossed
  <2>1. edits'[d] = edits[d] /\ NoNewDefault(e) /\ ~edits[d].crossed
    BY <1>2, <1>5
  <2> QED BY <1>3, <2>1 DEF EditFits
<1> QED BY <1>4, <1>5

LEMMA DefaultsKept ==
  ASSUME ConstantsFit, TypeOK, DefaultsInv, NEW e \in Edits, OthersStay(e), NoNewDefault(e),
         edits[e].pc # "done", EditFits(e)'
  PROVE  DefaultsInv'
<1>1. EditsFit'
  BY OtherFits DEF DefaultsInv, EditsFit
<1>2. DefaultsLive'
  BY DEF NoNewDefault, DefaultsLive
<1>3. CrossedDone'
  <2> SUFFICES ASSUME NEW a \in Defaults', NEW b \in Defaults', a # b
               PROVE  \E d \in Edits : edits'[d].pc = "done" /\ edits'[d].crossed
    BY DEF CrossedDone
  <2>1. PICK d \in Edits : edits[d].pc = "done" /\ edits[d].crossed
    BY DEF NoNewDefault, DefaultsInv, CrossedDone
  <2>2. edits'[d] = edits[d]
    BY <2>1 DEF OthersStay
  <2> QED BY <2>1, <2>2
<1> QED BY <1>1, <1>2, <1>3 DEF DefaultsInv

\* An edit that makes its account the default, and crosses the others.
LEMMA DefaultsCross ==
  ASSUME ConstantsFit, TypeOK, DefaultsInv, NEW e \in Edits, edits[e].pc = "cleared", edits[e].default = "yes",
         edits' = Crossed(e), DefaultsLive',
         \A a \in Defaults' : a = edits[e].account \/ (a \in Defaults /\ accounts[a].lock # e)
  PROVE  DefaultsInv' /\ edits' \in [Edits -> Edit]
<1>1. edits \in [Edits -> Edit] /\ EditFits(e) /\ edits[e].crossed \in BOOLEAN
  BY EditTyped DEF TypeOK, DefaultsInv, EditsFit
<1>2. edits' = [d \in Edits |-> IF d = e THEN EditOver("done", edits[e].crossed)
                                ELSE IF edits[d].pc \in {"clearing", "cleared"} THEN [edits[d] EXCEPT !.crossed = TRUE]
                                ELSE edits[d]]
  BY DEF Crossed
<1>3. edits'[e] \in Edit /\ edits'[e].pc = "done" /\ edits'[e].crossed = edits[e].crossed
  BY <1>1, <1>2, EditOverTyped
<1>4. \A d \in Edits \ {e} :
        IF edits[d].pc \in {"clearing", "cleared"} THEN edits'[d] = [edits[d] EXCEPT !.crossed = TRUE]
        ELSE edits'[d] = edits[d]
  BY <1>2
<1>5. ASSUME NEW d \in Edits \ {e} PROVE edits'[d] \in Edit
  <2>1. edits[d] \in Edit
    BY <1>1
  <2>2. [edits[d] EXCEPT !.crossed = TRUE] \in Edit
    BY <2>1, EditCrossed
  <2> QED BY <1>4, <2>1, <2>2
<1>6. edits' \in [Edits -> Edit]
  BY <1>2, <1>3, <1>5
<1>7. \A d \in Edits : EditFits(d)'
  <2> SUFFICES ASSUME NEW d \in Edits PROVE EditFits(d)'
    OBVIOUS
  <2>1. CASE d = e
    BY <1>3, <2>1 DEF EditFits
  <2>2. CASE d # e /\ edits[d].pc \in {"clearing", "cleared"}
    <3>1. edits'[d] = [edits[d] EXCEPT !.crossed = TRUE] /\ edits[d] \in Edit
      BY <1>1, <1>4, <2>2
    <3>2. edits'[d].crossed /\ OthersStay(e)
      BY <1>4, <3>1, EditCrossed DEF OthersStay
    <3> QED BY <2>2, <3>2, OtherFits DEF DefaultsInv, EditsFit
  <2>3. CASE d # e /\ edits[d].pc \notin {"clearing", "cleared"}
    BY <1>4, <2>3 DEF EditFits
  <2> QED BY <2>1, <2>2, <2>3
<1>8. CrossedDone'
  <2> SUFFICES ASSUME NEW a \in Defaults', NEW b \in Defaults', a # b
               PROVE  \E d \in Edits : edits'[d].pc = "done" /\ edits'[d].crossed
    BY DEF CrossedDone
  <2>1. PICK c \in Defaults : c # edits[e].account /\ accounts[c].lock # e
    OBVIOUS
  <2>2. edits[e].crossed
    BY <1>1, <2>1 DEF EditFits, SeesDefaults
  <2> QED BY <1>3, <2>2
<1> QED BY <1>6, <1>7, <1>8 DEF DefaultsInv, EditsFit

LEMMA ArriveStep ==
  ASSUME ConstantsFit, TypeOK, DefaultsInv, NEW e \in Edits, NEW op \in {"create", "patch"}, NEW a \in Accounts,
         NEW status \in {"keep", "enabled", "disabled"}, NEW default \in {"keep", "yes", "no"},
         Arrive(e, op, a, status, default)
  PROVE  TypeOK' /\ DefaultsInv' /\ UNCHANGED <<accounts, rows, syncs>>
<1> DEFINE seen == IF default = "yes" THEN Defaults \ (IF op = "patch" THEN {a} ELSE {}) ELSE {}
           x == IF status = "disabled" /\ default = "yes" THEN EditOver("failed", FALSE)
                ELSE [pc |-> IF default = "yes" THEN "clearing" ELSE "cleared", op |-> op, account |-> a,
                      status |-> status, default |-> default, crossed |-> FALSE, seen |-> seen]
<1>1. edits[e].pc = "unused" /\ edits' = [edits EXCEPT ![e] = x] /\ UNCHANGED <<accounts, rows, syncs, locks, drops>>
  BY DEF Arrive
<1>2. seen \in SUBSET Accounts
  BY DEF Defaults
<1>3. CASE status = "disabled" /\ default = "yes"
  <2>1. x \in Edit /\ x.pc = "failed"
    BY <1>3, EditOverTyped
  <2> HIDE DEF x
  <2>2. edits' \in [Edits -> Edit] /\ edits'[e].pc = "failed" /\ \A d \in Edits \ {e} : edits'[d] = edits[d]
    BY <1>1, <2>1 DEF TypeOK
  <2>3. OthersStay(e) /\ EditFits(e)' /\ NoNewDefault(e)
    BY <1>1, <2>2 DEF OthersStay, EditFits, NoNewDefault, Defaults, DefaultsInv, DefaultsLive, Live
  <2>4. TypeOK'
    BY <1>1, <2>2 DEF TypeOK
  <2> QED BY <1>1, <2>3, <2>4, DefaultsKept
<1>4. CASE ~(status = "disabled" /\ default = "yes")
  <2>1. /\ x \in Edit /\ x.account = a /\ x.default = default /\ x.status = status /\ x.seen = seen
        /\ x.pc = IF default = "yes" THEN "clearing" ELSE "cleared"
    <3> HIDE DEF seen
    <3> DEFINE pc == IF default = "yes" THEN "clearing" ELSE "cleared"
    <3>1. pc \in {"clearing", "cleared"}
      OBVIOUS
    <3>2. x = [pc |-> pc, op |-> op, account |-> a, status |-> status, default |-> default, crossed |-> FALSE,
               seen |-> seen]
      BY <1>4
    <3> HIDE DEF pc, x
    <3>3. /\ x \in Edit /\ x.pc = pc /\ x.account = a /\ x.status = status /\ x.default = default /\ x.seen = seen
      BY <1>2, <3>1, <3>2, EditArrived
    <3> QED BY <3>3 DEF pc
  <2> HIDE DEF x
  <2>2. edits' \in [Edits -> Edit] /\ edits'[e] = x /\ \A d \in Edits \ {e} : edits'[d] = edits[d]
    BY <1>1, <2>1 DEF TypeOK
  <2>3. OthersStay(e) /\ NoNewDefault(e)
    BY <1>1, <2>2 DEF OthersStay, NoNewDefault, Defaults, DefaultsInv, DefaultsLive, Live
  <2>4. default = "yes" => SeesDefaults(e)'
    BY <1>1, <2>1, <2>2 DEF SeesDefaults, Defaults
  <2>5. EditFits(e)'
    BY <1>4, <2>1, <2>2, <2>4 DEF EditFits
  <2>6. TypeOK'
    BY <1>1, <2>2 DEF TypeOK
  <2> QED BY <1>1, <2>3, <2>5, <2>6, DefaultsKept
<1> QED BY <1>3, <1>4

LEMMA ClearDefaultsStep ==
  ASSUME ConstantsFit, TypeOK, DefaultsInv, NEW e \in Edits, ClearDefaults(e)
  PROVE  TypeOK' /\ DefaultsInv' /\ UNCHANGED <<rows, syncs>> /\ \A a \in Accounts : accounts'[a].state = accounts[a].state
<1> DEFINE found == {a \in edits[e].seen : accounts[a].default}
           x == [edits[e] EXCEPT !.pc = "cleared", !.seen = found]
<1>1. edits[e] \in Edit /\ edits[e].pc = "clearing" /\ EditFits(e) /\ accounts \in [Accounts -> Account] /\ e # NoId
  BY DEF ClearDefaults, TypeOK, DefaultsInv, EditsFit, ConstantsFit
<1>2. found \in SUBSET Accounts
  BY <1>1, EditTyped
<1>3. /\ edits' = [edits EXCEPT ![e].pc = "cleared", ![e].seen = found] /\ UNCHANGED <<rows, syncs, locks, drops>>
      /\ accounts' = [a \in Accounts |-> IF a \in found THEN [accounts[a] EXCEPT !.lock = e] ELSE accounts[a]]
      /\ \A a \in found : accounts[a].lock = NoId
  BY DEF ClearDefaults
<1>4. /\ x \in Edit /\ x.pc = "cleared" /\ x.account = edits[e].account /\ x.status = edits[e].status
      /\ x.default = edits[e].default /\ x.crossed = edits[e].crossed
  <2> HIDE DEF found
  <2> QED BY <1>1, <1>2, EditCleared
<1> HIDE DEF found
<1>5. edits' = [edits EXCEPT ![e] = x]
  BY <1>3 DEF TypeOK
<1> HIDE DEF x
<1>6. edits' \in [Edits -> Edit] /\ edits'[e] = x /\ \A d \in Edits \ {e} : edits'[d] = edits[d]
  BY <1>4, <1>5 DEF TypeOK
<1>7. \A a \in Accounts :
        /\ accounts'[a] \in Account /\ accounts'[a].state = accounts[a].state
        /\ accounts'[a].default = accounts[a].default
        /\ accounts'[a].lock = IF a \in found THEN e ELSE accounts[a].lock
  BY <1>1, <1>3, AccountLocked
<1>8. TypeOK'
  BY <1>3, <1>6, <1>7 DEF TypeOK
<1>9. OthersStay(e)
  BY <1>6 DEF OthersStay
<1>10. NoNewDefault(e)
  BY <1>3, <1>7 DEF NoNewDefault, Defaults, DefaultsInv, DefaultsLive, Live
<1>11. edits[e].default = "yes" /\ SeesDefaults(e) => SeesDefaults(e)'
  <2> SUFFICES ASSUME SeesDefaults(e), NEW a \in Defaults', a # edits[e].account PROVE accounts'[a].lock = e
    BY <1>4, <1>6 DEF SeesDefaults
  <2>1. a \in Defaults /\ a \in Accounts
    BY <1>7 DEF Defaults
  <2>2. a \in edits[e].seen /\ accounts[a].default
    BY <1>1, <2>1 DEF SeesDefaults, Defaults
  <2>3. a \in found
    BY <2>2 DEF found
  <2> QED BY <1>7, <2>1, <2>3
<1>12. EditFits(e)'
  BY <1>1, <1>4, <1>6, <1>11 DEF EditFits
<1> QED BY <1>1, <1>3, <1>7, <1>8, <1>9, <1>10, <1>12, DefaultsKept

LEMMA UnlockIs ==
  ASSUME NEW as \in [Accounts -> Account], NEW e \in Edits
  PROVE  /\ Unlock(e, as) \in [Accounts -> Account]
         /\ \A a \in Accounts :
              /\ Unlock(e, as)[a].state = as[a].state /\ Unlock(e, as)[a].default = as[a].default
              /\ Unlock(e, as)[a].lock = IF as[a].lock = e THEN NoId ELSE as[a].lock
<1>1. \A a \in Accounts :
        /\ Unlock(e, as)[a] \in Account
        /\ Unlock(e, as)[a].state = as[a].state /\ Unlock(e, as)[a].default = as[a].default
        /\ Unlock(e, as)[a].lock = IF as[a].lock = e THEN NoId ELSE as[a].lock
  <2> SUFFICES ASSUME NEW a \in Accounts
      PROVE  /\ Unlock(e, as)[a] \in Account
             /\ Unlock(e, as)[a].state = as[a].state /\ Unlock(e, as)[a].default = as[a].default
             /\ Unlock(e, as)[a].lock = IF as[a].lock = e THEN NoId ELSE as[a].lock
    OBVIOUS
  <2>1. CASE as[a].lock = e
    <3>1. Unlock(e, as)[a] = [as[a] EXCEPT !.lock = NoId]
      BY <2>1 DEF Unlock
    <3>2. as[a] \in Account /\ NoId \in Edits \cup {NoId}
      OBVIOUS
    <3>3. /\ Unlock(e, as)[a] \in Account
          /\ Unlock(e, as)[a].state = as[a].state /\ Unlock(e, as)[a].default = as[a].default
          /\ Unlock(e, as)[a].lock = NoId
      BY <3>1, <3>2 DEF Account
    <3> QED BY <2>1, <3>3
  <2>2. CASE as[a].lock # e
    BY <2>2 DEF Unlock
  <2> QED BY <2>1, <2>2
<1> QED BY <1>1 DEF Unlock

\* The accounts when e has cleared the defaults that it had locked.
Freed(e) ==
  Unlock(e, [b \in Accounts |-> IF accounts[b].lock = e THEN [accounts[b] EXCEPT !.default = FALSE] ELSE accounts[b]])

LEMMA FreedIs ==
  ASSUME TypeOK, NEW e \in Edits
  PROVE  /\ Freed(e) \in [Accounts -> Account]
         /\ \A a \in Accounts :
              /\ Freed(e)[a].state = accounts[a].state
              /\ Freed(e)[a].default => accounts[a].default /\ accounts[a].lock # e
              /\ Freed(e)[a].lock = IF accounts[a].lock = e THEN NoId ELSE accounts[a].lock
<1> DEFINE as == [b \in Accounts |-> IF accounts[b].lock = e THEN [accounts[b] EXCEPT !.default = FALSE] ELSE accounts[b]]
<1>1. \A a \in Accounts : as[a] \in Account /\ as[a].state = accounts[a].state /\ as[a].lock = accounts[a].lock
  <2> SUFFICES ASSUME NEW a \in Accounts
               PROVE  as[a] \in Account /\ as[a].state = accounts[a].state /\ as[a].lock = accounts[a].lock
    OBVIOUS
  <2>1. accounts[a] \in Account
    BY DEF TypeOK
  <2> QED BY <2>1, AccountCleared
<1>2. \A a \in Accounts : as[a].default => accounts[a].default /\ accounts[a].lock # e
  <2> SUFFICES ASSUME NEW a \in Accounts, as[a].default PROVE accounts[a].default /\ accounts[a].lock # e
    OBVIOUS
  <2>1. CASE accounts[a].lock = e
    <3>1. as[a] = [accounts[a] EXCEPT !.default = FALSE] /\ accounts[a] \in Account
      BY <2>1 DEF TypeOK
    <3> QED BY <3>1, AccountCleared
  <2>2. CASE accounts[a].lock # e
    BY <2>2
  <2> QED BY <2>1, <2>2
<1>3. as \in [Accounts -> Account] /\ Freed(e) = Unlock(e, as)
  BY <1>1 DEF Freed
<1> HIDE DEF as
<1>4. PICK cs \in [Accounts -> Account] : cs = as
  BY <1>3
<1>5. /\ Unlock(e, cs) \in [Accounts -> Account]
      /\ \A a \in Accounts :
           /\ Unlock(e, cs)[a].state = cs[a].state /\ Unlock(e, cs)[a].default = cs[a].default
           /\ Unlock(e, cs)[a].lock = IF cs[a].lock = e THEN NoId ELSE cs[a].lock
  BY UnlockIs
<1>6. Freed(e) = Unlock(e, cs)
  BY <1>3, <1>4
<1>7. \A a \in Accounts : /\ cs[a].state = accounts[a].state /\ cs[a].lock = accounts[a].lock
                          /\ cs[a].default => accounts[a].default /\ accounts[a].lock # e
  BY <1>1, <1>2, <1>4
<1>8. Freed(e) \in [Accounts -> Account]
  BY <1>5, <1>6
<1>9. \A a \in Accounts : /\ Freed(e)[a].state = cs[a].state /\ Freed(e)[a].default = cs[a].default
                          /\ Freed(e)[a].lock = IF cs[a].lock = e THEN NoId ELSE cs[a].lock
  BY <1>5, <1>6
<1> QED BY <1>7, <1>8, <1>9

LEMMA EditFailsStep ==
  ASSUME ConstantsFit, TypeOK, DefaultsInv, NEW e \in Edits, EditFails(e)
  PROVE  TypeOK' /\ DefaultsInv' /\ UNCHANGED <<rows, syncs>> /\ \A a \in Accounts : accounts'[a].state = accounts[a].state
<1>1. /\ edits[e].pc \in {"clearing", "cleared"} /\ accounts' = Unlock(e, accounts) /\ accounts \in [Accounts -> Account]
      /\ edits' = [edits EXCEPT ![e] = EditOver("failed", FALSE)] /\ UNCHANGED <<rows, syncs, locks, drops>>
  BY DEF EditFails, TypeOK
<1>2. edits' \in [Edits -> Edit] /\ edits'[e].pc = "failed" /\ \A d \in Edits \ {e} : edits'[d] = edits[d]
  BY <1>1, EditOverTyped DEF TypeOK
<1>3. /\ accounts' \in [Accounts -> Account]
      /\ \A a \in Accounts : /\ accounts'[a].state = accounts[a].state /\ accounts'[a].default = accounts[a].default
                             /\ accounts'[a].lock = IF accounts[a].lock = e THEN NoId ELSE accounts[a].lock
  BY <1>1, UnlockIs
<1>4. TypeOK'
  BY <1>1, <1>2, <1>3 DEF TypeOK
<1>5. OthersStay(e) /\ EditFits(e)'
  BY <1>2 DEF OthersStay, EditFits
<1>6. NoNewDefault(e)
  BY <1>3 DEF NoNewDefault, Defaults, DefaultsInv, DefaultsLive, Live
<1> QED BY <1>1, <1>3, <1>4, <1>5, <1>6, DefaultsKept

\* An edit that is written, and makes its account the default if it says so.
LEMMA EditWritten ==
  ASSUME ConstantsFit, TypeOK, DefaultsInv, NEW e \in Edits, edits[e].pc = "cleared",
         UNCHANGED <<rows, syncs, locks, drops>>, accounts' \in [Accounts -> Account], DefaultsLive',
         edits' = IF edits[e].default = "yes" THEN Crossed(e) ELSE [edits EXCEPT ![e] = EditOver("done", FALSE)],
         \A a \in Defaults' :
            \/ edits[e].default = "yes" /\ a = edits[e].account
            \/ a \in Defaults /\ accounts[a].lock # e /\ accounts'[a].lock = accounts[a].lock
  PROVE  TypeOK' /\ DefaultsInv'
<1>1. CASE edits[e].default = "yes"
  BY <1>1, DefaultsCross DEF TypeOK
<1>2. CASE edits[e].default # "yes"
  <2>1. edits' = [edits EXCEPT ![e] = EditOver("done", FALSE)]
    BY <1>2
  <2>2. edits' \in [Edits -> Edit] /\ edits'[e].pc = "done" /\ \A d \in Edits \ {e} : edits'[d] = edits[d]
    BY <2>1, EditOverTyped DEF TypeOK
  <2>3. OthersStay(e) /\ EditFits(e)'
    BY <2>2 DEF OthersStay, EditFits
  <2>4. NoNewDefault(e)
    BY <1>2 DEF NoNewDefault, DefaultsLive
  <2>5. TypeOK'
    BY <2>2 DEF TypeOK
  <2> QED BY <2>3, <2>4, <2>5, DefaultsKept
<1> QED BY <1>1, <1>2

LEMMA CreateAccountStep ==
  ASSUME ConstantsFit, TypeOK, DefaultsInv, NEW e \in Edits, CreateAccount(e)
  PROVE  /\ TypeOK' /\ DefaultsInv' /\ UNCHANGED <<rows, syncs>>
         /\ \A a \in Accounts : \/ accounts'[a].state = accounts[a].state
                                \/ accounts[a].state = "unused" /\ accounts'[a].state = "live"
<1> DEFINE a == edits[e].account
           x == [NoAccount("live") EXCEPT !.enabled = TRUE, !.default = edits[e].default = "yes"]
<1>1. /\ edits[e].pc = "cleared" /\ accounts[a].state = "unused" /\ UNCHANGED <<rows, syncs, locks, drops>>
      /\ edits' = IF edits[e].default = "yes" THEN Crossed(e) ELSE [edits EXCEPT ![e] = EditOver("done", FALSE)]
      /\ accounts' = [Freed(e) EXCEPT ![a] = x]
  BY DEF CreateAccount, Freed
<1>2. a \in Accounts
  BY <1>1 DEF DefaultsInv, EditsFit, EditFits
<1>3. x \in Account /\ x.state = "live" /\ (x.default <=> edits[e].default = "yes")
  BY DEF NoAccount, Account
<1> HIDE DEF x
<1> HIDE DEF a
<1>4. accounts' \in [Accounts -> Account] /\ accounts'[a] = x /\ \A b \in Accounts \ {a} : accounts'[b] = Freed(e)[b]
  <2>1. Freed(e) \in [Accounts -> Account]
    BY FreedIs
  <2> QED BY <1>1, <1>2, <1>3, <2>1
<1>5. \A b \in Accounts : \/ accounts'[b].state = accounts[b].state
                          \/ accounts[b].state = "unused" /\ accounts'[b].state = "live"
  BY <1>1, <1>3, <1>4, FreedIs
<1>6. \A b \in Defaults' :
         \/ edits[e].default = "yes" /\ b = a
         \/ b \in Defaults /\ accounts[b].lock # e /\ accounts'[b].lock = accounts[b].lock
  BY <1>3, <1>4, FreedIs DEF Defaults
<1>7. DefaultsLive'
  <2> SUFFICES ASSUME NEW b \in Accounts, accounts'[b].default PROVE accounts'[b].state = "live"
    BY DEF DefaultsLive, Defaults, Live
  <2>1. CASE b = a
    BY <1>3, <1>4, <2>1
  <2>2. CASE b # a
    <3>1. b \in Defaults /\ accounts'[b].state = accounts[b].state
      BY <1>4, <2>2, FreedIs DEF Defaults
    <3> QED BY <3>1 DEF DefaultsInv, DefaultsLive, Live
  <2> QED BY <2>1, <2>2
<1> QED BY <1>1, <1>4, <1>5, <1>6, <1>7, EditWritten DEF a

LEMMA PatchAccountStep ==
  ASSUME ConstantsFit, TypeOK, DefaultsInv, NEW e \in Edits, PatchAccount(e)
  PROVE  TypeOK' /\ DefaultsInv' /\ UNCHANGED <<rows, syncs>> /\ \A a \in Accounts : accounts'[a].state = accounts[a].state
<1> DEFINE r == edits[e]
           a == r.account
           enabled == CASE r.status = "keep" -> accounts[a].enabled
                        [] r.status = "enabled" -> TRUE [] r.status = "disabled" -> FALSE
           default == IF r.status = "disabled" THEN FALSE ELSE IF r.default = "keep" THEN accounts[a].default
                      ELSE r.default = "yes"
           x == [accounts[a] EXCEPT !.enabled = enabled, !.default = default]
<1>1. /\ r.pc = "cleared" /\ accounts[a].lock = NoId /\ UNCHANGED <<rows, syncs, locks, drops>>
      /\ edits' = IF r.default = "yes" THEN Crossed(e) ELSE [edits EXCEPT ![e] = EditOver("done", FALSE)]
      /\ accounts' = IF Live(a) THEN [Freed(e) EXCEPT ![a] = x] ELSE Freed(e)
  BY DEF PatchAccount, Freed
<1>2. a \in Accounts /\ r \in Edit /\ accounts[a] \in Account /\ e # NoId
  BY <1>1 DEF DefaultsInv, EditsFit, EditFits, TypeOK, ConstantsFit
<1>3. enabled \in BOOLEAN /\ default \in BOOLEAN
  BY <1>2, EditTyped, AccountTyped
<1>4. default => r.default = "yes" \/ accounts[a].default
  OBVIOUS
<1> HIDE DEF enabled, default
<1>5. /\ x \in Account /\ x.state = accounts[a].state /\ x.lock = accounts[a].lock
      /\ x.default => r.default = "yes" \/ accounts[a].default
  <2>1. x \in Account /\ x.state = accounts[a].state /\ x.lock = accounts[a].lock /\ x.default = default
    BY <1>2, <1>3 DEF Account
  <2> HIDE DEF x
  <2> QED BY <1>4, <2>1
<1> HIDE DEF x
<1>6. /\ accounts' \in [Accounts -> Account] /\ ((accounts'[a] = x /\ Live(a)) \/ accounts'[a] = Freed(e)[a])
      /\ \A b \in Accounts \ {a} : accounts'[b] = Freed(e)[b]
  BY <1>1, <1>2, <1>5, FreedIs
<1> HIDE DEF a
<1>7. \A b \in Accounts : accounts'[b].state = accounts[b].state
  BY <1>5, <1>6, FreedIs
<1>8. \A b \in Defaults' :
         \/ r.default = "yes" /\ b = a
         \/ b \in Defaults /\ accounts[b].lock # e /\ accounts'[b].lock = accounts[b].lock
  <2> SUFFICES ASSUME NEW b \in Accounts, accounts'[b].default, ~(r.default = "yes" /\ b = a)
               PROVE  accounts[b].default /\ accounts[b].lock # e /\ accounts'[b].lock = accounts[b].lock
    BY DEF Defaults
  <2>1. CASE accounts'[b] = Freed(e)[b]
    BY <2>1, FreedIs
  <2>2. CASE b = a /\ accounts'[a] = x
    BY <1>1, <1>2, <1>5, <2>2
  <2> QED BY <1>6, <2>1, <2>2
<1>9. DefaultsLive'
  <2> SUFFICES ASSUME NEW b \in Accounts, accounts'[b].default PROVE accounts[b].state = "live"
    BY <1>7 DEF DefaultsLive, Defaults, Live
  <2>1. CASE accounts'[b] = Freed(e)[b]
    <3>1. b \in Defaults
      BY <2>1, FreedIs DEF Defaults
    <3> QED BY <3>1 DEF DefaultsInv, DefaultsLive, Live
  <2>2. CASE b = a /\ Live(a)
    BY <2>2 DEF Live
  <2> QED BY <1>6, <2>1, <2>2
<1> QED BY <1>1, <1>6, <1>7, <1>8, <1>9, EditWritten DEF a

LEMMA DeleteAccountDefaults ==
  ASSUME ConstantsFit, TypeOK, DefaultsInv, NEW a \in Accounts, DeleteAccount(a)
  PROVE  DefaultsInv'
<1>1. /\ accounts' = [accounts EXCEPT ![a] = NoAccount("deleted")] /\ accounts[a].lock = NoId /\ UNCHANGED edits
      /\ accounts \in [Accounts -> Account]
  BY DEF DeleteAccount, TypeOK
<1>2. \A b \in Defaults' : b \in Defaults /\ accounts'[b] = accounts[b]
  BY <1>1, NoAccountTyped DEF Defaults
<1>3. \A e \in Edits : EditFits(e)'
  BY <1>1, <1>2 DEF DefaultsInv, EditsFit, EditFits, SeesDefaults
<1> QED BY <1>1, <1>2, <1>3 DEF DefaultsInv, EditsFit, DefaultsLive, CrossedDone, Live

-----------------------------------------------------------------------------
(* The theorems.                                                           *)

IInv == TypeOK /\ BindingsInv /\ DefaultsInv

LEMMA EditStepInv ==
  ASSUME ConstantsFit, IInv, NEW e \in Edits, EditStep(e)
  PROVE  IInv'
<1>1. CASE \E a \in Accounts, op \in {"create", "patch"}, status \in {"keep", "enabled", "disabled"},
             default \in {"keep", "yes", "no"} : Arrive(e, op, a, status, default)
  <2>1. TypeOK' /\ DefaultsInv' /\ UNCHANGED <<accounts, rows, syncs>>
    BY <1>1, ArriveStep DEF IInv
  <2> QED BY <2>1, BindingsWhileEdited DEF IInv
<1>2. CASE ClearDefaults(e)
  BY <1>2, ClearDefaultsStep, BindingsWhileEdited DEF IInv
<1>3. CASE CreateAccount(e)
  BY <1>3, CreateAccountStep, BindingsWhileEdited DEF IInv
<1>4. CASE PatchAccount(e)
  BY <1>4, PatchAccountStep, BindingsWhileEdited DEF IInv
<1>5. CASE EditFails(e)
  BY <1>5, EditFailsStep, BindingsWhileEdited DEF IInv
<1> QED BY <1>1, <1>2, <1>3, <1>4, <1>5 DEF EditStep

\* What leaves accounts and edits alone leaves the defaults.
LEMMA DefaultsStay ==
  ASSUME DefaultsInv, UNCHANGED <<accounts, edits>>
  PROVE  DefaultsInv'
BY DEF DefaultsInv, EditsFit, EditFits, SeesDefaults, DefaultsLive, CrossedDone, Defaults, Live

LEMMA SyncStepInv ==
  ASSUME ConstantsFit, IInv, NEW s \in Syncs, SyncStep(s)
  PROVE  IInv'
<1>1. UNCHANGED <<accounts, edits>>
  BY DEF SyncStep, ListModels, LockAccount, PlanBindingWrites, PersistModels, RefreshModels, SyncFails
<1>2. TypeOK' /\ BindingsInv'
  <2>1. CASE \E kind \in {"job", "refresh"}, a \in Accounts, models \in SUBSET Models : ListModels(s, kind, a, models)
    BY <2>1, ListModelsStep DEF IInv
  <2>2. CASE LockAccount(s)
    BY <2>2, LockAccountStep DEF IInv
  <2>3. CASE PlanBindingWrites(s)
    BY <2>3, PlanBindingWritesStep DEF IInv
  <2>4. CASE PersistModels(s)
    BY <2>4, PersistModelsStep DEF IInv
  <2>5. CASE RefreshModels(s)
    BY <2>5, RefreshModelsStep DEF IInv
  <2>6. CASE SyncFails(s)
    BY <2>6, SyncFailsStep DEF IInv
  <2> QED BY <2>1, <2>2, <2>3, <2>4, <2>5, <2>6 DEF SyncStep
<1> QED BY <1>1, <1>2, DefaultsStay DEF IInv

LEMMA NextInv == ASSUME ConstantsFit, IInv, [Next]_vars PROVE IInv'
<1>1. CASE \E e \in Edits : EditStep(e)
  BY <1>1, EditStepInv
<1>2. CASE \E s \in Syncs : SyncStep(s)
  BY <1>2, SyncStepInv
<1>3. CASE \E a \in Accounts : DeleteAccount(a)
  BY <1>3, DeleteAccountBindings, DeleteAccountDefaults DEF IInv
<1>4. CASE \E i \in DOMAIN rows : ToggleBinding(i)
  <2>1. UNCHANGED <<accounts, edits>>
    BY <1>4 DEF ToggleBinding
  <2> QED BY <1>4, <2>1, ToggleBindingStep, DefaultsStay DEF IInv
<1>5. CASE \E m \in Models : DropCatalogEntry(m)
  <2>1. UNCHANGED <<accounts, edits>>
    BY <1>5 DEF DropCatalogEntry
  <2> QED BY <1>5, <2>1, DropCatalogEntryStep, DefaultsStay DEF IInv
<1>6. CASE UNCHANGED vars
  <2>1. TypeOK' /\ UNCHANGED <<accounts, rows, syncs, edits>>
    BY <1>6 DEF vars, IInv, TypeOK
  <2> QED BY <2>1, BindingsWhileEdited, DefaultsStay DEF IInv
<1> QED BY <1>1, <1>2, <1>3, <1>4, <1>5, <1>6 DEF Next

LEMMA Invariance == ASSUME ConstantsFit PROVE Spec => []IInv
<1>1. Init => IInv
  BY InitInv DEF IInv
<1>2. IInv /\ [Next]_vars => IInv'
  BY NextInv
<1> QED BY <1>1, <1>2, PTL DEF Spec

\* Every state is well typed.
THEOREM TypeCorrect == ASSUME ConstantsFit PROVE Spec => []TypeOK
<1>1. IInv => TypeOK
  BY DEF IInv
<1> QED BY Invariance, <1>1, PTL

\* A set whose elements are all one has at most one.
LEMMA AtMostOne ==
  ASSUME NEW S, \A x, y \in S : x = y
  PROVE  Cardinality(S) \in {0, 1}
<1>1. CASE S = {}
  BY <1>1, FS_EmptySet
<1>2. CASE S # {}
  <2>1. PICK x \in S : TRUE
    BY <1>2
  <2>2. S = {x}
    BY <2>1
  <2> QED BY <2>2, FS_Singleton
<1> QED BY <1>1, <1>2

LEMMA OneLinked == ASSUME ConstantsFit, IInv PROVE OneBindingPerModel
<1>1. ASSUME NEW a \in Accounts, NEW m \in Models PROVE Cardinality(Linked(rows, a, m)) <= 1
  <2>1. \A i, j \in Linked(rows, a, m) : i = j
    BY DEF Linked, IInv, BindingsInv, LinkedOnce, Once
  <2>2. Cardinality(Linked(rows, a, m)) \in {0, 1}
    BY <2>1, AtMostOne
  <2> QED BY <2>2
<1> QED BY <1>1 DEF OneBindingPerModel, IInv, BindingsInv, RowsLive

LEMMA CrossedDefaults == ASSUME ConstantsFit, IInv PROVE DefaultsCrossed
<1>1. CASE \A a, b \in Defaults : a = b
  <2>1. Cardinality(Defaults) \in {0, 1}
    BY <1>1, AtMostOne
  <2> QED BY <2>1 DEF DefaultsCrossed
<1>2. CASE ~(\A a, b \in Defaults : a = b)
  BY <1>2 DEF DefaultsCrossed, IInv, DefaultsInv, CrossedDone
<1> QED BY <1>1, <1>2

\* A model has one binding that is linked in an account, whichever sync or refresh wrote it
\* (provider-sync-deps.ts:115-195, models/route.ts:78-137).
THEOREM BindingsAreUnique == ASSUME ConstantsFit PROVE Spec => []OneBindingPerModel
<1>1. IInv => OneBindingPerModel
  BY OneLinked
<1> QED BY Invariance, <1>1, PTL

\* Two accounts are the default only when two edits crossed (providers/route.ts:65-90,
\* accounts/[accountId]/route.ts:42-65).
THEOREM DefaultsNeedCrossing == ASSUME ConstantsFit PROVE Spec => []DefaultsCrossed
<1>1. IInv => DefaultsCrossed
  BY CrossedDefaults
<1> QED BY Invariance, <1>1, PTL

-----------------------------------------------------------------------------
(* What a step leaves of an operator's choice.                             *)

LEMMA PersistKeepsChoice ==
  ASSUME ConstantsFit, IInv, NEW s \in Syncs, PersistModels(s)
  PROVE  \A i \in DOMAIN rows : rows[i] # NoRow => rows'[i].enabled = rows[i].enabled
<1> DEFINE a == syncs[s].account
           new == {m \in syncs[s].models : syncs[s].match[m] = 0}
           rs == JobWrites(s)
<1>1. SyncFits(s) /\ syncs[s] \in Sync /\ syncs[s].pc = "planned" /\ DOMAIN rows = 1..MaxRows
  BY DEF IInv, BindingsInv, SyncsFit, PersistModels, TypeOK
<1>2. a \in Accounts /\ new \in SUBSET Models
  BY <1>1, SyncTyped DEF SyncFits
<1>3. rows' \in Inserted(rs, a, new, FALSE)
  BY DEF PersistModels
<1>4. rs \in [1..MaxRows -> Row \cup {NoRow}]
  BY <1>2, JobWritesKeep DEF IInv
<1>5. \A i \in 1..MaxRows : (rs[i] = NoRow <=> rows[i] = NoRow) /\ rs[i].enabled = rows[i].enabled
  BY <1>2, JobWritesKeep DEF IInv
<1> HIDE DEF rs, new, a
<1>6. OnlyInserts(rs, a, new, FALSE, rows')
  BY <1>2, <1>3, <1>4, InsertedKeeps
<1> QED BY <1>1, <1>5, <1>6 DEF OnlyInserts

LEMMA RefreshFollowsList ==
  ASSUME ConstantsFit, IInv, NEW s \in Syncs, RefreshModels(s)
  PROVE  \A i \in DOMAIN rows' : rows'[i].account = syncs[s].account /\ rows'[i].linked /\ rows'[i].enabled
            => rows'[i].model \in syncs[s].models
<1> DEFINE a == syncs[s].account
           ms == syncs[s].models
           rs == Disabled(a, ms)
<1>1. a \in Accounts /\ ms \in SUBSET Models
  BY SyncTyped DEF IInv, BindingsInv, SyncsFit, SyncFits, RefreshModels, TypeOK
<1>2. rows' \in Inserted(rs, a, ms, TRUE)
  BY DEF RefreshModels
<1>3. rs \in [1..MaxRows -> Row \cup {NoRow}]
  BY <1>1, DisabledKeeps DEF IInv
<1>4. \A i \in 1..MaxRows : rs[i].account = a /\ rs[i].linked /\ rs[i].model \notin ms => ~rs[i].enabled
  BY <1>1, DisabledKeeps DEF IInv
<1> HIDE DEF rs
<1>5. OnlyInserts(rs, a, ms, TRUE, rows')
  BY <1>1, <1>2, <1>3, InsertedKeeps
<1> SUFFICES ASSUME NEW i \in 1..MaxRows, rows'[i].account = a, rows'[i].linked, rows'[i].enabled
             PROVE  rows'[i].model \in ms
  BY <1>5 DEF OnlyInserts
<1>6. CASE rs[i] = NoRow
  BY <1>5, <1>6, NoRowFields DEF OnlyInserts
<1>7. CASE rs[i] # NoRow
  BY <1>4, <1>5, <1>7 DEF OnlyInserts
<1> QED BY <1>6, <1>7

\* An edit leaves the bindings and the syncs.
LEMMA EditsKeepSyncs == ASSUME NEW e \in Edits, EditStep(e) PROVE UNCHANGED <<rows, syncs>>
<1>1. ASSUME NEW a \in Accounts, NEW op \in {"create", "patch"}, NEW status \in {"keep", "enabled", "disabled"},
             NEW default \in {"keep", "yes", "no"}, Arrive(e, op, a, status, default)
      PROVE  UNCHANGED <<rows, syncs>>
  BY <1>1 DEF Arrive
<1>2. CASE ClearDefaults(e)
  BY <1>2 DEF ClearDefaults
<1>3. CASE CreateAccount(e)
  BY <1>3 DEF CreateAccount
<1>4. CASE PatchAccount(e)
  BY <1>4 DEF PatchAccount
<1>5. CASE EditFails(e)
  BY <1>5 DEF EditFails
<1> QED BY <1>1, <1>2, <1>3, <1>4, <1>5 DEF EditStep

\* No step switches a binding while it ends a job's transaction;
LEMMA JobSwitchesNone ==
  ASSUME ConstantsFit, IInv, Next, NEW i \in DOMAIN rows, rows[i] # NoRow, rows'[i] # NoRow,
         rows'[i].enabled # rows[i].enabled, NEW s \in Syncs, syncs[s].pc = "planned"
  PROVE  syncs'[s] = syncs[s]
<1>1. CASE \E e \in Edits : EditStep(e)
  BY <1>1, EditsKeepSyncs
<1>2. CASE \E q \in Syncs : SyncStep(q)
  <2>1. PICK q \in Syncs : SyncStep(q)
    BY <1>2
  <2>2. CASE PersistModels(q)
    BY <2>2, PersistKeepsChoice
  <2>3. CASE RefreshModels(q)
    <3>1. q # s /\ Release(q, "done")
      BY <2>3 DEF RefreshModels
    <3> QED BY <3>1, ReleaseIs DEF IInv
  <2>4. CASE ~PersistModels(q) /\ ~RefreshModels(q)
    BY <2>1, <2>4 DEF SyncStep, ListModels, LockAccount, PlanBindingWrites, SyncFails
  <2> QED BY <2>2, <2>3, <2>4
<1>3. CASE \E a \in Accounts : DeleteAccount(a)
  BY <1>3 DEF DeleteAccount
<1>4. CASE \E j \in DOMAIN rows : ToggleBinding(j)
  BY <1>4 DEF ToggleBinding
<1>5. CASE \E m \in Models : DropCatalogEntry(m)
  BY <1>5 DEF DropCatalogEntry
<1> QED BY <1>1, <1>2, <1>3, <1>4, <1>5 DEF Next

\* and a refresh that ends has written.
LEMMA RefreshEnds ==
  ASSUME ConstantsFit, IInv, Next, NEW s \in Syncs, syncs[s].kind = "refresh", syncs'[s].pc = "done"
  PROVE  RefreshModels(s)
<1>1. SyncFits(s) /\ syncs[s] \in Sync
  BY DEF IInv, BindingsInv, SyncsFit, TypeOK
<1>2. syncs[s].pc \in {"listed", "locked"}
  BY <1>1, SyncTyped DEF SyncFits
<1>3. syncs'[s] # syncs[s]
  BY <1>2
<1>4. PICK q \in Syncs : SyncStep(q)
  BY <1>3, EditsKeepSyncs DEF Next, DeleteAccount, ToggleBinding, DropCatalogEntry
<1>5. q = s
  <2> SUFFICES ASSUME q # s PROVE syncs'[s] = syncs[s]
    BY <1>3
  <2>1. syncs \in [Syncs -> Sync]
    BY DEF IInv, TypeOK
  <2> QED BY <1>4, <2>1 DEF SyncStep, ListModels, LockAccount, PlanBindingWrites, PersistModels, RefreshModels,
                            SyncFails, Release
<1>6. ~SyncFails(s)
  BY ReleaseIs DEF SyncFails, IInv
<1>7. ~LockAccount(s)
  <2> SUFFICES ASSUME LockAccount(s) PROVE FALSE
    OBVIOUS
  <2>1. syncs' = [syncs EXCEPT ![s].pc = "locked"] /\ syncs \in [Syncs -> Sync]
    BY DEF LockAccount, IInv, TypeOK
  <2>2. syncs'[s] = [syncs[s] EXCEPT !.pc = "locked"]
    BY <2>1
  <2> QED BY <1>1, <2>2, SyncMoved, SyncTyped
<1> QED BY <1>2, <1>4, <1>5, <1>6, <1>7 DEF SyncStep, ListModels, PlanBindingWrites, PersistModels

LEMMA KeepsChoice == ASSUME ConstantsFit, IInv, Next PROVE ChoiceSurvivesStep
<1>1. ASSUME NEW s \in Syncs, syncs[s].kind = "refresh", syncs'[s].pc = "done"
      PROVE  \A i \in DOMAIN rows' : rows'[i].account = syncs[s].account =>
                (rows'[i].linked /\ rows'[i].enabled => rows'[i].model \in syncs[s].models)
  BY <1>1, RefreshEnds, RefreshFollowsList
<1> QED BY <1>1, JobSwitchesNone DEF ChoiceSurvivesStep

\* A job changes no operator's choice, and a refresh leaves no binding of a catalog entry
\* enabled that its list does not name (provider-sync-deps.ts:167-176, models/route.ts:79-137).
THEOREM ChoicesSurvive == ASSUME ConstantsFit PROVE Spec => ChoiceSurvives
<1>1. IInv /\ [Next]_vars => [ChoiceSurvivesStep]_vars
  BY KeepsChoice
<1> QED BY Invariance, <1>1, PTL DEF Spec, ChoiceSurvives

-----------------------------------------------------------------------------
(* The pages.                                                              *)

\* What the constants must be.
DeskFits == MaxAccounts \in Nat \ {0} /\ MaxErrands \in Nat \ {0} /\ MaxClicks \in Nat

\* Nothing the page has read or filled in is a disabled default.
Sound(entry) == ~(entry.status = "disabled" /\ entry.default)

AllSound(listing) == \A a \in AccountIds : Sound(listing[a])

SoundInv ==
  /\ AllSound(registry.accounts) /\ AllSound(desk.listed) /\ Sound(desk.form)
  /\ \A k \in Errands :
       /\ AllSound(errands[k].items) /\ Sound(errands[k].form)
       /\ errands[k].op \notin {"load", "create"} => errands[k].id \in AccountIds

\* One form is saved at a time.
Saves(k) == errands[k].step # "free" /\ errands[k].op \in {"create", "update"}

WorkInv == WaitsForWork /\ \A j, k \in Errands : Saves(j) /\ Saves(k) => j = k

RanksFit ==
  /\ \A k \in Errands : errands[k].old => k \in Read
  /\ \A k \in Read : errands[k].rank \in 1..Cardinality(Read)
  /\ \A j, k \in Read : errands[j].rank = errands[k].rank => j = k

\* A list is still to be read, for what has changed;
Coming ==
  \E k \in Errands : \/ errands[k].step = "sent" /\ errands[k].listing
                     \/ errands[k].step = "ok" /\ ~errands[k].listing /\ Reloads(errands[k])

\* or has been, after the list of rank n.
Newer(n) ==
  \E k \in Read : errands[k].rank > n /\ ~errands[k].old /\ errands[k].items = registry.accounts

ManagerInv ==
  OnManager =>
    /\ \A k \in Read : errands[k].old \/ errands[k].items = registry.accounts \/ Coming \/ Newer(errands[k].rank)
    /\ desk.missed \/ desk.listed = registry.accounts \/ Coming \/ Newer(0)

\* A toggle that has been granted, and its binding now.
Granting(k) == errands[k].op = "toggle" /\ errands[k].step = "ok"

Switched(entry, e) == [entry EXCEPT !.model = IF e.enable THEN "on" ELSE "off"]

ModelsErrands ==
  \A k \in Waiting :
    \/ errands[k].op = "toggle" /\ ~errands[k].listing
    \/ /\ errands[k].op = "load" /\ errands[k].listing
       /\ Waiting = {k} /\ desk.listed = Nothing
       /\ k \in Read => errands[k].items = registry.accounts

TogglesApart ==
  \A j, k \in Waiting : errands[j].op = "toggle" /\ errands[k].op = "toggle" /\ errands[j].id = errands[k].id => j = k

Agrees(a) ==
  /\ \A k \in Errands : Granting(k) /\ errands[k].id = a => registry.accounts[a] = Switched(desk.listed[a], errands[k])
  /\ (\A k \in Errands : ~(Granting(k) /\ errands[k].id = a)) => registry.accounts[a] = desk.listed[a]

ModelsInv ==
  ~OnManager =>
    /\ registry.queued = {}
    /\ ModelsErrands
    /\ ~desk.crossed => TogglesApart
    /\ ~desk.missed /\ ~desk.crossed =>
         (\E k \in Waiting : errands[k].op = "load" /\ errands[k].step # "failed") \/ \A a \in AccountIds : Agrees(a)

DeskInv == DeskTypeOK /\ SoundInv /\ WorkInv /\ RanksFit /\ ManagerInv /\ ModelsInv

-----------------------------------------------------------------------------
(* Records.                                                                *)

Registry == [accounts : Listings, made : 0..MaxAccounts, queued : SUBSET AccountIds]

LEMMA DeskTyped ==
  ASSUME NEW d \in Desk
  PROVE  /\ d.page \in {"manager", "models"} /\ d.listed \in Listings /\ d.loading \in BOOLEAN /\ d.saving \in BOOLEAN
         /\ d.busy \in [Kinds -> 0..MaxAccounts] /\ d.editing \in 0..MaxAccounts /\ d.form \in Form
         /\ d.selected \in 0..MaxAccounts /\ d.error \in BOOLEAN /\ d.missed \in BOOLEAN /\ d.crossed \in BOOLEAN
         /\ d.clicks \in 0..MaxClicks
BY DEF Desk

LEMMA ErrandTyped ==
  ASSUME NEW x \in Errand
  PROVE  /\ x.op \in {"load", "create", "update"} \cup Kinds /\ x.step \in {"free", "sent", "ok", "failed"}
         /\ x.listing \in BOOLEAN /\ x.id \in 0..MaxAccounts /\ x.form \in Form /\ x.enable \in BOOLEAN
         /\ x.items \in Listings /\ x.rank \in 0..MaxErrands /\ x.old \in BOOLEAN
BY DEF Errand

LEMMA Wider ==
  ASSUME NEW x \in Entry \cup {NoEntry}
  PROVE  x \in [status : {"enabled", "disabled"}, default : BOOLEAN, model : {"none", "on", "off", "absent"}]
<1>1. NoEntry \in [status : {"enabled", "disabled"}, default : BOOLEAN, model : {"none", "on", "off", "absent"}]
  BY DEF NoEntry
<1> QED BY <1>1 DEF Entry

\* A binding that is set is one of an account, listed or not.
LEMMA Modelled ==
  ASSUME NEW x \in Entry \cup {NoEntry}, NEW m \in {"on", "off"}
  PROVE  /\ [x EXCEPT !.model = m] \in Entry /\ [x EXCEPT !.model = m] # NoEntry
         /\ [x EXCEPT !.model = m].status = x.status /\ [x EXCEPT !.model = m].default = x.default
         /\ [x EXCEPT !.model = m].model = m
<1> DEFINE y == [x EXCEPT !.model = m]
<1>1. y \in Entry /\ y.status = x.status /\ y.default = x.default /\ y.model = m
  BY Wider DEF Entry
<1>2. NoEntry.model # m
  BY DEF NoEntry
<1> QED BY <1>1, <1>2

LEMMA BlankTyped == Blank \in Form /\ Sound(Blank)
BY DEF Blank, Form, Sound

LEMMA NothingTyped == Nothing \in Listings /\ AllSound(Nothing)
<1>1. Nothing \in Listings /\ \A a \in AccountIds : Nothing[a] = NoEntry
  BY DEF Nothing, Listings
<1>2. ~NoEntry.default
  BY DEF NoEntry
<1> QED BY <1>1, <1>2 DEF AllSound, Sound

LEMMA FreeTyped ==
  ASSUME DeskFits
  PROVE  /\ Free \in Errand /\ Free.op = "load" /\ Free.step = "free" /\ Free.listing = FALSE /\ Free.id = None
         /\ Free.form = Blank /\ Free.enable = FALSE /\ Free.items = Nothing /\ Free.rank = 0 /\ Free.old = FALSE
<1>1. None \in 0..MaxAccounts /\ 0 \in 0..MaxErrands
  BY DEF None, DeskFits
<1> QED BY <1>1, BlankTyped, NothingTyped DEF Free, Errand

LEMMA SentTyped ==
  ASSUME DeskFits, NEW op \in {"load", "create", "update"} \cup Kinds, NEW a \in AccountIds \cup {None}
  PROVE  /\ Sent(op, a) \in Errand /\ Sent(op, a).op = op /\ Sent(op, a).step = "sent" /\ Sent(op, a).listing = FALSE
         /\ Sent(op, a).id = a /\ Sent(op, a).form = Blank /\ Sent(op, a).enable = FALSE /\ Sent(op, a).items = Nothing
         /\ Sent(op, a).rank = 0 /\ Sent(op, a).old = FALSE
<1>1. a \in 0..MaxAccounts
  BY DEF AccountIds, None, DeskFits
<1>2. Sent(op, a) = [Free EXCEPT !.op = op, !.step = "sent", !.id = a]
  BY DEF Sent
<1> QED BY <1>1, <1>2, FreeTyped DEF Errand

-----------------------------------------------------------------------------
(* What the server grants.                                                 *)

LEMMA Undefaults ==
  ASSUME NEW as \in Listings, AllSound(as), NEW default \in BOOLEAN
  PROVE  /\ Undefaulted(as, default) \in Listings /\ AllSound(Undefaulted(as, default))
         /\ \A a \in AccountIds : as[a] \in Entry => Undefaulted(as, default)[a] \in Entry
<1>1. CASE ~default
  BY <1>1 DEF Undefaulted
<1>2. CASE default
  <2> DEFINE us == [a \in AccountIds |-> [as[a] EXCEPT !.default = FALSE]]
  <2>1. Undefaulted(as, default) = us
    BY <1>2 DEF Undefaulted
  <2>2. ASSUME NEW a \in AccountIds
        PROVE  us[a] \in Entry \cup {NoEntry} /\ ~us[a].default /\ (as[a] \in Entry => us[a] \in Entry)
    <3>1. as[a] \in Entry \cup {NoEntry} /\ us[a] = [as[a] EXCEPT !.default = FALSE]
      BY DEF Listings
    <3> HIDE DEF us
    <3>2. CASE as[a] \in Entry
      BY <3>1, <3>2 DEF Entry
    <3>3. CASE as[a] = NoEntry
      <4>1. ~NoEntry.default /\ [NoEntry EXCEPT !.default = FALSE] = NoEntry
        <5>1. NoEntry \in [status : {"enabled", "disabled"}, default : BOOLEAN, model : {"none", "on", "off", "absent"}]
          BY DEF NoEntry
        <5>2. NoEntry.default = FALSE
          BY DEF NoEntry
        <5>3. [NoEntry EXCEPT !.default = FALSE] = NoEntry
          BY <5>1, <5>2
        <5> QED BY <5>2, <5>3
      <4>2. NoEntry \notin Entry
        BY DEF Entry, NoEntry
      <4> QED BY <3>1, <3>3, <4>1, <4>2
    <3> QED BY <3>1, <3>2, <3>3
  <2> HIDE DEF us
  <2>3. us \in Listings
    BY <2>2 DEF us, Listings
  <2>4. AllSound(us)
    BY <2>2, Zenon DEF AllSound, Sound
  <2> QED BY <2>1, <2>2, <2>3, <2>4
<1> QED BY <1>1, <1>2

LEMMA Grants ==
  ASSUME DeskFits, registry \in Registry, AllSound(registry.accounts),
         NEW e \in Errand, Sound(e.form), e.op \notin {"load", "create"} => e.id \in AccountIds,
         NEW g \in Granted(e)
  PROVE  /\ g \in Registry /\ AllSound(g.accounts)
         /\ e.listing \/ e.op \in {"test", "rotate"} => g = registry
         /\ e.listing \/ e.op # "load"
         /\ ~e.listing /\ e.op = "toggle" =>
              /\ g.queued = registry.queued /\ e.id \in AccountIds
              /\ \A a \in AccountIds : g.accounts[a] = IF a = e.id THEN Switched(registry.accounts[a], e) ELSE registry.accounts[a]
<1> DEFINE as == registry.accounts
           made == registry.made + 1
           us == Undefaulted(as, e.form.default)
<1>1. /\ registry.made \in 0..MaxAccounts /\ registry.queued \subseteq AccountIds /\ as \in Listings
      /\ e.form.default \in BOOLEAN /\ e.form.status \in {"enabled", "disabled"} /\ e.listing \in BOOLEAN /\ e.enable \in BOOLEAN
      /\ e.id \in 0..MaxAccounts /\ e.op \in {"load", "create", "update"} \cup Kinds
  BY ErrandTyped DEF Registry, Form
<1>2. us \in Listings /\ AllSound(us) /\ \A a \in AccountIds : as[a] \in Entry => us[a] \in Entry
  BY <1>1, Undefaults
<1>3. ASSUME NEW bs \in Listings, AllSound(bs)
      PROVE  /\ [registry EXCEPT !.accounts = bs] \in Registry /\ [registry EXCEPT !.accounts = bs].accounts = bs
             /\ [registry EXCEPT !.accounts = bs].queued = registry.queued
  BY <1>3 DEF Registry
<1>4. ASSUME NEW bs \in Listings, AllSound(bs), NEW a \in AccountIds, NEW x \in Entry \cup {NoEntry}, Sound(x)
      PROVE  [bs EXCEPT ![a] = x] \in Listings /\ AllSound([bs EXCEPT ![a] = x])
  BY <1>4 DEF Listings, AllSound
<1> HIDE DEF us, made
<1>5. CASE e.listing
  <2>1. g = registry
    BY <1>5 DEF Granted
  <2> QED BY <1>5, <2>1
<1>6. CASE ~e.listing /\ e.op = "load"
  BY <1>6 DEF Granted, Kinds
<1>7. CASE ~e.listing /\ e.op = "create"
  <2> DEFINE x == [status |-> "enabled", default |-> e.form.default, model |-> "none"]
             bs == [us EXCEPT ![made] = x]
  <2>1. made <= MaxAccounts /\ \E queued \in {registry.queued, registry.queued \cup {made}} :
                                  g = [accounts |-> bs, made |-> made, queued |-> queued]
    BY <1>7 DEF Granted, made, us
  <2>2. made \in AccountIds /\ made \in 0..MaxAccounts
    BY <1>1, <2>1 DEF AccountIds, made, DeskFits
  <2>3. x \in Entry /\ Sound(x)
    BY <1>1 DEF Entry, Sound
  <2>4. bs \in Listings /\ AllSound(bs)
    <3> HIDE DEF x
    <3> QED BY <1>2, <1>4, <2>2, <2>3
  <2> HIDE DEF bs
  <2> QED BY <1>1, <1>7, <2>1, <2>2, <2>4 DEF Registry
<1>8. CASE ~e.listing /\ e.op = "update"
  <2> DEFINE x == [us[e.id] EXCEPT !.status = e.form.status, !.default = e.form.default]
             bs == [us EXCEPT ![e.id] = x]
  <2>1. Has(as, e.id) /\ g = [registry EXCEPT !.accounts = [us EXCEPT ![e.id].status = e.form.status,
                                                                      ![e.id].default = e.form.default]]
    BY <1>8 DEF Granted, us
  <2>2. e.id \in AccountIds
    BY <1>8
  <2>3. us[e.id] \in Entry
    BY <1>1, <1>2, <2>1, <2>2 DEF Has, Listings
  <2>4. [us EXCEPT ![e.id].status = e.form.status, ![e.id].default = e.form.default] = bs
    BY <1>2, <2>2, <2>3 DEF Listings, Entry
  <2>5. x \in Entry /\ x.status = e.form.status /\ x.default = e.form.default
    BY <1>1, <2>3 DEF Entry
  <2>6. Sound(x)
    BY <2>5 DEF Sound
  <2>7. bs \in Listings /\ AllSound(bs)
    <3> HIDE DEF x
    <3> QED BY <1>2, <1>4, <2>2, <2>5, <2>6
  <2> HIDE DEF bs
  <2> QED BY <1>3, <1>8, <2>1, <2>4, <2>7
<1>9. CASE ~e.listing /\ e.op \in {"test", "rotate"}
  <2>1. g = registry
    BY <1>9 DEF Granted
  <2> QED BY <1>9, <2>1
<1>10. CASE ~e.listing /\ e.op = "delete"
  <2>1. g = [registry EXCEPT !.accounts = [as EXCEPT ![e.id] = NoEntry]]
    BY <1>10 DEF Granted
  <2>2. Sound(NoEntry)
    BY DEF Sound, NoEntry
  <2> QED BY <1>1, <1>3, <1>4, <1>10, <2>1, <2>2
<1>11. CASE ~e.listing /\ e.op = "sync"
  <2>1. PICK x \in Synced(as[e.id]) : Has(as, e.id) /\ g = [registry EXCEPT !.accounts = [as EXCEPT ![e.id] = x]]
    BY <1>11 DEF Granted
  <2>2. e.id \in AccountIds /\ as[e.id] \in Entry
    BY <1>1, <1>11, <2>1 DEF Has, Listings
  <2>3. x \in Entry /\ x.status = as[e.id].status /\ x.default = as[e.id].default
    BY <2>2 DEF Synced, Entry
  <2>4. Sound(x)
    BY <2>2, <2>3 DEF AllSound, Sound
  <2> QED BY <1>1, <1>3, <1>4, <1>11, <2>1, <2>2, <2>3, <2>4
<1>12. CASE ~e.listing /\ e.op = "toggle"
  <2> DEFINE x == Switched(as[e.id], e)
             bs == [as EXCEPT ![e.id] = x]
  <2>1. g = [registry EXCEPT !.accounts = bs] /\ e.id \in AccountIds
    BY <1>12 DEF Granted, Switched
  <2>2. as[e.id] \in Entry \cup {NoEntry}
    BY <1>1, <2>1 DEF Listings
  <2>3. x \in Entry /\ x.status = as[e.id].status /\ x.default = as[e.id].default
    BY <2>2, Modelled DEF Switched
  <2>4. Sound(x)
    BY <2>1, <2>3 DEF AllSound, Sound
  <2>5. bs \in Listings /\ AllSound(bs) /\ \A a \in AccountIds : bs[a] = IF a = e.id THEN x ELSE as[a]
    <3> HIDE DEF x
    <3> QED BY <1>1, <1>4, <2>1, <2>3, <2>4 DEF Listings
  <2> HIDE DEF bs
  <2> QED BY <1>3, <1>12, <2>1, <2>5
<1> QED BY <1>1, <1>5, <1>6, <1>7, <1>8, <1>9, <1>10, <1>11, <1>12 DEF Kinds

-----------------------------------------------------------------------------
(* What the handlers under way tell of the page.                           *)

LEMMA Known ==
  ASSUME DeskFits, DeskInv
  PROVE  /\ desk \in Desk /\ registry \in Registry /\ errands \in [Errands -> Errand]
         /\ AllSound(registry.accounts) /\ AllSound(desk.listed) /\ Sound(desk.form)
         /\ \A k \in Errands : /\ errands[k] \in Errand /\ AllSound(errands[k].items) /\ Sound(errands[k].form)
                               /\ errands[k].op \notin {"load", "create"} => errands[k].id \in AccountIds
         /\ WorkInv /\ RanksFit /\ ManagerInv /\ ModelsInv
BY DEF DeskInv, DeskTypeOK, Registry, SoundInv

\* The handlers are those that there were,
LEMMA WorkGoesOn ==
  ASSUME WorkInv,
         \A k \in Errands : /\ errands'[k].step = "free" <=> errands[k].step = "free"
                            /\ errands'[k].op = errands[k].op /\ errands'[k].id = errands[k].id
                            /\ errands[k].listing => errands'[k].listing,
         desk'.saving = desk.saving, desk'.busy = desk.busy,
         desk'.loading => desk.loading \/ \E k \in Errands : errands'[k].step # "free" /\ errands'[k].listing
  PROVE  WorkInv'
<1>1. Waiting' = Waiting
  BY DEF Waiting
<1>2. desk'.loading => \E k \in Waiting : errands'[k].listing
  BY DEF Waiting, WorkInv, WaitsForWork
<1>3. desk'.saving <=> \E k \in Waiting : errands'[k].op \in {"create", "update"}
  BY DEF Waiting, WorkInv, WaitsForWork
<1>4. \A op \in Kinds : desk'.busy[op] # None => \E k \in Waiting : errands'[k].op = op /\ errands'[k].id = desk'.busy[op]
  BY DEF Waiting, WorkInv, WaitsForWork
<1>5. \A j, k \in Errands : Saves(j)' /\ Saves(k)' => j = k
  BY DEF WorkInv, Saves
<1> QED BY <1>1, <1>2, <1>3, <1>4, <1>5 DEF WorkInv, WaitsForWork

\* but for one that is over,
LEMMA WorkEnds ==
  ASSUME DeskFits, WorkInv, NEW k \in Errands, errands[k].step # "free", errands'[k] = Free,
         \A j \in Errands \ {k} : errands'[j].step = errands[j].step /\ errands'[j].op = errands[j].op
                                  /\ errands'[j].id = errands[j].id /\ errands'[j].listing = errands[j].listing,
         desk'.loading => desk.loading /\ ~errands[k].listing,
         desk.saving \in BOOLEAN, desk'.saving = (desk.saving /\ errands[k].op \notin {"create", "update"}),
         \A op \in Kinds : desk'.busy[op] # None => desk'.busy[op] = desk.busy[op] /\ errands[k].op # op
  PROVE  WorkInv'
<1>1. errands'[k].step = "free"
  BY FreeTyped
<1>2. Waiting' = Waiting \ {k}
  BY <1>1 DEF Waiting
<1>3. desk'.loading => \E j \in Waiting' : errands'[j].listing
  BY <1>2 DEF Waiting, WorkInv, WaitsForWork
<1>4. desk'.saving <=> \E j \in Waiting' : errands'[j].op \in {"create", "update"}
  <2>1. CASE desk'.saving
    BY <1>2, <2>1 DEF Waiting, WorkInv, WaitsForWork
  <2>2. ASSUME NEW j \in Waiting', errands'[j].op \in {"create", "update"}
        PROVE  desk'.saving
    <3>1. j \in Errands /\ j # k /\ Saves(j)
      BY <1>2, <2>2 DEF Waiting, Saves
    <3>2. desk.saving /\ ~Saves(k)
      BY <3>1 DEF WorkInv, WaitsForWork, Waiting, Saves
    <3> QED BY <3>2 DEF Saves
  <2> QED BY <2>1, <2>2
<1>5. \A op \in Kinds : desk'.busy[op] # None => \E j \in Waiting' : errands'[j].op = op /\ errands'[j].id = desk'.busy[op]
  BY <1>2 DEF Waiting, WorkInv, WaitsForWork
<1>6. \A i, j \in Errands : Saves(i)' /\ Saves(j)' => i = j
  BY <1>1 DEF WorkInv, Saves
<1> QED BY <1>3, <1>4, <1>5, <1>6 DEF WorkInv, WaitsForWork

\* or one that is new.
LEMMA WorkStarts ==
  ASSUME DeskFits, WorkInv, NEW k \in Errands, errands[k].step = "free", errands'[k].step # "free",
         \A j \in Errands \ {k} : errands'[j] = errands[j],
         desk'.loading => desk.loading \/ errands'[k].listing,
         IF errands'[k].op \in {"create", "update"} THEN desk'.saving /\ ~desk.saving ELSE desk'.saving = desk.saving,
         \A op \in Kinds : desk'.busy[op] # None =>
           desk'.busy[op] = desk.busy[op] \/ (errands'[k].op = op /\ errands'[k].id = desk'.busy[op])
  PROVE  WorkInv'
<1>1. Waiting' = Waiting \cup {k} /\ k \notin Waiting
  BY DEF Waiting
<1>2. desk'.loading => \E j \in Waiting' : errands'[j].listing
  BY <1>1 DEF Waiting, WorkInv, WaitsForWork
<1>3. \A j \in Errands : Saves(j)' => Saves(j) \/ (j = k /\ errands'[k].op \in {"create", "update"})
  BY DEF Saves
<1>4. desk.saving <=> \E j \in Errands : Saves(j)
  BY DEF WorkInv, WaitsForWork, Waiting, Saves
<1>5. desk'.saving <=> \E j \in Errands : Saves(j)'
  BY <1>4 DEF Saves
<1>6. desk'.saving <=> \E j \in Waiting' : errands'[j].op \in {"create", "update"}
  BY <1>5 DEF Saves, Waiting
<1>7. \A op \in Kinds : desk'.busy[op] # None => \E j \in Waiting' : errands'[j].op = op /\ errands'[j].id = desk'.busy[op]
  BY <1>1 DEF Waiting, WorkInv, WaitsForWork
<1>8. \A i, j \in Errands : Saves(i)' /\ Saves(j)' => i = j
  BY <1>3, <1>4 DEF WorkInv
<1> QED BY <1>2, <1>6, <1>7, <1>8 DEF WorkInv, WaitsForWork

\* The lists that have been read are those that there were, and what is to be read is still;
LEMMA ManagerKept ==
  ASSUME DeskFits, RanksFit, ManagerInv, Read' = Read,
         \A k \in Read : errands'[k].items = errands[k].items /\ errands'[k].rank = errands[k].rank
                         /\ errands'[k].old = errands[k].old,
         \A k \in Errands : errands'[k].old => errands[k].old,
         registry'.accounts = registry.accounts, OnManager' = OnManager,
         desk'.listed = desk.listed, desk.missed => desk'.missed, OnManager /\ Coming => Coming'
  PROVE  RanksFit' /\ ManagerInv'
<1>1. RanksFit'
  BY DEF RanksFit
<1>2. \A n : Newer(n) => Newer(n)'
  BY DEF Newer
<1>3. \A k \in Read : Newer(errands[k].rank) => Newer(errands[k].rank)'
  BY DEF Newer
<1>4. ManagerInv'
  BY <1>2, <1>3 DEF ManagerInv
<1> QED BY <1>1, <1>4

\* or what has changed is known to be missing.
LEMMA ManagerMissed ==
  ASSUME DeskFits, RanksFit, Read' = Read, desk'.missed,
         \A k \in Errands : errands'[k].rank = errands[k].rank /\ (errands'[k].old <=> errands[k].old \/ k \in Read)
  PROVE  RanksFit' /\ ManagerInv'
<1>1. RanksFit'
  <2>1. \A k \in Errands : errands'[k].old => k \in Read'
    BY DEF RanksFit
  <2>2. \A k \in Read' : k \in Errands /\ errands'[k].rank = errands[k].rank
    BY DEF Read
  <2> QED BY <2>1, <2>2 DEF RanksFit
<1>2. ManagerInv'
  <2>1. \A k \in Read' : errands'[k].old
    BY DEF Read
  <2> QED BY <2>1 DEF ManagerInv
<1> QED BY <1>1, <1>2

-----------------------------------------------------------------------------
(* What the admin does.                                                    *)

LEMMA Does ==
  ASSUME DeskFits, NEW d \in Desk, d.clicks = desk.clicks, desk \in Desk, Do(d)
  PROVE  /\ desk' \in Desk /\ desk'.page = d.page /\ desk'.listed = d.listed /\ desk'.loading = d.loading
         /\ desk'.saving = d.saving /\ desk'.busy = d.busy /\ desk'.form = d.form /\ desk'.missed = d.missed
         /\ desk'.crossed = d.crossed
<1>1. desk' = [d EXCEPT !.clicks = d.clicks + 1]
  BY DEF Do
<1>2. d.clicks + 1 \in 0..MaxClicks
  BY DeskTyped DEF Do, DeskFits
<1> QED BY <1>1, <1>2 DEF Desk

\* Nothing of the page but the form and the row that is selected changes.
LEMMA FormMoves ==
  ASSUME DeskFits, DeskInv, desk' \in Desk, desk'.page = desk.page, desk'.listed = desk.listed,
         desk'.loading = desk.loading, desk'.saving = desk.saving, desk'.busy = desk.busy, Sound(desk'.form),
         desk'.missed = desk.missed, desk'.crossed = desk.crossed, UNCHANGED <<registry, errands>>
  PROVE  DeskInv'
<1>1. DeskTypeOK' /\ SoundInv'
  BY DEF DeskInv, DeskTypeOK, SoundInv
<1>2. WorkInv'
  BY Known, WorkGoesOn DEF WorkInv, WaitsForWork, Waiting
<1>3. RanksFit' /\ ManagerInv'
  BY Known, SMTT(20) DEF RanksFit, ManagerInv, OnManager, Read, Coming, Reloads, Newer
<1>4. ModelsInv'
  BY Known DEF ModelsInv, OnManager, ModelsErrands, Waiting, Read, TogglesApart, Agrees, Granting
<1> QED BY <1>1, <1>2, <1>3, <1>4 DEF DeskInv

LEMMA EditMoves ==
  ASSUME DeskFits, DeskInv, (\E a \in AccountIds : StartEdit(a)) \/ CancelEdit \/ Select
  PROVE  DeskInv'
<1>0. UNCHANGED <<registry, errands>>
  BY DEF StartEdit, CancelEdit, Select
<1>1. ASSUME NEW a \in AccountIds, StartEdit(a) PROVE DeskInv'
  <2> DEFINE f == [status |-> desk.listed[a].status, default |-> desk.listed[a].default]
             d == [desk EXCEPT !.editing = a, !.form = f]
  <2>1. f \in Form /\ Sound(f)
    <3>1. desk.listed[a] \in Entry \cup {NoEntry} /\ Sound(desk.listed[a])
      BY Known, DeskTyped DEF Listings, AllSound
    <3> QED BY <3>1, Wider DEF Form, Sound
  <2>2. a \in 0..MaxAccounts
    BY DEF AccountIds, DeskFits
  <2>3. d \in Desk /\ d.page = desk.page /\ d.listed = desk.listed /\ d.loading = desk.loading /\ d.saving = desk.saving
        /\ d.busy = desk.busy /\ d.form = f /\ d.missed = desk.missed /\ d.crossed = desk.crossed /\ d.clicks = desk.clicks
    <3> HIDE DEF f
    <3> QED BY <2>1, <2>2, Known DEF Desk
  <2>4. Do(d)
    BY <1>1 DEF StartEdit
  <2> HIDE DEF d, f
  <2> QED BY <1>0, <1>1, <2>1, <2>3, <2>4, Known, Does, FormMoves
<1>2. CASE CancelEdit
  <2> DEFINE d == [desk EXCEPT !.editing = None]
  <2>1. None \in 0..MaxAccounts
    BY DEF None, DeskFits
  <2>2. d \in Desk /\ d.page = desk.page /\ d.listed = desk.listed /\ d.loading = desk.loading /\ d.saving = desk.saving
        /\ d.busy = desk.busy /\ d.form = desk.form /\ d.missed = desk.missed /\ d.crossed = desk.crossed /\ d.clicks = desk.clicks
    BY <2>1, Known DEF Desk
  <2>3. Do(d)
    BY <1>2 DEF CancelEdit
  <2> HIDE DEF d
  <2> QED BY <1>0, <2>2, <2>3, Known, Does, FormMoves
<1>3. CASE Select
  <2>1. PICK a \in Rows(desk.listed) \cup {None} : Do([desk EXCEPT !.selected = a])
    BY <1>3 DEF Select
  <2> DEFINE d == [desk EXCEPT !.selected = a]
  <2>2. a \in 0..MaxAccounts
    BY DEF None, DeskFits, Rows, AccountIds
  <2>3. d \in Desk /\ d.page = desk.page /\ d.listed = desk.listed /\ d.loading = desk.loading /\ d.saving = desk.saving
        /\ d.busy = desk.busy /\ d.form = desk.form /\ d.missed = desk.missed /\ d.crossed = desk.crossed /\ d.clicks = desk.clicks
    BY <2>2, Known DEF Desk
  <2> HIDE DEF d
  <2> QED BY <1>0, <2>1, <2>3, Known, Does, FormMoves DEF d
<1> QED BY <1>1, <1>2, <1>3

\* A handler starts, with the page made d.
LEMMA StartMoves ==
  ASSUME DeskFits, DeskInv, NEW k \in Errands, NEW x \in Errand, NEW d \in Desk, Start(k, x, d),
         x.step = "sent", ~x.old, AllSound(x.items), Sound(x.form), x.op \notin {"load", "create"} => x.id \in AccountIds,
         d.page = desk.page, d.listed = desk.listed, d.form = desk.form, d.missed = desk.missed, d.clicks = desk.clicks,
         d.loading => desk.loading \/ x.listing,
         IF x.op \in {"create", "update"} THEN d.saving /\ ~desk.saving ELSE d.saving = desk.saving,
         \A op \in Kinds : d.busy[op] # None => d.busy[op] = desk.busy[op] \/ (x.op = op /\ x.id = d.busy[op]),
         d.crossed \/ ~desk.crossed,
         ~OnManager => /\ x.op = "toggle" /\ ~x.listing /\ desk.listed # Nothing
                       /\ d.crossed \/ x.id \notin Toggled
  PROVE  DeskInv'
<1> DEFINE f == IF OnManager THEN [d EXCEPT !.error = FALSE] ELSE d
<1>1. f \in Desk /\ f.page = d.page /\ f.listed = d.listed /\ f.loading = d.loading /\ f.saving = d.saving
      /\ f.busy = d.busy /\ f.form = d.form /\ f.missed = d.missed /\ f.crossed = d.crossed /\ f.clicks = d.clicks
  BY DEF Desk
<1>2. Do(f) /\ errands[k].step = "free" /\ errands' = [errands EXCEPT ![k] = x] /\ registry' = registry
  BY DEF Start
<1> HIDE DEF f
<1>3. /\ desk' \in Desk /\ desk'.page = d.page /\ desk'.listed = d.listed /\ desk'.loading = d.loading
      /\ desk'.saving = d.saving /\ desk'.busy = d.busy /\ desk'.form = d.form /\ desk'.missed = d.missed
      /\ desk'.crossed = d.crossed
  BY <1>1, <1>2, Known, Does
<1>4. errands'[k] = x /\ \A j \in Errands \ {k} : errands'[j] = errands[j]
  BY <1>2, Known
<1>5. DeskTypeOK'
  BY <1>2, <1>3 DEF DeskInv, DeskTypeOK
<1>6. SoundInv'
  BY <1>2, <1>3, <1>4, Known DEF SoundInv
<1>7. WorkInv'
  BY <1>2, <1>3, <1>4, Known, WorkStarts
<1>8. Read' = Read /\ k \notin Read /\ OnManager' = OnManager
  BY <1>2, <1>3, <1>4 DEF Read, OnManager
<1>9. RanksFit' /\ ManagerInv'
  <2>1. Coming => Coming'
    BY <1>2, <1>4, <1>8 DEF Coming, Reloads
  <2>2. \A j \in Read : errands'[j] = errands[j]
    BY <1>4, <1>8 DEF Read
  <2> QED BY <1>2, <1>3, <1>4, <1>8, <2>1, <2>2, Known, ManagerKept
<1>10. ModelsInv'
  <2> SUFFICES ASSUME ~OnManager PROVE ModelsInv'
    BY <1>8 DEF ModelsInv
  <2>1. Waiting' = Waiting \cup {k} /\ k \notin Waiting
    BY <1>2, <1>4 DEF Waiting
  <2>2. registry.queued = {} /\ ModelsErrands /\ \A j \in Waiting : errands[j].op = "toggle" /\ ~errands[j].listing
    BY Known DEF ModelsInv, ModelsErrands
  <2>3. ModelsErrands'
    BY <1>4, <2>1, <2>2 DEF ModelsErrands, Waiting
  <2>4. ~desk'.crossed => TogglesApart'
    <3>1. ~desk'.crossed => TogglesApart /\ x.id \notin Toggled
      BY <1>3, Known DEF ModelsInv
    <3> QED BY <1>4, <2>1, <3>1 DEF TogglesApart, Toggled, Waiting
  <2>5. \A j \in Errands : Granting(j)' <=> Granting(j)
    BY <1>2, <1>4 DEF Granting
  <2>6. \A a \in AccountIds : Agrees(a) => Agrees(a)'
    BY <1>2, <1>3, <1>4, <2>5 DEF Agrees, Granting
  <2>7. ~desk'.missed /\ ~desk'.crossed => \A a \in AccountIds : Agrees(a)'
    BY <1>3, <2>2, <2>6, Known DEF ModelsInv
  <2> QED BY <1>2, <2>2, <2>3, <2>4, <2>7 DEF ModelsInv
<1> QED BY <1>5, <1>6, <1>7, <1>9, <1>10 DEF DeskInv

LEMMA LoadMoves ==
  ASSUME DeskFits, DeskInv, NEW k \in Errands, LoadProviders(k)
  PROVE  DeskInv'
<1> DEFINE x == [Sent("load", None) EXCEPT !.listing = TRUE]
           d == [desk EXCEPT !.loading = TRUE]
<1>0. /\ Sent("load", None) \in Errand /\ Sent("load", None).op = "load" /\ Sent("load", None).step = "sent"
      /\ Sent("load", None).listing = FALSE /\ Sent("load", None).form = Blank /\ Sent("load", None).items = Nothing
      /\ Sent("load", None).old = FALSE /\ Sent("load", None).id = None
  <2>1. "load" \in {"load", "create", "update"} \cup Kinds /\ None \in AccountIds \cup {None}
    BY DEF Kinds
  <2> QED BY <2>1, SentTyped
<1>1. Start(k, x, d) /\ OnManager
  BY DEF LoadProviders
<1>2. x \in Errand /\ x.op = "load" /\ x.step = "sent" /\ x.listing /\ x.form = Blank /\ x.items = Nothing /\ ~x.old
  BY <1>0 DEF Errand
<1>3. d \in Desk /\ d.page = desk.page /\ d.listed = desk.listed /\ d.saving = desk.saving
      /\ d.busy = desk.busy /\ d.form = desk.form /\ d.missed = desk.missed /\ d.crossed = desk.crossed /\ d.clicks = desk.clicks
  BY Known DEF Desk
<1> HIDE DEF x, d
<1> QED BY <1>1, <1>2, <1>3, Known, DeskTyped, BlankTyped, NothingTyped, StartMoves

LEMMA CreateMoves ==
  ASSUME DeskFits, DeskInv, NEW k \in Errands, CreateProvider(k)
  PROVE  DeskInv'
<1>1. PICK default \in BOOLEAN :
        Start(k, [Sent("create", None) EXCEPT !.form.default = default], [desk EXCEPT !.saving = TRUE])
  BY DEF CreateProvider
<1> DEFINE x == [Sent("create", None) EXCEPT !.form.default = default]
           d == [desk EXCEPT !.saving = TRUE]
<1>2. OnManager /\ ~desk.saving
  BY DEF CreateProvider
<1>0. /\ Sent("create", None) \in Errand /\ Sent("create", None).op = "create" /\ Sent("create", None).step = "sent"
      /\ Sent("create", None).listing = FALSE /\ Sent("create", None).form = Blank /\ Sent("create", None).items = Nothing
      /\ Sent("create", None).old = FALSE /\ Sent("create", None).id = None
  <2>1. "create" \in {"load", "create", "update"} \cup Kinds /\ None \in AccountIds \cup {None}
    BY DEF Kinds
  <2> QED BY <2>1, SentTyped
<1>3. [Blank EXCEPT !.default = default] \in Form /\ [Blank EXCEPT !.default = default].status = "enabled"
  BY DEF Blank, Form
<1>4. x = [Sent("create", None) EXCEPT !.form = [Blank EXCEPT !.default = default]]
  BY <1>0 DEF Errand
<1>5. x \in Errand /\ x.op = "create" /\ x.step = "sent" /\ ~x.listing /\ x.form = [Blank EXCEPT !.default = default]
      /\ x.items = Nothing /\ ~x.old
  BY <1>0, <1>3, <1>4 DEF Errand
<1>6. d \in Desk /\ d.page = desk.page /\ d.listed = desk.listed /\ d.loading = desk.loading /\ d.saving
      /\ d.busy = desk.busy /\ d.form = desk.form /\ d.missed = desk.missed /\ d.crossed = desk.crossed /\ d.clicks = desk.clicks
  BY Known DEF Desk
<1>7. Sound(x.form)
  BY <1>3, <1>5 DEF Sound
<1> HIDE DEF x, d
<1> QED BY <1>1, <1>2, <1>5, <1>6, <1>7, Known, DeskTyped, NothingTyped, StartMoves DEF x, d

LEMMA UpdateMoves ==
  ASSUME DeskFits, DeskInv, NEW k \in Errands, UpdateProvider(k)
  PROVE  DeskInv'
<1>1. PICK form \in Typed(desk.form) :
        Start(k, [Sent("update", desk.editing) EXCEPT !.form = form], [desk EXCEPT !.saving = TRUE])
  BY DEF UpdateProvider
<1> DEFINE x == [Sent("update", desk.editing) EXCEPT !.form = form]
           d == [desk EXCEPT !.saving = TRUE]
<1>2. OnManager /\ ~desk.saving /\ desk.editing # None
  BY DEF UpdateProvider
<1>3. form \in Form /\ Sound(form)
  BY Known, DeskTyped DEF Typed, Sound
<1>4. desk.editing \in AccountIds
  BY <1>2, Known, DeskTyped DEF AccountIds, None, DeskFits
<1>7. /\ Sent("update", desk.editing) \in Errand /\ Sent("update", desk.editing).op = "update" /\ Sent("update", desk.editing).step = "sent"
      /\ Sent("update", desk.editing).listing = FALSE /\ Sent("update", desk.editing).form = Blank /\ Sent("update", desk.editing).items = Nothing
      /\ Sent("update", desk.editing).old = FALSE /\ Sent("update", desk.editing).id = desk.editing
  <2>1. "update" \in {"load", "create", "update"} \cup Kinds /\ desk.editing \in AccountIds \cup {None}
    BY <1>4 DEF Kinds
  <2> QED BY <2>1, SentTyped
<1>5. x \in Errand /\ x.op = "update" /\ x.step = "sent" /\ ~x.listing /\ x.form = form
      /\ x.items = Nothing /\ ~x.old /\ x.id = desk.editing
  BY <1>3, <1>7 DEF Errand
<1>6. d \in Desk /\ d.page = desk.page /\ d.listed = desk.listed /\ d.loading = desk.loading /\ d.saving
      /\ d.busy = desk.busy /\ d.form = desk.form /\ d.missed = desk.missed /\ d.crossed = desk.crossed /\ d.clicks = desk.clicks
  BY Known DEF Desk
<1> HIDE DEF x, d
<1> QED BY <1>1, <1>2, <1>3, <1>4, <1>5, <1>6, Known, DeskTyped, NothingTyped, StartMoves DEF x, d

LEMMA PressMoves ==
  ASSUME DeskFits, DeskInv, NEW k \in Errands, NEW a \in AccountIds,
         \/ TestProvider(k, a) \/ SyncModels(k, a) \/ RotateKey(k, a) \/ DeleteProvider(k, a)
  PROVE  DeskInv'
<1>1. PICK op \in {"test", "sync", "rotate", "delete"} : Start(k, Sent(op, a), [desk EXCEPT !.busy[op] = a])
  BY DEF TestProvider, SyncModels, RotateKey, DeleteProvider, Press
<1> DEFINE x == Sent(op, a)
           d == [desk EXCEPT !.busy[op] = a]
<1>2. OnManager
  BY DEF TestProvider, SyncModels, RotateKey, DeleteProvider
<1>3. x \in Errand /\ x.op = op /\ x.step = "sent" /\ ~x.listing /\ x.form = Blank /\ x.items = Nothing /\ ~x.old /\ x.id = a
  BY SentTyped, ZenonT(40) DEF Kinds
<1>4. desk.busy \in [Kinds -> 0..MaxAccounts] /\ a \in 0..MaxAccounts /\ op \in Kinds
  BY Known, DeskTyped DEF AccountIds, DeskFits, Kinds
<1>5. d = [desk EXCEPT !.busy = [desk.busy EXCEPT ![op] = a]]
  BY Known DEF Desk
<1>6. d \in Desk /\ d.page = desk.page /\ d.listed = desk.listed /\ d.loading = desk.loading /\ d.saving = desk.saving
      /\ d.busy = [desk.busy EXCEPT ![op] = a] /\ d.form = desk.form /\ d.missed = desk.missed /\ d.crossed = desk.crossed
      /\ d.clicks = desk.clicks
  BY <1>4, <1>5, Known DEF Desk
<1> HIDE DEF x, d
<1>7. op \notin {"load", "create", "update"}
  OBVIOUS
<1>8. \A p \in Kinds : d.busy[p] # None => d.busy[p] = desk.busy[p] \/ (x.op = p /\ x.id = d.busy[p])
  BY <1>3, <1>4, <1>6
<1>9. Start(k, x, d)
  BY <1>1 DEF x, d
<1> QED BY <1>2, <1>3, <1>6, <1>7, <1>8, <1>9, Known, DeskTyped, BlankTyped, NothingTyped, StartMoves

LEMMA ToggleMoves ==
  ASSUME DeskFits, DeskInv, NEW k \in Errands, NEW a \in AccountIds, ToggleModel(k, a)
  PROVE  DeskInv'
<1> DEFINE on == desk.listed[a].model = "off"
           cross == desk.crossed \/ (~OnManager /\ a \in Toggled)
           x == [Sent("toggle", a) EXCEPT !.enable = on]
           d == [desk EXCEPT !.busy["toggle"] = a, !.crossed = cross]
<1>1. Start(k, x, d) /\ desk.listed[a].model \in {"on", "off"}
  <2>1. Start(k, x, [desk EXCEPT !.busy["toggle"] = a, !.crossed = @ \/ (~OnManager /\ a \in Toggled)])
    BY DEF ToggleModel
  <2>2. d = [desk EXCEPT !.busy["toggle"] = a, !.crossed = @ \/ (~OnManager /\ a \in Toggled)]
    BY Known DEF Desk
  <2> HIDE DEF x, d
  <2> QED BY <2>1, <2>2 DEF ToggleModel
<1>2. on \in BOOLEAN /\ cross \in BOOLEAN
  BY Known, DeskTyped
<1>3. desk.busy \in [Kinds -> 0..MaxAccounts] /\ a \in 0..MaxAccounts /\ "toggle" \in Kinds
  BY Known, DeskTyped DEF AccountIds, DeskFits, Kinds
<1>7. /\ Sent("toggle", a) \in Errand /\ Sent("toggle", a).op = "toggle" /\ Sent("toggle", a).step = "sent"
      /\ Sent("toggle", a).listing = FALSE /\ Sent("toggle", a).form = Blank /\ Sent("toggle", a).items = Nothing
      /\ Sent("toggle", a).old = FALSE /\ Sent("toggle", a).id = a
  <2>1. "toggle" \in {"load", "create", "update"} \cup Kinds /\ a \in AccountIds \cup {None}
    BY <1>3 DEF Kinds
  <2> QED BY <2>1, SentTyped
<1>4. x \in Errand /\ x.op = "toggle" /\ x.step = "sent" /\ ~x.listing /\ x.form = Blank /\ x.items = Nothing /\ ~x.old /\ x.id = a
  <2> HIDE DEF on
  <2> QED BY <1>2, <1>7 DEF Errand
<1>5. d \in Desk /\ d.page = desk.page /\ d.listed = desk.listed /\ d.loading = desk.loading /\ d.saving = desk.saving
      /\ d.busy = [desk.busy EXCEPT !["toggle"] = a] /\ d.form = desk.form /\ d.missed = desk.missed
      /\ d.clicks = desk.clicks /\ d.crossed = cross
  <2>1. d = [desk EXCEPT !.busy = [desk.busy EXCEPT !["toggle"] = a], !.crossed = cross]
    BY Known DEF Desk
  <2> HIDE DEF d, cross
  <2> QED BY <1>2, <1>3, <2>1, Known DEF Desk
<1>6. desk.listed # Nothing
  BY <1>1 DEF Nothing, NoEntry
<1> HIDE DEF x, d
<1> QED BY <1>1, <1>3, <1>4, <1>5, <1>6, Known, DeskTyped, BlankTyped, NothingTyped, StartMoves

-----------------------------------------------------------------------------
(* What the server does.                                                   *)

LEMMA ReadCounts ==
  ASSUME DeskFits, NEW k \in Errands
  PROVE  /\ Cardinality(Read) \in Nat
         /\ k \notin Read => Cardinality(Read \cup {k}) = Cardinality(Read) + 1 /\ Cardinality(Read) + 1 <= MaxErrands
         /\ k \in Read => Cardinality(Read \ {k}) = Cardinality(Read) - 1
<1>1. IsFiniteSet(Errands) /\ Cardinality(Errands) = MaxErrands
  BY FS_Interval DEF Errands, DeskFits
<1>2. Read \in SUBSET Errands /\ Read \cup {k} \in SUBSET Errands
  BY DEF Read
<1>3. IsFiniteSet(Read) /\ Cardinality(Read \cup {k}) <= MaxErrands
  BY <1>1, <1>2, FS_Subset
<1>4. Cardinality(Read) \in Nat
  BY <1>3, FS_CardinalityType
<1>5. Cardinality(Read \cup {k}) = IF k \in Read THEN Cardinality(Read) ELSE Cardinality(Read) + 1
  BY <1>3, FS_AddElement
<1>6. Cardinality(Read \ {k}) = IF k \in Read THEN Cardinality(Read) - 1 ELSE Cardinality(Read)
  BY <1>3, FS_RemoveElement
<1> QED BY <1>3, <1>4, <1>5, <1>6

\* A list is read,
LEMMA ReadMoves ==
  ASSUME DeskFits, DeskInv, NEW k \in Errands, Serve(k), errands[k].listing
  PROVE  DeskInv'
<1> DEFINE e == errands[k]
           n == Cardinality(Read) + 1
           y == [e EXCEPT !.step = "ok", !.items = registry.accounts, !.rank = n]
<1>1. e.step = "sent" /\ desk' = desk /\ errands' = [errands EXCEPT ![k] = y] /\ registry' \in Granted(e)
  BY DEF Serve
<1>2. registry' = registry
  BY <1>1 DEF Granted
<1>3. k \notin Read /\ Cardinality(Read) \in Nat /\ n <= MaxErrands /\ Cardinality(Read \cup {k}) = n
  BY <1>1, ReadCounts DEF Read
<1>4. y \in Errand /\ y.step = "ok" /\ y.items = registry.accounts /\ y.rank = n /\ y.op = e.op /\ y.id = e.id
      /\ y.form = e.form /\ y.old = e.old /\ y.listing
  <2>1. n \in 0..MaxErrands /\ registry.accounts \in Listings
    BY <1>3, Known DEF DeskFits, Registry
  <2> HIDE DEF n
  <2> QED BY <2>1, Known DEF Errand
<1>5. ~e.old
  BY <1>3, Known DEF RanksFit
<1> HIDE DEF n, y
<1>6. errands'[k] = y /\ (\A j \in Errands \ {k} : errands'[j] = errands[j]) /\ errands' \in [Errands -> Errand]
  BY <1>1, <1>4, Known
<1>7. DeskTypeOK' /\ SoundInv'
  BY <1>1, <1>2, <1>4, <1>6, Known DEF DeskTypeOK, SoundInv, Registry
<1>8. WorkInv'
  BY <1>1, <1>4, <1>6, Known, WorkGoesOn
<1>9. Read' = Read \cup {k}
  BY <1>4, <1>6 DEF Read
<1>10. RanksFit'
  <2>1. Cardinality(Read)' = n
    BY <1>3, <1>9
  <2>2. \A j \in Read : j \in Errands /\ j # k /\ errands'[j] = errands[j] /\ errands[j].rank \in 1..Cardinality(Read)
    BY <1>3, <1>6, Known DEF RanksFit, Read
  <2>3. \A j \in Errands : errands'[j].old => j \in Read'
    BY <1>4, <1>5, <1>6, <1>9, Known DEF RanksFit
  <2>4. \A j \in Read' : errands'[j].rank \in 1..n
    BY <1>3, <1>4, <1>6, <1>9, <2>2 DEF n
  <2>5. \A i, j \in Read' : errands'[i].rank = errands'[j].rank => i = j
    BY <1>3, <1>4, <1>6, <1>9, <2>2, Known DEF n, RanksFit
  <2> QED BY <2>1, <2>3, <2>4, <2>5 DEF RanksFit
<1>11. ManagerInv'
  <2>1. ASSUME NEW m, m < n PROVE Newer(m)'
    BY <1>2, <1>4, <1>5, <1>6, <1>9, <2>1 DEF Newer
  <2>2. \A j \in Read : errands'[j].rank < n
    BY <1>3, <1>6, Known DEF RanksFit, n, Read
  <2>3. \A j \in Read : Newer(errands[j].rank)'
    BY <2>1, <2>2
  <2>4. Newer(0)'
    BY <1>3, <2>1 DEF n
  <2> QED BY <1>2, <1>4, <1>6, <1>9, <2>3, <2>4 DEF ManagerInv
<1>12. ModelsInv'
  <2> SUFFICES ASSUME ~OnManager PROVE ModelsInv'
    BY <1>1 DEF ModelsInv, OnManager
  <2>1. Waiting' = Waiting
    BY <1>1, <1>4, <1>6 DEF Waiting
  <2>2. e.op = "load" /\ Waiting = {k} /\ desk.listed = Nothing /\ registry.queued = {}
    BY <1>1, Known DEF ModelsInv, ModelsErrands, Waiting
  <2> QED BY <1>1, <1>2, <1>4, <1>6, <2>1, <2>2 DEF ModelsInv, ModelsErrands, TogglesApart
<1> QED BY <1>7, <1>8, <1>10, <1>11, <1>12 DEF DeskInv

\* something is changed,
LEMMA GrantMoves ==
  ASSUME DeskFits, DeskInv, NEW k \in Errands, Serve(k), ~errands[k].listing
  PROVE  DeskInv'
<1> DEFINE e == errands[k]
           y == [e EXCEPT !.step = "ok"]
<1>1. e.step = "sent" /\ desk' = desk /\ errands' = [errands EXCEPT ![k] = y] /\ registry' \in Granted(e)
  BY DEF Serve
<1>2. /\ registry' \in Registry /\ AllSound(registry'.accounts) /\ e.op # "load"
      /\ e.op \in {"test", "rotate"} => registry' = registry
      /\ e.op = "toggle" =>
           /\ registry'.queued = registry.queued /\ e.id \in AccountIds
           /\ \A a \in AccountIds : registry'.accounts[a] =
                                      IF a = e.id THEN Switched(registry.accounts[a], e) ELSE registry.accounts[a]
  BY <1>1, Known, Grants
<1>3. y \in Errand /\ y.step = "ok" /\ y.items = e.items /\ y.rank = e.rank /\ y.op = e.op /\ y.id = e.id
      /\ y.form = e.form /\ y.old = e.old /\ y.listing = e.listing /\ y.enable = e.enable
  BY Known DEF Errand
<1> HIDE DEF y
<1>4. errands'[k] = y /\ (\A j \in Errands \ {k} : errands'[j] = errands[j]) /\ errands' \in [Errands -> Errand]
  BY <1>1, <1>3, Known
<1>5. DeskTypeOK' /\ SoundInv'
  BY <1>1, <1>2, <1>3, <1>4, Known DEF DeskTypeOK, SoundInv, Registry
<1>6. WorkInv'
  BY <1>1, <1>3, <1>4, Known, WorkGoesOn
<1>7. Read' = Read /\ k \notin Read /\ OnManager' = OnManager
  BY <1>1, <1>3, <1>4 DEF Read, OnManager
<1>8. \A j \in Read : errands'[j] = errands[j]
  BY <1>4, <1>7 DEF Read
<1>9. RanksFit' /\ ManagerInv'
  <2>1. CASE e.op \in {"test", "rotate"}
    <3>1. Coming => Coming'
      BY <1>1, <1>3, <1>4, <1>7 DEF Coming, Reloads
    <3> QED BY <1>1, <1>2, <1>3, <1>4, <1>7, <1>8, <2>1, <3>1, Known, ManagerKept
  <2>2. CASE e.op \notin {"test", "rotate"}
    <3>1. RanksFit'
      BY <1>3, <1>4, <1>7, <1>8, Known DEF RanksFit
    <3>2. OnManager' => Coming'
      BY <1>3, <1>4, <2>2 DEF Coming, Reloads
    <3> QED BY <3>1, <3>2 DEF ManagerInv
  <2> QED BY <2>1, <2>2
<1>10. ModelsInv'
  <2> SUFFICES ASSUME ~OnManager PROVE ModelsInv'
    BY <1>7 DEF ModelsInv
  <2>1. Waiting' = Waiting /\ k \in Waiting
    BY <1>1, <1>3, <1>4 DEF Waiting
  <2>2. registry.queued = {} /\ \A j \in Waiting : errands[j].op = "toggle" /\ ~errands[j].listing
    BY <1>2, <2>1, Known DEF ModelsInv, ModelsErrands
  <2>3. ModelsErrands'
    BY <1>3, <1>4, <2>1, <2>2 DEF ModelsErrands, Waiting
  <2>4. ~desk'.crossed => TogglesApart'
    BY <1>1, <1>3, <1>4, <2>1, Known DEF ModelsInv, TogglesApart, Waiting
  <2>5. ASSUME ~desk.missed, ~desk.crossed, NEW a \in AccountIds PROVE Agrees(a)'
    <3>1. Agrees(a) /\ TogglesApart
      BY <2>2, <2>5, Known DEF ModelsInv
    <3>2. \A j \in Errands : Granting(j)' /\ errands'[j].id = a /\ e.id = a => j = k
      BY <1>1, <1>3, <1>4, <2>1, <2>2, <3>1 DEF Granting, TogglesApart, Waiting
    <3>3. \A j \in Errands : Granting(j) => j # k /\ errands'[j] = errands[j] /\ Granting(j)'
      BY <1>1, <1>4 DEF Granting
    <3>4. \A j \in Errands \ {k} : Granting(j)' => Granting(j)
      BY <1>4 DEF Granting
    <3>5. CASE e.id = a
      <4>1. registry.accounts[a] = desk.listed[a]
        BY <3>1, <3>2, <3>3, <3>5 DEF Agrees
      <4>2. registry'.accounts[a] = Switched(desk.listed[a], e) /\ Granting(k)' /\ errands'[k].id = a
        BY <1>2, <1>3, <1>4, <2>1, <2>2, <3>5, <4>1 DEF Granting
      <4>3. \A j \in Errands : Granting(j)' /\ errands'[j].id = a => registry'.accounts[a] = Switched(desk.listed[a], errands'[j])
        BY <1>3, <1>4, <3>2, <3>5, <4>2 DEF Switched
      <4> QED BY <1>1, <4>2, <4>3 DEF Agrees
    <3>6. CASE e.id # a
      <4>1. registry'.accounts[a] = registry.accounts[a]
        BY <1>2, <2>1, <2>2, <3>6
      <4>2. \A j \in Errands : Granting(j)' /\ errands'[j].id = a <=> Granting(j) /\ errands[j].id = a
        BY <1>3, <1>4, <3>3, <3>4, <3>6
      <4>3. \A j \in Errands : Granting(j) /\ errands[j].id = a => errands'[j] = errands[j]
        BY <3>3
      <4> QED BY <1>1, <3>1, <4>1, <4>2, <4>3 DEF Agrees
    <3> QED BY <3>5, <3>6
  <2> QED BY <1>1, <1>2, <2>1, <2>2, <2>3, <2>4, <2>5 DEF ModelsInv
<1> QED BY <1>5, <1>6, <1>9, <1>10 DEF DeskInv

\* and what no answer will tell makes the lists old.
LEMMA Unsees ==
  ASSUME NEW es \in [Errands -> Errand], desk \in Desk, NEW changed \in BOOLEAN, Unseen(es, desk, changed)
  PROVE  /\ desk' \in Desk /\ errands' \in [Errands -> Errand]
         /\ desk'.page = desk.page /\ desk'.listed = desk.listed /\ desk'.loading = desk.loading
         /\ desk'.saving = desk.saving /\ desk'.busy = desk.busy /\ desk'.form = desk.form /\ desk'.crossed = desk.crossed
         /\ \A j \in Errands : /\ errands'[j].op = es[j].op /\ errands'[j].step = es[j].step /\ errands'[j].listing = es[j].listing
                               /\ errands'[j].id = es[j].id /\ errands'[j].form = es[j].form
                               /\ errands'[j].enable = es[j].enable /\ errands'[j].items = es[j].items
                               /\ errands'[j].rank = es[j].rank
         /\ IF changed THEN desk'.missed /\ \A j \in Errands : errands'[j].old <=> es[j].old \/ j \in Read
                       ELSE desk'.missed = desk.missed /\ \A j \in Errands : errands'[j].old = es[j].old
<1>1. CASE ~changed
  BY <1>1 DEF Unseen
<1>2. CASE changed
  <2>1. desk' = [desk EXCEPT !.missed = TRUE]
        /\ errands' = [j \in Errands |-> IF j \in Read THEN [es[j] EXCEPT !.old = TRUE] ELSE es[j]]
    BY <1>2 DEF Unseen
  <2>2. ASSUME NEW j \in Errands
        PROVE  /\ errands'[j] \in Errand
               /\ errands'[j].op = es[j].op /\ errands'[j].step = es[j].step /\ errands'[j].listing = es[j].listing
               /\ errands'[j].id = es[j].id /\ errands'[j].form = es[j].form
               /\ errands'[j].enable = es[j].enable /\ errands'[j].items = es[j].items
               /\ errands'[j].rank = es[j].rank
               /\ errands'[j].old <=> es[j].old \/ j \in Read
    <3>1. es[j] \in Errand /\ errands'[j] = IF j \in Read THEN [es[j] EXCEPT !.old = TRUE] ELSE es[j]
      BY <2>1
    <3>2. CASE j \in Read
      <4>1. errands'[j] = [es[j] EXCEPT !.old = TRUE]
        BY <3>1, <3>2
      <4> QED BY <3>1, <3>2, <4>1 DEF Errand
    <3>3. CASE j \notin Read
      BY <3>1, <3>3
    <3> QED BY <3>2, <3>3
  <2>3. /\ desk' \in Desk /\ desk'.missed
        /\ desk'.page = desk.page /\ desk'.listed = desk.listed /\ desk'.loading = desk.loading
        /\ desk'.saving = desk.saving /\ desk'.busy = desk.busy /\ desk'.form = desk.form /\ desk'.crossed = desk.crossed
    BY <2>1 DEF Desk
  <2>4. errands' \in [Errands -> Errand]
    BY <2>1, <2>2
  <2> QED BY <1>2, <2>2, <2>3, <2>4
<1> QED BY <1>1, <1>2

LEMMA RefuseMoves ==
  ASSUME DeskFits, DeskInv, NEW k \in Errands, Refuse(k)
  PROVE  DeskInv'
<1> DEFINE e == errands[k]
           y == [e EXCEPT !.step = "failed"]
           es == [errands EXCEPT ![k] = y]
           changed == e.listing \/ registry'.accounts # registry.accounts
<1>1. e.step = "sent" /\ registry' \in {registry} \cup Granted(e)
  BY DEF Refuse
<1>2. Unseen(es, desk, changed)
  <2>1. [errands EXCEPT ![k].step = "failed"] = es
    BY Known
  <2> HIDE DEF es
  <2> QED BY <2>1 DEF Refuse
<1>3. /\ registry' \in Registry /\ AllSound(registry'.accounts)
      /\ e.listing => registry' = registry
      /\ ~e.listing /\ e.op = "toggle" => registry'.queued = registry.queued
  <2>1. CASE registry' = registry
    BY <2>1, Known
  <2>2. CASE registry' \in Granted(e)
    BY <2>2, Known, Grants
  <2> QED BY <1>1, <2>1, <2>2
<1>4. y \in Errand /\ y.step = "failed" /\ y.items = e.items /\ y.rank = e.rank /\ y.op = e.op /\ y.id = e.id
      /\ y.form = e.form /\ y.old = e.old /\ y.listing = e.listing /\ y.enable = e.enable
  BY Known DEF Errand
<1>5. changed \in BOOLEAN
  BY Known, ErrandTyped
<1> HIDE DEF y, changed
<1>6. es \in [Errands -> Errand] /\ es[k] = y /\ \A j \in Errands \ {k} : es[j] = errands[j]
  BY <1>4, Known
<1> HIDE DEF es
<1>7. /\ desk' \in Desk /\ errands' \in [Errands -> Errand]
      /\ desk'.page = desk.page /\ desk'.listed = desk.listed /\ desk'.loading = desk.loading
      /\ desk'.saving = desk.saving /\ desk'.busy = desk.busy /\ desk'.form = desk.form /\ desk'.crossed = desk.crossed
  BY <1>2, <1>5, <1>6, Known, Unsees
<1>8. \A j \in Errands : /\ errands'[j].op = errands[j].op /\ errands'[j].listing = errands[j].listing
                         /\ errands'[j].id = errands[j].id /\ errands'[j].form = errands[j].form
                         /\ errands'[j].enable = errands[j].enable /\ errands'[j].items = errands[j].items
                         /\ errands'[j].rank = errands[j].rank
                         /\ errands'[j].step = IF j = k THEN "failed" ELSE errands[j].step
  BY <1>2, <1>4, <1>5, <1>6, Known, Unsees
<1>9. IF changed THEN desk'.missed /\ \A j \in Errands : errands'[j].old <=> errands[j].old \/ j \in Read
                 ELSE desk'.missed = desk.missed /\ \A j \in Errands : errands'[j].old = errands[j].old
  <2>1. \A j \in Errands : es[j].old = errands[j].old
    BY <1>4, <1>6
  <2>2. IF changed THEN desk'.missed /\ \A j \in Errands : errands'[j].old <=> es[j].old \/ j \in Read
                   ELSE desk'.missed = desk.missed /\ \A j \in Errands : errands'[j].old = es[j].old
    BY <1>2, <1>5, <1>6, Known, Unsees
  <2> QED BY <2>1, <2>2
<1>10. DeskTypeOK' /\ SoundInv'
  BY <1>3, <1>7, <1>8, Known DEF DeskTypeOK, SoundInv, Registry
<1>11. WorkInv'
  BY <1>1, <1>7, <1>8, Known, WorkGoesOn
<1>12. Read' = Read /\ OnManager' = OnManager /\ k \notin Read
  BY <1>1, <1>7, <1>8 DEF Read, OnManager
<1>13. RanksFit' /\ ManagerInv'
  <2>1. CASE changed
    BY <1>8, <1>9, <1>12, <2>1, Known, ManagerMissed
  <2>2. CASE ~changed
    <3>1. Coming => Coming'
      BY <1>1, <1>8, <1>12, <2>2 DEF Coming, Reloads, changed
    <3>2. \A j \in Read : j \in Errands
      BY DEF Read
    <3> QED BY <1>7, <1>8, <1>9, <1>12, <2>2, <3>1, <3>2, Known, ManagerKept DEF changed
  <2> QED BY <2>1, <2>2
<1>14. ModelsInv'
  <2> SUFFICES ASSUME ~OnManager PROVE ModelsInv'
    BY <1>12 DEF ModelsInv
  <2>1. Waiting' = Waiting /\ k \in Waiting
    BY <1>1, <1>8 DEF Waiting
  <2>2. registry.queued = {} /\ ModelsErrands
    BY Known DEF ModelsInv
  <2>3. registry'.queued = {}
    BY <1>3, <2>1, <2>2 DEF ModelsErrands
  <2>4. ModelsErrands'
    <3>1. ASSUME NEW j \in Waiting, j \in Read, Waiting = {j}
          PROVE  FALSE
      BY <1>12, <2>1, <3>1
    <3> QED BY <1>7, <1>8, <1>12, <2>1, <2>2, <3>1 DEF ModelsErrands, Waiting
  <2>5. ~desk'.crossed => TogglesApart'
    BY <1>7, <1>8, <2>1, Known DEF ModelsInv, TogglesApart, Waiting
  <2>6. ASSUME ~desk'.missed, ~desk'.crossed, NEW a \in AccountIds PROVE Agrees(a)'
    <3>1. ~e.listing /\ registry'.accounts = registry.accounts /\ ~desk.missed /\ ~desk.crossed
      BY <1>7, <1>9, <2>6 DEF changed
    <3>2. Agrees(a)
      BY <2>1, <2>2, <3>1, Known DEF ModelsInv, ModelsErrands
    <3>3. \A j \in Errands : Granting(j)' <=> Granting(j)
      BY <1>1, <1>8 DEF Granting
    <3> QED BY <1>7, <1>8, <3>1, <3>2, <3>3 DEF Agrees, Switched
  <2> QED BY <2>3, <2>4, <2>5, <2>6 DEF ModelsInv
<1> QED BY <1>10, <1>11, <1>13, <1>14 DEF DeskInv

LEMMA DiscoverMoves ==
  ASSUME DeskFits, DeskInv, NEW a \in AccountIds, Discover(a)
  PROVE  DeskInv'
<1>1. PICK found \in BOOLEAN :
        registry' = [registry EXCEPT !.queued = @ \ {a},
                                     !.accounts[a].model = IF found /\ @ = "none" THEN "on" ELSE @]
  BY DEF Discover
<1> DEFINE x == registry.accounts[a]
           m == IF found /\ x.model = "none" THEN "on" ELSE x.model
           bs == [registry.accounts EXCEPT ![a] = [x EXCEPT !.model = m]]
           changed == registry'.accounts # registry.accounts
<1>2. x \in Entry \cup {NoEntry} /\ Sound(x) /\ registry.accounts \in Listings /\ registry \in Registry
  BY Known DEF Registry, Listings, AllSound
<1>3. registry' = [registry EXCEPT !.queued = registry.queued \ {a}, !.accounts = bs]
  BY <1>1, <1>2 DEF Registry, Listings
<1>4. [x EXCEPT !.model = m] \in Entry \cup {NoEntry} /\ Sound([x EXCEPT !.model = m])
  <2>1. CASE found /\ x.model = "none"
    BY <1>2, <2>1, Modelled DEF Sound
  <2>2. CASE ~(found /\ x.model = "none")
    <3>1. [x EXCEPT !.model = m] = x
      BY <1>2, <2>2, Wider
    <3> QED BY <1>2, <3>1
  <2> QED BY <2>1, <2>2
<1>5. bs \in Listings /\ AllSound(bs)
  <2> DEFINE z == [x EXCEPT !.model = m]
  <2> HIDE DEF z
  <2>1. bs = [registry.accounts EXCEPT ![a] = z] /\ z \in Entry \cup {NoEntry} /\ Sound(z)
    BY <1>4 DEF z
  <2> HIDE DEF bs
  <2> QED BY <1>2, <2>1, Known DEF Listings, AllSound
<1> HIDE DEF bs
<1>6. registry' \in Registry /\ AllSound(registry'.accounts)
  BY <1>2, <1>3, <1>5 DEF Registry
<1>7. OnManager
  BY Known DEF Discover, ModelsInv
<1>8. Unseen(errands, desk, changed)
  BY DEF Discover
<1> HIDE DEF changed
<1>9. changed \in BOOLEAN
  BY DEF changed
<1>10. /\ desk' \in Desk /\ errands' \in [Errands -> Errand]
       /\ desk'.page = desk.page /\ desk'.listed = desk.listed /\ desk'.loading = desk.loading
       /\ desk'.saving = desk.saving /\ desk'.busy = desk.busy /\ desk'.form = desk.form /\ desk'.crossed = desk.crossed
  BY <1>8, <1>9, Known, Unsees
<1>11. \A j \in Errands : /\ errands'[j].op = errands[j].op /\ errands'[j].step = errands[j].step
                          /\ errands'[j].listing = errands[j].listing
                          /\ errands'[j].id = errands[j].id /\ errands'[j].form = errands[j].form
                          /\ errands'[j].items = errands[j].items /\ errands'[j].rank = errands[j].rank
  BY <1>8, <1>9, Known, Unsees
<1>12. IF changed THEN desk'.missed /\ \A j \in Errands : errands'[j].old <=> errands[j].old \/ j \in Read
                  ELSE desk'.missed = desk.missed /\ \A j \in Errands : errands'[j].old = errands[j].old
  BY <1>8, <1>9, Known, Unsees
<1>13. DeskTypeOK' /\ SoundInv'
  BY <1>6, <1>10, <1>11, Known DEF DeskTypeOK, SoundInv, Registry
<1>14. WorkInv'
  BY <1>10, <1>11, Known, WorkGoesOn DEF WorkInv, WaitsForWork, Waiting
<1>15. Read' = Read /\ OnManager' = OnManager
  BY <1>10, <1>11 DEF Read, OnManager
<1>16. RanksFit' /\ ManagerInv'
  <2>1. CASE changed
    BY <1>11, <1>12, <1>15, <2>1, Known, ManagerMissed
  <2>2. CASE ~changed
    <3>1. Coming => Coming'
      BY <1>11, <1>15 DEF Coming, Reloads
    <3>2. \A j \in Read : j \in Errands
      BY DEF Read
    <3> QED BY <1>10, <1>11, <1>12, <1>15, <2>2, <3>1, <3>2, Known, ManagerKept DEF changed
  <2> QED BY <2>1, <2>2
<1>17. ModelsInv'
  BY <1>7, <1>15 DEF ModelsInv
<1> QED BY <1>13, <1>14, <1>16, <1>17 DEF DeskInv

-----------------------------------------------------------------------------
(* What is done with the answers.                                          *)

LEMMA Frees ==
  ASSUME DeskFits, NEW d \in Desk, NEW e \in Errand
  PROVE  /\ Finally(e, d) \in Desk /\ Finally(e, d).page = d.page /\ Finally(e, d).listed = d.listed
         /\ Finally(e, d).loading = d.loading /\ Finally(e, d).form = d.form /\ Finally(e, d).missed = d.missed
         /\ Finally(e, d).crossed = d.crossed
         /\ Finally(e, d).saving = (d.saving /\ e.op \notin {"create", "update"})
         /\ \A op \in Kinds : Finally(e, d).busy[op] # None => Finally(e, d).busy[op] = d.busy[op] /\ e.op # op
<1>1. e.op \in {"load", "create", "update"} \cup Kinds /\ d.busy \in [Kinds -> 0..MaxAccounts] /\ d.saving \in BOOLEAN
  BY ErrandTyped, DeskTyped
<1>2. CASE e.op = "load"
  <2>1. Finally(e, d) = d
    BY <1>2 DEF Finally
  <2> QED BY <1>1, <1>2, <2>1 DEF Kinds
<1>3. CASE e.op \in {"create", "update"}
  <2>1. Finally(e, d) = [d EXCEPT !.saving = FALSE]
    BY <1>3 DEF Finally
  <2>2. \A op \in Kinds : op # e.op
    BY <1>3 DEF Kinds
  <2> QED BY <1>1, <1>3, <2>1, <2>2 DEF Desk
<1>4. CASE e.op \in Kinds
  <2> DEFINE b == [d.busy EXCEPT ![e.op] = None]
  <2>1. Finally(e, d) = [d EXCEPT !.busy[e.op] = None] /\ e.op \notin {"create", "update"}
    BY <1>4 DEF Finally, Kinds
  <2>2. Finally(e, d) = [d EXCEPT !.busy = b]
    BY <2>1 DEF Desk
  <2>3. b \in [Kinds -> 0..MaxAccounts] /\ \A op \in Kinds : b[op] # None => b[op] = d.busy[op] /\ e.op # op
    BY <1>1, <1>4 DEF None, DeskFits
  <2> HIDE DEF b
  <2> QED BY <1>1, <2>1, <2>2, <2>3 DEF Desk
<1> QED BY <1>1, <1>2, <1>3, <1>4

\* A handler that ends, and has read no list.
LEMMA EndMoves ==
  ASSUME DeskFits, DeskInv, NEW k \in Errands, errands[k].step \in {"ok", "failed"}, k \notin Read, NEW d \in Desk,
         desk' = Finally(errands[k], d), errands' = [errands EXCEPT ![k] = Free], registry' = registry,
         d.page = desk.page, AllSound(d.listed), d.form = desk.form, d.missed = desk.missed, d.crossed = desk.crossed,
         d.saving = desk.saving, d.busy = desk.busy, d.loading => desk.loading /\ ~errands[k].listing,
         ~(errands[k].step = "ok" /\ Reloads(errands[k])),
         d.listed = desk.listed \/ ~OnManager, ModelsInv'
  PROVE  DeskInv'
<1> DEFINE e == errands[k]
<1>1. /\ desk' \in Desk /\ desk'.page = desk.page /\ desk'.listed = d.listed /\ desk'.loading = d.loading
      /\ desk'.form = desk.form /\ desk'.missed = desk.missed /\ desk'.crossed = desk.crossed
      /\ desk'.saving = (desk.saving /\ e.op \notin {"create", "update"})
      /\ \A op \in Kinds : desk'.busy[op] # None => desk'.busy[op] = desk.busy[op] /\ e.op # op
  BY Known, Frees
<1>2. errands'[k] = Free /\ (\A j \in Errands \ {k} : errands'[j] = errands[j]) /\ errands' \in [Errands -> Errand]
  BY Known, FreeTyped
<1>3. DeskTypeOK'
  BY <1>1, <1>2, Known DEF DeskTypeOK, Registry
<1>4. SoundInv'
  <2>1. AllSound(Free.items) /\ Sound(Free.form) /\ Free.op \in {"load", "create"}
    BY FreeTyped, BlankTyped, NothingTyped
  <2> QED BY <1>1, <1>2, <2>1, Known DEF SoundInv
<1>5. WorkInv'
  <2>1. desk.saving \in BOOLEAN /\ e.step # "free"
    BY Known, DeskTyped
  <2> QED BY <1>1, <1>2, <2>1, Known, WorkEnds
<1>6. Read' = Read /\ OnManager' = OnManager
  BY <1>1, <1>2, FreeTyped DEF Read, OnManager
<1>7. RanksFit' /\ ManagerInv'
  <2>1. \A j \in Read : j \in Errands /\ errands'[j] = errands[j]
    BY <1>2 DEF Read
  <2>2. \A j \in Errands : errands'[j].old => errands[j].old
    BY <1>2, FreeTyped
  <2>3. CASE OnManager
    <3>1. Coming => Coming'
      BY <1>2, <1>6 DEF Coming, Reloads
    <3> QED BY <1>1, <1>6, <2>1, <2>2, <2>3, <3>1, Known, ManagerKept
  <2>4. CASE ~OnManager
    BY <1>6, <2>1, <2>2, <2>4, Known DEF RanksFit, ManagerInv
  <2> QED BY <2>3, <2>4
<1> QED BY <1>3, <1>4, <1>5, <1>7 DEF DeskInv

LEMMA AnsweredMoves ==
  ASSUME DeskFits, DeskInv, NEW k \in Errands, Answered(k)
  PROVE  DeskInv'
<1> DEFINE e == errands[k]
           d == Applied(e)
<1>1. e.step = "ok" /\ ~e.listing /\ registry' = registry /\ k \notin Read
  BY DEF Answered, Read
<1>2. None \in 0..MaxAccounts
  BY DEF None, DeskFits
<1>3. CASE Reloads(e)
  <2> DEFINE y == [e EXCEPT !.step = "sent", !.listing = TRUE]
             f == [d EXCEPT !.loading = TRUE, !.error = FALSE]
  <2>1. desk' = f /\ errands' = [errands EXCEPT ![k] = y] /\ OnManager
    BY <1>3, Known DEF Answered, Reloads
  <2>2. d \in {desk, [desk EXCEPT !.editing = None]}
    BY <2>1 DEF Applied
  <2>3. d \in Desk /\ d.page = desk.page /\ d.listed = desk.listed /\ d.saving = desk.saving /\ d.busy = desk.busy
        /\ d.form = desk.form /\ d.missed = desk.missed /\ d.crossed = desk.crossed
    <3> HIDE DEF d
    <3> QED BY <1>2, <2>2, Known DEF Desk
  <2>4. f \in Desk /\ f.page = desk.page /\ f.listed = desk.listed /\ f.saving = desk.saving /\ f.busy = desk.busy
        /\ f.form = desk.form /\ f.missed = desk.missed /\ f.crossed = desk.crossed
    <3> HIDE DEF d
    <3> QED BY <2>3 DEF Desk
  <2>5. y \in Errand /\ y.step = "sent" /\ y.listing /\ y.op = e.op /\ y.id = e.id /\ y.form = e.form /\ y.items = e.items
        /\ y.old = e.old
    BY Known DEF Errand
  <2> HIDE DEF d, f, y
  <2>6. errands'[k] = y /\ (\A j \in Errands \ {k} : errands'[j] = errands[j]) /\ errands' \in [Errands -> Errand]
    BY <2>1, <2>5, Known
  <2>7. DeskTypeOK' /\ SoundInv'
    BY <1>1, <2>1, <2>4, <2>5, <2>6, Known DEF DeskTypeOK, SoundInv, Registry
  <2>8. WorkInv'
    BY <1>1, <2>1, <2>4, <2>5, <2>6, Known, WorkGoesOn
  <2>9. Read' = Read /\ OnManager' = OnManager
    BY <1>1, <2>1, <2>4, <2>5, <2>6 DEF Read, OnManager
  <2>10. RanksFit' /\ ManagerInv'
    <3>1. \A j \in Read : j \in Errands /\ errands'[j] = errands[j]
      BY <1>1, <2>6 DEF Read
    <3>2. Coming'
      BY <2>5, <2>6 DEF Coming
    <3> QED BY <1>1, <2>1, <2>4, <2>5, <2>6, <2>9, <3>1, <3>2, Known, ManagerKept
  <2>11. ModelsInv'
    BY <2>1, <2>9 DEF ModelsInv
  <2> QED BY <2>7, <2>8, <2>10, <2>11 DEF DeskInv
<1>4. CASE ~Reloads(e)
  <2>1. desk' = Finally(e, d) /\ errands' = [errands EXCEPT ![k] = Free]
    BY <1>4 DEF Answered
  <2>2. errands'[k] = Free /\ (\A j \in Errands \ {k} : errands'[j] = errands[j])
    BY <2>1, Known
  <2>3. CASE OnManager
    <3>1. d = desk
      BY <1>4, <2>3 DEF Applied, Reloads
    <3> HIDE DEF d
    <3>2. ModelsInv'
      BY <2>1, <2>3, <3>1, Known, Frees DEF ModelsInv, OnManager
    <3> QED BY <1>1, <1>4, <2>1, <3>1, <3>2, Known, EndMoves
  <2>4. CASE ~OnManager
    <3>1. k \in Waiting /\ e.op = "toggle" /\ e.id \in AccountIds /\ registry.queued = {} /\ ModelsErrands
          /\ \A j \in Waiting : errands[j].op = "toggle" /\ ~errands[j].listing
      BY <1>1, <2>4, Known DEF Waiting, ModelsInv, ModelsErrands
    <3> DEFINE z == Switched(desk.listed[e.id], e)
               ls == [desk.listed EXCEPT ![e.id] = z]
    <3>2. desk.listed[e.id] \in Entry \cup {NoEntry} /\ desk.listed \in Listings
      BY <3>1, Known, DeskTyped DEF Listings
    <3>3. z \in Entry /\ z.status = desk.listed[e.id].status /\ z.default = desk.listed[e.id].default
      BY <3>2, Modelled DEF Switched
    <3>4. Sound(z)
      BY <3>1, <3>3, Known DEF AllSound, Sound
    <3>5. d = [desk EXCEPT !.listed = ls]
      <4>1. d = [desk EXCEPT !.listed[e.id].model = IF e.enable THEN "on" ELSE "off"]
        BY <2>4, <3>1 DEF Applied
      <4> QED BY <3>2, <4>1, Known DEF Switched, Desk, Listings
    <3>6. ls \in Listings /\ AllSound(ls) /\ \A a \in AccountIds : ls[a] = IF a = e.id THEN z ELSE desk.listed[a]
      <4> HIDE DEF z
      <4> QED BY <3>1, <3>2, <3>3, <3>4, Known DEF Listings, AllSound
    <3> HIDE DEF d, ls
    <3>7. d \in Desk /\ d.page = desk.page /\ d.listed = ls /\ d.saving = desk.saving /\ d.busy = desk.busy
          /\ d.form = desk.form /\ d.missed = desk.missed /\ d.crossed = desk.crossed /\ d.loading = desk.loading
      BY <3>5, <3>6, Known DEF Desk
    <3>8. desk'.page = desk.page /\ desk'.listed = ls /\ desk'.missed = desk.missed /\ desk'.crossed = desk.crossed
      BY <2>1, <3>7, Known, Frees
    <3>9. Waiting' = Waiting \ {k}
      BY <2>2, FreeTyped DEF Waiting
    <3>10. \A j \in Waiting' : j \in Waiting /\ errands'[j] = errands[j]
      BY <2>2, <3>9 DEF Waiting
    <3>11. ModelsErrands'
      BY <3>1, <3>10 DEF ModelsErrands
    <3>14. ~desk'.crossed => TogglesApart'
      BY <2>4, <3>8, <3>10, Known DEF ModelsInv, TogglesApart
    <3>12. ASSUME ~desk.missed, ~desk.crossed, NEW a \in AccountIds PROVE Agrees(a)'
      <4>1. Agrees(a) /\ TogglesApart
        BY <2>4, <3>1, <3>12, Known DEF ModelsInv
      <4>2. Granting(k) /\ \A j \in Errands : Granting(j)' <=> j # k /\ Granting(j)
        BY <1>1, <2>2, <3>1, FreeTyped DEF Granting
      <4>3. \A j \in Errands : Granting(j) => j \in Waiting
        BY DEF Granting, Waiting
      <4>4. CASE a = e.id
        <5>1. registry.accounts[a] = z
          BY <4>1, <4>2, <4>4 DEF Agrees
        <5>2. \A j \in Errands : ~(Granting(j)' /\ errands'[j].id = a)
          BY <2>2, <3>1, <4>1, <4>2, <4>3, <4>4 DEF TogglesApart, Granting
        <5> QED BY <1>1, <3>6, <3>8, <4>4, <5>1, <5>2 DEF Agrees
      <4>5. CASE a # e.id
        <5>1. \A j \in Errands : Granting(j)' /\ errands'[j].id = a <=> Granting(j) /\ errands[j].id = a
          BY <2>2, <4>2, <4>5
        <5>2. \A j \in Errands : Granting(j)' => errands'[j] = errands[j]
          BY <2>2, <4>2
        <5> QED BY <1>1, <3>6, <3>8, <4>1, <4>5, <5>1, <5>2 DEF Agrees
      <4> QED BY <4>4, <4>5
    <3>13. ModelsInv'
      BY <1>1, <3>1, <3>8, <3>11, <3>12, <3>14 DEF ModelsInv
    <3> QED BY <1>1, <1>4, <2>1, <2>4, <3>6, <3>7, <3>13, Known, EndMoves
  <2> QED BY <2>3, <2>4
<1> QED BY <1>3, <1>4

LEMMA FailedMoves ==
  ASSUME DeskFits, DeskInv, NEW k \in Errands, Failed(k)
  PROVE  DeskInv'
<1> DEFINE e == errands[k]
           l == IF e.listing THEN FALSE ELSE desk.loading
           m == desk.error \/ e.listing \/ OnManager
           d == [desk EXCEPT !.error = m, !.loading = l]
<1>1. e.step = "failed" /\ errands' = [errands EXCEPT ![k] = Free] /\ registry' = registry /\ k \notin Read
  BY DEF Failed, Read
<1>2. l \in BOOLEAN /\ m \in BOOLEAN /\ e.listing \in BOOLEAN
  BY Known, DeskTyped, ErrandTyped
<1>3. desk' = Finally(e, d)
  <2>1. d = [desk EXCEPT !.error = @ \/ e.listing \/ OnManager, !.loading = IF e.listing THEN FALSE ELSE @]
    BY Known DEF Desk
  <2> HIDE DEF d
  <2> QED BY <2>1 DEF Failed
<1> HIDE DEF l, m
<1>4. d \in Desk /\ d.page = desk.page /\ d.listed = desk.listed /\ d.saving = desk.saving /\ d.busy = desk.busy
      /\ d.form = desk.form /\ d.missed = desk.missed /\ d.crossed = desk.crossed /\ d.loading = l
  BY <1>2, Known DEF Desk
<1> HIDE DEF d
<1>5. desk'.page = desk.page /\ desk'.listed = desk.listed /\ desk'.missed = desk.missed /\ desk'.crossed = desk.crossed
  BY <1>3, <1>4, Known, Frees
<1>6. errands'[k] = Free /\ (\A j \in Errands \ {k} : errands'[j] = errands[j])
  BY <1>1, Known
<1>7. ModelsInv'
  <2> SUFFICES ASSUME ~OnManager PROVE ModelsInv'
    BY <1>5 DEF ModelsInv, OnManager
  <2>1. Waiting' = Waiting \ {k} /\ k \in Waiting
    BY <1>1, <1>6, FreeTyped DEF Waiting
  <2>2. \A j \in Waiting' : j \in Waiting /\ errands'[j] = errands[j]
    BY <1>6, <2>1 DEF Waiting
  <2>3. registry.queued = {} /\ ModelsErrands
    BY Known DEF ModelsInv
  <2>4. ModelsErrands'
    BY <1>5, <2>1, <2>2, <2>3 DEF ModelsErrands
  <2>5. ~desk'.crossed => TogglesApart'
    BY <1>5, <2>2, Known DEF ModelsInv, TogglesApart
  <2>6. \A j \in Errands : Granting(j)' <=> Granting(j)
    BY <1>1, <1>6, FreeTyped DEF Granting
  <2>7. \A j \in Errands : Granting(j) => errands'[j] = errands[j]
    BY <1>1, <1>6 DEF Granting
  <2>8. ASSUME ~desk.missed, ~desk.crossed
        PROVE  (\E j \in Waiting' : errands'[j].op = "load" /\ errands'[j].step # "failed") \/ \A a \in AccountIds : Agrees(a)'
    <3>1. (\E j \in Waiting : errands[j].op = "load" /\ errands[j].step # "failed") \/ \A a \in AccountIds : Agrees(a)
      BY <2>8, Known DEF ModelsInv
    <3>2. ASSUME NEW a \in AccountIds, Agrees(a) PROVE Agrees(a)'
      BY <1>1, <1>5, <2>6, <2>7, <3>2 DEF Agrees
    <3>3. ASSUME NEW j \in Waiting, errands[j].step # "failed" PROVE j \in Waiting' /\ errands'[j] = errands[j]
      BY <1>1, <1>6, <2>1, <3>3 DEF Waiting
    <3> QED BY <3>1, <3>2, <3>3
  <2> QED BY <1>1, <1>5, <2>3, <2>4, <2>5, <2>8 DEF ModelsInv
<1> QED BY <1>1, <1>2, <1>3, <1>4, <1>7, Known, EndMoves DEF l

\* A list is shown, after which those read before are old.
LEMMA LoadedMoves ==
  ASSUME DeskFits, DeskInv, NEW k \in Errands, Loaded(k)
  PROVE  DeskInv'
<1> DEFINE e == errands[k]
<1>1. e.step = "ok" /\ e.listing /\ registry' = registry /\ k \in Read /\ k \in Waiting
  BY DEF Loaded, Read, Waiting
<1>2. PICK a \in Selections(e.items) :
        desk' = Finally(e, [desk EXCEPT !.listed = e.items, !.loading = FALSE, !.missed = e.old, !.selected = a])
  BY DEF Loaded
<1> DEFINE d == [desk EXCEPT !.listed = e.items, !.loading = FALSE, !.missed = e.old, !.selected = a]
<1>3. a \in 0..MaxAccounts
  BY Known, DeskTyped DEF Selections, Rows, AccountIds, None, DeskFits
<1>4. d \in Desk /\ d.page = desk.page /\ d.listed = e.items /\ d.saving = desk.saving /\ d.busy = desk.busy
      /\ d.form = desk.form /\ d.missed = e.old /\ d.crossed = desk.crossed /\ d.loading = FALSE
  BY <1>3, Known, ErrandTyped DEF Desk
<1> HIDE DEF d
<1>5. /\ desk' \in Desk /\ desk'.page = desk.page /\ desk'.listed = e.items /\ desk'.loading = FALSE
      /\ desk'.form = desk.form /\ desk'.missed = e.old /\ desk'.crossed = desk.crossed
      /\ desk'.saving = (desk.saving /\ e.op \notin {"create", "update"})
      /\ \A op \in Kinds : desk'.busy[op] # None => desk'.busy[op] = desk.busy[op] /\ e.op # op
  <2>1. desk' = Finally(e, d)
    BY <1>2 DEF d
  <2>2. e \in Errand /\ (\A op \in Kinds : d.busy[op] # None => d.busy[op] = desk.busy[op])
    BY <1>4, Known
  <2> HIDE DEF e
  <2> QED BY <1>4, <2>1, <2>2, Frees
<1>6. errands' = [j \in Errands |->
                    IF j = k THEN Free
                    ELSE IF j \notin Read THEN errands[j]
                    ELSE IF errands[j].rank < e.rank THEN [errands[j] EXCEPT !.old = TRUE]
                    ELSE [errands[j] EXCEPT !.rank = @ - 1]]
  BY DEF Loaded
<1>7. /\ e.rank \in 1..Cardinality(Read) /\ Cardinality(Read) \in Nat
      /\ \A j \in Read : errands[j].rank \in 1..Cardinality(Read) /\ (errands[j].rank = e.rank => j = k)
  BY <1>1, Known, ReadCounts DEF RanksFit
<1>8. ASSUME NEW j \in Errands \ {k}
      PROVE  /\ errands'[j] \in Errand
             /\ errands'[j].op = errands[j].op /\ errands'[j].step = errands[j].step
             /\ errands'[j].listing = errands[j].listing /\ errands'[j].id = errands[j].id
             /\ errands'[j].form = errands[j].form /\ errands'[j].items = errands[j].items
             /\ errands'[j].enable = errands[j].enable
             /\ j \notin Read => errands'[j].old = errands[j].old
             /\ j \in Read /\ errands[j].rank < e.rank => errands'[j].rank = errands[j].rank /\ errands'[j].old
             /\ j \in Read /\ errands[j].rank > e.rank =>
                  errands'[j].rank = errands[j].rank - 1 /\ errands'[j].old = errands[j].old
  <2>1. errands[j] \in Errand
    BY Known
  <2>2. CASE j \notin Read
    <3>1. errands'[j] = errands[j]
      BY <1>6, <2>2
    <3> QED BY <2>1, <2>2, <3>1
  <2>3. CASE j \in Read /\ errands[j].rank < e.rank
    <3>1. errands'[j] = [errands[j] EXCEPT !.old = TRUE]
      BY <1>6, <2>3
    <3>2. /\ errands'[j] \in Errand
          /\ errands'[j].op = errands[j].op /\ errands'[j].step = errands[j].step
          /\ errands'[j].listing = errands[j].listing /\ errands'[j].id = errands[j].id
          /\ errands'[j].form = errands[j].form /\ errands'[j].items = errands[j].items
          /\ errands'[j].enable = errands[j].enable /\ errands'[j].old /\ errands'[j].rank = errands[j].rank
      BY <2>1, <3>1 DEF Errand
    <3>3. ~(errands[j].rank > e.rank)
      BY <1>7, <2>3
    <3> QED BY <2>3, <3>2, <3>3
  <2>4. CASE j \in Read /\ ~(errands[j].rank < e.rank)
    <3> DEFINE r == errands[j].rank - 1
    <3>1. errands'[j] = [errands[j] EXCEPT !.rank = r]
      BY <1>6, <2>1, <2>4 DEF Errand
    <3>2. r \in 0..MaxErrands /\ errands[j].rank \in Nat
      BY <1>7, <2>1, <2>4, ErrandTyped DEF DeskFits
    <3> HIDE DEF r
    <3>3. /\ errands'[j] \in Errand
          /\ errands'[j].op = errands[j].op /\ errands'[j].step = errands[j].step
          /\ errands'[j].listing = errands[j].listing /\ errands'[j].id = errands[j].id
          /\ errands'[j].form = errands[j].form /\ errands'[j].items = errands[j].items
          /\ errands'[j].enable = errands[j].enable /\ errands'[j].old = errands[j].old /\ errands'[j].rank = r
      BY <2>1, <3>1, <3>2 DEF Errand
    <3> QED BY <2>4, <3>3 DEF r
  <2> QED BY <2>2, <2>3, <2>4
<1>9. errands'[k] = Free /\ errands' \in [Errands -> Errand]
  <2>1. errands'[k] = Free
    BY <1>6
  <2> QED BY <1>6, <1>8, <2>1, FreeTyped
<1>10. DeskTypeOK'
  BY <1>1, <1>5, <1>9, Known DEF DeskTypeOK, Registry
<1>11. SoundInv'
  <2>1. AllSound(Free.items) /\ Sound(Free.form) /\ Free.op \in {"load", "create"}
    BY FreeTyped, BlankTyped, NothingTyped
  <2> QED BY <1>1, <1>5, <1>8, <1>9, <2>1, Known DEF SoundInv
<1>12. WorkInv'
  <2>1. desk.saving \in BOOLEAN /\ e.step # "free"
    BY <1>1, Known, DeskTyped
  <2> QED BY <1>5, <1>8, <1>9, <2>1, Known, WorkEnds
<1>13. Read' = Read \ {k} /\ OnManager' = OnManager
  BY <1>1, <1>5, <1>8, <1>9, FreeTyped DEF Read, OnManager
<1>14. Cardinality(Read)' = Cardinality(Read) - 1
  BY <1>1, <1>13, ReadCounts
<1>15. \A j \in Read' : j \in Errands \ {k} /\ j \in Read
  BY <1>13 DEF Read
<1>16. \A j \in Read' : \/ errands[j].rank < e.rank /\ errands'[j].rank = errands[j].rank /\ errands'[j].old
                        \/ errands[j].rank > e.rank /\ errands'[j].rank = errands[j].rank - 1 /\ errands'[j].old = errands[j].old
  <2> TAKE j \in Read'
  <2>1. j \in Errands \ {k} /\ j \in Read
    BY <1>15
  <2>2. errands[j].rank \in Nat /\ e.rank \in Nat /\ errands[j].rank # e.rank
    BY <1>7, <2>1
  <2>3. errands[j].rank < e.rank \/ errands[j].rank > e.rank
    BY <2>2
  <2> QED BY <1>8, <2>1, <2>3
<1>17. RanksFit'
  <2>1. \A j \in Errands : errands'[j].old => j \in Read'
    <3>1. \A j \in Errands : errands[j].old => j \in Read
      BY Known DEF RanksFit
    <3> QED BY <1>8, <1>9, <1>13, <3>1, FreeTyped
  <2>2. \A j \in Read' : errands'[j].rank \in 1..(Cardinality(Read) - 1)
    BY <1>7, <1>15, <1>16
  <2>3. \A i, j \in Read' : errands'[i].rank = errands'[j].rank => i = j
    <3>1. \A i, j \in Read : errands[i].rank = errands[j].rank => i = j
      BY Known DEF RanksFit
    <3> QED BY <1>7, <1>15, <1>16, <3>1
  <2> QED BY <1>14, <2>1, <2>2, <2>3 DEF RanksFit
<1> DEFINE NewerNow(n) == \E i \in Read' : errands'[i].rank > n /\ ~errands'[i].old /\ errands'[i].items = registry'.accounts
<1>18. ManagerInv'
  <2> SUFFICES ASSUME OnManager PROVE ManagerInv'
    BY <1>13 DEF ManagerInv
  <2>1. Coming => Coming'
    BY <1>1, <1>8, <1>13 DEF Coming, Reloads
  <2>2. ASSUME NEW j \in Read, errands[j].rank >= e.rank, Newer(errands[j].rank)
        PROVE  NewerNow(IF j = k THEN 0 ELSE errands[j].rank - 1)
    <3>1. PICK i \in Read : errands[i].rank > errands[j].rank /\ ~errands[i].old /\ errands[i].items = registry.accounts
      BY <2>2 DEF Newer
    <3>2. errands[i].rank \in Nat /\ errands[j].rank \in Nat /\ e.rank \in Nat /\ e.rank >= 1
      BY <1>7
    <3>3. errands[i].rank > e.rank /\ i # k
      BY <2>2, <3>1, <3>2
    <3>4. i \in Read' /\ i \in Errands \ {k}
      BY <1>13, <3>3 DEF Read
    <3>5. errands'[i].rank = errands[i].rank - 1 /\ ~errands'[i].old /\ errands'[i].items = registry'.accounts
      BY <1>1, <1>8, <3>1, <3>3, <3>4
    <3>6. errands'[i].rank > IF j = k THEN 0 ELSE errands[j].rank - 1
      BY <3>1, <3>2, <3>3, <3>5
    <3> QED BY <3>4, <3>5, <3>6
  <2>3. \A j \in Read : errands[j].old \/ errands[j].items = registry.accounts \/ Coming \/ Newer(errands[j].rank)
    BY Known DEF ManagerInv
  <2>4. ASSUME NEW j \in Read'
        PROVE  errands'[j].old \/ errands'[j].items = registry'.accounts \/ Coming' \/ NewerNow(errands'[j].rank)
    <3>1. j \in Read /\ j \in Errands \ {k} /\ errands'[j].items = errands[j].items
      BY <1>8, <1>15
    <3>2. CASE errands'[j].old
      BY <3>2
    <3>3. CASE ~errands'[j].old
      <4>1. errands[j].rank > e.rank /\ ~errands[j].old /\ errands'[j].rank = errands[j].rank - 1
        BY <1>16, <3>3
      <4>2. errands[j].rank >= e.rank
        BY <1>7, <3>1, <4>1
      <4>3. Newer(errands[j].rank) => NewerNow(errands'[j].rank)
        BY <2>2, <3>1, <4>1, <4>2
      <4> QED BY <1>1, <2>1, <2>3, <3>1, <4>1, <4>3
    <3> QED BY <3>2, <3>3
  <2>5. desk'.missed \/ desk'.listed = registry'.accounts \/ Coming' \/ NewerNow(0)
    <3>1. e.rank >= e.rank
      BY <1>7
    <3>2. Newer(e.rank) => NewerNow(0)
      BY <1>1, <2>2, <3>1
    <3> QED BY <1>1, <1>5, <2>1, <2>3, <3>2
  <2> QED BY <2>4, <2>5 DEF ManagerInv, Newer
<1>19. ModelsInv'
  <2> SUFFICES ASSUME ~OnManager PROVE ModelsInv'
    BY <1>13 DEF ModelsInv
  <2>1. Waiting = {k} /\ registry.queued = {} /\ e.items = registry.accounts
    BY <1>1, Known DEF ModelsInv, ModelsErrands
  <2>2. Waiting' = {} /\ \A j \in Errands : errands'[j].step = "free"
    BY <1>8, <1>9, <2>1, FreeTyped DEF Waiting
  <2>3. \A j \in Errands : ~Granting(j)'
    BY <2>2 DEF Granting
  <2>4. \A b \in AccountIds : Agrees(b)'
    BY <1>1, <1>5, <2>1, <2>3 DEF Agrees
  <2> QED BY <1>1, <2>1, <2>2, <2>4 DEF ModelsInv, ModelsErrands, TogglesApart
<1> QED BY <1>10, <1>11, <1>12, <1>17, <1>18, <1>19 DEF DeskInv

-----------------------------------------------------------------------------
(* The invariant.                                                          *)

LEMMA DeskBegins ==
  ASSUME DeskFits, DeskInit
  PROVE  DeskInv
<1>1. PICK n \in 1..MaxAccounts, default \in BOOLEAN :
        registry = [accounts |-> [a \in AccountIds |->
                                    IF a > n THEN NoEntry
                                    ELSE [status |-> "enabled", default |-> default /\ a = 1, model |-> "on"]],
                    made |-> n, queued |-> {}]
  BY DEF DeskInit
<1>2. PICK page \in {"manager", "models"} :
        desk = [page |-> page, listed |-> Nothing, loading |-> TRUE, saving |-> FALSE, busy |-> [o \in Kinds |-> None],
                editing |-> None, form |-> Blank, selected |-> None, error |-> FALSE, missed |-> FALSE,
                crossed |-> FALSE, clicks |-> 0]
  BY DEF DeskInit
<1> DEFINE x == [Free EXCEPT !.step = "sent", !.listing = TRUE]
<1>3. x \in Errand /\ x.op = "load" /\ x.step = "sent" /\ x.listing /\ x.form = Blank /\ x.items = Nothing /\ ~x.old
  BY FreeTyped DEF Errand
<1>4. errands = [k \in Errands |-> IF k = 1 THEN x ELSE Free]
  BY DEF DeskInit
<1> HIDE DEF x
<1>5. 1 \in Errands /\ errands[1] = x /\ (\A k \in Errands \ {1} : errands[k] = Free) /\ errands \in [Errands -> Errand]
  BY <1>3, <1>4, FreeTyped DEF Errands, DeskFits
<1> DEFINE as == [a \in AccountIds |-> IF a > n THEN NoEntry
                                       ELSE [status |-> "enabled", default |-> default /\ a = 1, model |-> "on"]]
<1>6. as \in Listings /\ AllSound(as)
  <2>1. ASSUME NEW a \in AccountIds PROVE as[a] \in Entry \cup {NoEntry} /\ Sound(as[a])
    <3>1. CASE a > n
      BY <3>1 DEF Sound, NoEntry
    <3>2. CASE ~(a > n)
      <4> DEFINE b == default /\ a = 1
      <4>1. b \in BOOLEAN /\ as[a] = [status |-> "enabled", default |-> b, model |-> "on"]
        BY <3>2
      <4> HIDE DEF as, b
      <4> QED BY <4>1 DEF Entry, Sound
    <3> QED BY <3>1, <3>2
  <2> QED BY <2>1 DEF Listings, AllSound
<1> HIDE DEF as
<1>7. registry.accounts = as /\ registry.queued = {} /\ registry.made = n /\ registry \in Registry
  <2>1. registry = [accounts |-> as, made |-> n, queued |-> {}]
    BY <1>1 DEF as
  <2>2. n \in 0..MaxAccounts
    BY DEF DeskFits
  <2> QED BY <1>6, <2>1, <2>2 DEF Registry
<1>8. desk \in Desk
  <2>1. None \in 0..MaxAccounts /\ 0 \in 0..MaxClicks /\ [o \in Kinds |-> None] \in [Kinds -> 0..MaxAccounts]
    BY DEF None, DeskFits
  <2> QED BY <1>2, <2>1, BlankTyped, NothingTyped DEF Desk
<1>9. DeskTypeOK
  BY <1>5, <1>7, <1>8 DEF DeskTypeOK, Registry
<1>10. SoundInv
  BY <1>2, <1>3, <1>5, <1>6, <1>7, FreeTyped, BlankTyped, NothingTyped DEF SoundInv
<1>11. Waiting = {1} /\ \A k \in Errands : errands[k].op = "load"
  BY <1>3, <1>5, FreeTyped DEF Waiting
<1>12. WorkInv
  BY <1>2, <1>3, <1>5, <1>11 DEF WorkInv, WaitsForWork, Saves
<1>13. Read = {}
  BY <1>3, <1>5, FreeTyped DEF Read
<1>14. RanksFit
  BY <1>3, <1>5, <1>13, FreeTyped DEF RanksFit
<1>15. ManagerInv
  BY <1>3, <1>5, <1>13 DEF ManagerInv, Coming
<1>16. ModelsInv
  BY <1>2, <1>3, <1>5, <1>7, <1>11, <1>13 DEF ModelsInv, ModelsErrands, TogglesApart
<1> QED BY <1>9, <1>10, <1>12, <1>14, <1>15, <1>16 DEF DeskInv

LEMMA DeskStep ==
  ASSUME DeskFits, DeskInv, [DeskNext]_deskVars
  PROVE  DeskInv'
<1>1. CASE DeskNext
  <2>1. ASSUME NEW k \in Errands,
               \/ LoadProviders(k) \/ CreateProvider(k) \/ UpdateProvider(k)
               \/ Serve(k) \/ Refuse(k) \/ Answered(k) \/ Loaded(k) \/ Failed(k)
        PROVE  DeskInv'
    BY <2>1, LoadMoves, CreateMoves, UpdateMoves, ReadMoves, GrantMoves, RefuseMoves, AnsweredMoves, LoadedMoves, FailedMoves
  <2>2. ASSUME NEW k \in Errands, NEW a \in AccountIds,
               TestProvider(k, a) \/ SyncModels(k, a) \/ RotateKey(k, a) \/ DeleteProvider(k, a) \/ ToggleModel(k, a)
        PROVE  DeskInv'
    BY <2>2, PressMoves, ToggleMoves
  <2> QED BY <1>1, <2>1, <2>2, EditMoves, DiscoverMoves DEF DeskNext
<1>2. CASE UNCHANGED deskVars
  <2>1. desk \in Desk /\ Sound(desk.form)
    BY Known
  <2> QED BY <1>2, <2>1, FormMoves DEF deskVars
<1> QED BY <1>1, <1>2

\* Whatever the pages of providers show, they show of the accounts that there are
\* (providers-manager.tsx:180-375, models-client.tsx:173-342).
LEMMA DeskShows ==
  ASSUME DeskFits, DeskInv
  PROVE  DeskTypeOK /\ DeskIsCurrent /\ WaitsForWork /\ FormsAreAllowed
<1>1. DeskTypeOK /\ WaitsForWork
  BY DEF DeskInv, WorkInv
<1>2. FormsAreAllowed
  BY Known DEF FormsAreAllowed, Sound, Waiting
<1>3. DeskIsCurrent
  <2> SUFFICES ASSUME Waiting = {}, ~desk.missed, ~desk.crossed PROVE desk.listed = registry.accounts
    BY DEF DeskIsCurrent
  <2>1. \A k \in Errands : errands[k].step = "free"
    BY DEF Waiting
  <2>2. CASE OnManager
    BY <2>1, <2>2, Known DEF ManagerInv, Coming, Newer, Read
  <2>3. CASE ~OnManager
    <3>1. \A a \in AccountIds : registry.accounts[a] = desk.listed[a]
      BY <2>1, <2>3, Known DEF ModelsInv, Agrees, Granting
    <3>2. registry.accounts \in Listings /\ desk.listed \in Listings
      BY Known, DeskTyped DEF Registry
    <3> QED BY <3>1, <3>2 DEF Listings
  <2> QED BY <2>2, <2>3
<1> QED BY <1>1, <1>2, <1>3

\* However the handlers of a page overlap, once they have ended it shows what the server has,
\* its buttons come back, and no form asks for what is refused (providers-manager.tsx:180-375,
\* models-client.tsx:173-342).
THEOREM DesksStayCurrent ==
  ASSUME DeskFits PROVE DeskSpec => [](DeskTypeOK /\ DeskIsCurrent /\ WaitsForWork /\ FormsAreAllowed)
<1>1. DeskInit => DeskInv
  BY DeskBegins
<1>2. DeskInv /\ [DeskNext]_deskVars => DeskInv'
  BY DeskStep
<1>3. DeskInv => DeskTypeOK /\ DeskIsCurrent /\ WaitsForWork /\ FormsAreAllowed
  BY DeskShows
<1> QED BY <1>1, <1>2, <1>3, PTL DEF DeskSpec
=============================================================================
