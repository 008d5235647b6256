----------------------------- MODULE Providers -----------------------------
(***************************************************************************)
(* The provider accounts, their model bindings, and the two writers of     *)
(* those: the worker's job and the administrator's refresh.  Both list the *)
(* provider's models before they open a transaction and then meet on an    *)
(* advisory lock; requests that edit accounts and bindings take none.      *)
(* Transactions are READ COMMITTED.                                        *)
(***************************************************************************)
EXTENDS Naturals, FiniteSets, Functions, TLC

CONSTANTS Accounts,    \* provider account ids
          Models,      \* vendor model ids
          Syncs,       \* deliveries of sync jobs, and refreshes by an administrator
          Edits,       \* requests that edit an account
          MaxRows,     \* bindings ever inserted
          MaxDrops,    \* catalog entries removed by hand
          NoId         \* stands for a missing account, request or sync

VARIABLES accounts,    \* provider_accounts, with the row lock on each
          rows,        \* model_account_bindings
          syncs,
          locks,       \* the advisory lock of each account
          edits,
          drops

vars == <<accounts, rows, syncs, locks, edits, drops>>

-----------------------------------------------------------------------------
Account == [state : {"unused", "live", "deleted"}, enabled : BOOLEAN, default : BOOLEAN,
            lock : Edits \cup {NoId}]

NoAccount(state) == [state |-> state, enabled |-> FALSE, default |-> FALSE, lock |-> NoId]

\* linked: model_catalog_id is not null; model: the one of its catalog entry, or of the
\* entry it had.  The row's own reference is stored as a JSON string, in which no query
\* finds an id, so a binding that is not linked is of no model to the syncs.
Row == [account : Accounts, model : Models, linked : BOOLEAN, enabled : BOOLEAN]

NoRow == [account |-> NoId, model |-> NoId, linked |-> FALSE, enabled |-> FALSE]

\* match: the binding that the plan updates for each model, 0 for one it inserts.
Sync == [pc : {"unused", "listed", "locked", "planned", "done", "failed"}, kind : {"none", "job", "refresh"},
         account : Accounts \cup {NoId}, models : SUBSET Models, match : [Models -> 0..MaxRows]]

NoMatch == [m \in Models |-> 0]

SyncOver(pc) == [pc |-> pc, kind |-> "none", account |-> NoId, models |-> {}, match |-> NoMatch]

\* seen: the defaults that the first statement of its transaction found; crossed: another
\* edit made a default after that (history).
Edit == [pc : {"unused", "clearing", "cleared", "done", "failed"}, op : {"none", "create", "patch"},
         account : Accounts \cup {NoId}, status : {"keep", "enabled", "disabled"},
         default : {"keep", "yes", "no"}, seen : SUBSET Accounts, crossed : BOOLEAN]

EditOver(pc, crossed) ==
  [pc |-> pc, op |-> "none", account |-> NoId, status |-> "keep", default |-> "keep", seen |-> {}, crossed |-> crossed]

TypeOK ==
  /\ accounts \in [Accounts -> Account]
  /\ rows \in [1..MaxRows -> Row \cup {NoRow}]
  /\ syncs \in [Syncs -> Sync]
  /\ locks \in [Accounts -> Syncs \cup {NoId}]
  /\ edits \in [Edits -> Edit]
  /\ drops \in 0..MaxDrops

Init ==
  /\ accounts = [a \in Accounts |-> NoAccount("unused")]
  /\ rows = [i \in 1..MaxRows |-> NoRow]
  /\ syncs = [s \in Syncs |-> SyncOver("unused")]
  /\ locks = [a \in Accounts |-> NoId]
  /\ edits = [e \in Edits |-> EditOver("unused", FALSE)]
  /\ drops = 0

-----------------------------------------------------------------------------
(* Accounts.                                                               *)

Live(a) == accounts[a].state = "live"

Defaults == {a \in Accounts : accounts[a].default}

\* A request arrives, finds its account, and sends its first statement: the accounts that
\* are to lose the default are those it sees now.  Without a new default there is none.
Arrive(e, op, a, status, default) ==
  /\ edits[e].pc = "unused"
  /\ op = "create" => /\ accounts[a].state = "unused" /\ status = "keep" /\ default # "keep"
                     /\ \A d \in Edits : edits[d].account # a
  /\ op = "patch" => Live(a)
  /\ edits' = [edits EXCEPT ![e] =
       IF status = "disabled" /\ default = "yes" THEN EditOver("failed", FALSE)
       ELSE [pc |-> IF default = "yes" THEN "clearing" ELSE "cleared", op |-> op, account |-> a, status |-> status,
             default |-> default, crossed |-> FALSE,
             seen |-> IF default = "yes" THEN Defaults \ (IF op = "patch" THEN {a} ELSE {}) ELSE {}]]
  /\ UNCHANGED <<accounts, rows, syncs, locks, drops>>

\* Mutant of ClearDefaults: the other defaults stay.
ClearNothing(e) ==
  /\ edits[e].pc = "clearing"
  /\ edits' = [edits EXCEPT ![e].pc = "cleared", ![e].seen = {}]
  /\ UNCHANGED <<accounts, rows, syncs, locks, drops>>

\* It waits for the rows it has seen, and looks at them again: one that is no default any
\* more is left alone, one that has become a default meanwhile was not seen.
ClearDefaults(e) ==
  LET found == {a \in edits[e].seen : accounts[a].default} IN
  /\ edits[e].pc = "clearing"
  /\ \A a \in edits[e].seen : accounts[a].lock = NoId
  /\ accounts' = [a \in Accounts |-> IF a \in found THEN [accounts[a] EXCEPT !.lock = e] ELSE accounts[a]]
  /\ edits' = [edits EXCEPT ![e].pc = "cleared", ![e].seen = found]
  /\ UNCHANGED <<rows, syncs, locks, drops>>

Unlock(e, as) == [a \in Accounts |-> IF as[a].lock = e THEN [as[a] EXCEPT !.lock = NoId] ELSE as[a]]

\* Another edit that has sent its first statement does not see this default.
Crossed(e) ==
  [d \in Edits |-> IF d = e THEN EditOver("done", edits[e].crossed)
                   ELSE IF edits[d].pc \in {"clearing", "cleared"} THEN [edits[d] EXCEPT !.crossed = TRUE]
                   ELSE edits[d]]

\* The second statement and the commit: what was cleared is cleared for all to see.
CreateAccount(e) ==
  LET a == edits[e].account IN
  /\ edits[e].pc = "cleared" /\ edits[e].op = "create"
  /\ accounts[a].state = "unused"
  /\ accounts' = [Unlock(e, [b \in Accounts |-> IF accounts[b].lock = e THEN [accounts[b] EXCEPT !.default = FALSE]
                                                ELSE accounts[b]])
                  EXCEPT ![a] = [NoAccount("live") EXCEPT !.enabled = TRUE, !.default = edits[e].default = "yes"]]
  /\ edits' = IF edits[e].default = "yes" THEN Crossed(e) ELSE [edits EXCEPT ![e] = EditOver("done", FALSE)]
  /\ UNCHANGED <<rows, syncs, locks, drops>>

\* What the request does not name stays as it is in the row; disabling takes the default.
\* An account deleted meanwhile is 404, but what was cleared is committed.
PatchAccount(e) ==
  LET r == edits[e]
      a == r.account
      cleared == Unlock(e, [b \in Accounts |-> IF accounts[b].lock = e THEN [accounts[b] EXCEPT !.default = FALSE]
                                               ELSE accounts[b]])
      row == [accounts[a] EXCEPT
                !.enabled = CASE r.status = "keep" -> @ [] r.status = "enabled" -> TRUE [] r.status = "disabled" -> FALSE,
                !.default = IF r.status = "disabled" THEN FALSE ELSE IF r.default = "keep" THEN @ ELSE r.default = "yes"]
  IN  /\ r.pc = "cleared" /\ r.op = "patch"
      /\ accounts[a].lock = NoId
      /\ accounts' = IF Live(a) THEN [cleared EXCEPT ![a] = row] ELSE cleared
      /\ edits' = IF r.default = "yes" THEN Crossed(e) ELSE [edits EXCEPT ![e] = EditOver("done", FALSE)]
      /\ UNCHANGED <<rows, syncs, locks, drops>>

\* A crash, or a deadlock that the database ends.
EditFails(e) ==
  /\ edits[e].pc \in {"clearing", "cleared"}
  /\ accounts' = Unlock(e, accounts)
  /\ edits' = [edits EXCEPT ![e] = EditOver("failed", FALSE)]
  /\ UNCHANGED <<rows, syncs, locks, drops>>

\* The credentials and the bindings go with the account.
DeleteAccount(a) ==
  /\ Live(a) /\ accounts[a].lock = NoId
  /\ accounts' = [accounts EXCEPT ![a] = NoAccount("deleted")]
  /\ rows' = [i \in DOMAIN rows |-> IF rows[i].account = a THEN NoRow ELSE rows[i]]
  /\ UNCHANGED <<syncs, locks, edits, drops>>

-----------------------------------------------------------------------------
(* Bindings.                                                               *)

\* PATCH .../bindings/:id, one statement on the row.
ToggleBinding(i) ==
  /\ rows[i] # NoRow
  /\ rows' = [rows EXCEPT ![i].enabled = ~@]
  /\ UNCHANGED <<accounts, syncs, locks, edits, drops>>

\* A catalog entry is removed by hand: on delete set null.
DropCatalogEntry(m) ==
  /\ drops < MaxDrops
  /\ \E i \in DOMAIN rows : rows[i].model = m /\ rows[i].linked
  /\ rows' = [i \in DOMAIN rows |-> IF rows[i].model = m THEN [rows[i] EXCEPT !.linked = FALSE] ELSE rows[i]]
  /\ drops' = drops + 1
  /\ UNCHANGED <<accounts, syncs, locks, edits>>

Linked(rs, a, m) == {i \in DOMAIN rs : rs[i].account = a /\ rs[i].model = m /\ rs[i].linked}

Fresh(rs) == {i \in DOMAIN rs : rs[i] = NoRow}

-----------------------------------------------------------------------------
(* The job, delivered at least once, and the refresh.                      *)

\* The account is read and the provider asked.  A job wants an enabled account; a refresh
\* takes an empty list for a failure, a job has nothing to write then.
ListModels(s, kind, a, models) ==
  /\ syncs[s].pc \in {"unused", "done", "failed"}
  /\ Live(a)
  /\ syncs' = [syncs EXCEPT ![s] =
       IF kind = "job" /\ ~accounts[a].enabled THEN SyncOver("failed")
       ELSE IF models = {} THEN SyncOver(IF kind = "job" THEN "done" ELSE "failed")
       ELSE [SyncOver("listed") EXCEPT !.kind = kind, !.account = a, !.models = models]]
  /\ UNCHANGED <<accounts, rows, locks, edits, drops>>

LockAccount(s) ==
  /\ syncs[s].pc = "listed"
  /\ locks[syncs[s].account] = NoId
  /\ locks' = [locks EXCEPT ![syncs[s].account] = s]
  /\ syncs' = [syncs EXCEPT ![s].pc = "locked"]
  /\ UNCHANGED <<accounts, rows, edits, drops>>

Release(s, pc) ==
  /\ locks' = [a \in Accounts |-> IF locks[a] = s THEN NoId ELSE locks[a]]
  /\ syncs' = [syncs EXCEPT ![s] = SyncOver(pc)]

\* The transaction is rolled back; the job is tried again as another delivery.
SyncFails(s) ==
  /\ syncs[s].pc \in {"listed", "locked", "planned"}
  /\ Release(s, "failed")
  /\ UNCHANGED <<accounts, rows, edits, drops>>

\* The job reads its account and the bindings, and plans: a model is matched with the
\* binding that is linked to its catalog entry, and a binding that is not linked with none.
PlanBindingWrites(s) ==
  LET a == syncs[s].account IN
  /\ syncs[s].pc = "locked" /\ syncs[s].kind = "job"
  /\ Live(a)
  /\ \E match \in [Models -> 0..MaxRows] :
       /\ \A m \in Models : IF m \in syncs[s].models /\ Linked(rows, a, m) # {}
                           THEN match[m] \in Linked(rows, a, m) ELSE match[m] = 0
       /\ syncs' = [syncs EXCEPT ![s].pc = "planned", ![s].match = match]
  /\ UNCHANGED <<accounts, rows, locks, edits, drops>>

\* The update that gives a binding its catalog entry; the unique index fails the statement,
\* and with it the transaction, when another binding of the account has that entry.
Relink(rs, i) ==
  IF Linked(rs, rs[i].account, rs[i].model) \ {i} # {} THEN rs ELSE [rs EXCEPT ![i].linked = TRUE]

\* The bindings that the plan updates; those of an account deleted since are not found.
Matched(s, i) ==
  /\ \E m \in syncs[s].models : syncs[s].match[m] = i
  /\ rows[i].account = syncs[s].account

IndexRefuses(s) ==
  \E i \in DOMAIN rows : Matched(s, i) /\ Relink(rows, i) = rows /\ ~rows[i].linked

\* Mutant of JobWrites: a model that is listed is enabled.
JobEnables(s) ==
  [i \in DOMAIN rows |-> IF Matched(s, i) THEN [Relink(rows, i)[i] EXCEPT !.enabled = TRUE] ELSE rows[i]]

\* enabled is left as it is, and so are the bindings of models that are not listed.
JobWrites(s) == [i \in DOMAIN rows |-> IF Matched(s, i) THEN Relink(rows, i)[i] ELSE rows[i]]

\* A binding for each model of new, enabled, in rows that are free; one that is linked
\* already is found instead of inserted, and enabled again by a refresh.
Inserted(rs, a, new, enable) ==
  LET missing == {m \in new : Linked(rs, a, m) = {}} IN
  {[i \in DOMAIN rs |->
      IF \E m \in missing : at[m] = i
      THEN [account |-> a, model |-> CHOOSE m \in missing : at[m] = i, linked |-> TRUE, enabled |-> TRUE]
      ELSE IF enable /\ \E m \in new : i \in Linked(rs, a, m) THEN [rs[i] EXCEPT !.enabled = TRUE] ELSE rs[i]] :
     at \in Injection(missing, Fresh(rs))}

\* The writes of the job.  An account deleted since the plan was made fails the inserts.
PersistModels(s) ==
  LET a == syncs[s].account
      new == {m \in syncs[s].models : syncs[s].match[m] = 0}
  IN  /\ syncs[s].pc = "planned"
      /\ ~IndexRefuses(s)
      /\ new # {} => Live(a)
      /\ rows' \in Inserted(JobWrites(s), a, new, FALSE)
      /\ Release(s, "done")
      /\ UNCHANGED <<accounts, edits, drops>>

\* Mutant of Disabled: the refresh keeps the models that have gone.
KeepsEnabled(a, models) == rows

\* What the provider does not list is disabled; a binding that is not linked has no model
\* to compare, and stays as it is.
Disabled(a, models) ==
  [i \in DOMAIN rows |-> IF rows[i].account = a /\ rows[i].linked /\ rows[i].model \notin models
                         THEN [rows[i] EXCEPT !.enabled = FALSE] ELSE rows[i]]

\* The refresh looks for a binding by its catalog entry, which it has upserted.
RefreshModels(s) ==
  LET a == syncs[s].account IN
  /\ syncs[s].pc = "locked" /\ syncs[s].kind = "refresh"
  /\ Live(a)
  /\ rows' \in Inserted(Disabled(a, syncs[s].models), a, syncs[s].models, TRUE)
  /\ Release(s, "done")
  /\ UNCHANGED <<accounts, edits, drops>>

-----------------------------------------------------------------------------
EditStep(e) ==
  \/ \E a \in Accounts, op \in {"create", "patch"}, status \in {"keep", "enabled", "disabled"},
        default \in {"keep", "yes", "no"} : Arrive(e, op, a, status, default)
  \/ ClearDefaults(e) \/ CreateAccount(e) \/ PatchAccount(e) \/ EditFails(e)

SyncStep(s) ==
  \/ \E kind \in {"job", "refresh"}, a \in Accounts, models \in SUBSET Models : ListModels(s, kind, a, models)
  \/ LockAccount(s) \/ PlanBindingWrites(s) \/ PersistModels(s) \/ RefreshModels(s) \/ SyncFails(s)

Next ==
  \/ \E e \in Edits : EditStep(e)
  \/ \E s \in Syncs : SyncStep(s)
  \/ \E a \in Accounts : DeleteAccount(a)
  \/ \E i \in DOMAIN rows : ToggleBinding(i)
  \/ \E m \in Models : DropCatalogEntry(m)

Spec == Init /\ [][Next]_vars

ProviderSymmetry ==
  Permutations(Accounts) \cup Permutations(Models) \cup Permutations(Syncs) \cup Permutations(Edits)

-----------------------------------------------------------------------------
(* Properties.                                                             *)

\* A catalog entry has one binding in an account, of an account that exists, whichever sync
\* or refresh wrote it and whatever was removed by hand (provider-sync-deps.ts:115-195).
OneBindingPerModel ==
  /\ \A a \in Accounts, m \in Models : Cardinality(Linked(rows, a, m)) <= 1
  /\ \A i \in DOMAIN rows : rows[i] # NoRow => Live(rows[i].account)

\* A job changes no operator's choice: a binding that exists is switched by its own request
\* or by a refresh (provider-sync-deps.ts:167-176), and a refresh leaves no binding of a
\* catalog entry enabled that its list does not name (models/route.ts:79-137).
ChoiceSurvivesStep ==
  /\ \A i \in DOMAIN rows : rows[i] # NoRow /\ rows'[i] # NoRow /\ rows'[i].enabled # rows[i].enabled =>
       \A s \in Syncs : syncs[s].pc = "planned" => syncs'[s] = syncs[s]
  /\ \A s \in Syncs : syncs[s].kind = "refresh" /\ syncs'[s].pc = "done" =>
       \A i \in DOMAIN rows' : rows'[i].account = syncs[s].account =>
          (rows'[i].linked /\ rows'[i].enabled => rows'[i].model \in syncs[s].models)

ChoiceSurvives == [][ChoiceSurvivesStep]_vars

\* Two accounts are the default only after an edit that made one of them so ran beside
\* another (providers/route.ts:65-90, accounts/[accountId]/route.ts:42-65).
DefaultsCrossed ==
  Cardinality(Defaults) > 1 => \E e \in Edits : edits[e].crossed

-----------------------------------------------------------------------------
(* What the repository says, and the code does not do.                     *)

\* 0004_app_wide_provider_accounts.sql:12-13: "only one account can hold it once the
\* per-user partition disappears"; accounts/[accountId]/route.ts:35: "Disabled provider
\* account cannot be default".
OneDefault ==
  /\ Cardinality(Defaults) <= 1
  /\ \A a \in Defaults : accounts[a].enabled
=============================================================================
