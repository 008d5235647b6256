--------------------------- MODULE ProvidersPage ---------------------------
(***************************************************************************)
(* The two pages on which an admin keeps provider accounts and models, one *)
(* of them in one tab.  The manager lists everything anew after what it    *)
(* changes; the list of models is loaded once, and patched by the answers  *)
(* to its toggles.  Nothing orders the answers.  An account has at most    *)
(* one model here, and a binding is named by its account.                  *)
(***************************************************************************)
EXTENDS Naturals, FiniteSets

CONSTANTS MaxAccounts, \* in the order of their creation
          MaxErrands,  \* handlers under way at once
          MaxClicks    \* what the admin does before and while they are answered

VARIABLES registry, \* the accounts on the server
          desk,     \* the state of the page
          errands   \* the handlers that wait for an answer

deskVars == <<registry, desk, errands>>

-----------------------------------------------------------------------------
AccountIds == 1..MaxAccounts

None == 0

Entry == [status : {"enabled", "disabled"}, default : BOOLEAN, model : {"none", "on", "off"}]

NoEntry == [status |-> "disabled", default |-> FALSE, model |-> "absent"]

Listings == [AccountIds -> Entry \cup {NoEntry}]

Form == [status : {"enabled", "disabled"}, default : BOOLEAN]

Errands == 1..MaxErrands

\* The operations whose button is disabled by the account they are of.
Kinds == {"test", "rotate", "delete", "sync", "toggle"}

\* editing, form: the account whose form is open, as it was listed; selected: on the page of models.
\* History: missed, the list that was shown last is not the one that was read last, or the
\* server has changed since it was read without an answer that said so; crossed, two toggles
\* of one model were under way at once on the page of models.
Desk == [page : {"manager", "models"}, listed : Listings, loading : BOOLEAN, saving : BOOLEAN,
         busy : [Kinds -> 0..MaxAccounts], editing : 0..MaxAccounts, form : Form, selected : 0..MaxAccounts,
         error : BOOLEAN, missed : BOOLEAN, crossed : BOOLEAN, clicks : 0..MaxClicks]

\* listing: the handler has come to loadProviders; items: what that has read; rank: in the
\* order of the reads that are not shown yet; old: a later one is shown.
Errand == [op : {"load", "create", "update"} \cup Kinds, step : {"free", "sent", "ok", "failed"}, listing : BOOLEAN,
           id : 0..MaxAccounts, form : Form, enable : BOOLEAN, items : Listings, rank : 0..MaxErrands, old : BOOLEAN]

Blank == [status |-> "enabled", default |-> FALSE]

Nothing == [a \in AccountIds |-> NoEntry]

Free == [op |-> "load", step |-> "free", listing |-> FALSE, id |-> None, form |-> Blank, enable |-> FALSE,
         items |-> Nothing, rank |-> 0, old |-> FALSE]

DeskTypeOK ==
  /\ registry \in [accounts : Listings, made : 0..MaxAccounts, queued : SUBSET AccountIds]
  /\ desk \in Desk
  /\ errands \in [Errands -> Errand]

\* A page is opened over accounts that are enabled, of which the first may be the default,
\* and whose models are known.
DeskInit ==
  /\ \E n \in 1..MaxAccounts, default \in BOOLEAN :
       registry = [accounts |-> [a \in AccountIds |->
                                   IF a > n THEN NoEntry
                                   ELSE [status |-> "enabled", default |-> default /\ a = 1, model |-> "on"]],
                   made |-> n, queued |-> {}]
  /\ \E page \in {"manager", "models"} :
       desk = [page |-> page, listed |-> Nothing, loading |-> TRUE, saving |-> FALSE, busy |-> [o \in Kinds |-> None],
               editing |-> None, form |-> Blank, selected |-> None, error |-> FALSE, missed |-> FALSE,
               crossed |-> FALSE, clicks |-> 0]
  /\ errands = [k \in Errands |-> IF k = 1 THEN [Free EXCEPT !.step = "sent", !.listing = TRUE] ELSE Free]

-----------------------------------------------------------------------------
Waiting == {k \in Errands : errands[k].step # "free"}

Has(accounts, a) == accounts[a] # NoEntry

Listed(a) == Has(desk.listed, a)

OnManager == desk.page = "manager"

\* The admin does what makes the page d.
Do(d) == desk.clicks < MaxClicks /\ desk' = [d EXCEPT !.clicks = @ + 1]

\* A handler sends its request; on the manager, it takes the last error away.
Start(k, errand, d) ==
  /\ errands[k].step = "free" /\ \A j \in 1..(k - 1) : j \in Waiting
  /\ Do(IF OnManager THEN [d EXCEPT !.error = FALSE] ELSE d)
  /\ errands' = [errands EXCEPT ![k] = errand]
  /\ UNCHANGED registry

Sent(op, a) == [Free EXCEPT !.op = op, !.step = "sent", !.id = a]

\* Refresh, or the retry that an error offers.
LoadProviders(k) ==
  /\ OnManager /\ (~desk.loading \/ desk.error)
  /\ Start(k, [Sent("load", None) EXCEPT !.listing = TRUE], [desk EXCEPT !.loading = TRUE])

CreateProvider(k) ==
  /\ OnManager /\ ~desk.saving
  /\ \E default \in BOOLEAN :
       Start(k, [Sent("create", None) EXCEPT !.form.default = default], [desk EXCEPT !.saving = TRUE])

StartEdit(a) ==
  /\ OnManager /\ Listed(a) /\ desk.editing # a
  /\ Do([desk EXCEPT !.editing = a,
                     !.form = [status |-> desk.listed[a].status, default |-> desk.listed[a].default]])
  /\ UNCHANGED <<registry, errands>>

CancelEdit ==
  /\ OnManager /\ desk.editing # None /\ Listed(desk.editing) /\ ~desk.saving
  /\ Do([desk EXCEPT !.editing = None])
  /\ UNCHANGED <<registry, errands>>

\* Mutant of Typed: the box of the default stays ticked when the account is disabled.
TypedAnything(form) == Form

\* What a form can be made: disabling the account unticks the box, and disables it.
Typed(form) == {form} \cup {f \in Form : f.status = "disabled" => ~f.default}

UpdateProvider(k) ==
  /\ OnManager /\ desk.editing # None /\ Listed(desk.editing) /\ ~desk.saving
  /\ \E form \in Typed(desk.form) :
       Start(k, [Sent("update", desk.editing) EXCEPT !.form = form], [desk EXCEPT !.saving = TRUE])

\* The buttons of an account; only that of the account pressed last is disabled.
Press(k, op, a, errand) ==
  /\ Listed(a) /\ desk.busy[op] # a
  /\ Start(k, errand, [desk EXCEPT !.busy[op] = a])

TestProvider(k, a) ==
  OnManager /\ desk.listed[a].status = "enabled" /\ Press(k, "test", a, Sent("test", a))

SyncModels(k, a) ==
  OnManager /\ desk.listed[a].status = "enabled" /\ Press(k, "sync", a, Sent("sync", a))

RotateKey(k, a) == OnManager /\ desk.editing # a /\ Press(k, "rotate", a, Sent("rotate", a))

DeleteProvider(k, a) == OnManager /\ Press(k, "delete", a, Sent("delete", a))

\* Toggled: the models whose toggle is under way.
Toggled == {errands[k].id : k \in {k \in Waiting : errands[k].op = "toggle"}}

\* The chip of a model on the manager, the button of the selected one on the page of models.
ToggleModel(k, a) ==
  /\ desk.listed[a].model \in {"on", "off"}
  /\ IF OnManager THEN desk.editing # a ELSE desk.selected = a
  /\ desk.busy["toggle"] # a
  /\ Start(k, [Sent("toggle", a) EXCEPT !.enable = desk.listed[a].model = "off"],
           [desk EXCEPT !.busy["toggle"] = a, !.crossed = @ \/ (~OnManager /\ a \in Toggled)])

\* The models that a category and a search may leave to be shown.
Rows(listed) == {a \in AccountIds : listed[a].model \in {"on", "off"}}

\* By a click; or a category or a search leaves out the model that was selected.
Select ==
  /\ ~OnManager
  /\ \E a \in Rows(desk.listed) \cup {None} : a # desk.selected /\ Do([desk EXCEPT !.selected = a])
  /\ UNCHANGED <<registry, errands>>

-----------------------------------------------------------------------------
(* The server.                                                             *)

\* The others lose the default when it is given away.
Undefaulted(accounts, default) ==
  IF default THEN [a \in AccountIds |-> [accounts[a] EXCEPT !.default = FALSE]] ELSE accounts

\* A listing disables what it does not have, and enables what it has.
Synced(account) ==
  {[account EXCEPT !.model = "on"], [account EXCEPT !.model = IF @ = "on" THEN "off" ELSE @]}

\* The states of the server after the request of an errand, if it is granted.
Granted(e) ==
  LET as   == registry.accounts
      made == registry.made + 1
      with(accounts) == [registry EXCEPT !.accounts = accounts]
  IN
  IF e.listing THEN {registry} ELSE
  CASE e.op = "create" /\ made <= MaxAccounts ->
         {[accounts |-> [Undefaulted(as, e.form.default) EXCEPT
                           ![made] = [status |-> "enabled", default |-> e.form.default, model |-> "none"]],
           made |-> made, queued |-> queued] : queued \in {registry.queued, registry.queued \cup {made}}}
    [] e.op = "update" /\ Has(as, e.id) /\ ~(e.form.status = "disabled" /\ e.form.default) ->
         {with([Undefaulted(as, e.form.default) EXCEPT ![e.id].status = e.form.status, ![e.id].default = e.form.default])}
    [] e.op = "test" /\ Has(as, e.id) /\ as[e.id].status = "enabled" -> {registry}
    [] e.op = "rotate" /\ Has(as, e.id) -> {registry}
    [] e.op = "delete" /\ Has(as, e.id) -> {with([as EXCEPT ![e.id] = NoEntry])}
    [] e.op = "sync" /\ Has(as, e.id) -> {with([as EXCEPT ![e.id] = account]) : account \in Synced(as[e.id])}
    [] e.op = "toggle" /\ Has(as, e.id) /\ as[e.id].model # "none" ->
         {with([as EXCEPT ![e.id].model = IF e.enable THEN "on" ELSE "off"])}
    [] OTHER -> {}

\* The reads that are answered and not shown yet.
Read == {k \in Errands : errands[k].listing /\ errands[k].step = "ok"}

Serve(k) ==
  LET e == errands[k] IN
  /\ e.step = "sent"
  /\ registry' \in Granted(e)
  /\ errands' = [errands EXCEPT ![k] = IF e.listing THEN [e EXCEPT !.step = "ok", !.items = registry.accounts,
                                                                  !.rank = Cardinality(Read) + 1]
                                       ELSE [e EXCEPT !.step = "ok"]]
  /\ UNCHANGED desk

\* The server has changed and no answer to come says so, or the load that would is lost.
Unseen(es, d, changed) ==
  IF changed
  THEN /\ desk' = [d EXCEPT !.missed = TRUE]
       /\ errands' = [k \in Errands |-> IF k \in Read THEN [es[k] EXCEPT !.old = TRUE] ELSE es[k]]
  ELSE desk' = d /\ errands' = es

\* It is refused, or it or its answer is lost.
Refuse(k) ==
  /\ errands[k].step = "sent"
  /\ registry' \in {registry} \cup Granted(errands[k])
  /\ Unseen([errands EXCEPT ![k].step = "failed"], desk, errands[k].listing \/ registry'.accounts # registry.accounts)

\* The sync that the creation queued: it enables a model that is new, and leaves one that is not.
Discover(a) ==
  /\ a \in registry.queued
  /\ \E found \in BOOLEAN :
       registry' = [registry EXCEPT !.queued = @ \ {a},
                                    !.accounts[a].model = IF found /\ @ = "none" THEN "on" ELSE @]
  /\ Unseen(errands, desk, registry'.accounts # registry.accounts)

-----------------------------------------------------------------------------
(* The answers.                                                            *)

\* finally: whichever account is pressed or saved by now.
Finally(e, d) ==
  CASE e.op = "load" -> d
    [] e.op \in {"create", "update"} -> [d EXCEPT !.saving = FALSE]
    [] OTHER -> [d EXCEPT !.busy[e.op] = None]

\* The manager lists everything anew.
Reloads(e) == OnManager /\ e.op \notin {"test", "rotate"}

\* What an operation that was granted changes of the page; a form is closed, whosever it is.
Applied(e) ==
  CASE e.op = "update" -> [desk EXCEPT !.editing = None]
    [] e.op = "toggle" /\ ~OnManager -> [desk EXCEPT !.listed[e.id].model = IF e.enable THEN "on" ELSE "off"]
    [] OTHER -> desk

Answered(k) ==
  LET e == errands[k] IN
  /\ e.step = "ok" /\ ~e.listing
  /\ IF Reloads(e)
     THEN /\ desk' = [Applied(e) EXCEPT !.loading = TRUE, !.error = FALSE]
          /\ errands' = [errands EXCEPT ![k].step = "sent", ![k].listing = TRUE]
     ELSE /\ desk' = Finally(e, Applied(e))
          /\ errands' = [errands EXCEPT ![k] = Free]
  /\ UNCHANGED registry

\* The effect that keeps the selection among the rows.
Selections(listed) ==
  IF OnManager \/ Rows(listed) = {} THEN {None}
  ELSE IF desk.selected \in Rows(listed) THEN {desk.selected} ELSE Rows(listed)

\* A list is shown, and the reads before it are old.
Loaded(k) ==
  LET e == errands[k] IN
  /\ e.step = "ok" /\ e.listing
  /\ \E a \in Selections(e.items) :
       desk' = Finally(e, [desk EXCEPT !.listed = e.items, !.loading = FALSE, !.missed = e.old, !.selected = a])
  /\ errands' = [j \in Errands |->
                   IF j = k THEN Free
                   ELSE IF j \notin Read THEN errands[j]
                   ELSE IF errands[j].rank < e.rank THEN [errands[j] EXCEPT !.old = TRUE]
                   ELSE [errands[j] EXCEPT !.rank = @ - 1]]
  /\ UNCHANGED registry

\* A load that failed leaves what is listed.
Failed(k) ==
  LET e == errands[k] IN
  /\ e.step = "failed"
  /\ desk' = Finally(e, [desk EXCEPT !.error = @ \/ e.listing \/ OnManager,
                                     !.loading = IF e.listing THEN FALSE ELSE @])
  /\ errands' = [errands EXCEPT ![k] = Free]
  /\ UNCHANGED registry

-----------------------------------------------------------------------------
DeskNext ==
  \/ \E k \in Errands :
       \/ LoadProviders(k) \/ CreateProvider(k) \/ UpdateProvider(k)
       \/ Serve(k) \/ Refuse(k) \/ Answered(k) \/ Loaded(k) \/ Failed(k)
       \/ \E a \in AccountIds :
            TestProvider(k, a) \/ SyncModels(k, a) \/ RotateKey(k, a) \/ DeleteProvider(k, a) \/ ToggleModel(k, a)
  \/ \E a \in AccountIds : StartEdit(a) \/ Discover(a)
  \/ CancelEdit \/ Select

DeskSpec == DeskInit /\ [][DeskNext]_deskVars

-----------------------------------------------------------------------------
(* Properties.                                                             *)

\* However the handlers of a page overlap, once they have ended it shows what the server has:
\* the manager because each of its changes is followed by a load of its own, the page of models
\* because an answer says what it changed, unless two toggles of a model crossed
\* (providers-manager.tsx:180-375, models-client.tsx:173-342).
DeskIsCurrent == Waiting = {} /\ ~desk.missed /\ ~desk.crossed => desk.listed = registry.accounts

\* Whichever button was pressed since, one that is disabled, and the sign that the list is
\* loading, wait for a handler that will free them; the form and the new account are saved
\* one at a time (providers-manager.tsx:180-375, models-client.tsx:325-342).
WaitsForWork ==
  /\ desk.loading => \E k \in Waiting : errands[k].listing
  /\ desk.saving <=> \E k \in Waiting : errands[k].op \in {"create", "update"}
  /\ \A op \in Kinds : desk.busy[op] # None => \E k \in Waiting : errands[k].op = op /\ errands[k].id = desk.busy[op]

\* The form is filled in from a list that may be old by the time it is saved, and yet it never
\* asks for what the server refuses, a disabled account as the default
\* (providers-manager.tsx:251-290, 536-550, accounts/[accountId]/route.ts:42-66).
FormsAreAllowed ==
  \A k \in Waiting : errands[k].op = "update" => ~(errands[k].form.status = "disabled" /\ errands[k].form.default)
=============================================================================
