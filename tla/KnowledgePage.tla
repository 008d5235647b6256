--------------------------- MODULE KnowledgePage ---------------------------
(***************************************************************************)
(* The knowledge library in one tab.  A handler sends a request and, in    *)
(* most cases, loads a list again when it is answered; an effect loads the *)
(* documents whenever another base is selected.  No request is cancelled,  *)
(* nothing orders the answers, and each handler goes on with the base that *)
(* was selected when it was started.                                       *)
(***************************************************************************)
EXTENDS Naturals, Sequences, FiniteSets

CONSTANTS MaxBases, MaxDocs, \* both are numbered in the order of their creation
          MaxNames,          \* names of bases, and titles of documents
          MaxTasks,          \* requests under way at once
          MaxClicks          \* what the user does before and while they are answered

VARIABLES library,  \* the bases and the documents on the server
          page,     \* the state of the component
          tasks     \* the handlers that wait for an answer

knowledgeVars == <<library, page, tasks>>

-----------------------------------------------------------------------------
Bases == 1..MaxBases

NoBase == 0

Names == 0..MaxNames

Row == [base : Bases, status : {"active", "archived"}, name : Names]

Doc == [doc : 1..MaxDocs, base : Bases, title : Names]

Tasks == 1..MaxTasks

\* The operations that disable their button while they work.
Flagged == {"create", "save", "upload", "search", "renameDoc", "reembed"}

Ops == Flagged \cup {"archive", "delete", "deleteDoc", "list", "docs"}

\* edit: the base in the form; results: the base that was searched.
\* History: stale, two operations were under way at once or one failed; crossed, another base
\* was selected while a request for one was under way.
Page == [listed : SUBSET Row, selected : 0..MaxBases, edit : 0..MaxBases, docs : SUBSET Doc,
         results : 0..MaxBases, busy : SUBSET Ops, stale : BOOLEAN, crossed : BOOLEAN,
         clicks : 0..MaxClicks]

\* op: the handler; request: what it waits for now.
Task == [op : Ops, request : Ops, step : {"free", "sent", "ok", "failed"}, base : 0..MaxBases,
         doc : 0..MaxDocs, name : Names, rows : SUBSET Row, docs : SUBSET Doc]

Free == [op |-> "list", request |-> "list", step |-> "free", base |-> NoBase, doc |-> 0, name |-> 0,
         rows |-> {}, docs |-> {}]

KnowledgeTypeOK ==
  /\ library \in [rows : SUBSET Row, docs : SUBSET Doc, bases : 0..MaxBases, made : 0..MaxDocs]
  /\ page \in Page
  /\ tasks \in [Tasks -> Task]

\* A library as it is found: its first bases, and a document of one of them.
KnowledgeInit ==
  /\ \E n \in 0..MaxBases, m \in 0..MaxDocs : \E home \in [1..m -> 1..n] :
       library = [rows |-> [base : 1..n, status : {"active"}, name : {0}],
                  docs |-> {[doc |-> d, base |-> home[d], title |-> 0] : d \in 1..m}, bases |-> n, made |-> m]
  /\ page = [listed |-> {}, selected |-> NoBase, edit |-> NoBase, docs |-> {}, results |-> NoBase,
             busy |-> {"list"}, stale |-> FALSE, crossed |-> FALSE, clicks |-> 0]
  /\ tasks = [t \in Tasks |-> IF t = 1 THEN [Free EXCEPT !.step = "sent"] ELSE Free]

-----------------------------------------------------------------------------
Waiting == {t \in Tasks : tasks[t].step # "free"}

Shown(p) == \E r \in p.listed : r.base = p.selected

RowOf(rows, b) == CHOOSE r \in rows : r.base = b

\* Mutant of Reset: the results stay.
ResetForm(p) == [p EXCEPT !.edit = IF Shown(p) THEN p.selected ELSE NoBase,
                          !.docs = IF p.selected = NoBase THEN {} ELSE @,
                          !.busy = IF p.selected = NoBase THEN @ ELSE @ \cup {"docs"}]

\* The effect of a selection: the form and the search begin anew, and the documents are loaded.
Reset(p) == [p EXCEPT !.edit = IF Shown(p) THEN p.selected ELSE NoBase,
                      !.results = NoBase,
                      !.docs = IF p.selected = NoBase THEN {} ELSE @,
                      !.busy = IF p.selected = NoBase THEN @ ELSE @ \cup {"docs"}]

FreeIn(ts) == {t \in Tasks : ts[t].step = "free"}

LoadOf(b) == [Free EXCEPT !.op = "docs", !.request = "docs", !.step = "sent", !.base = b]

\* The page becomes p and the tasks ts; if that selects a base, or lists the selected one, the
\* effect follows.
Settle(p, ts) ==
  LET moved   == p.selected # page.selected
      effect  == moved \/ Shown(p) # Shown(page)
      others  == {t \in Tasks : ts[t].step # "free" /\ ts[t].base \notin {NoBase, p.selected}}
      q       == [p EXCEPT !.crossed = @ \/ (moved /\ others # {})]
  IN  IF ~effect THEN page' = q /\ tasks' = ts
      ELSE /\ page' = Reset(q)
           /\ IF q.selected = NoBase THEN tasks' = ts
              ELSE /\ FreeIn(ts) # {}
                   /\ LET u == CHOOSE t \in FreeIn(ts) : \A v \in FreeIn(ts) : t <= v
                      IN tasks' = [ts EXCEPT ![u] = LoadOf(q.selected)]

\* A handler sends its first request; the page is p.
Send(t, p, op, b, d, n) ==
  /\ tasks[t].step = "free" /\ page.clicks < MaxClicks
  /\ page' = [p EXCEPT !.clicks = @ + 1, !.busy = IF op \in Flagged \cup {"list", "docs"} THEN @ \cup {op} ELSE @,
                       !.stale = @ \/ Waiting # {}]
  /\ tasks' = [tasks EXCEPT ![t] = [Free EXCEPT !.op = op, !.request = op, !.step = "sent", !.base = b,
                                                !.doc = d, !.name = n]]
  /\ UNCHANGED library

-----------------------------------------------------------------------------
(* The handlers.                                                           *)

CreateKnowledgeBase(t) == "create" \notin page.busy /\ Send(t, page, "create", NoBase, 0, 0)

SelectBase(b) ==
  /\ \E r \in page.listed : r.base = b
  /\ page.clicks < MaxClicks
  /\ Settle([page EXCEPT !.selected = b, !.clicks = @ + 1], tasks)
  /\ UNCHANGED library

\* What the workspace offers for the base that is selected and listed.
Selected == RowOf(page.listed, page.selected)

SaveKnowledgeBase(t) ==
  /\ Shown(page) /\ "save" \notin page.busy
  /\ \E n \in Names : Send(t, page, "save", page.edit, 0, n)

ArchiveKnowledgeBase(t) ==
  /\ Shown(page) /\ "save" \notin page.busy
  /\ Selected.status = "active"
  /\ Send(t, page, "archive", page.selected, 0, 0)

DeleteKnowledgeBase(t) ==
  /\ Shown(page) /\ "save" \notin page.busy
  /\ Send(t, page, "delete", page.selected, 0, 0)

UploadFile(t) ==
  /\ Shown(page) /\ "upload" \notin page.busy
  /\ Selected.status = "active"
  /\ Send(t, page, "upload", page.selected, 0, 0)

SearchKnowledge(t) ==
  /\ Shown(page) /\ "search" \notin page.busy
  /\ Selected.status = "active"
  /\ Send(t, [page EXCEPT !.results = NoBase], "search", page.selected, 0, 0)

RefreshIndex(t) ==
  /\ Shown(page) /\ "reembed" \notin page.busy
  /\ Selected.status = "active"
  /\ Send(t, page, "reembed", page.selected, 0, 0)

RefreshBases(t) == "list" \notin page.busy /\ Send(t, page, "list", NoBase, 0, 0)

RefreshDocuments(t) ==
  /\ Shown(page) /\ "docs" \notin page.busy
  /\ Send(t, page, "docs", page.selected, 0, 0)

\* Of one document at a time; the request names the base that is selected, whatever base the
\* document is of.
RenameDocument(t) ==
  /\ Shown(page) /\ "renameDoc" \notin page.busy
  /\ \E d \in page.docs, n \in Names : n # d.title /\ Send(t, page, "renameDoc", page.selected, d.doc, n)

DeleteDocument(t) ==
  /\ Shown(page)
  /\ \E d \in page.docs :
       /\ \A u \in Waiting : tasks[u].op = "renameDoc" => tasks[u].doc # d.doc
       /\ Send(t, page, "deleteDoc", page.selected, d.doc, 0)

-----------------------------------------------------------------------------
(* The server.                                                             *)

HasBase(b) == \E r \in library.rows : r.base = b

HasDoc(b, d) == \E x \in library.docs : x.base = b /\ x.doc = d

Changed(task, row) == IF task.request = "archive" THEN [row EXCEPT !.status = "archived"] ELSE [row EXCEPT !.name = task.name]

\* The library after the request, if it is granted.
Granted(task) ==
  LET b == task.base IN
  CASE task.request = "create" ->
         {[library EXCEPT !.rows = @ \cup {[base |-> library.bases + 1, status |-> "active", name |-> 0]},
                          !.bases = @ + 1]}
    [] task.request \in {"save", "archive"} /\ HasBase(b) ->
         {[library EXCEPT !.rows = {IF r.base = b THEN Changed(task, r) ELSE r : r \in @}]}
    [] task.request = "delete" /\ HasBase(b) ->
         {[library EXCEPT !.rows = {r \in @ : r.base # b}, !.docs = {d \in @ : d.base # b}]}
    [] task.request = "upload" /\ HasBase(b) /\ RowOf(library.rows, b).status = "active" ->
         {[library EXCEPT !.docs = @ \cup {[doc |-> library.made + 1, base |-> b, title |-> 0]}, !.made = @ + 1]}
    [] task.request = "renameDoc" /\ HasDoc(b, task.doc) ->
         {[library EXCEPT !.docs = {IF d.doc = task.doc THEN [d EXCEPT !.title = task.name] ELSE d : d \in @}]}
    [] task.request = "deleteDoc" /\ HasDoc(b, task.doc) ->
         {[library EXCEPT !.docs = {d \in @ : d.doc # task.doc}]}
    [] task.request \in {"search", "reembed"} /\ HasBase(b) /\ RowOf(library.rows, b).status = "active" -> {library}
    [] task.request = "list" -> {library}
    [] task.request = "docs" /\ HasBase(b) -> {library}
    [] OTHER -> {}

InBounds(task) ==
  (task.request = "create" => library.bases < MaxBases) /\ (task.request = "upload" => library.made < MaxDocs)

\* The answer carries what the page will use of it.
Serve(t) ==
  /\ tasks[t].step = "sent"
  /\ InBounds(tasks[t])
  /\ library' \in Granted(tasks[t])
  /\ tasks' = [tasks EXCEPT ![t].step = "ok",
                            ![t].base = IF tasks[t].request = "create" THEN library'.bases ELSE @,
                            ![t].rows = CASE tasks[t].request = "list" -> library'.rows
                                          [] tasks[t].request \in {"save", "archive"} ->
                                               {r \in library'.rows : r.base = tasks[t].base}
                                          [] OTHER -> {},
                            ![t].docs = IF tasks[t].request = "docs"
                                        THEN {d \in library'.docs : d.base = tasks[t].base} ELSE {}]
  /\ UNCHANGED page

\* It is refused, or it or its answer is lost.
Refuse(t) ==
  /\ tasks[t].step = "sent"
  /\ tasks' = [tasks EXCEPT ![t].step = "failed"]
  /\ library' \in {library} \cup IF InBounds(tasks[t]) THEN Granted(tasks[t]) ELSE {}
  /\ UNCHANGED page

-----------------------------------------------------------------------------
(* The answers.                                                            *)

\* The lists that a handler loads after its own request.
Loads(op) ==
  CASE op = "upload" -> <<"docs", "list">>
    [] op = "renameDoc" -> <<"docs">>
    [] op \in {"create", "deleteDoc"} -> <<"list">>
    [] OTHER -> <<>>

After(task) ==
  LET loads == Loads(task.op)
      here  == {i \in DOMAIN loads : loads[i] = task.request}
      next  == IF here = {} THEN 1 ELSE (CHOOSE i \in here : TRUE) + 1
  IN  IF next > Len(loads) THEN "none" ELSE loads[next]

\* The handler loads the list that comes next, or returns.
GoOn(t, p) ==
  LET task == tasks[t]
      next == After(task)
      done == IF next = "none" THEN {task.op, task.request} ELSE {task.request} \cap {"list", "docs"}
      q    == [p EXCEPT !.busy = (@ \ done) \cup ({next} \ {"none"})]
  IN  Settle(q, [tasks EXCEPT ![t] = IF next = "none" THEN Free
                                     ELSE [task EXCEPT !.request = next, !.step = "sent", !.rows = {}, !.docs = {}]])

Newest(rows) == IF rows = {} THEN NoBase ELSE (CHOOSE r \in rows : \A s \in rows : s.base <= r.base).base

Merged(p, rows) == [p EXCEPT !.listed = {IF \E s \in rows : s.base = r.base THEN RowOf(rows, r.base) ELSE r : r \in @}]

\* Mutant of Applied: a base that is deleted stays selected.
AppliedKeepingSelection(p, task) ==
  CASE task.request = "delete" -> [p EXCEPT !.listed = {r \in @ : r.base # task.base}]
    [] task.request = "list"   -> [p EXCEPT !.listed = task.rows, !.selected = IF @ = NoBase THEN Newest(task.rows) ELSE @]
    [] task.request = "docs"   -> [p EXCEPT !.docs = task.docs]
    [] task.request = "create" -> [p EXCEPT !.selected = task.base]
    [] OTHER -> p

\* The handler of a deletion was started where its base was selected: it clears the selection,
\* whatever is selected by now.
Applied(p, task) ==
  CASE task.request = "list"   -> [p EXCEPT !.listed = task.rows, !.selected = IF @ = NoBase THEN Newest(task.rows) ELSE @]
    [] task.request = "docs"   -> [p EXCEPT !.docs = task.docs]
    [] task.request = "create" -> [p EXCEPT !.selected = task.base]
    [] task.request = "save"   -> [Merged(p, task.rows) EXCEPT !.edit = task.base]
    [] task.request = "archive" -> Merged(p, task.rows)
    [] task.request = "search" -> [p EXCEPT !.results = task.base]
    [] task.request = "delete" ->
         [p EXCEPT !.listed = {r \in @ : r.base # task.base}, !.selected = NoBase, !.docs = {}, !.results = NoBase]
    [] task.request = "deleteDoc" -> [p EXCEPT !.docs = {d \in @ : d.doc # task.doc}]
    [] OTHER -> p

Answered(t) ==
  /\ tasks[t].step = "ok"
  /\ GoOn(t, Applied(page, tasks[t]))
  /\ UNCHANGED library

\* An error ends a handler, but not when it is one of a list that it loads.
Failed(t) ==
  LET p == [page EXCEPT !.stale = TRUE] IN
  /\ tasks[t].step = "failed"
  /\ IF tasks[t].request \in {"list", "docs"} THEN GoOn(t, p)
     ELSE /\ page' = [p EXCEPT !.busy = @ \ {tasks[t].op}]
          /\ tasks' = [tasks EXCEPT ![t] = Free]
  /\ UNCHANGED library

-----------------------------------------------------------------------------
KnowledgeNext ==
  \/ \E t \in Tasks :
       \/ CreateKnowledgeBase(t) \/ SaveKnowledgeBase(t) \/ ArchiveKnowledgeBase(t) \/ DeleteKnowledgeBase(t)
       \/ UploadFile(t) \/ SearchKnowledge(t) \/ RefreshIndex(t) \/ RefreshBases(t)
       \/ RefreshDocuments(t) \/ RenameDocument(t) \/ DeleteDocument(t)
       \/ Serve(t) \/ Refuse(t) \/ Answered(t) \/ Failed(t)
  \/ \E b \in Bases : SelectBase(b)

KnowledgeSpec == KnowledgeInit /\ [][KnowledgeNext]_knowledgeVars

-----------------------------------------------------------------------------
(* Properties.                                                             *)

\* Unless another base was selected over a request for one, the form and the results are those
\* of the selected base, and so are the documents once they are loaded; and if the operations
\* came one after the other and none failed, all that is shown is what the server has
\* (knowledge-manager.tsx:121-170, and every handler after them).
KnowledgePageIsCurrent ==
  ~page.crossed =>
    /\ page.edit \in {NoBase, page.selected}
    /\ page.results \in {NoBase, page.selected}
    /\ Waiting = {} /\ ~page.stale =>
         /\ page.listed = library.rows
         /\ page.docs = {d \in library.docs : d.base = page.selected}
         /\ page.selected = NoBase => page.edit = NoBase

\* A button is disabled only while a handler that will enable it is at work.
DisabledIsWork ==
  \A op \in page.busy : \E t \in Waiting : tasks[t].op = op \/ tasks[t].request = op
=============================================================================
