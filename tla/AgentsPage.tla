----------------------------- MODULE AgentsPage -----------------------------
(***************************************************************************)
(* The editor of the agents page and its monitor of runs, in one tab.      *)
(* Drafts are loaded and saved, runs are started, polled, opened and       *)
(* cancelled by handlers that await several requests each and share one    *)
(* set of state variables.  Two refs hold what is current: the request for *)
(* a draft that may still be shown, and the run that is selected.          *)
(***************************************************************************)
EXTENDS Naturals, FiniteSets, TLC

CONSTANTS Agents, Tasks, MaxRuns,
          NoAgent, NoTask

VARIABLES editor,   \* the state of the page
          tasks,    \* the handlers that are waiting for an answer
          runs      \* the runs on the server

editorVars == <<editor, tasks, runs>>

-----------------------------------------------------------------------------
Runs == 1..MaxRuns

NoRun == 0

\* draft: the agent whose draft is shown; busy: isBusy; polling: the handler whose token is
\* pollAbortRef; selected: runSelectionRef; detail: the run whose steps are shown.
\* History: abandoned, a load of a draft was given up; crossed, the editor was closed
\* while a handler other than a load of a draft was waiting; lost, a request failed,
\* or a run was selected over the steps of another.
Editor == [open : BOOLEAN, agent : Agents \cup {NoAgent}, draft : Agents \cup {NoAgent},
           busy : BOOLEAN, loading : Tasks \cup {NoTask}, polling : Tasks \cup {NoTask},
           selected : Runs \cup {NoRun}, run : Runs \cup {NoRun}, detail : Runs \cup {NoRun},
           listed : Agents \cup {NoAgent},
           abandoned : BOOLEAN, crossed : BOOLEAN, lost : BOOLEAN]

\* The request each handler waits for.  apply: shouldApply; cancelled: its token; then: what
\* follows the request.
Task == [step : {"free", "draft", "save", "post", "poll", "sleep", "detail", "list", "cancel"},
         agent : Agents \cup {NoAgent}, run : Runs \cup {NoRun}, apply : BOOLEAN, cancelled : BOOLEAN,
         then : {"none", "detail", "list", "latest", "poll"}, holds : BOOLEAN]

Free == [step |-> "free", agent |-> NoAgent, run |-> NoRun, apply |-> FALSE, cancelled |-> FALSE,
         then |-> "none", holds |-> FALSE]

EditorTypeOK ==
  /\ editor \in Editor
  /\ tasks \in [Tasks -> Task]
  /\ runs \in [Runs -> [agent : Agents \cup {NoAgent}, over : BOOLEAN]]

EditorInit ==
  /\ editor = [open |-> FALSE, agent |-> NoAgent, draft |-> NoAgent, busy |-> FALSE,
               loading |-> NoTask, polling |-> NoTask, selected |-> NoRun, run |-> NoRun,
               detail |-> NoRun, listed |-> NoAgent, abandoned |-> FALSE, crossed |-> FALSE, lost |-> FALSE]
  /\ tasks = [t \in Tasks |-> Free]
  /\ runs = [r \in Runs |-> [agent |-> NoAgent, over |-> FALSE]]

-----------------------------------------------------------------------------
Waiting == {t \in Tasks : tasks[t].step # "free"}

RunsOf(a) == {r \in Runs : runs[r].agent = a}

Latest(a) == {r \in RunsOf(a) : \A q \in RunsOf(a) : q <= r}

\* Handler t begins to wait with the record given; the page is e.
Begin(t, e, task) ==
  /\ tasks[t].step = "free"
  /\ editor' = e
  /\ tasks' = [tasks EXCEPT ![t] = task]
  /\ UNCHANGED runs

\* t is the current holder of a ref: its token is cancelled.
CancelToken(ts, t) == [u \in Tasks |-> IF u = t /\ ts[u].step # "free" THEN [ts[u] EXCEPT !.cancelled = TRUE] ELSE ts[u]]

\* The handler returns: its finally clears the flag it holds, whoever else is at work.
\* Every task that is free is nobody's current one.
Return(t, e, ts) ==
  /\ editor' = [e EXCEPT !.busy = @ /\ ~tasks[t].holds,
                         !.loading = IF @ = t THEN NoTask ELSE @,
                         !.polling = IF @ = t THEN NoTask ELSE @]
  /\ tasks' = [ts EXCEPT ![t] = Free]
  /\ UNCHANGED runs

\* Handler t goes on to wait for something else.
GoOn(t, e, task) ==
  /\ editor' = e
  /\ tasks' = [tasks EXCEPT ![t] = task]
  /\ UNCHANGED runs

-----------------------------------------------------------------------------
(* The draft.                                                              *)

\* openEditor and loadDraft; the page behind the editor is not reachable while it is open.
OpenEditor(t, a) ==
  /\ ~editor.open
  /\ tasks[t].step = "free"
  /\ editor' = [editor EXCEPT !.open = TRUE, !.agent = a, !.loading = t, !.busy = TRUE]
  /\ tasks' = [CancelToken(tasks, editor.loading) EXCEPT ![t] = [Free EXCEPT !.step = "draft", !.agent = a]]
  /\ UNCHANGED runs

\* Both tokens are cancelled; the requests go on.  The run shown stays in the state.
CloseEditor ==
  /\ editor.open
  /\ editor' = [editor EXCEPT !.open = FALSE, !.draft = NoAgent, !.listed = NoAgent,
                              !.abandoned = @ \/ editor.loading # NoTask, !.crossed = @ \/ \E t \in Waiting : tasks[t].step # "draft"]
  /\ tasks' = CancelToken(CancelToken(tasks, editor.polling), editor.loading)
  /\ UNCHANGED runs

\* Mutant of DraftLoaded: a load that was given up is shown all the same.
DraftLoadedLate(t) ==
  LET a == tasks[t].agent IN
  /\ tasks[t].step = "draft"
  /\ IF ~editor.open THEN Return(t, editor, tasks)
     ELSE GoOn(t, [editor EXCEPT !.draft = a, !.selected = NoRun, !.run = NoRun, !.detail = NoRun, !.listed = NoAgent,
                                 !.loading = NoTask, !.busy = FALSE],
               [Free EXCEPT !.step = "list", !.agent = a, !.then = "latest"])

\* The monitor is cleared and the history is asked for, which nothing cancels.
DraftLoaded(t) ==
  LET a == tasks[t].agent IN
  /\ tasks[t].step = "draft"
  /\ \/ (tasks[t].cancelled \/ ~editor.open) /\ Return(t, [editor EXCEPT !.busy = @ /\ tasks[t].cancelled], tasks)
     \/ /\ ~tasks[t].cancelled /\ editor.open
        /\ GoOn(t, [editor EXCEPT !.draft = a, !.selected = NoRun, !.run = NoRun, !.detail = NoRun, !.listed = NoAgent,
                                  !.loading = NoTask, !.busy = FALSE],
                [Free EXCEPT !.step = "list", !.agent = a, !.then = "latest"])
     \/ /\ ~tasks[t].cancelled /\ editor.open
        /\ Return(t, [editor EXCEPT !.draft = NoAgent, !.listed = NoAgent, !.busy = FALSE], tasks)

\* Save and Publish are handlers of one request each, with the button that busy disables.
SaveOrPublish(t) ==
  /\ editor.open /\ editor.draft # NoAgent /\ ~editor.busy
  /\ Begin(t, [editor EXCEPT !.busy = TRUE], [Free EXCEPT !.step = "save", !.agent = editor.draft, !.holds = TRUE])

\* The answer puts the draft as it was when the request left, with the new revision.
DraftSaved(t) ==
  /\ tasks[t].step = "save"
  /\ \/ Return(t, [editor EXCEPT !.draft = tasks[t].agent], tasks)
     \/ Return(t, editor, tasks)

-----------------------------------------------------------------------------
(* The monitor.                                                            *)

\* loadRunHistory: an agent without runs clears the monitor; after a load of the draft the
\* latest run is selected and fetched.
Listed(t) ==
  LET a == tasks[t].agent
      e == [editor EXCEPT !.listed = a]
  IN  /\ tasks[t].step = "list"
      /\ \/ RunsOf(a) = {} /\ Return(t, [e EXCEPT !.selected = NoRun, !.run = NoRun, !.detail = NoRun], tasks)
         \/ /\ tasks[t].then = "latest"
            /\ \E r \in Latest(a) :
                 GoOn(t, [e EXCEPT !.selected = r, !.run = r, !.lost = @ \/ editor.detail # NoRun],
                      [Free EXCEPT !.step = "detail", !.agent = a, !.run = r, !.apply = TRUE])
         \/ RunsOf(a) # {} /\ tasks[t].then # "latest" /\ Return(t, e, tasks)
         \/ Return(t, editor, tasks)

RefreshHistory(t) ==
  /\ editor.open /\ editor.draft # NoAgent
  /\ \A u \in Tasks : tasks[u].step # "list"
  /\ Begin(t, editor, [Free EXCEPT !.step = "list", !.agent = editor.draft])

\* openRun, for a run of the list.
OpenRun(t, r) ==
  /\ editor.open /\ editor.draft # NoAgent
  /\ runs[r].agent = editor.listed /\ runs[r].agent # NoAgent
  /\ Begin(t, [editor EXCEPT !.selected = r, !.run = r, !.detail = NoRun],
           [Free EXCEPT !.step = "detail", !.agent = editor.draft, !.run = r, !.apply = TRUE])

\* fetchRun applies what comes if it was to be applied when the request left.
Applied(t) ==
  IF tasks[t].apply
  THEN [editor EXCEPT !.selected = tasks[t].run, !.run = tasks[t].run, !.detail = tasks[t].run]
  ELSE editor

\* A fetch that is not part of a poll, and the list that may follow it.
DetailFetched(t) ==
  /\ tasks[t].step = "detail"
  /\ \E fails \in BOOLEAN :
       LET e == IF fails THEN [editor EXCEPT !.lost = TRUE] ELSE Applied(t) IN
       IF tasks[t].then = "list"
       THEN GoOn(t, e, [tasks[t] EXCEPT !.step = "list", !.then = "none", !.apply = FALSE])
       ELSE Return(t, e, tasks)

Unused == {r \in Runs : runs[r].agent = NoAgent}

\* runAgent: the monitor is cleared and the token of the poll before is cancelled.
RunAgent(t, mode) ==
  /\ editor.open /\ editor.draft # NoAgent /\ ~editor.busy
  /\ Cardinality(Unused) > Cardinality({u \in Tasks : tasks[u].step = "post"})
  /\ tasks[t].step = "free"
  /\ editor' = [editor EXCEPT !.busy = TRUE, !.selected = NoRun, !.run = NoRun, !.detail = NoRun, !.polling = t]
  /\ tasks' = [CancelToken(tasks, editor.polling) EXCEPT
                 ![t] = [Free EXCEPT !.step = "post", !.agent = editor.draft, !.holds = TRUE,
                                     !.then = IF mode = "async" THEN "poll" ELSE "detail"]]
  /\ UNCHANGED runs

\* A fetch of the poll leaves: it is to be applied if its run is the selected one now.
Polling(e, task) == [task EXCEPT !.step = "poll", !.apply = e.selected = task.run]

\* The POST is answered: the run is selected, even in an editor that has changed since.  A
\* run that is over is fetched; another is polled, in the background if it is async.
RunStarted(t) ==
  /\ tasks[t].step = "post"
  /\ \E r \in Unused, over \in BOOLEAN :
       LET e    == [editor EXCEPT !.selected = r, !.run = r, !.lost = @ \/ editor.detail # NoRun]
           task == [tasks[t] EXCEPT !.run = r]
       IN  /\ \A q \in Unused : r <= q
           /\ over => tasks[t].then # "poll"
           /\ runs' = [runs EXCEPT ![r] = [agent |-> tasks[t].agent, over |-> over]]
           /\ IF over /\ (task.cancelled \/ ~editor.open)
              THEN /\ editor' = [e EXCEPT !.busy = FALSE, !.polling = IF @ = t THEN NoTask ELSE @]
                   /\ tasks' = [tasks EXCEPT ![t] = Free]
              ELSE IF over
              THEN /\ editor' = e
                   /\ tasks' = [tasks EXCEPT ![t] = [task EXCEPT !.step = "detail", !.apply = TRUE, !.then = "list"]]
              ELSE /\ editor' = [e EXCEPT !.busy = task.then # "poll"]
                   /\ tasks' = [tasks EXCEPT ![t] = [Polling(e, task) EXCEPT !.holds = task.then # "poll"]]

RunFails(t) ==
  /\ tasks[t].step = "post"
  /\ Return(t, [editor EXCEPT !.lost = TRUE], tasks)

\* The poll is over: of the selected run in the foreground the detail is fetched once more,
\* and the list is read.
PollEnds(t, e) ==
  IF tasks[t].cancelled \/ ~editor.open THEN Return(t, e, tasks)
  ELSE IF tasks[t].then = "detail"
  THEN GoOn(t, e, [tasks[t] EXCEPT !.step = "detail", !.apply = TRUE, !.then = "list"])
  ELSE GoOn(t, e, [tasks[t] EXCEPT !.step = "list", !.apply = FALSE, !.then = "none"])

\* Mutant of Polled: a poll shows its run whatever was to be applied.
PolledAlways(t) ==
  LET e == [editor EXCEPT !.selected = tasks[t].run, !.run = tasks[t].run] IN
  /\ tasks[t].step = "poll"
  /\ \/ runs[tasks[t].run].over /\ PollEnds(t, e)
     \/ ~runs[tasks[t].run].over /\ GoOn(t, e, [tasks[t] EXCEPT !.step = "sleep", !.apply = FALSE])

Polled(t) ==
  /\ tasks[t].step = "poll"
  /\ \/ runs[tasks[t].run].over /\ PollEnds(t, Applied(t))
     \/ ~runs[tasks[t].run].over /\ GoOn(t, Applied(t), [tasks[t] EXCEPT !.step = "sleep", !.apply = FALSE])

\* The first fetch of a poll is awaited outside its try: an error there ends the handler.
\* Later ones are repeated.
PollFails(t) ==
  /\ tasks[t].step = "poll"
  /\ \/ GoOn(t, [editor EXCEPT !.lost = TRUE], [tasks[t] EXCEPT !.step = "sleep", !.apply = FALSE])
     \/ Return(t, [editor EXCEPT !.lost = TRUE], tasks)

\* The interval, or the last attempt.
PollAgain(t) ==
  /\ tasks[t].step = "sleep"
  /\ \/ (tasks[t].cancelled \/ ~editor.open) /\ Return(t, editor, tasks)
     \/ ~tasks[t].cancelled /\ editor.open /\ GoOn(t, editor, Polling(editor, tasks[t]))
     \/ PollEnds(t, editor)

\* cancelRun; its button is disabled while it works.
CancelRun(t) ==
  /\ editor.open /\ editor.draft # NoAgent
  /\ editor.run # NoRun
  /\ \A u \in Tasks : tasks[u].step # "cancel" /\ tasks[u].then # "list"
  /\ Begin(t, editor, [Free EXCEPT !.step = "cancel", !.agent = editor.draft, !.run = editor.run, !.then = "list"])

\* The token of the poll is cancelled, and the run is fetched and shown.
RunCancelled(t) ==
  LET r == tasks[t].run IN
  /\ tasks[t].step = "cancel"
  /\ \/ /\ runs[r].agent = tasks[t].agent
        /\ runs' = [runs EXCEPT ![r].over = TRUE]
        /\ tasks' = [CancelToken(tasks, editor.polling) EXCEPT ![t].step = "detail", ![t].apply = TRUE]
        /\ UNCHANGED editor
     \/ Return(t, [editor EXCEPT !.lost = TRUE], tasks)

\* A run ends, or stops for an approval, which the page takes for an end too.
RunEnds(r) ==
  /\ runs[r].agent # NoAgent /\ ~runs[r].over
  /\ runs' = [runs EXCEPT ![r].over = TRUE]
  /\ UNCHANGED <<editor, tasks>>

-----------------------------------------------------------------------------
Click(t) ==
  \/ \E a \in Agents : OpenEditor(t, a)
  \/ SaveOrPublish(t) \/ RefreshHistory(t) \/ CancelRun(t)
  \/ \E r \in Runs : OpenRun(t, r)
  \/ \E mode \in {"sync", "async"} : RunAgent(t, mode)

Answered(t) ==
  \/ DraftLoaded(t) \/ DraftSaved(t) \/ Listed(t) \/ DetailFetched(t) \/ RunStarted(t) \/ RunFails(t)
  \/ Polled(t) \/ PollFails(t) \/ PollAgain(t) \/ RunCancelled(t)

EditorNext ==
  \/ \E t \in Tasks : Click(t) \/ Answered(t)
  \/ CloseEditor
  \/ \E r \in Runs : RunEnds(r)

EditorSpec == EditorInit /\ [][EditorNext]_editorVars

EditorSymmetry == Permutations(Agents) \cup Permutations(Tasks)

-----------------------------------------------------------------------------
(* Properties.                                                             *)

\* The buttons are disabled only while a handler that will enable them is waiting, unless
\* the editor was closed while its draft was loading (page.tsx:536-561, 576-579).
BusyIsWork ==
  editor.busy => \/ \E t \in Tasks : tasks[t].holds \/ (tasks[t].step = "draft" /\ ~tasks[t].cancelled)
                 \/ editor.abandoned

\* While the editor has not been closed over a waiting handler, but for a load of a draft, it
\* shows the draft of its agent, the list of its runs and one of them; and when no handler has
\* failed, the steps shown are those of that run (page.tsx:532-1046).
MonitorIsOfAgent ==
  editor.open /\ editor.draft # NoAgent /\ ~editor.crossed =>
    /\ editor.draft = editor.agent
    /\ editor.listed \in {NoAgent, editor.agent}
    /\ editor.run # NoRun => runs[editor.run].agent = editor.agent
    /\ ~editor.lost => editor.detail \in {NoRun, editor.run}

-----------------------------------------------------------------------------
(* What a comment of the repository says, and the code does not do.        *)

\* page.tsx:881-883: "Background polling must not yank the detail pane away from a run the
\* user has since selected."
PollKeepsSelection ==
  [][\A t \in Tasks :
       /\ tasks[t].step = "poll" /\ tasks'[t] # tasks[t]
       /\ editor.selected \notin {NoRun, tasks[t].run}
       => editor'.run = editor.run]_editorVars
=============================================================================
