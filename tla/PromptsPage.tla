---------------------------- MODULE PromptsPage ----------------------------
(***************************************************************************)
(* The prompt library in one tab.  The list is loaded with the page and    *)
(* patched by the answers of the requests that change it; nothing orders   *)
(* those answers.  The stars are kept in the browser.                      *)
(***************************************************************************)
EXTENDS Naturals, Sequences, FiniteSets, Ordering

CONSTANTS MaxPrompts, \* in the order of their creation
          MaxTexts,
          MaxSends,   \* requests under way at once
          MaxSteps    \* what the user does before and while they are answered

VARIABLES stored, \* the prompts on the server, and the stars in the browser
          shelf,  \* the state of the component
          sends   \* the handlers that wait for an answer

promptVars == <<stored, shelf, sends>>

-----------------------------------------------------------------------------
PromptIds == 1..MaxPrompts

NoPrompt == 0

Texts == 1..MaxTexts

Item == [id : PromptIds, text : Texts]

Sends == 1..MaxSends

\* editing: the prompt in the dialog, when it is open for one; of the two ids, pending is the
\* prompt that asks for confirmation.
\* History: stale, two requests were under way at once or one failed; lost, that was so, or an
\* answer was awaited, when the tab was opened again.
Shelf == [listed : Seq(Item), dialog : {"closed", "create", "edit"}, editing : 0..MaxPrompts, saving : BOOLEAN,
          pending : 0..MaxPrompts, deleting : 0..MaxPrompts, browsing : BOOLEAN, adding : BOOLEAN,
          stars : SUBSET PromptIds, stale : BOOLEAN, lost : BOOLEAN, steps : 0..MaxSteps]

Send == [op : {"list", "save", "template", "delete"}, step : {"free", "sent", "ok", "failed"},
         id : 0..MaxPrompts, text : 0..MaxTexts, items : SUBSET Item]

Free == [op |-> "list", step |-> "free", id |-> NoPrompt, text |-> 0, items |-> {}]

Listing == [k \in Sends |-> IF k = 1 THEN [Free EXCEPT !.step = "sent"] ELSE Free]

PromptsTypeOK ==
  /\ stored \in [prompts : SUBSET Item, made : 0..MaxPrompts, stars : SUBSET PromptIds]
  /\ shelf \in Shelf /\ Len(shelf.listed) <= 2 * MaxPrompts
  /\ sends \in [Sends -> Send]

Opened(stars) ==
  [listed |-> <<>>, dialog |-> "closed", editing |-> NoPrompt, saving |-> FALSE, pending |-> NoPrompt,
   deleting |-> NoPrompt, browsing |-> FALSE, adding |-> FALSE, stars |-> stars, stale |-> FALSE, lost |-> FALSE,
   steps |-> 0]

PromptsInit ==
  \E n \in 0..MaxPrompts, stars \in SUBSET PromptIds :
    /\ stars \subseteq 1..n
    /\ stored = [prompts |-> [id : 1..n, text : {1}], made |-> n, stars |-> stars]
    /\ shelf = Opened(stars)
    /\ sends = Listing

-----------------------------------------------------------------------------
Waiting == {k \in Sends : sends[k].step # "free"}

Listed(p) == \E i \in DOMAIN shelf.listed : shelf.listed[i].id = p

Steps == shelf.steps < MaxSteps

\* The user does what makes the component s.
Do(s) == Steps /\ shelf' = [s EXCEPT !.steps = @ + 1]

\* A handler sends its request.
Start(k, op, p, text, s) ==
  /\ sends[k].step = "free"
  /\ Do([s EXCEPT !.stale = @ \/ Waiting # {}])
  /\ sends' = [sends EXCEPT ![k] = [Free EXCEPT !.op = op, !.step = "sent", !.id = p, !.text = text]]
  /\ UNCHANGED stored

\* onRetry.
LoadPrompts(k) == Start(k, "list", NoPrompt, 0, shelf)

OpenCreate ==
  /\ shelf.dialog = "closed"
  /\ Do([shelf EXCEPT !.dialog = "create"])
  /\ UNCHANGED <<stored, sends>>

OpenEdit(p) ==
  /\ shelf.dialog = "closed" /\ Listed(p)
  /\ Do([shelf EXCEPT !.dialog = "edit", !.editing = p])
  /\ UNCHANGED <<stored, sends>>

Closed(s) == [s EXCEPT !.dialog = "closed", !.editing = NoPrompt]

CloseDialog ==
  /\ shelf.dialog # "closed"
  /\ Do(Closed(shelf))
  /\ UNCHANGED <<stored, sends>>

\* What is typed, and then submitted.
SavePrompt(k) ==
  /\ shelf.dialog # "closed" /\ ~shelf.saving
  /\ \E text \in Texts : Start(k, "save", shelf.editing, text, [shelf EXCEPT !.saving = TRUE])

BrowseTemplates ==
  /\ shelf.dialog = "closed"
  /\ Do([shelf EXCEPT !.browsing = ~@])
  /\ UNCHANGED <<stored, sends>>

\* Only the button of the template that is being added is disabled; one template is modelled.
CreateFromTemplate(k) ==
  /\ shelf.browsing /\ ~shelf.adding
  /\ Start(k, "template", NoPrompt, 1, [shelf EXCEPT !.adding = TRUE])

RequestDelete(p) ==
  /\ shelf.dialog = "closed" /\ ~shelf.browsing
  /\ Listed(p) /\ p # shelf.pending /\ p # shelf.deleting
  /\ Do([shelf EXCEPT !.pending = p])
  /\ UNCHANGED <<stored, sends>>

\* By its button, by the search, by the filter or by the order.
CancelDelete ==
  /\ shelf.pending # NoPrompt
  /\ Do([shelf EXCEPT !.pending = NoPrompt])
  /\ UNCHANGED <<stored, sends>>

ConfirmDelete(k) ==
  LET p == shelf.pending IN
  /\ shelf.dialog = "closed" /\ ~shelf.browsing
  /\ Listed(p) /\ shelf.deleting # p
  /\ Start(k, "delete", p, 0, [shelf EXCEPT !.deleting = p])

\* The favorites are written whenever they change.
ToggleFavorite(p) ==
  LET stars == IF p \in shelf.stars THEN shelf.stars \ {p} ELSE shelf.stars \cup {p} IN
  /\ Listed(p)
  /\ Do([shelf EXCEPT !.stars = stars])
  /\ stored' = [stored EXCEPT !.stars = stars]
  /\ UNCHANGED sends

-----------------------------------------------------------------------------
(* The server.                                                             *)

Live(p) == \E i \in stored.prompts : i.id = p

Without(items, p) == {i \in items : i.id # p}

\* The states of the server after the request of a call, if it is granted.
Granted(call) ==
  LET made == stored.made + 1
      put(items, p) == [stored EXCEPT !.prompts = items \cup {[id |-> p, text |-> call.text]}]
  IN  CASE call.op = "list" -> {stored}
        [] call.op \in {"save", "template"} /\ call.id = NoPrompt /\ made <= MaxPrompts ->
             {[put(stored.prompts, made) EXCEPT !.made = made]}
        [] call.op = "save" /\ call.id # NoPrompt /\ Live(call.id) -> {put(Without(stored.prompts, call.id), call.id)}
        [] call.op = "delete" /\ Live(call.id) -> {[stored EXCEPT !.prompts = Without(@, call.id)]}
        [] OTHER -> {}

\* The tab is opened again: the favorites are read from the browser, the answers are lost,
\* and of the requests that were on their way one may be served before the list.
OpenPage ==
  /\ Steps
  /\ shelf' = [Opened(stored.stars) EXCEPT !.steps = shelf.steps + 1, !.stale = Waiting # {},
                                           !.lost = shelf.lost \/ shelf.stale \/ Waiting # {}]
  /\ stored' \in {stored} \cup UNION {Granted(sends[k]) : k \in {k \in Sends : sends[k].step = "sent"}}
  /\ sends' = Listing

\* The answer to a save bears the prompt.
Serve(k) ==
  LET call == sends[k] IN
  /\ call.step = "sent"
  /\ stored' \in Granted(call)
  /\ sends' = [sends EXCEPT ![k].step = "ok",
                            ![k].items = CASE call.op = "list" -> stored.prompts
                                           [] call.op = "delete" -> {}
                                           [] OTHER -> IF call.id # NoPrompt THEN {i \in stored'.prompts : i.id = call.id}
                                                       ELSE stored'.prompts \ stored.prompts]
  /\ UNCHANGED shelf

\* It is refused, or it or its answer is lost.
Refuse(k) ==
  /\ sends[k].step = "sent"
  /\ stored' \in {stored} \cup Granted(sends[k])
  /\ sends' = [sends EXCEPT ![k].step = "failed"]
  /\ UNCHANGED shelf

-----------------------------------------------------------------------------
(* The answers.                                                            *)

Only(items) == CHOOSE i \in items : TRUE

\* The newest prompt comes first.
NewestFirst(items) == InOrder(items, [i \in items |-> MaxPrompts - i.id])

\* Mutant of Changed: the answer to an edit is put in front.
ChangedInFront(listed, call) == <<Only(call.items)>> \o listed

\* A new prompt goes in front, an edited one takes the place of the one it was.
Changed(listed, call) ==
  IF call.id = NoPrompt THEN <<Only(call.items)>> \o listed
  ELSE [i \in DOMAIN listed |-> IF listed[i].id = call.id THEN Only(call.items) ELSE listed[i]]

\* The state after the answer, before what every answer does.
Applied(call) ==
  CASE call.op = "list" -> [shelf EXCEPT !.listed = NewestFirst(call.items)]
    [] call.op = "save" -> Closed([shelf EXCEPT !.listed = Changed(@, call)])
    [] call.op = "template" -> [shelf EXCEPT !.listed = Changed(@, call), !.browsing = FALSE]
    [] call.op = "delete" -> [shelf EXCEPT !.listed = Picked(@, {i \in DOMAIN @ : @[i].id # call.id}), !.stars = @ \ {call.id}]

\* finally: whichever prompt is asked for now.
Finally(call, s) ==
  CASE call.op = "list" -> s
    [] call.op = "save" -> [s EXCEPT !.saving = FALSE]
    [] call.op = "template" -> [s EXCEPT !.adding = FALSE]
    [] call.op = "delete" -> [s EXCEPT !.deleting = NoPrompt, !.pending = NoPrompt]

Answered(k) ==
  /\ sends[k].step = "ok"
  /\ shelf' = Finally(sends[k], Applied(sends[k]))
  /\ stored' = [stored EXCEPT !.stars = shelf'.stars]
  /\ sends' = [sends EXCEPT ![k] = Free]

Failed(k) ==
  /\ sends[k].step = "failed"
  /\ shelf' = Finally(sends[k], [shelf EXCEPT !.stale = TRUE])
  /\ sends' = [sends EXCEPT ![k] = Free]
  /\ UNCHANGED stored

-----------------------------------------------------------------------------
PromptsNext ==
  \/ \E k \in Sends :
       \/ LoadPrompts(k) \/ SavePrompt(k) \/ CreateFromTemplate(k) \/ ConfirmDelete(k)
       \/ Serve(k) \/ Refuse(k) \/ Answered(k) \/ Failed(k)
  \/ \E p \in PromptIds : OpenEdit(p) \/ RequestDelete(p) \/ ToggleFavorite(p)
  \/ OpenPage \/ OpenCreate \/ CloseDialog \/ BrowseTemplates \/ CancelDelete

PromptsSpec == PromptsInit /\ [][PromptsNext]_promptVars

-----------------------------------------------------------------------------
(* Properties.                                                             *)

\* When requests came one after the other and none failed, the list has every prompt once, as
\* the server has it; with two under way a list that was read before a prompt was made can drop
\* it, and one read after show it twice.  A star is of a prompt that is there, unless the page
\* was opened again without the answer to a deletion: nothing takes that star away
\* (PromptsClient.tsx:184-222, 307-319, 341-353).
LibraryIsCurrent ==
  Waiting = {} /\ ~shelf.stale =>
    /\ {shelf.listed[i] : i \in DOMAIN shelf.listed} = stored.prompts
    /\ Len(shelf.listed) = Cardinality(stored.prompts)
    /\ ~shelf.lost => \A p \in shelf.stars : Live(p)

\* Whatever the dialog shows by now, its button is disabled just while a save is under way:
\* a prompt is not made twice by one form (PromptsClient.tsx:292-331, 614).
SavingIsWork == shelf.saving <=> \E k \in Waiting : sends[k].op = "save"
=============================================================================
