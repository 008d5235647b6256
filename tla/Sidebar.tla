------------------------------ MODULE Sidebar ------------------------------
(***************************************************************************)
(* The list of conversations beside every page, and its share dialog.  The *)
(* list is loaded when the page is and after most changes; a search waits  *)
(* for the typing to pause and is given up when it goes on; a rename shows *)
(* its title at once and restores what was listed if the server refuses.   *)
(* There are fewer conversations than the eight that the list is cut to.   *)
(***************************************************************************)
EXTENDS Naturals, FiniteSets

CONSTANTS MaxChats,  \* conversations, in the order of their creation
          MaxTitles, \* titles, which are also the terms that find them
          MaxLinks,  \* share links made of one conversation
          MaxCalls,  \* requests under way at once
          MaxMoves   \* what the user does before and while they are answered

VARIABLES threads, \* the conversations on the server
          rail,    \* the state of the sidebar
          asked    \* the handlers that wait for a timer or for an answer

railVars == <<threads, rail, asked>>

-----------------------------------------------------------------------------
ChatIds == 1..MaxChats

Titles == 1..MaxTitles

None == 0

Calls == 1..MaxCalls

Item == [id : ChatIds, title : Titles]

\* minted: the links made so far, of which the last may be live.
Thread == [status : {"none", "live", "archived", "gone"}, title : Titles,
           minted : 0..MaxLinks, shared : BOOLEAN]

DialogOps == {"shares", "mint", "revoke"}

Ops == {"recent", "search", "rename", "archive", "delete"} \cup DialogOps

\* of: the term that the results were searched for.  fresh: the dialog has seen the links of its
\* conversation, and every change to them since.  late: it was opened while a request of an
\* earlier dialog was under way.
\* History: restored, a rename was taken back over results of a later term; stale, two requests
\* were under way at once or one failed.
Rail == [recent : SUBSET Item, results : SUBSET Item, term : Titles \cup {None}, of : Titles \cup {None},
         editing : 0..MaxChats, dialog : 0..MaxChats, links : SUBSET (1..MaxLinks), busy : BOOLEAN,
         fresh : BOOLEAN, late : BOOLEAN, restored : BOOLEAN, stale : BOOLEAN, moves : 0..MaxMoves]

\* wanted: the component still waits for it; word: a term, or a title; link: of a dialog;
\* recent, results, of: what a rename restores, and in items what a list has found.
Call == [op : Ops, step : {"free", "timer", "sent", "ok", "failed"}, wanted : BOOLEAN,
         chat : 0..MaxChats, word : Titles \cup {None}, link : 0..MaxLinks, items : SUBSET Item,
         recent : SUBSET Item, results : SUBSET Item, of : Titles \cup {None}]

Free == [op |-> "recent", step |-> "free", wanted |-> TRUE, chat |-> None, word |-> None, link |-> 0,
         items |-> {}, recent |-> {}, results |-> {}, of |-> None]

SidebarTypeOK ==
  /\ threads \in [ChatIds -> Thread]
  /\ rail \in Rail
  /\ asked \in [Calls -> Call]

\* The page is opened over some conversations, and loads them.
SidebarInit ==
  /\ \E n \in 0..MaxChats :
       threads = [c \in ChatIds |-> [status |-> IF c <= n THEN "live" ELSE "none", title |-> 1,
                                     minted |-> 0, shared |-> FALSE]]
  /\ rail = [recent |-> {}, results |-> {}, term |-> None, of |-> None, editing |-> None, dialog |-> None,
             links |-> {}, busy |-> FALSE, fresh |-> FALSE, late |-> FALSE, restored |-> FALSE, stale |-> FALSE,
             moves |-> 0]
  /\ asked = [k \in Calls |-> IF k = 1 THEN [Free EXCEPT !.step = "sent"] ELSE Free]

-----------------------------------------------------------------------------
Waiting == {k \in Calls : asked[k].step # "free"}

Listed == {[id |-> c, title |-> threads[c].title] : c \in {c \in ChatIds : threads[c].status = "live"}}

Found(term) == {i \in Listed : i.title = term}

Visible == IF rail.term = None THEN rail.recent ELSE rail.results

Moves == rail.moves < MaxMoves

Retitled(items, c, title) == {IF i.id = c THEN [i EXCEPT !.title = title] ELSE i : i \in items}

Without(items, c) == {i \in items : i.id # c}

\* A handler starts: its first request is in call, and the sidebar becomes r.
Start(k, call, r) ==
  /\ Moves /\ asked[k].step = "free"
  /\ asked' = [asked EXCEPT ![k] = call]
  /\ rail' = [r EXCEPT !.moves = @ + 1, !.stale = @ \/ Waiting # {}]

Sent(op, c) == [Free EXCEPT !.op = op, !.step = "sent", !.chat = c]

-----------------------------------------------------------------------------
(* The list.                                                               *)

\* The chat page has made a conversation, and says so.
ConversationsChanged(k) ==
  /\ \E c \in ChatIds :
       /\ threads[c].status = "none" /\ \A d \in 1..(c - 1) : threads[d].status # "none"
       /\ \E title \in Titles : threads' = [threads EXCEPT ![c].status = "live", ![c].title = title]
  /\ Start(k, Sent("recent", None), rail)

\* Another term: the search for the last one is given up.
GivenUp(calls) ==
  [k \in Calls |-> IF calls[k].op # "search" \/ calls[k].step = "free" THEN calls[k]
                   ELSE IF calls[k].step = "timer" THEN Free ELSE [calls[k] EXCEPT !.wanted = FALSE]]

Search(term) ==
  LET calls == GivenUp(asked)
      free  == {k \in Calls : calls[k].step = "free"}
      r     == [rail EXCEPT !.term = term, !.moves = @ + 1,
                            !.stale = @ \/ \E k \in Calls : calls[k].step # "free"]
  IN  /\ Moves /\ term # rail.term
      /\ IF term = None
         THEN rail' = [r EXCEPT !.results = {}, !.of = None, !.restored = FALSE] /\ asked' = calls
         ELSE /\ free # {}
              /\ LET k == CHOOSE k \in free : \A j \in free : k <= j
                 IN asked' = [calls EXCEPT ![k] = [Sent("search", None) EXCEPT !.step = "timer", !.word = term]]
              /\ rail' = r
      /\ UNCHANGED threads

Paused(k) ==
  /\ asked[k].step = "timer"
  /\ asked' = [asked EXCEPT ![k].step = "sent"]
  /\ UNCHANGED <<threads, rail>>

StartRename(c) ==
  /\ Moves /\ c # rail.editing /\ \E i \in Visible : i.id = c
  /\ rail' = [rail EXCEPT !.editing = c, !.moves = @ + 1]
  /\ UNCHANGED <<threads, asked>>

\* The title it has in the list of recent conversations, or among the results.
TitleShown(c) == (CHOOSE i \in (IF \E j \in rail.recent : j.id = c THEN rail.recent ELSE rail.results) : i.id = c).title

CommitRename(k) ==
  LET c == rail.editing IN
  /\ \E i \in Visible : i.id = c
  /\ \E title \in Titles \ {TitleShown(c)} :
       Start(k, [Sent("rename", c) EXCEPT !.word = title, !.recent = rail.recent, !.results = rail.results, !.of = rail.of],
             [rail EXCEPT !.editing = None, !.recent = Retitled(@, c, title), !.results = Retitled(@, c, title)])
  /\ UNCHANGED threads

ArchiveConversation(k) ==
  /\ \E i \in Visible : rail.editing # i.id /\ Start(k, Sent("archive", i.id), rail)
  /\ UNCHANGED threads

DeleteConversation(k) ==
  /\ \E i \in Visible : rail.editing # i.id /\ Start(k, Sent("delete", i.id), rail)
  /\ UNCHANGED threads

-----------------------------------------------------------------------------
(* The share dialog, which is modal.                                       *)

DialogBusy == \E k \in Waiting : asked[k].op \in DialogOps /\ asked[k].wanted

Loading == \E k \in Waiting : asked[k].op = "shares" /\ asked[k].wanted

OpenShareDialog(k) ==
  /\ rail.dialog = None
  /\ \E i \in Visible :
       Start(k, Sent("shares", i.id),
             [rail EXCEPT !.dialog = i.id, !.late = \E j \in Waiting : asked[j].op \in DialogOps])
  /\ UNCHANGED threads

CloseShareDialog ==
  /\ rail.dialog # None
  /\ rail' = [rail EXCEPT !.dialog = None, !.links = {}, !.busy = FALSE, !.fresh = FALSE, !.late = FALSE]
  /\ asked' = [k \in Calls |-> IF asked[k].op \in DialogOps THEN [asked[k] EXCEPT !.wanted = FALSE] ELSE asked[k]]
  /\ UNCHANGED threads

\* Offered when no link of the conversation is known.
CreateLink(k) ==
  /\ rail.dialog # None /\ ~Loading /\ rail.links = {} /\ ~rail.busy
  /\ Start(k, Sent("mint", rail.dialog), [rail EXCEPT !.busy = TRUE])
  /\ UNCHANGED threads

RevokeLink(k) ==
  /\ rail.dialog # None /\ ~Loading
  /\ \E l \in rail.links : Start(k, [Sent("revoke", rail.dialog) EXCEPT !.link = l], rail)
  /\ UNCHANGED threads

-----------------------------------------------------------------------------
(* The server.                                                             *)

Exists(c) == threads[c].status \in {"live", "archived"}

LiveLink(ts, c) == IF ts[c].shared THEN ts[c].minted ELSE 0

\* The states of the server after the request of a call, if it is granted.
Granted(call) ==
  LET c == call.chat IN
  CASE call.op \in {"recent", "search"} -> {threads}
    [] call.op = "rename" /\ Exists(c)  -> {[threads EXCEPT ![c].title = call.word]}
    [] call.op = "archive" /\ Exists(c) -> {[threads EXCEPT ![c].status = "archived"]}
    [] call.op = "delete" /\ Exists(c)  -> {[threads EXCEPT ![c].status = "gone", ![c].shared = FALSE]}
    [] call.op = "shares" /\ Exists(c)  -> {threads}
    [] call.op = "mint" /\ Exists(c) /\ threads[c].shared -> {threads}
    [] call.op = "mint" /\ Exists(c) /\ ~threads[c].shared /\ threads[c].minted < MaxLinks ->
         {[threads EXCEPT ![c].minted = @ + 1, ![c].shared = TRUE]}
    [] call.op = "revoke" /\ Exists(c) /\ LiveLink(threads, c) = call.link -> {[threads EXCEPT ![c].shared = FALSE]}
    [] OTHER -> {}

Serve(k) ==
  LET call == asked[k] IN
  /\ call.step = "sent"
  /\ threads' \in Granted(call)
  /\ asked' = [asked EXCEPT ![k].step = "ok",
                            ![k].items = CASE call.op = "recent" -> Listed
                                           [] call.op = "search" -> Found(call.word)
                                           [] OTHER -> {},
                            ![k].link = IF call.op \in {"shares", "mint"} THEN LiveLink(threads', call.chat) ELSE @]
  /\ UNCHANGED rail

\* It is refused, or it or its answer is lost.
Refuse(k) ==
  /\ asked[k].step = "sent"
  /\ threads' \in {threads} \cup Granted(asked[k])
  /\ asked' = [asked EXCEPT ![k].step = "failed"]
  /\ UNCHANGED rail

-----------------------------------------------------------------------------
(* The answers.                                                            *)

\* Mutant of Searched: the answer of a search that was given up counts.
SearchedLate(r, call, items) == [r EXCEPT !.results = items, !.of = call.word, !.restored = FALSE]

Searched(r, call, items) ==
  IF call.wanted THEN [r EXCEPT !.results = items, !.of = call.word, !.restored = FALSE] ELSE r

\* What the dialog shows once its request is answered; nothing, if it was closed.
InDialog(r, call) ==
  IF ~call.wanted THEN r
  ELSE CASE call.op = "shares" -> [r EXCEPT !.links = {call.link} \ {0}, !.fresh = TRUE]
         [] call.op = "mint"   -> [r EXCEPT !.links = @ \cup {call.link}, !.busy = FALSE, !.fresh = TRUE]
         [] call.op = "revoke" -> [r EXCEPT !.links = @ \ {call.link}]

\* Mutant of Removed: from the list of recent conversations only.
RemovedFromRecent(r, c) == [r EXCEPT !.recent = Without(@, c)]

Removed(r, c) == [r EXCEPT !.recent = Without(@, c), !.results = Without(@, c)]

Answered(k) ==
  LET call == asked[k] IN
  /\ call.step = "ok"
  /\ rail' = CASE call.op = "recent" -> [rail EXCEPT !.recent = call.items]
               [] call.op = "search" -> Searched(rail, call, call.items)
               [] call.op \in {"archive", "delete"} -> Removed(rail, call.chat)
               [] call.op = "rename" -> rail
               [] OTHER -> InDialog(rail, call)
  /\ asked' = [asked EXCEPT ![k] = IF call.op \in {"archive", "delete"} THEN Sent("recent", None) ELSE Free]
  /\ UNCHANGED threads

\* A search that fails finds nothing; a rename that fails restores what was listed before it.
Failed(k) ==
  LET call == asked[k]
      r    == [rail EXCEPT !.stale = TRUE]
  IN
  /\ call.step = "failed"
  /\ rail' = CASE call.op = "search" -> Searched(r, call, {})
               [] call.op = "rename" -> [r EXCEPT !.recent = call.recent, !.results = call.results,
                                                  !.of = call.of, !.restored = @ \/ call.of # r.of]
               [] call.op \in DialogOps /\ call.wanted ->
                    [r EXCEPT !.fresh = FALSE, !.busy = IF call.op = "mint" THEN FALSE ELSE @]
               [] OTHER -> r
  /\ asked' = [asked EXCEPT ![k] = Free]
  /\ UNCHANGED threads

-----------------------------------------------------------------------------
SidebarNext ==
  \/ \E k \in Calls :
       \/ ConversationsChanged(k) \/ Paused(k) \/ CommitRename(k) \/ ArchiveConversation(k) \/ DeleteConversation(k)
       \/ OpenShareDialog(k) \/ CreateLink(k) \/ RevokeLink(k)
       \/ Serve(k) \/ Refuse(k) \/ Answered(k) \/ Failed(k)
  \/ \E term \in Titles \cup {None} : Search(term)
  \/ \E c \in ChatIds : StartRename(c)
  \/ CloseShareDialog

SidebarSpec == SidebarInit /\ [][SidebarNext]_railVars

-----------------------------------------------------------------------------
(* Properties.                                                             *)

\* Once a search has settled, the results are those of the term in the box, whatever was typed
\* before and in whatever order it was answered, unless a rename that failed put back the results
\* of an earlier term (app-shell.tsx:281-306, 388-397).
ResultsAreOfTerm ==
  /\ rail.term # None
  /\ ~rail.restored
  /\ \A k \in Waiting : asked[k].op = "search" => ~asked[k].wanted
  => rail.of = rail.term

\* When operations came one after the other and none failed, the list is the server's, and a
\* result is a conversation that is still there under the title shown (app-shell.tsx:364-424).
ListIsCurrent == Waiting = {} /\ ~rail.stale => rail.recent = Listed /\ rail.results \subseteq Listed

\* The dialog shows the live link of its conversation once it has seen it: a link that could not
\* be listed is found again by creating one, since a conversation has one live link; not if the
\* dialog was opened over a request of one that was closed
\* (app-shell.tsx:702-744, conversations/[id]/share/route.ts:48-68).
DialogShowsTheLink ==
  rail.dialog # None /\ rail.fresh /\ ~rail.late /\ ~DialogBusy /\ Exists(rail.dialog) =>
    rail.links = {LiveLink(threads, rail.dialog)} \ {0}
=============================================================================
