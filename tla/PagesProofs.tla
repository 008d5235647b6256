----------------------------- MODULE PagesProofs -----------------------------
(***************************************************************************)
(* The pages of Services, which show lists of what users keep: the sidebar *)
(* with its search and its dialog of links, the prompts, and the knowledge *)
(* files.  An inductive invariant of each relates what the page shows to   *)
(* what the server has by the requests that are under way between them,    *)
(* for any number of them and of rows.                                     *)
(***************************************************************************)
EXTENDS ServicesProofs

-----------------------------------------------------------------------------
(* The sidebar.                                                            *)

\* A conversation that was ever listed has been made.
AreMade(items) == \A i \in items : threads[i.id].status # "none"

\* A request has what it needs: a timer is of a search, a new title is not empty.
CallFits(call) ==
  /\ call.step = "timer" => call.op = "search"
  /\ call.op = "rename" => call.word # 0
  /\ call.op \notin {"recent", "search"} => call.chat # 0
  /\ call.op = "mint" /\ call.step = "ok" => call.link # 0

\* Whatever is shown, or may be put back, has been made, and a conversation that is shared has a link.
SidebarFits ==
  /\ Rail!SidebarTypeOK
  /\ \A c \in Rail!ChatIds : threads[c].shared => threads[c].minted # 0
  /\ AreMade(rail.recent) /\ AreMade(rail.results)
  /\ \A k \in Rail!Calls : AreMade(asked[k].items) /\ AreMade(asked[k].recent) /\ AreMade(asked[k].results)
  /\ \A k \in Rail!Calls : CallFits(asked[k])
  /\ rail.dialog # 0 => threads[rail.dialog].status # "none"

\* The searches that still count.
Searches == {k \in Rail!Waiting : asked[k].op = "search" /\ asked[k].wanted}

\* They are for the term in the box, and what is shown is of that term or one of them is under way.
TermIsSearched ==
  /\ \A k \in Searches : asked[k].word = rail.term /\ rail.term # 0
  /\ rail.term # 0 /\ ~rail.restored => rail.of = rail.term \/ Searches # {}

\* While a request is under way, the list is what it will be when that is answered.
ListFollows(call) ==
  CASE call.step = "failed" -> TRUE
    [] call.step # "failed" /\ call.op = "recent" ->
         rail.results \subseteq Rail!Listed /\ (call.step = "ok" => call.items = Rail!Listed)
    [] call.step # "failed" /\ call.op = "search" ->
         /\ rail.recent = Rail!Listed /\ rail.results \subseteq Rail!Listed
         /\ call.step = "ok" => call.items \subseteq Rail!Listed
    [] call.step = "sent" /\ call.op = "rename" ->
         /\ rail.recent = Rail!Retitled(Rail!Listed, call.chat, call.word)
         /\ rail.results \subseteq Rail!Retitled(Rail!Listed, call.chat, call.word)
    [] call.step = "ok" /\ call.op \in {"archive", "delete"} ->
         /\ Rail!Without(rail.recent, call.chat) = Rail!Listed
         /\ Rail!Without(rail.results, call.chat) \subseteq Rail!Listed
    [] OTHER -> rail.recent = Rail!Listed /\ rail.results \subseteq Rail!Listed

\* Nothing overlapped and nothing failed so far.
ListIsFollowed ==
  /\ \A j, k \in Rail!Waiting : j = k
  /\ Rail!Waiting = {} => rail.recent = Rail!Listed /\ rail.results \subseteq Rail!Listed
  /\ \A k \in Rail!Waiting : ListFollows(asked[k])

\* The requests of the dialog that still count.
Asks == {k \in Rail!Waiting : asked[k].op \in Rail!DialogOps /\ asked[k].wanted}

\* They are of the conversation that the dialog is about, and the first comes before all others.
DialogFits ==
  /\ rail.dialog = 0 => Asks = {} /\ rail.links = {} /\ ~rail.busy /\ ~rail.fresh /\ ~rail.late
  /\ \A k \in Asks :
       /\ asked[k].chat = rail.dialog
       /\ asked[k].op = "shares" => Asks = {k} /\ rail.links = {} /\ ~rail.fresh
       /\ asked[k].op = "mint" => rail.busy /\ rail.links = {} /\ \A j \in Asks : asked[j].op = "mint" => j = k

\* The link of the dialog's conversation that works.
Live == Rail!LiveLink(threads, rail.dialog)

\* A link that was, and that no request brings back.
IsDead(l) == l \in 1..threads[rail.dialog].minted /\ l # Live

\* The links shown are the live one, or become it by the answer to a request.
LinksFollow ==
  /\ \A k \in Rail!Waiting : asked[k].op \in Rail!DialogOps => asked[k].wanted
  /\ \A l \in rail.links : l \in 1..threads[rail.dialog].minted
  /\ \A k \in Asks :
       /\ asked[k].op = "revoke" => asked[k].link \in rail.links \/ IsDead(asked[k].link)
       /\ asked[k].op = "revoke" /\ asked[k].step = "ok" => IsDead(asked[k].link)
       /\ asked[k].op \in {"shares", "mint"} /\ asked[k].step = "ok" =>
            /\ asked[k].link \in 0..threads[rail.dialog].minted
            /\ Rail!Exists(rail.dialog) => asked[k].link = Live
  /\ rail.fresh /\ Rail!Exists(rail.dialog) =>
       \/ rail.links = {Live} \ {0}
       \/ \E k \in Asks : asked[k].op = "mint"
       \/ \E k \in Asks : /\ asked[k].op = "revoke" /\ asked[k].step \in {"ok", "failed"}
                          /\ Live = 0 /\ rail.links \subseteq {asked[k].link}

DialogInv == DialogFits /\ (rail.dialog # 0 /\ ~rail.late => LinksFollow)

\* The inductive invariant of the sidebar.
RailInv ==
  /\ SidebarFits
  /\ TermIsSearched
  /\ ~rail.stale => ListIsFollowed
  /\ DialogInv

LEMMA RailNumbers ==
  /\ MaxChats \in Nat /\ MaxTitles \in Nat /\ MaxTitles >= 1 /\ MaxLinks \in Nat /\ MaxAsked \in Nat /\ MaxAsked >= 1 /\ MaxMoves \in Nat
BY PagesAssumption

LEMMA FreeCall == Rail!Free \in Rail!Call
BY RailNumbers DEF Rail!Free, Rail!Call, Rail!Ops, Rail!None

LEMMA SentCall ==
  ASSUME NEW op \in Rail!Ops, NEW c \in 0..MaxChats
  PROVE  Rail!Sent(op, c) \in Rail!Call
<1>1. Rail!Free \in Rail!Call
  BY FreeCall
<1>2. [Rail!Free EXCEPT !.op = op, !.step = "sent", !.chat = c] \in Rail!Call
  BY <1>1 DEF Rail!Call
<1> QED BY <1>2 DEF Rail!Sent

LEMMA SentIs ==
  ASSUME NEW op, NEW c, NEW s, s = Rail!Sent(op, c)
  PROVE  /\ s.op = op /\ s.chat = c /\ s.step = "sent" /\ s.wanted /\ s.word = 0 /\ s.link = 0
         /\ s.items = {} /\ s.recent = {} /\ s.results = {} /\ s.of = 0
BY DEF Rail!Sent, Rail!Free, Rail!None

\* A handler starts.
LEMMA Started ==
  ASSUME SidebarFits, NEW k \in Rail!Calls, NEW s \in Rail!Call, NEW r \in Rail!Rail, r.moves = rail.moves, Rail!Start(k, s, r)
  PROVE  /\ asked[k].step = "free" /\ asked' \in [Rail!Calls -> Rail!Call] /\ asked'[k] = s
         /\ \A j \in Rail!Calls : j # k => asked'[j] = asked[j]
         /\ rail' \in Rail!Rail /\ rail'.recent = r.recent /\ rail'.results = r.results /\ rail'.term = r.term /\ rail'.of = r.of
         /\ rail'.editing = r.editing /\ rail'.dialog = r.dialog /\ rail'.links = r.links /\ rail'.busy = r.busy
         /\ rail'.fresh = r.fresh /\ rail'.late = r.late /\ rail'.restored = r.restored
         /\ rail'.stale = (r.stale \/ Rail!Waiting # {})
<1>1. asked \in [Rail!Calls -> Rail!Call] /\ rail \in Rail!Rail
  BY DEF SidebarFits, Rail!SidebarTypeOK
<1>2. /\ asked[k].step = "free" /\ asked' = [asked EXCEPT ![k] = s]
      /\ rail' = [r EXCEPT !.moves = @ + 1, !.stale = @ \/ Rail!Waiting # {}]
  BY DEF Rail!Start
<1>3. r.moves + 1 \in 0..MaxMoves
  <2>1. rail.moves \in 0..MaxMoves /\ rail.moves < MaxMoves
    BY <1>1 DEF Rail!Start, Rail!Moves, Rail!Rail
  <2> QED BY <2>1, RailNumbers
<1>4. rail' \in Rail!Rail
  BY <1>2, <1>3 DEF Rail!Rail
<1> QED BY <1>1, <1>2, <1>4 DEF Rail!Rail

\* A step that leaves the searches as they are, and one that leaves the dialog.
LEMMA TermKeeps ==
  ASSUME TermIsSearched, rail'.term = rail.term, rail'.of = rail.of, rail'.restored = rail.restored,
         Searches' = Searches, \A k \in Searches : asked'[k].word = asked[k].word
  PROVE  TermIsSearched'
BY DEF TermIsSearched

OfDialog == {k \in Rail!Waiting : asked[k].op \in Rail!DialogOps}

LEMMA DialogKeeps ==
  ASSUME DialogInv, rail'.dialog = rail.dialog, rail'.links = rail.links, rail'.busy = rail.busy, rail'.fresh = rail.fresh,
         rail'.late = rail.late, OfDialog' = OfDialog, \A k \in OfDialog : asked'[k] = asked[k],
         rail.dialog # 0 => /\ threads'[rail.dialog].minted = threads[rail.dialog].minted
                            /\ threads'[rail.dialog].shared = threads[rail.dialog].shared
                            /\ Rail!Exists(rail.dialog)' <=> Rail!Exists(rail.dialog)
  PROVE  DialogInv'
<1>1. Asks' = Asks /\ \A k \in Asks : asked'[k] = asked[k]
  BY DEF Asks, OfDialog
<1>2. DialogFits'
  BY <1>1 DEF DialogInv, DialogFits
<1>3. ASSUME rail.dialog # 0, ~rail.late PROVE LinksFollow'
  <2>1. Live' = Live
    BY <1>3 DEF Live, Rail!LiveLink
  <2>2. \A l : IsDead(l)' <=> IsDead(l)
    BY <1>3, <2>1 DEF IsDead
  <2>3. \A k \in Rail!Waiting' : asked'[k].op \in Rail!DialogOps => asked'[k].wanted
    BY <1>3 DEF OfDialog, DialogInv, LinksFollow
  <2> QED BY <1>1, <1>3, <2>1, <2>2, <2>3 DEF DialogInv, LinksFollow
<1> QED BY <1>2, <1>3 DEF DialogInv

\* What a step may do to the conversations, short of what the dialog is about.
KeepsThreads ==
  /\ threads' \in [Rail!ChatIds -> Rail!Thread]
  /\ \A c \in Rail!ChatIds :
       /\ threads'[c].minted = threads[c].minted /\ threads'[c].shared = threads[c].shared
       /\ threads[c].status # "none" => threads'[c].status # "none" /\ (Rail!Exists(c)' <=> Rail!Exists(c))

LEMMA SameThreads == SidebarFits /\ UNCHANGED threads => KeepsThreads
BY DEF SidebarFits, Rail!SidebarTypeOK, KeepsThreads, Rail!Exists

LEMMA MadeStay ==
  ASSUME \A c \in Rail!ChatIds : threads[c].status # "none" => threads'[c].status # "none",
         NEW items \in SUBSET Rail!Item, AreMade(items)
  PROVE  AreMade(items)'
BY DEF AreMade, Rail!Item

LEMMA StartFits ==
  ASSUME SidebarFits, NEW k \in Rail!Calls, NEW s \in Rail!Call, s.step = "sent", CallFits(s), AreMade(s.items), AreMade(s.recent),
         AreMade(s.results), NEW r \in Rail!Rail, r.moves = rail.moves, AreMade(r.recent), AreMade(r.results),
         r.dialog # 0 => threads[r.dialog].status # "none", Rail!Start(k, s, r), KeepsThreads
  PROVE  SidebarFits'
<1>1. /\ asked' \in [Rail!Calls -> Rail!Call] /\ asked'[k] = s /\ \A j \in Rail!Calls : j # k => asked'[j] = asked[j]
  BY Started
<1>2. rail' \in Rail!Rail /\ rail'.recent = r.recent /\ rail'.results = r.results /\ rail'.dialog = r.dialog
  BY Started
<1>3. asked \in [Rail!Calls -> Rail!Call]
  BY DEF SidebarFits, Rail!SidebarTypeOK
<1>4. \A items \in SUBSET Rail!Item : AreMade(items) => AreMade(items)'
  BY MadeStay DEF KeepsThreads
<1>5. AreMade(rail.recent)' /\ AreMade(rail.results)'
  BY <1>2, <1>4 DEF Rail!Rail, AreMade
<1>6. \A j \in Rail!Calls : AreMade(asked[j].items)' /\ AreMade(asked[j].recent)' /\ AreMade(asked[j].results)'
  <2> SUFFICES ASSUME NEW j \in Rail!Calls
               PROVE  AreMade(asked[j].items)' /\ AreMade(asked[j].recent)' /\ AreMade(asked[j].results)'
    OBVIOUS
  <2>1. CASE j = k
    <3>1. s.items \in SUBSET Rail!Item /\ s.recent \in SUBSET Rail!Item /\ s.results \in SUBSET Rail!Item
      BY DEF Rail!Call
    <3>2. AreMade(s.items)' /\ AreMade(s.recent)' /\ AreMade(s.results)'
      BY <1>4, <3>1
    <3> QED BY <1>1, <2>1, <3>2 DEF AreMade
  <2>2. CASE j # k
    <3> DEFINE q == asked[j]
    <3>1. q.items \in SUBSET Rail!Item /\ q.recent \in SUBSET Rail!Item /\ q.results \in SUBSET Rail!Item
      BY <1>3 DEF Rail!Call
    <3>2. AreMade(q.items) /\ AreMade(q.recent) /\ AreMade(q.results)
      BY DEF SidebarFits
    <3>3. asked'[j] = q
      BY <1>1, <2>2
    <3> HIDE DEF q
    <3>4. (\A i \in q.items : threads'[i.id].status # "none") /\ (\A i \in q.recent : threads'[i.id].status # "none")
          /\ (\A i \in q.results : threads'[i.id].status # "none")
      BY <1>4, <3>1, <3>2 DEF AreMade
    <3> QED BY <3>3, <3>4 DEF AreMade
  <2> QED BY <2>1, <2>2
<1>7. rail'.dialog # 0 => threads'[rail'.dialog].status # "none"
  BY <1>2 DEF Rail!Rail, KeepsThreads, Rail!ChatIds
<1>8. \A c \in Rail!ChatIds : threads'[c].shared => threads'[c].minted # 0
  BY DEF KeepsThreads, SidebarFits
<1>9. \A j \in Rail!Calls : CallFits(asked'[j])
  BY <1>1 DEF SidebarFits
<1> QED BY <1>1, <1>2, <1>5, <1>6, <1>7, <1>8, <1>9 DEF SidebarFits, Rail!SidebarTypeOK, KeepsThreads

LEMMA StartKeepsTerm ==
  ASSUME RailInv, NEW k \in Rail!Calls, NEW s \in Rail!Call, s.op # "search", NEW r \in Rail!Rail, r.moves = rail.moves,
         r.term = rail.term, r.of = rail.of, r.restored = rail.restored, Rail!Start(k, s, r)
  PROVE  TermIsSearched'
<1>1. /\ asked[k].step = "free" /\ asked'[k] = s /\ \A j \in Rail!Calls : j # k => asked'[j] = asked[j]
      /\ rail'.term = rail.term /\ rail'.of = rail.of /\ rail'.restored = rail.restored
  BY Started DEF RailInv
<1>2. Searches' = Searches /\ \A j \in Searches : asked'[j].word = asked[j].word
  BY <1>1 DEF Searches, Rail!Waiting
<1> QED BY <1>1, <1>2, TermKeeps DEF RailInv

LEMMA StartKeepsDialog ==
  ASSUME RailInv, NEW k \in Rail!Calls, NEW s \in Rail!Call, s.op \notin Rail!DialogOps, NEW r \in Rail!Rail, r.moves = rail.moves,
         r.dialog = rail.dialog, r.links = rail.links, r.busy = rail.busy, r.fresh = rail.fresh, r.late = rail.late,
         Rail!Start(k, s, r), KeepsThreads
  PROVE  DialogInv'
<1>1. /\ asked[k].step = "free" /\ asked'[k] = s /\ \A j \in Rail!Calls : j # k => asked'[j] = asked[j]
      /\ rail'.dialog = rail.dialog /\ rail'.links = rail.links /\ rail'.busy = rail.busy /\ rail'.fresh = rail.fresh
      /\ rail'.late = rail.late
  BY Started DEF RailInv
<1>2. OfDialog' = OfDialog /\ \A j \in OfDialog : asked'[j] = asked[j]
  BY <1>1 DEF OfDialog, Rail!Waiting
<1>3. rail.dialog # 0 => rail.dialog \in Rail!ChatIds /\ threads[rail.dialog].status # "none"
  BY DEF RailInv, SidebarFits, Rail!SidebarTypeOK, Rail!Rail, Rail!ChatIds
<1> QED BY <1>1, <1>2, <1>3, DialogKeeps DEF RailInv, KeepsThreads

\* A handler that starts while the list is as it should be finds none at work.
LEMMA StartFollows ==
  ASSUME RailInv, NEW k \in Rail!Calls, NEW s \in Rail!Call, s.step = "sent", NEW r \in Rail!Rail, r.moves = rail.moves,
         r.stale = rail.stale, Rail!Start(k, s, r), ~rail'.stale
  PROVE  /\ Rail!Waiting = {} /\ rail.recent = Rail!Listed /\ rail.results \subseteq Rail!Listed
         /\ ListFollows(s)' => ListIsFollowed'
<1>1. /\ asked'[k] = s /\ (\A j \in Rail!Calls : j # k => asked'[j] = asked[j])
      /\ rail'.stale = (rail.stale \/ Rail!Waiting # {})
  BY Started DEF RailInv
<1>2. Rail!Waiting = {} /\ ~rail.stale
  BY <1>1
<1>3. Rail!Waiting' = {k}
  BY <1>1, <1>2 DEF Rail!Waiting
<1>4. rail.recent = Rail!Listed /\ rail.results \subseteq Rail!Listed
  BY <1>2 DEF RailInv, ListIsFollowed
<1>5. ListFollows(s)' => ListIsFollowed'
  BY <1>1, <1>3 DEF ListIsFollowed, ListFollows
<1> QED BY <1>2, <1>4, <1>5

LEMMA ListedIs ==
  ASSUME threads \in [Rail!ChatIds -> Rail!Thread]
  PROVE  /\ Rail!Listed \in SUBSET Rail!Item /\ AreMade(Rail!Listed)
         /\ \A i \in Rail!Item : i \in Rail!Listed <=> threads[i.id].status = "live" /\ i.title = threads[i.id].title
<1>1. \A c \in Rail!ChatIds : threads[c].title \in Rail!Titles
  BY DEF Rail!Thread
<1>2. Rail!Listed \in SUBSET Rail!Item
  BY <1>1 DEF Rail!Listed, Rail!Item
<1>3. \A i \in Rail!Listed : threads[i.id].status = "live" /\ i.title = threads[i.id].title
  BY DEF Rail!Listed
<1>4. ASSUME NEW i \in Rail!Item, threads[i.id].status = "live", i.title = threads[i.id].title PROVE i \in Rail!Listed
  <2>1. i = [id |-> i.id, title |-> i.title] /\ i.id \in Rail!ChatIds
    BY DEF Rail!Item
  <2> QED BY <1>4, <2>1 DEF Rail!Listed
<1> QED BY <1>2, <1>3, <1>4 DEF AreMade

LEMMA RailTypes ==
  SidebarFits => /\ threads \in [Rail!ChatIds -> Rail!Thread] /\ rail \in Rail!Rail /\ asked \in [Rail!Calls -> Rail!Call]
                 /\ rail.recent \in SUBSET Rail!Item /\ rail.results \in SUBSET Rail!Item /\ rail.dialog \in 0..MaxChats
                 /\ AreMade({}) /\ Rail!Visible \in SUBSET Rail!Item /\ AreMade(Rail!Visible)
                 /\ \A i \in Rail!Item : i.id \in Rail!ChatIds /\ i.id \in 0..MaxChats /\ i.id # 0
BY RailNumbers DEF SidebarFits, Rail!SidebarTypeOK, Rail!Rail, AreMade, Rail!Visible, Rail!Item, Rail!ChatIds

LEMMA ConversationsChangedStep ==
  ASSUME RailInv, NEW k \in Rail!Calls, Rail!ConversationsChanged(k)
  PROVE  RailInv'
<1> DEFINE s == Rail!Sent("recent", Rail!None)
<1>1. SidebarFits /\ threads \in [Rail!ChatIds -> Rail!Thread] /\ rail \in Rail!Rail /\ Rail!Start(k, s, rail)
  BY RailTypes DEF RailInv, Rail!ConversationsChanged
<1>2. PICK c \in Rail!ChatIds : /\ threads[c].status = "none"
                                /\ \E title \in Rail!Titles : threads' = [threads EXCEPT ![c].status = "live", ![c].title = title]
  BY DEF Rail!ConversationsChanged
<1>3. KeepsThreads
  <2>1. threads' \in [Rail!ChatIds -> Rail!Thread]
    BY <1>1, <1>2, ZenonT(40) DEF Rail!Thread
  <2>2. \A d \in Rail!ChatIds :
          /\ threads'[d].minted = threads[d].minted /\ threads'[d].shared = threads[d].shared
          /\ threads[d].status # "none" => threads'[d].status = threads[d].status
    BY <1>1, <1>2 DEF Rail!Thread
  <2> QED BY <2>1, <2>2 DEF KeepsThreads, Rail!Exists
<1>4. s \in Rail!Call /\ s.step = "sent" /\ s.op = "recent" /\ CallFits(s) /\ s.items = {} /\ s.recent = {} /\ s.results = {}
  BY SentCall, SentIs, RailNumbers DEF Rail!Ops, Rail!None, CallFits
<1> HIDE DEF s
<1>5. SidebarFits'
  BY <1>1, <1>3, <1>4, StartFits, RailTypes DEF RailInv, SidebarFits
<1>6. TermIsSearched' /\ DialogInv'
  BY <1>1, <1>3, <1>4, StartKeepsTerm, StartKeepsDialog DEF Rail!DialogOps
<1>7. ASSUME ~rail'.stale PROVE ListIsFollowed'
  <2>1. rail.results \subseteq Rail!Listed /\ (ListFollows(s)' => ListIsFollowed')
    BY <1>1, <1>4, <1>7, StartFollows
  <2>2. rail'.results = rail.results
    BY <1>1, <1>4, Started
  <2>3. threads' \in [Rail!ChatIds -> Rail!Thread]
    BY <1>3 DEF KeepsThreads
  <2>4. Rail!Listed \subseteq Rail!Listed'
    BY <1>1, <1>2, <2>3 DEF Rail!Listed
  <2>5. ListFollows(s)'
    BY <1>4, <2>1, <2>2, <2>4 DEF ListFollows
  <2> QED BY <2>1, <2>5
<1> QED BY <1>5, <1>6, <1>7 DEF RailInv

LEMMA RetitledIs ==
  ASSUME NEW items \in SUBSET Rail!Item, NEW c \in Rail!ChatIds, NEW title \in Rail!Titles
  PROVE  /\ Rail!Retitled(items, c, title) \in SUBSET Rail!Item
         /\ AreMade(items) => AreMade(Rail!Retitled(items, c, title))
         /\ \A more : items \subseteq more => Rail!Retitled(items, c, title) \subseteq Rail!Retitled(more, c, title)
BY DEF Rail!Retitled, Rail!Item, AreMade

LEMMA CommitRenameStep ==
  ASSUME RailInv, NEW k \in Rail!Calls, Rail!CommitRename(k)
  PROVE  RailInv'
<1>1. SidebarFits /\ KeepsThreads /\ rail \in Rail!Rail /\ UNCHANGED threads
  BY SameThreads, RailTypes DEF RailInv, Rail!CommitRename
<1>2. PICK c \in Rail!ChatIds : c = rail.editing
  BY <1>1, RailTypes DEF Rail!CommitRename
<1>3. PICK title \in Rail!Titles :
        Rail!Start(k, [Rail!Sent("rename", c) EXCEPT !.word = title, !.recent = rail.recent, !.results = rail.results, !.of = rail.of],
                   [rail EXCEPT !.editing = 0, !.recent = Rail!Retitled(@, c, title), !.results = Rail!Retitled(@, c, title)])
  BY <1>2 DEF Rail!CommitRename, Rail!None
<1>4. PICK s : s = [Rail!Sent("rename", c) EXCEPT !.word = title, !.recent = rail.recent, !.results = rail.results, !.of = rail.of]
  OBVIOUS
<1>5. PICK r : r = [rail EXCEPT !.editing = 0, !.recent = Rail!Retitled(@, c, title), !.results = Rail!Retitled(@, c, title)]
  OBVIOUS
<1>6. /\ rail.recent \in SUBSET Rail!Item /\ rail.results \in SUBSET Rail!Item /\ rail.of \in Rail!Titles \cup {0}
      /\ AreMade(rail.recent) /\ AreMade(rail.results)
  BY <1>1 DEF SidebarFits, Rail!Rail, Rail!None
<1>7. Rail!Sent("rename", c) \in Rail!Call /\ Rail!Sent("rename", c).chat = c /\ Rail!Sent("rename", c).op = "rename"
      /\ Rail!Sent("rename", c).step = "sent" /\ Rail!Sent("rename", c).items = {}
  <2>1. c \in 0..MaxChats
    BY <1>1, <1>2 DEF Rail!Rail
  <2> QED BY <2>1, SentCall, SentIs DEF Rail!Ops
<1>8. /\ s \in Rail!Call /\ s.step = "sent" /\ s.op = "rename" /\ s.chat = c /\ s.word = title
      /\ s.items = {} /\ s.recent = rail.recent /\ s.results = rail.results
  BY <1>6, <1>7, <1>4 DEF Rail!Call, Rail!None
<1>9. /\ Rail!Retitled(rail.recent, c, title) \in SUBSET Rail!Item /\ AreMade(Rail!Retitled(rail.recent, c, title))
      /\ Rail!Retitled(rail.results, c, title) \in SUBSET Rail!Item /\ AreMade(Rail!Retitled(rail.results, c, title))
      /\ \A more : rail.results \subseteq more => Rail!Retitled(rail.results, c, title) \subseteq Rail!Retitled(more, c, title)
  BY <1>2, <1>6, RetitledIs
<1>10. /\ r \in Rail!Rail /\ r.recent = Rail!Retitled(rail.recent, c, title) /\ r.results = Rail!Retitled(rail.results, c, title)
      /\ r.term = rail.term /\ r.of = rail.of /\ r.restored = rail.restored /\ r.dialog = rail.dialog /\ r.links = rail.links
      /\ r.busy = rail.busy /\ r.fresh = rail.fresh /\ r.late = rail.late /\ r.stale = rail.stale /\ r.moves = rail.moves
  <2>1. 0 \in 0..MaxChats
    BY RailNumbers
  <2> QED BY <1>1, <1>9, <1>5, <2>1 DEF Rail!Rail
<1>11. Rail!Start(k, s, r)
  BY <1>3, <1>4, <1>5
<1>12. SidebarFits'
  <2>1. c # 0 /\ title # 0
    BY RailNumbers DEF Rail!Titles, Rail!ChatIds
  <2>2. CallFits(s)
    BY <1>8, <2>1 DEF CallFits
  <2> QED BY <1>1, <1>6, <1>8, <1>9, <1>10, <1>11, <2>2, StartFits, RailTypes DEF SidebarFits
<1>13. TermIsSearched' /\ DialogInv'
  BY <1>1, <1>8, <1>10, <1>11, StartKeepsTerm, StartKeepsDialog DEF Rail!DialogOps
<1>14. ASSUME ~rail'.stale PROVE ListIsFollowed'
  <2>1. rail.recent = Rail!Listed /\ rail.results \subseteq Rail!Listed /\ (ListFollows(s)' => ListIsFollowed')
    BY <1>8, <1>10, <1>11, <1>14, StartFollows
  <2>2. rail'.recent = r.recent /\ rail'.results = r.results
    BY <1>1, <1>8, <1>10, <1>11, Started
  <2>3. Rail!Listed' = Rail!Listed
    BY <1>1 DEF Rail!Listed
  <2>4. /\ rail'.recent = Rail!Retitled(Rail!Listed, c, title)
        /\ rail'.results \subseteq Rail!Retitled(Rail!Listed, c, title)
    BY <1>9, <1>10, <2>1, <2>2
  <2>5. ListFollows(s)'
    <3>1. Rail!Retitled(Rail!Listed', s.chat, s.word) = Rail!Retitled(Rail!Listed, c, title)
      BY <1>8, <2>3
    <3> QED BY <1>8, <2>4, <3>1 DEF ListFollows, Rail!Retitled
  <2> QED BY <2>1, <2>5
<1> QED BY <1>12, <1>13, <1>14 DEF RailInv

\* A handler whose start changes neither the list nor the dialog.
LEMMA RemovalStep ==
  ASSUME RailInv, NEW k \in Rail!Calls, Rail!ArchiveConversation(k) \/ Rail!DeleteConversation(k)
  PROVE  RailInv'
<1>1. /\ SidebarFits /\ KeepsThreads /\ rail \in Rail!Rail /\ UNCHANGED threads /\ AreMade({})
      /\ Rail!Visible \in SUBSET Rail!Item /\ \A i \in Rail!Item : i.id \in 0..MaxChats /\ i.id # 0
  BY SameThreads, RailTypes DEF RailInv, Rail!ArchiveConversation, Rail!DeleteConversation
<1>2. PICK i \in Rail!Visible, op \in {"archive", "delete"} : Rail!Start(k, Rail!Sent(op, i.id), rail)
  BY DEF Rail!ArchiveConversation, Rail!DeleteConversation
<1> DEFINE s == Rail!Sent(op, i.id)
<1>3. s \in Rail!Call /\ s.step = "sent" /\ s.op = op /\ CallFits(s) /\ s.items = {} /\ s.recent = {} /\ s.results = {}
  BY <1>1, SentCall, SentIs DEF Rail!Ops, CallFits
<1> HIDE DEF s
<1>4. SidebarFits'
  BY <1>1, <1>2, <1>3, StartFits DEF SidebarFits, s
<1>5. TermIsSearched' /\ DialogInv'
  BY <1>1, <1>2, <1>3, StartKeepsTerm, StartKeepsDialog DEF Rail!DialogOps, s
<1>6. ASSUME ~rail'.stale PROVE ListIsFollowed'
  <2>1. rail.recent = Rail!Listed /\ rail.results \subseteq Rail!Listed /\ (ListFollows(s)' => ListIsFollowed')
    BY <1>1, <1>2, <1>3, <1>6, StartFollows DEF s
  <2>2. rail'.recent = rail.recent /\ rail'.results = rail.results
    BY <1>1, <1>2, <1>3, Started DEF s
  <2>3. Rail!Listed' = Rail!Listed
    BY <1>1 DEF Rail!Listed
  <2>4. ListFollows(s)'
    BY <1>3, <2>1, <2>2, <2>3 DEF ListFollows
  <2> QED BY <2>1, <2>4
<1> QED BY <1>4, <1>5, <1>6 DEF RailInv

\* What a handler of the dialog, when it starts, leaves as it was.
LEMMA DialogStart ==
  ASSUME RailInv, NEW k \in Rail!Calls, NEW s \in Rail!Call, s.step = "sent", s.op \in Rail!DialogOps, s.chat # 0, s.items = {}, s.recent = {},
         s.results = {}, NEW r \in Rail!Rail, r.moves = rail.moves, r.recent = rail.recent, r.results = rail.results,
         r.term = rail.term, r.of = rail.of, r.restored = rail.restored, r.stale = rail.stale,
         r.dialog # 0 => threads[r.dialog].status # "none", Rail!Start(k, s, r), UNCHANGED threads
  PROVE  SidebarFits' /\ TermIsSearched' /\ (~rail'.stale => ListIsFollowed')
<1>1. SidebarFits /\ KeepsThreads /\ AreMade({}) /\ AreMade(rail.recent) /\ AreMade(rail.results)
  BY SameThreads, RailTypes DEF RailInv, SidebarFits
<1>2. SidebarFits'
  <2>1. CallFits(s)
    BY DEF CallFits, Rail!DialogOps
  <2> QED BY <1>1, <2>1, StartFits
<1>3. TermIsSearched'
  BY StartKeepsTerm DEF Rail!DialogOps
<1>4. ASSUME ~rail'.stale PROVE ListIsFollowed'
  <2>1. rail.recent = Rail!Listed /\ rail.results \subseteq Rail!Listed /\ (ListFollows(s)' => ListIsFollowed')
    BY <1>4, StartFollows
  <2>2. rail'.recent = rail.recent /\ rail'.results = rail.results
    BY <1>1, Started
  <2>3. Rail!Listed' = Rail!Listed
    BY DEF Rail!Listed
  <2>4. ListFollows(s)'
    BY <2>1, <2>2, <2>3 DEF ListFollows, Rail!DialogOps
  <2> QED BY <2>1, <2>4
<1> QED BY <1>2, <1>3, <1>4

LEMMA OpenShareDialogStep ==
  ASSUME RailInv, NEW k \in Rail!Calls, Rail!OpenShareDialog(k)
  PROVE  RailInv'
<1>1. /\ SidebarFits /\ rail \in Rail!Rail /\ UNCHANGED threads /\ rail.dialog = 0
      /\ Rail!Visible \in SUBSET Rail!Item /\ AreMade(Rail!Visible)
      /\ \A i \in Rail!Item : i.id \in 0..MaxChats /\ i.id \in Rail!ChatIds /\ i.id # 0
  BY RailTypes DEF RailInv, Rail!OpenShareDialog, Rail!None
<1>2. PICK i \in Rail!Visible :
        Rail!Start(k, Rail!Sent("shares", i.id), [rail EXCEPT !.dialog = i.id, !.late = \E j \in Rail!Waiting : asked[j].op \in Rail!DialogOps])
  BY DEF Rail!OpenShareDialog
<1>3. PICK c : c = i.id /\ c \in 0..MaxChats /\ c # 0 /\ threads[c].status # "none"
  BY <1>1 DEF AreMade
<1>4. PICK s : s = Rail!Sent("shares", c)
  OBVIOUS
<1>5. PICK r : r = [rail EXCEPT !.dialog = c, !.late = OfDialog # {}]
  OBVIOUS
<1>6. s \in Rail!Call /\ s.step = "sent" /\ s.op = "shares" /\ s.chat = c /\ s.wanted /\ s.items = {} /\ s.recent = {} /\ s.results = {}
  BY <1>3, <1>4, SentCall, SentIs DEF Rail!Ops, Rail!DialogOps
<1>7. /\ r \in Rail!Rail /\ r.recent = rail.recent /\ r.results = rail.results /\ r.term = rail.term /\ r.of = rail.of
      /\ r.restored = rail.restored /\ r.stale = rail.stale /\ r.moves = rail.moves
      /\ r.dialog = c /\ r.links = rail.links /\ r.fresh = rail.fresh /\ r.late = (OfDialog # {})
  BY <1>1, <1>3, <1>5 DEF Rail!Rail
<1>8. Rail!Start(k, s, r)
  <2>1. (\E j \in Rail!Waiting : asked[j].op \in Rail!DialogOps) <=> OfDialog # {}
    BY DEF OfDialog
  <2> QED BY <1>2, <1>3, <1>4, <1>5, <2>1
<1>9. SidebarFits' /\ TermIsSearched' /\ (~rail'.stale => ListIsFollowed')
  BY <1>1, <1>3, <1>6, <1>7, <1>8, DialogStart DEF Rail!DialogOps
<1>10. /\ asked[k].step = "free" /\ asked'[k] = s /\ (\A j \in Rail!Calls : j # k => asked'[j] = asked[j])
       /\ rail'.dialog = c /\ rail'.links = rail.links /\ rail'.fresh = rail.fresh /\ rail'.late = (OfDialog # {})
  BY <1>1, <1>6, <1>7, <1>8, Started
<1>11. rail.links = {} /\ ~rail.fresh /\ Asks = {}
  BY <1>1 DEF RailInv, DialogInv, DialogFits
<1>12. Asks' = {k}
  BY <1>6, <1>10, <1>11 DEF Asks, Rail!Waiting, Rail!DialogOps
<1>13. DialogFits'
  BY <1>3, <1>6, <1>10, <1>11, <1>12 DEF DialogFits
<1>14. ASSUME ~rail'.late PROVE LinksFollow'
  <2>1. \A j \in Rail!Waiting' : asked'[j].op \in Rail!DialogOps => asked'[j].wanted
    BY <1>6, <1>10, <1>14 DEF OfDialog, Rail!Waiting
  <2> QED BY <1>6, <1>10, <1>11, <1>12, <2>1 DEF LinksFollow
<1> QED BY <1>9, <1>13, <1>14 DEF RailInv, DialogInv

LEMMA CreateLinkStep ==
  ASSUME RailInv, NEW k \in Rail!Calls, Rail!CreateLink(k)
  PROVE  RailInv'
<1>1. /\ SidebarFits /\ rail \in Rail!Rail /\ UNCHANGED threads /\ rail.dialog # 0 /\ rail.links = {} /\ ~rail.busy
      /\ ~Rail!Loading /\ threads[rail.dialog].status # "none" /\ rail.dialog \in 0..MaxChats
  BY RailTypes DEF RailInv, Rail!CreateLink, Rail!None, SidebarFits
<1>2. PICK s : s = Rail!Sent("mint", rail.dialog)
  OBVIOUS
<1>3. PICK r : r = [rail EXCEPT !.busy = TRUE]
  OBVIOUS
<1>4. /\ s \in Rail!Call /\ s.step = "sent" /\ s.op = "mint" /\ s.chat = rail.dialog /\ s.wanted
      /\ s.items = {} /\ s.recent = {} /\ s.results = {}
  BY <1>1, <1>2, SentCall, SentIs DEF Rail!Ops, Rail!DialogOps
<1>5. /\ r \in Rail!Rail /\ r.recent = rail.recent /\ r.results = rail.results /\ r.term = rail.term /\ r.of = rail.of
      /\ r.restored = rail.restored /\ r.stale = rail.stale /\ r.moves = rail.moves
      /\ r.dialog = rail.dialog /\ r.links = rail.links /\ r.fresh = rail.fresh /\ r.late = rail.late /\ r.busy
  BY <1>1, <1>3 DEF Rail!Rail
<1>6. Rail!Start(k, s, r)
  BY <1>2, <1>3 DEF Rail!CreateLink
<1>7. SidebarFits' /\ TermIsSearched' /\ (~rail'.stale => ListIsFollowed')
  BY <1>1, <1>4, <1>5, <1>6, DialogStart DEF Rail!DialogOps
<1>8. /\ asked[k].step = "free" /\ asked'[k] = s /\ (\A j \in Rail!Calls : j # k => asked'[j] = asked[j])
      /\ rail'.dialog = rail.dialog /\ rail'.links = {} /\ rail'.fresh = rail.fresh /\ rail'.late = rail.late /\ rail'.busy
  BY <1>1, <1>4, <1>5, <1>6, Started
<1>9. k \notin Asks /\ Asks' = Asks \cup {k} /\ \A j \in Asks : j # k /\ asked'[j] = asked[j]
  BY <1>4, <1>8 DEF Asks, Rail!Waiting, Rail!DialogOps
<1>10. \A j \in Asks : asked[j].op # "shares" /\ asked[j].op # "mint"
  BY <1>1 DEF RailInv, DialogInv, DialogFits, Rail!Loading, Asks
<1>11. DialogFits'
  BY <1>1, <1>4, <1>8, <1>9, <1>10 DEF RailInv, DialogInv, DialogFits
<1>12. ASSUME ~rail'.late PROVE LinksFollow'
  <2>1. LinksFollow
    BY <1>1, <1>8, <1>12 DEF RailInv, DialogInv
  <2>2. Live' = Live /\ \A l : IsDead(l)' <=> IsDead(l)
    BY <1>1, <1>8 DEF Live, IsDead, Rail!LiveLink
  <2>3. \A j \in Rail!Waiting' : asked'[j].op \in Rail!DialogOps => asked'[j].wanted
    BY <1>4, <1>8, <2>1 DEF LinksFollow, Rail!Waiting
  <2>4. \A l \in rail'.links : l \in 1..threads'[rail'.dialog].minted
    BY <1>8
  <2>5. \A j \in Asks' :
          /\ asked'[j].op = "revoke" => asked'[j].link \in rail'.links \/ IsDead(asked'[j].link)
          /\ asked'[j].op = "revoke" /\ asked'[j].step = "ok" => IsDead(asked'[j].link)
          /\ ~(asked'[j].op \in {"shares", "mint"} /\ asked'[j].step = "ok")
    BY <1>1, <1>4, <1>8, <1>9, <1>10, <2>1 DEF LinksFollow
  <2>6. \E j \in Asks' : asked'[j].op = "mint"
    BY <1>4, <1>8, <1>9
  <2> QED BY <2>2, <2>3, <2>4, <2>5, <2>6 DEF LinksFollow
<1> QED BY <1>7, <1>11, <1>12 DEF RailInv, DialogInv

LEMMA RevokeLinkStep ==
  ASSUME RailInv, NEW k \in Rail!Calls, Rail!RevokeLink(k)
  PROVE  RailInv'
<1>1. /\ SidebarFits /\ rail \in Rail!Rail /\ UNCHANGED threads /\ rail.dialog # 0 /\ rail.links \in SUBSET (1..MaxLinks)
      /\ ~Rail!Loading /\ threads[rail.dialog].status # "none" /\ rail.dialog \in 0..MaxChats
  BY RailTypes DEF RailInv, Rail!RevokeLink, Rail!None, SidebarFits, Rail!Rail
<1>2. PICK l \in rail.links : Rail!Start(k, [Rail!Sent("revoke", rail.dialog) EXCEPT !.link = l], rail)
  BY DEF Rail!RevokeLink
<1>3. PICK s : s = [Rail!Sent("revoke", rail.dialog) EXCEPT !.link = l]
  OBVIOUS
<1>4. /\ s \in Rail!Call /\ s.step = "sent" /\ s.op = "revoke" /\ s.chat = rail.dialog /\ s.wanted /\ s.link = l
      /\ s.items = {} /\ s.recent = {} /\ s.results = {}
  <2>1. PICK q : q = Rail!Sent("revoke", rail.dialog)
    OBVIOUS
  <2>2. /\ q \in Rail!Call /\ q.step = "sent" /\ q.op = "revoke" /\ q.chat = rail.dialog /\ q.wanted
        /\ q.items = {} /\ q.recent = {} /\ q.results = {}
    BY <1>1, <2>1, SentCall, SentIs DEF Rail!Ops, Rail!DialogOps
  <2>3. l \in 0..MaxLinks /\ s = [q EXCEPT !.link = l]
    BY <1>1, <1>3, <2>1, RailNumbers
  <2> QED BY <2>2, <2>3 DEF Rail!Call
<1>5. SidebarFits' /\ TermIsSearched' /\ (~rail'.stale => ListIsFollowed')
  BY <1>1, <1>2, <1>3, <1>4, DialogStart DEF Rail!DialogOps
<1>6. /\ asked[k].step = "free" /\ asked'[k] = s /\ (\A j \in Rail!Calls : j # k => asked'[j] = asked[j])
      /\ rail'.dialog = rail.dialog /\ rail'.links = rail.links /\ rail'.fresh = rail.fresh /\ rail'.late = rail.late
      /\ rail'.busy = rail.busy
  BY <1>1, <1>2, <1>3, <1>4, Started
<1>7. k \notin Asks /\ Asks' = Asks \cup {k} /\ \A j \in Asks : j # k /\ asked'[j] = asked[j]
  BY <1>4, <1>6 DEF Asks, Rail!Waiting, Rail!DialogOps
<1>8. \A j \in Asks : asked[j].op # "shares" /\ asked[j].op # "mint"
  BY <1>1 DEF RailInv, DialogInv, DialogFits, Rail!Loading, Asks
<1>9. DialogFits'
  BY <1>1, <1>4, <1>6, <1>7, <1>8 DEF RailInv, DialogInv, DialogFits
<1>10. ASSUME ~rail'.late PROVE LinksFollow'
  <2>1. LinksFollow
    BY <1>1, <1>6, <1>10 DEF RailInv, DialogInv
  <2>2. Live' = Live /\ \A m : IsDead(m)' <=> IsDead(m)
    BY <1>1, <1>6 DEF Live, IsDead, Rail!LiveLink
  <2>3. \A j \in Rail!Waiting' : asked'[j].op \in Rail!DialogOps => asked'[j].wanted
    BY <1>4, <1>6, <2>1 DEF LinksFollow, Rail!Waiting
  <2>4. \A m \in rail'.links : m \in 1..threads'[rail'.dialog].minted
    BY <1>1, <1>6, <2>1 DEF LinksFollow
  <2>5. \A j \in Asks' :
          /\ asked'[j].op = "revoke" => asked'[j].link \in rail'.links \/ IsDead(asked'[j].link)
          /\ asked'[j].op = "revoke" /\ asked'[j].step = "ok" => IsDead(asked'[j].link)
          /\ ~(asked'[j].op \in {"shares", "mint"} /\ asked'[j].step = "ok")
    BY <1>4, <1>6, <1>7, <1>8, <2>1 DEF LinksFollow
  <2>6. PICK d : d = rail.dialog
    OBVIOUS
  <2>7. rail.fresh /\ Rail!Exists(d) =>
          \/ rail.links = {Live} \ {0}
          \/ \E j \in Asks' : asked'[j].op = "revoke" /\ asked'[j].step \in {"ok", "failed"} /\ Live = 0 /\ rail.links \subseteq {asked'[j].link}
    BY <1>8, <1>7, <2>1, <2>6 DEF LinksFollow
  <2>8. (Rail!Exists(d)' <=> Rail!Exists(d)) /\ rail'.dialog = d
    BY <1>1, <1>6, <2>6 DEF Rail!Exists
  <2>9. Rail!Exists(rail.dialog)' => Rail!Exists(d)
    BY <2>8 DEF Rail!Exists
  <2> QED BY <1>6, <2>2, <2>3, <2>4, <2>5, <2>7, <2>9 DEF LinksFollow
<1> QED BY <1>5, <1>9, <1>10 DEF RailInv, DialogInv

-----------------------------------------------------------------------------
\* What a new term leaves of the given.
LEMMA GivenUpIs ==
  ASSUME SidebarFits, NEW given, given = Rail!GivenUp(asked)
  PROVE  /\ given \in [Rail!Calls -> Rail!Call]
         /\ \A k \in Rail!Calls :
              /\ asked[k].op # "search" \/ asked[k].step = "free" => given[k] = asked[k]
              /\ asked[k].op = "search" /\ asked[k].step = "timer" => given[k] = Rail!Free
              /\ asked[k].op = "search" /\ asked[k].step \notin {"free", "timer"} =>
                   /\ given[k].op = "search" /\ given[k].step = asked[k].step /\ ~given[k].wanted
                   /\ given[k].items = asked[k].items /\ given[k].recent = asked[k].recent /\ given[k].results = asked[k].results
<1>1. asked \in [Rail!Calls -> Rail!Call] /\ Rail!Free \in Rail!Call
  BY RailTypes, FreeCall
<1>2. \A k \in Rail!Calls : given[k] = IF asked[k].op # "search" \/ asked[k].step = "free" THEN asked[k]
                                       ELSE IF asked[k].step = "timer" THEN Rail!Free ELSE [asked[k] EXCEPT !.wanted = FALSE]
  BY DEF Rail!GivenUp
<1>3. given = [k \in Rail!Calls |-> given[k]]
  BY DEF Rail!GivenUp
<1>4. \A q \in Rail!Call : LET g == [q EXCEPT !.wanted = FALSE]
                           IN  /\ g \in Rail!Call /\ g.op = q.op /\ g.step = q.step /\ ~g.wanted
                               /\ g.items = q.items /\ g.recent = q.recent /\ g.results = q.results
  BY DEF Rail!Call
<1>5. \A k \in Rail!Calls : given[k] \in Rail!Call
  BY <1>1, <1>2, <1>4
<1>6. given \in [Rail!Calls -> Rail!Call]
  BY <1>3, <1>5
<1> QED BY <1>1, <1>2, <1>4, <1>6, ZenonT(40)

\* A step that leaves the conversations as they are.
LEMMA StillFits ==
  ASSUME SidebarFits, UNCHANGED threads, asked' \in [Rail!Calls -> Rail!Call], rail' \in Rail!Rail,
         AreMade(rail'.recent), AreMade(rail'.results), rail'.dialog # 0 => threads[rail'.dialog].status # "none",
         \A k \in Rail!Calls : AreMade(asked'[k].items) /\ AreMade(asked'[k].recent) /\ AreMade(asked'[k].results),
         \A k \in Rail!Calls : CallFits(asked'[k])
  PROVE  SidebarFits'
BY DEF SidebarFits, Rail!SidebarTypeOK, AreMade, CallFits

LEMMA SearchStep ==
  ASSUME RailInv, NEW word \in Rail!Titles \cup {0}, Rail!Search(word)
  PROVE  RailInv'
<1>1. /\ SidebarFits /\ rail \in Rail!Rail /\ UNCHANGED threads /\ AreMade({}) /\ AreMade(rail.recent) /\ AreMade(rail.results)
      /\ rail.dialog # 0 => threads[rail.dialog].status # "none"
  BY RailTypes DEF RailInv, Rail!Search, SidebarFits
<1>2. PICK given : given = Rail!GivenUp(asked)
  OBVIOUS
<1>3. PICK r : r = [rail EXCEPT !.term = word, !.moves = @ + 1, !.stale = @ \/ \E k \in Rail!Calls : given[k].step # "free"]
  OBVIOUS
<1>4. rail.moves + 1 \in 0..MaxMoves
  <2>1. rail.moves \in 0..MaxMoves /\ rail.moves < MaxMoves
    BY <1>1 DEF Rail!Search, Rail!Moves, Rail!Rail
  <2> QED BY <2>1, RailNumbers
<1>5. /\ r \in Rail!Rail /\ r.term = word /\ r.recent = rail.recent /\ r.results = rail.results
      /\ r.dialog = rail.dialog /\ r.links = rail.links /\ r.busy = rail.busy /\ r.fresh = rail.fresh /\ r.late = rail.late
      /\ r.stale = (rail.stale \/ \E k \in Rail!Calls : given[k].step # "free")
  BY <1>1, <1>3, <1>4 DEF Rail!Rail, Rail!None
<1>6. /\ word = 0 => rail' = [r EXCEPT !.results = {}, !.of = 0, !.restored = FALSE] /\ asked' = given
      /\ word # 0 => /\ rail' = r
                     /\ \E k \in Rail!Calls : /\ given[k].step = "free"
                                              /\ asked' = [given EXCEPT ![k] = [Rail!Sent("search", 0) EXCEPT !.step = "timer", !.word = word]]
  <2>1. CASE word = 0
    BY <1>2, <1>3, <2>1 DEF Rail!Search, Rail!None
  <2>2. CASE word # 0
    <3> DEFINE free == {k \in Rail!Calls : given[k].step = "free"}
    <3>1. free # {} /\ rail' = r
          /\ asked' = [given EXCEPT ![CHOOSE k \in free : \A j \in free : k <= j]
                                      = [Rail!Sent("search", 0) EXCEPT !.step = "timer", !.word = word]]
      BY <1>2, <1>3, <2>2 DEF Rail!Search, Rail!None
    <3>2. \E k \in free : \A j \in free : k <= j
      <4>1. free \subseteq Nat /\ free # {}
        BY <3>1, RailNumbers DEF Rail!Calls
      <4> HIDE DEF free
      <4> QED BY <4>1, LeastOf
    <3> QED BY <2>2, <3>1, <3>2
  <2> QED BY <2>1, <2>2
<1>7. /\ given \in [Rail!Calls -> Rail!Call]
      /\ \A k \in Rail!Calls :
           /\ asked[k].op # "search" \/ asked[k].step = "free" => given[k] = asked[k]
           /\ asked[k].op = "search" /\ asked[k].step = "timer" => given[k] = Rail!Free
           /\ asked[k].op = "search" /\ asked[k].step \notin {"free", "timer"} =>
                /\ given[k].op = "search" /\ given[k].step = asked[k].step /\ ~given[k].wanted
                /\ given[k].items = asked[k].items /\ given[k].recent = asked[k].recent /\ given[k].results = asked[k].results
  BY <1>1, <1>2, GivenUpIs
<1>8. PICK s : s = [Rail!Sent("search", 0) EXCEPT !.step = "timer", !.word = word]
  OBVIOUS
<1>9. /\ s \in Rail!Call /\ s.op = "search" /\ s.step = "timer" /\ s.word = word
      /\ s.items = {} /\ s.recent = {} /\ s.results = {}
  <2>1. PICK q : q = Rail!Sent("search", 0)
    OBVIOUS
  <2>2. q \in Rail!Call /\ q.op = "search" /\ q.items = {} /\ q.recent = {} /\ q.results = {}
    <3>1. 0 \in 0..MaxChats /\ "search" \in Rail!Ops
      BY RailNumbers DEF Rail!Ops
    <3> QED BY <2>1, <3>1, SentCall, SentIs
  <2>3. s = [q EXCEPT !.step = "timer", !.word = word]
    BY <1>8, <2>1
  <2> QED BY <2>2, <2>3 DEF Rail!Call, Rail!None
<1>10. Rail!Free.op = "recent" /\ Rail!Free.step = "free" /\ Rail!Free.items = {} /\ Rail!Free.recent = {} /\ Rail!Free.results = {}
  BY DEF Rail!Free
<1>11. \A k \in Rail!Calls :
         AreMade(given[k].items) /\ AreMade(given[k].recent) /\ AreMade(given[k].results)
  BY <1>1, <1>7, <1>10 DEF SidebarFits
<1>12. /\ rail' \in Rail!Rail /\ rail'.term = word /\ rail'.recent = rail.recent
       /\ rail'.dialog = rail.dialog /\ rail'.links = rail.links /\ rail'.busy = rail.busy /\ rail'.fresh = rail.fresh
       /\ rail'.late = rail.late /\ rail'.stale = (rail.stale \/ \E k \in Rail!Calls : given[k].step # "free")
       /\ rail'.results = IF word = 0 THEN {} ELSE rail.results
  <2>1. CASE word = 0
    <3>1. rail' = [r EXCEPT !.results = {}, !.of = 0, !.restored = FALSE]
      BY <1>6, <2>1
    <3> QED BY <1>5, <2>1, <3>1 DEF Rail!Rail, Rail!None
  <2>2. CASE word # 0
    BY <1>5, <1>6, <2>2
  <2> QED BY <2>1, <2>2
<1>13. \/ word = 0 /\ asked' = given
       \/ word # 0 /\ \E k \in Rail!Calls : given[k].step = "free" /\ asked' = [given EXCEPT ![k] = s]
  BY <1>6, <1>8
<1>14. /\ asked' \in [Rail!Calls -> Rail!Call]
       /\ \A k \in Rail!Calls : asked'[k] = given[k] \/ (word # 0 /\ given[k].step = "free" /\ asked'[k] = s)
       /\ word # 0 => \E k \in Rail!Calls : asked'[k] = s /\ \A j \in Rail!Calls : j # k => asked'[j] = given[j]
  <2>1. CASE word = 0
    BY <1>7, <1>13, <2>1
  <2>2. CASE word # 0
    <3>1. PICK k \in Rail!Calls : given[k].step = "free" /\ asked' = [given EXCEPT ![k] = s]
      BY <1>13, <2>2
    <3>2. asked'[k] = s /\ \A j \in Rail!Calls : j # k => asked'[j] = given[j]
      BY <1>7, <3>1
    <3> QED BY <1>7, <1>9, <2>2, <3>1, <3>2
  <2> QED BY <2>1, <2>2
<1>15. SidebarFits'
  <2>1. \A k \in Rail!Calls : AreMade(asked'[k].items) /\ AreMade(asked'[k].recent) /\ AreMade(asked'[k].results)
    <3> SUFFICES ASSUME NEW k \in Rail!Calls
                 PROVE  AreMade(asked'[k].items) /\ AreMade(asked'[k].recent) /\ AreMade(asked'[k].results)
      OBVIOUS
    <3>1. CASE asked'[k] = given[k]
      BY <1>11, <3>1
    <3>2. CASE asked'[k] = s
      BY <1>1, <1>9, <3>2
    <3> QED BY <1>14, <3>1, <3>2
  <2>2. AreMade(rail'.recent) /\ AreMade(rail'.results) /\ (rail'.dialog # 0 => threads[rail'.dialog].status # "none")
    <3>1. rail'.results = {} \/ rail'.results = rail.results
      BY <1>12
    <3>2. AreMade(rail'.results)
      BY <1>1, <3>1 DEF AreMade
    <3> QED BY <1>1, <1>12, <3>2 DEF AreMade
  <2>3. rail' \in Rail!Rail /\ asked' \in [Rail!Calls -> Rail!Call] /\ SidebarFits /\ UNCHANGED threads
    BY <1>1, <1>12, <1>14
  <2>4. \A k \in Rail!Calls : CallFits(asked'[k])
    <3>1. \A k \in Rail!Calls : CallFits(given[k])
      BY <1>7, <1>10, <2>3 DEF SidebarFits, CallFits
    <3>2. CallFits(s)
      BY <1>9 DEF CallFits
    <3> QED BY <1>14, <3>1, <3>2
  <2> QED BY <2>1, <2>2, <2>3, <2>4, StillFits
<1>16. \A k \in Searches' : asked'[k] = s /\ word # 0
  <2>1. \A k \in Rail!Calls : given[k].op = "search" /\ given[k].step # "free" => ~given[k].wanted
    BY <1>7, <1>10
  <2> QED BY <1>14, <2>1 DEF Searches, Rail!Waiting
<1>17. TermIsSearched'
  <2>1. word # 0 => Searches' # {}
    <3>1. s.wanted
      BY <1>8, SentIs DEF Rail!Sent, Rail!Free
    <3> QED BY <1>9, <1>14, <3>1 DEF Searches, Rail!Waiting
  <2> QED BY <1>9, <1>12, <1>16, <2>1 DEF TermIsSearched
<1>18. DialogInv'
  <2>1. OfDialog' = OfDialog /\ \A k \in OfDialog : asked'[k] = asked[k]
    BY <1>7, <1>9, <1>10, <1>14 DEF OfDialog, Rail!Waiting, Rail!DialogOps
  <2>2. rail.dialog # 0 => /\ threads'[rail.dialog].minted = threads[rail.dialog].minted
                           /\ threads'[rail.dialog].shared = threads[rail.dialog].shared
                           /\ Rail!Exists(rail.dialog)' <=> Rail!Exists(rail.dialog)
    <3>1. KeepsThreads
      BY <1>1, SameThreads
    <3>2. rail.dialog \in 0..MaxChats
      BY <1>1, RailTypes
    <3> QED BY <1>12, <3>1, <3>2, <1>1 DEF KeepsThreads, Rail!ChatIds, Rail!Exists
  <2> QED BY <1>12, <2>1, <2>2, DialogKeeps DEF RailInv
<1>19. ASSUME ~rail'.stale PROVE ListIsFollowed'
  <2>1. ~rail.stale /\ (\A k \in Rail!Calls : given[k].step = "free") /\ ListIsFollowed
    BY <1>12, <1>19 DEF RailInv
  <2>2. rail.recent = Rail!Listed /\ rail.results \subseteq Rail!Listed
    <3>1. CASE Rail!Waiting = {}
      BY <2>1, <3>1 DEF ListIsFollowed
    <3>2. ASSUME NEW k \in Rail!Waiting PROVE rail.recent = Rail!Listed /\ rail.results \subseteq Rail!Listed
      <4>1. asked[k].op = "search" /\ asked[k].step = "timer" /\ ListFollows(asked[k])
        BY <1>7, <2>1 DEF Rail!Waiting, ListIsFollowed
      <4> QED BY <4>1 DEF ListFollows
    <3> QED BY <3>1, <3>2
  <2>3. Rail!Listed' = Rail!Listed
    BY <1>1 DEF Rail!Listed
  <2>4. rail'.recent = Rail!Listed' /\ rail'.results \subseteq Rail!Listed'
    BY <1>12, <2>2, <2>3
  <2>5. \A j, k \in Rail!Waiting' : j = k
    BY <1>14, <2>1 DEF Rail!Waiting
  <2>6. ASSUME NEW k \in Rail!Waiting' PROVE ListFollows(asked[k])'
    <3>1. asked'[k].op = "search" /\ asked'[k].step = "timer"
      BY <1>9, <1>14, <2>1 DEF Rail!Waiting
    <3> QED BY <2>4, <3>1 DEF ListFollows
  <2> QED BY <2>4, <2>5, <2>6 DEF ListIsFollowed
<1> QED BY <1>15, <1>17, <1>18, <1>19 DEF RailInv

LEMMA PausedStep ==
  ASSUME RailInv, NEW k \in Rail!Calls, Rail!Paused(k)
  PROVE  RailInv'
<1>1. /\ SidebarFits /\ UNCHANGED <<threads, rail>> /\ asked[k].step = "timer" /\ asked[k].op = "search"
      /\ asked \in [Rail!Calls -> Rail!Call] /\ asked' = [asked EXCEPT ![k].step = "sent"]
  BY RailTypes DEF RailInv, SidebarFits, CallFits, Rail!Paused
<1>2. /\ asked' \in [Rail!Calls -> Rail!Call] /\ asked'[k].step = "sent" /\ asked'[k].op = "search"
      /\ asked'[k].wanted = asked[k].wanted /\ asked'[k].word = asked[k].word
      /\ asked'[k].items = asked[k].items /\ asked'[k].recent = asked[k].recent /\ asked'[k].results = asked[k].results
      /\ \A j \in Rail!Calls : j # k => asked'[j] = asked[j]
  BY <1>1 DEF Rail!Call
<1>3. SidebarFits'
  BY <1>1, <1>2 DEF SidebarFits, Rail!SidebarTypeOK, AreMade, CallFits
<1>4. Rail!Waiting' = Rail!Waiting
  BY <1>1, <1>2 DEF Rail!Waiting
<1>5. TermIsSearched'
  <2>1. Searches' = Searches /\ \A j \in Searches : asked'[j].word = asked[j].word
    BY <1>1, <1>2, <1>4 DEF Searches, Rail!Waiting
  <2> QED BY <1>1, <2>1, TermKeeps DEF RailInv
<1>6. DialogInv'
  <2>1. OfDialog' = OfDialog /\ \A j \in OfDialog : asked'[j] = asked[j]
    BY <1>1, <1>2, <1>4 DEF OfDialog, Rail!Waiting, Rail!DialogOps
  <2> QED BY <1>1, <2>1, DialogKeeps DEF RailInv, Rail!Exists
<1>7. ASSUME ~rail'.stale PROVE ListIsFollowed'
  <2>1. ListIsFollowed /\ Rail!Listed' = Rail!Listed
    BY <1>1, <1>7 DEF RailInv, Rail!Listed
  <2>2. \A j \in Rail!Waiting : j = k
    BY <1>1, <2>1 DEF ListIsFollowed, Rail!Waiting
  <2>3. rail.recent = Rail!Listed /\ rail.results \subseteq Rail!Listed
    BY <1>1, <2>1 DEF ListIsFollowed, ListFollows, Rail!Waiting
  <2>4. ListFollows(asked[k])'
    BY <1>1, <1>2, <2>1, <2>3 DEF ListFollows
  <2> QED BY <1>1, <1>4, <2>1, <2>2, <2>4 DEF ListIsFollowed
<1> QED BY <1>3, <1>5, <1>6, <1>7 DEF RailInv

LEMMA StartRenameStep ==
  ASSUME RailInv, NEW c \in Rail!ChatIds, Rail!StartRename(c)
  PROVE  RailInv'
<1>1. /\ SidebarFits /\ UNCHANGED <<threads, asked>> /\ rail \in Rail!Rail /\ rail.moves < MaxMoves
      /\ rail' = [rail EXCEPT !.editing = c, !.moves = @ + 1]
  BY RailTypes DEF RailInv, Rail!StartRename, Rail!Moves
<1>2. rail.moves + 1 \in 0..MaxMoves /\ c \in 0..MaxChats
  <2>1. rail.moves \in 0..MaxMoves
    BY <1>1 DEF Rail!Rail
  <2> QED BY <1>1, <2>1, RailNumbers DEF Rail!ChatIds
<1>3. /\ rail' \in Rail!Rail /\ rail'.recent = rail.recent /\ rail'.results = rail.results /\ rail'.term = rail.term
      /\ rail'.of = rail.of /\ rail'.dialog = rail.dialog /\ rail'.links = rail.links /\ rail'.busy = rail.busy
      /\ rail'.fresh = rail.fresh /\ rail'.late = rail.late /\ rail'.restored = rail.restored /\ rail'.stale = rail.stale
  BY <1>1, <1>2 DEF Rail!Rail
<1>4. SidebarFits'
  BY <1>1, <1>3 DEF SidebarFits, Rail!SidebarTypeOK, AreMade, CallFits
<1>5. TermIsSearched'
  <2>1. Searches' = Searches
    BY <1>1 DEF Searches, Rail!Waiting
  <2> QED BY <1>1, <1>3, <2>1, TermKeeps DEF RailInv
<1>6. DialogInv'
  <2>1. OfDialog' = OfDialog
    BY <1>1 DEF OfDialog, Rail!Waiting
  <2> QED BY <1>1, <1>3, <2>1, DialogKeeps DEF RailInv, Rail!Exists
<1>7. ASSUME ~rail'.stale PROVE ListIsFollowed'
  BY <1>1, <1>3, <1>7 DEF RailInv, ListIsFollowed, ListFollows, Rail!Listed, Rail!Waiting, Rail!Retitled, Rail!Without
<1> QED BY <1>4, <1>5, <1>6, <1>7 DEF RailInv

LEMMA CloseShareDialogStep ==
  ASSUME RailInv, Rail!CloseShareDialog
  PROVE  RailInv'
<1>1. /\ SidebarFits /\ UNCHANGED threads /\ rail \in Rail!Rail /\ asked \in [Rail!Calls -> Rail!Call]
      /\ rail' = [rail EXCEPT !.dialog = 0, !.links = {}, !.busy = FALSE, !.fresh = FALSE, !.late = FALSE]
      /\ asked' = [k \in Rail!Calls |-> IF asked[k].op \in Rail!DialogOps THEN [asked[k] EXCEPT !.wanted = FALSE] ELSE asked[k]]
  BY RailTypes DEF RailInv, Rail!CloseShareDialog, Rail!None
<1>2. /\ rail' \in Rail!Rail /\ rail'.recent = rail.recent /\ rail'.results = rail.results /\ rail'.term = rail.term
      /\ rail'.of = rail.of /\ rail'.restored = rail.restored /\ rail'.stale = rail.stale
      /\ rail'.dialog = 0 /\ rail'.links = {} /\ ~rail'.busy /\ ~rail'.fresh /\ ~rail'.late
  <2>1. 0 \in 0..MaxChats
    BY RailNumbers
  <2> QED BY <1>1, <2>1 DEF Rail!Rail
<1>3. \A q \in Rail!Call : LET g == [q EXCEPT !.wanted = FALSE]
                           IN  /\ g \in Rail!Call /\ g.op = q.op /\ g.step = q.step /\ ~g.wanted /\ g.link = q.link
                               /\ g.items = q.items /\ g.recent = q.recent /\ g.results = q.results
                               /\ g.word = q.word /\ g.chat = q.chat
  BY DEF Rail!Call
<1>4. \A k \in Rail!Calls : /\ asked'[k] \in Rail!Call /\ asked'[k].op = asked[k].op /\ asked'[k].step = asked[k].step
                            /\ asked'[k].link = asked[k].link /\ asked'[k].items = asked[k].items
                            /\ asked'[k].recent = asked[k].recent /\ asked'[k].results = asked[k].results
                            /\ asked'[k].word = asked[k].word /\ asked'[k].chat = asked[k].chat
                            /\ asked[k].op \in Rail!DialogOps => ~asked'[k].wanted
                            /\ asked[k].op \notin Rail!DialogOps => asked'[k] = asked[k]
  BY <1>1, <1>3
<1>5. asked' \in [Rail!Calls -> Rail!Call]
  BY <1>1, <1>4
<1>6. SidebarFits'
  BY <1>1, <1>2, <1>4, <1>5 DEF SidebarFits, Rail!SidebarTypeOK, AreMade, CallFits
<1>7. TermIsSearched'
  <2>1. Searches' = Searches /\ \A k \in Searches : asked'[k].word = asked[k].word
    BY <1>4 DEF Searches, Rail!Waiting, Rail!DialogOps
  <2> QED BY <1>2, <2>1, TermKeeps DEF RailInv
<1>8. DialogInv'
  <2>1. Asks' = {}
    BY <1>4 DEF Asks, Rail!Waiting
  <2> QED BY <1>2, <2>1 DEF DialogInv, DialogFits
<1>9. ASSUME ~rail'.stale PROVE ListIsFollowed'
  <2>1. ListIsFollowed /\ Rail!Listed' = Rail!Listed /\ Rail!Waiting' = Rail!Waiting
    BY <1>1, <1>2, <1>4, <1>9 DEF RailInv, Rail!Listed, Rail!Waiting
  <2>2. \A k \in Rail!Calls : ListFollows(asked[k]) => ListFollows(asked[k])'
    BY <1>2, <1>4, <2>1 DEF ListFollows, Rail!Retitled, Rail!Without
  <2> QED BY <1>2, <2>1, <2>2 DEF ListIsFollowed, Rail!Waiting
<1> QED BY <1>6, <1>7, <1>8, <1>9 DEF RailInv

-----------------------------------------------------------------------------
\* What the server does when it grants a request.
Grants(call) ==
  /\ call.op \in {"recent", "search", "shares"} => UNCHANGED threads
  /\ call.op \notin {"recent", "search"} =>
       /\ call.chat \in Rail!ChatIds /\ Rail!Exists(call.chat)
       /\ \A d \in Rail!ChatIds : d # call.chat => threads'[d] = threads[d]
       /\ call.op \notin {"archive", "delete"} => threads'[call.chat].status = threads[call.chat].status
       /\ call.op # "rename" => threads'[call.chat].title = threads[call.chat].title
       /\ call.op # "mint" => threads'[call.chat].minted = threads[call.chat].minted
       /\ call.op \in {"rename", "archive"} => threads'[call.chat].shared = threads[call.chat].shared
  /\ call.op = "rename" => threads'[call.chat].title = call.word
  /\ call.op = "archive" => threads'[call.chat].status = "archived"
  /\ call.op = "delete" => threads'[call.chat].status = "gone" /\ ~threads'[call.chat].shared
  /\ call.op = "mint" => /\ threads'[call.chat].shared
                         /\ threads'[call.chat].minted = IF threads[call.chat].shared THEN threads[call.chat].minted
                                                         ELSE threads[call.chat].minted + 1
  /\ call.op = "revoke" => /\ Rail!LiveLink(threads, call.chat) = call.link /\ ~threads'[call.chat].shared

LEMMA GrantedIs ==
  ASSUME SidebarFits, NEW k \in Rail!Calls, threads' \in Rail!Granted(asked[k])
  PROVE  Grants(asked[k]) /\ threads' \in [Rail!ChatIds -> Rail!Thread]
<1>1. PICK q : q = asked[k]
  OBVIOUS
<1>2. /\ q \in Rail!Call /\ CallFits(q) /\ threads' \in Rail!Granted(q)
      /\ threads \in [Rail!ChatIds -> Rail!Thread]
  BY <1>1, RailTypes DEF SidebarFits
<1>3. /\ q.op \notin {"recent", "search"} => q.chat \in Rail!ChatIds
      /\ q.op = "rename" => q.word \in Rail!Titles
      /\ q.op \in Rail!Ops
  BY <1>2, RailNumbers DEF Rail!Call, CallFits, Rail!ChatIds, Rail!Titles, Rail!None
<1>4. CASE q.op \in {"recent", "search"}
  <2>1. UNCHANGED threads
    BY <1>2, <1>4 DEF Rail!Granted
  <2> QED BY <1>1, <1>2, <1>4, <2>1 DEF Grants
<1>5. CASE q.op \notin {"recent", "search"}
  <2>1. PICK c \in Rail!ChatIds : c = q.chat
    BY <1>3, <1>5
  <2>2. Rail!Exists(c) /\ threads[c] \in Rail!Thread /\ threads[c].minted \in 0..MaxLinks
    BY <1>2, <1>3, <1>5, <2>1 DEF Rail!Granted, Rail!Ops, Rail!DialogOps, Rail!Thread
  <2>3. CASE q.op = "rename"
    <3>1. threads' = [threads EXCEPT ![c].title = q.word]
      BY <1>2, <2>1, <2>2, <2>3 DEF Rail!Granted
    <3>2. threads' \in [Rail!ChatIds -> Rail!Thread]
      BY <1>2, <1>3, <2>3, <3>1 DEF Rail!Thread
    <3> QED BY <1>1, <1>2, <2>1, <2>2, <2>3, <3>1, <3>2 DEF Grants, Rail!Thread
  <2>4. CASE q.op = "archive"
    <3>1. threads' = [threads EXCEPT ![c].status = "archived"]
      BY <1>2, <2>1, <2>2, <2>4 DEF Rail!Granted
    <3>2. threads' \in [Rail!ChatIds -> Rail!Thread]
      BY <1>2, <3>1 DEF Rail!Thread
    <3> QED BY <1>1, <1>2, <2>1, <2>2, <2>4, <3>1, <3>2 DEF Grants, Rail!Thread
  <2>5. CASE q.op = "delete"
    <3>1. threads' = [threads EXCEPT ![c].status = "gone", ![c].shared = FALSE]
      BY <1>2, <2>1, <2>2, <2>5 DEF Rail!Granted
    <3>2. threads' \in [Rail!ChatIds -> Rail!Thread]
      BY <1>2, <3>1 DEF Rail!Thread
    <3> QED BY <1>1, <1>2, <2>1, <2>2, <2>5, <3>1, <3>2 DEF Grants, Rail!Thread
  <2>6. CASE q.op = "shares"
    <3>1. UNCHANGED threads
      BY <1>2, <2>1, <2>2, <2>6 DEF Rail!Granted
    <3> QED BY <1>1, <1>2, <2>1, <2>2, <2>6, <3>1 DEF Grants
  <2>7. CASE q.op = "mint" /\ threads[c].shared
    <3>1. UNCHANGED threads
      BY <1>2, <2>1, <2>2, <2>7 DEF Rail!Granted
    <3> QED BY <1>1, <1>2, <2>1, <2>2, <2>7, <3>1 DEF Grants
  <2>8. CASE q.op = "mint" /\ ~threads[c].shared
    <3>1. threads[c].minted < MaxLinks /\ threads' = [threads EXCEPT ![c].minted = @ + 1, ![c].shared = TRUE]
      BY <1>2, <2>1, <2>2, <2>8 DEF Rail!Granted
    <3>2. threads[c].minted + 1 \in 0..MaxLinks
      BY <2>2, <3>1, RailNumbers
    <3>3. threads' \in [Rail!ChatIds -> Rail!Thread]
      BY <1>2, <3>1, <3>2 DEF Rail!Thread
    <3> QED BY <1>1, <1>2, <2>1, <2>2, <2>8, <3>1, <3>3 DEF Grants, Rail!Thread
  <2>9. CASE q.op = "revoke"
    <3>1. Rail!LiveLink(threads, c) = q.link /\ threads' = [threads EXCEPT ![c].shared = FALSE]
      BY <1>2, <2>1, <2>2, <2>9 DEF Rail!Granted
    <3>2. threads' \in [Rail!ChatIds -> Rail!Thread]
      BY <1>2, <3>1 DEF Rail!Thread
    <3> QED BY <1>1, <1>2, <2>1, <2>2, <2>9, <3>1, <3>2 DEF Grants, Rail!Thread
  <2> QED BY <1>3, <1>5, <2>3, <2>4, <2>5, <2>6, <2>7, <2>8, <2>9 DEF Rail!Ops, Rail!DialogOps
<1> QED BY <1>4, <1>5

\* The server has granted a request, or has not.
Answers(k) ==
  /\ Grants(asked[k]) \/ (UNCHANGED threads /\ asked'[k].step = "failed")
  /\ threads' \in [Rail!ChatIds -> Rail!Thread]
  /\ UNCHANGED rail
  /\ asked[k].step = "sent" /\ asked'[k].step \in {"ok", "failed"}
  /\ asked' \in [Rail!Calls -> Rail!Call] /\ \A j \in Rail!Calls : j # k => asked'[j] = asked[j]
  /\ asked'[k].op = asked[k].op /\ asked'[k].wanted = asked[k].wanted /\ asked'[k].chat = asked[k].chat
  /\ asked'[k].word = asked[k].word /\ asked'[k].recent = asked[k].recent /\ asked'[k].results = asked[k].results
  /\ asked'[k].link = IF asked[k].op \in {"shares", "mint"} /\ asked'[k].step = "ok"
                      THEN Rail!LiveLink(threads', asked[k].chat) ELSE asked[k].link

LEMMA GrantsThreads ==
  ASSUME SidebarFits, NEW k \in Rail!Calls, Answers(k)
  PROVE  /\ \A c \in Rail!ChatIds :
              /\ threads[c].status # "none" => threads'[c].status # "none"
              /\ threads'[c].shared => threads'[c].minted # 0
              /\ threads'[c].minted \in Nat /\ threads[c].minted \in Nat /\ threads[c].minted <= threads'[c].minted
              /\ threads'[c].status \in {"live", "archived"} => threads[c].status \in {"live", "archived"}
         /\ asked[k].op \notin Rail!DialogOps \cup {"delete"} => KeepsThreads
<1>1. \A c \in Rail!ChatIds : /\ threads[c].minted \in Nat /\ threads'[c].minted \in Nat
                              /\ threads[c].shared => threads[c].minted # 0
  BY RailTypes, RailNumbers DEF Rail!Thread, Answers, SidebarFits
<1>2. CASE UNCHANGED threads
  BY <1>1, <1>2, SameThreads
<1>3. CASE Grants(asked[k])
  <2>1. PICK q \in Rail!Call : q = asked[k]
    BY RailTypes
  <2>2. q.op \in Rail!Ops
    BY DEF Rail!Call
  <2>3. CASE q.op \in {"recent", "search", "shares"}
    BY <1>2, <1>3, <2>1, <2>3 DEF Grants
  <2>4. CASE q.op \notin {"recent", "search", "shares"}
    <3>1. PICK c \in Rail!ChatIds : c = q.chat /\ Rail!Exists(c) /\ \A d \in Rail!ChatIds : d # c => threads'[d] = threads[d]
      BY <1>3, <2>1, <2>4 DEF Grants
    <3>2. /\ threads'[c].status # "none" /\ threads[c].minted <= threads'[c].minted
          /\ threads'[c].shared => threads'[c].minted # 0
      BY <1>1, <1>3, <2>1, <2>2, <2>4, <3>1 DEF Grants, Rail!Exists, Rail!Ops, Rail!DialogOps
    <3>3. q.op \notin Rail!DialogOps \cup {"delete"} =>
            /\ threads'[c].minted = threads[c].minted /\ threads'[c].shared = threads[c].shared
            /\ threads'[c].status \in {"live", "archived"}
      BY <1>3, <2>1, <2>2, <2>4, <3>1 DEF Grants, Rail!Exists, Rail!Ops, Rail!DialogOps
    <3> QED BY <1>1, <2>1, <3>1, <3>2, <3>3 DEF KeepsThreads, Rail!Exists, Answers
  <2> QED BY <2>3, <2>4
<1> QED BY <1>2, <1>3 DEF Answers

LEMMA DialogAnswered ==
  ASSUME RailInv, NEW k \in Rail!Calls, Answers(k)
  PROVE  DialogInv'
<1>1. /\ SidebarFits /\ DialogFits /\ UNCHANGED rail /\ rail.dialog \in 0..MaxChats
      /\ asked[k].step = "sent" /\ asked'[k].step \in {"ok", "failed"} /\ asked'[k].op = asked[k].op
      /\ asked'[k].wanted = asked[k].wanted /\ asked'[k].chat = asked[k].chat
      /\ \A j \in Rail!Calls : j # k => asked'[j] = asked[j]
  BY RailTypes DEF RailInv, DialogInv, Answers
<1>2. Rail!Waiting' = Rail!Waiting /\ Asks' = Asks /\ k \in Rail!Waiting
  BY <1>1 DEF Asks, Rail!Waiting
<1>3. \A j \in Asks : asked'[j].chat = asked[j].chat /\ asked'[j].op = asked[j].op
  BY <1>1 DEF Asks, Rail!Waiting
<1>4. DialogFits'
  BY <1>1, <1>2, <1>3 DEF DialogFits
<1>5. ASSUME rail.dialog # 0, ~rail.late PROVE LinksFollow'
  <2>1. PICK d \in Rail!ChatIds : d = rail.dialog
    BY <1>1, <1>5 DEF Rail!ChatIds
  <2>2. LinksFollow
    BY <1>5 DEF RailInv, DialogInv
  <2>3. PICK q \in Rail!Call : q = asked[k]
    BY <1>1, RailTypes
  <2>4. /\ Live = IF threads[d].shared THEN threads[d].minted ELSE 0
        /\ Live' = IF threads'[d].shared THEN threads'[d].minted ELSE 0
    BY <1>1, <2>1 DEF Live, Rail!LiveLink
  <2>5. /\ threads'[d].minted \in Nat /\ threads[d].minted \in Nat /\ threads[d].minted <= threads'[d].minted
        /\ threads'[d].status \in {"live", "archived"} => threads[d].status \in {"live", "archived"}
        /\ threads[d].shared => threads[d].minted # 0
    BY <1>1, GrantsThreads DEF SidebarFits
  <2>6. q.op \in Rail!DialogOps => k \in Asks /\ q.chat = d
    BY <1>1, <1>2, <2>1, <2>2, <2>3 DEF LinksFollow, Asks, DialogFits
  \* What it may have done to the conversation of the dialog.
  <2>7. \/ /\ threads'[d].minted = threads[d].minted /\ threads'[d].shared = threads[d].shared
        \/ q.op = "delete" /\ threads'[d].status = "gone" /\ threads'[d].minted = threads[d].minted /\ ~threads'[d].shared
        \/ q.op = "mint" /\ threads'[d].shared /\ ~threads[d].shared /\ threads'[d].minted = threads[d].minted + 1
        \/ q.op = "revoke" /\ Live = q.link /\ Live' = 0 /\ threads'[d].minted = threads[d].minted
    <3>1. CASE UNCHANGED threads
      BY <3>1
    <3>2. CASE Grants(q) /\ q.op \notin {"recent", "search", "shares"} /\ q.chat = d
      <4>1. q.op \in Rail!Ops
        BY DEF Rail!Call
      <4>2. q.op = "revoke" => Live = q.link /\ ~threads'[d].shared /\ threads'[d].minted = threads[d].minted
        BY <2>1, <3>2 DEF Grants, Live
      <4>3. q.op = "mint" => /\ threads'[d].shared
                             /\ threads'[d].minted = IF threads[d].shared THEN threads[d].minted ELSE threads[d].minted + 1
        BY <3>2 DEF Grants
      <4>4. q.op = "delete" => threads'[d].status = "gone" /\ threads'[d].minted = threads[d].minted /\ ~threads'[d].shared
        BY <3>2 DEF Grants
      <4>5. q.op \in {"rename", "archive"} => threads'[d].minted = threads[d].minted /\ threads'[d].shared = threads[d].shared
        BY <3>2 DEF Grants
      <4> QED BY <2>4, <3>2, <4>1, <4>2, <4>3, <4>4, <4>5 DEF Rail!Ops, Rail!DialogOps
    <3>3. CASE Grants(q) /\ q.op \notin {"recent", "search", "shares"} /\ q.chat # d
      BY <3>3 DEF Grants
    <3>4. CASE Grants(q) /\ q.op \in {"recent", "search", "shares"}
      BY <3>4 DEF Grants
    <3> QED BY <2>3, <3>1, <3>2, <3>3, <3>4 DEF Answers
  <2>8. \A l : IsDead(l) => IsDead(l)'
    <3>1. \A l : IsDead(l) => l \in 1..threads[d].minted /\ l # Live
      BY <2>1 DEF IsDead
    <3>2. \A l : l \in 1..threads'[d].minted /\ l # Live' => IsDead(l)'
      BY <1>1, <2>1 DEF IsDead
    <3>3. \A l : l \in 1..threads[d].minted /\ l # Live => l \in 1..threads'[d].minted /\ l # Live'
      BY <2>4, <2>5, <2>7
    <3> QED BY <3>1, <3>2, <3>3
  <2>9. \A j \in Rail!Waiting' : asked'[j].op \in Rail!DialogOps => asked'[j].wanted
    BY <1>1, <1>2, <2>2 DEF LinksFollow, Rail!Waiting
  <2>10. \A l \in rail.links : l \in 1..threads'[d].minted
    BY <2>1, <2>2, <2>5 DEF LinksFollow
  <2>11. asked'[k].link = IF q.op \in {"shares", "mint"} /\ asked'[k].step = "ok" THEN Rail!LiveLink(threads', q.chat) ELSE q.link
    BY <2>3 DEF Answers
  <2>12. \A j \in Asks : asked[j].op = "revoke" => asked'[j].link = asked[j].link
    BY <1>1, <2>3, <2>11 DEF Asks, Rail!Waiting
  <2>13. \A j \in Asks : asked[j].op = "revoke" => asked[j].link \in rail.links \/ IsDead(asked[j].link)
    BY <2>2 DEF LinksFollow
  <2>14. \A l : l \in rail.links \/ IsDead(l) => l \in 1..threads[d].minted
    BY <2>1, <2>2 DEF LinksFollow, IsDead
  <2>15. \A j \in Asks' : asked'[j].op = "revoke" => asked'[j].link \in rail.links \/ IsDead(asked[j].link)'
    <3>1. \A l : l \in rail.links \/ IsDead(l) => l \in rail.links \/ IsDead(l)'
      BY <2>8
    <3> SUFFICES ASSUME NEW j \in Asks', asked'[j].op = "revoke"
                 PROVE  asked'[j].link \in rail.links \/ IsDead(asked[j].link)'
      OBVIOUS
    <3>2. PICK l : l = asked[j].link
      OBVIOUS
    <3>3. l \in rail.links \/ IsDead(l)'
      BY <1>2, <1>3, <2>13, <3>1, <3>2
    <3>4. asked'[j].link = l
      BY <1>2, <1>3, <2>12, <3>2
    <3> QED BY <3>3, <3>4 DEF IsDead
  <2>16. \A j \in Asks' : asked'[j].op = "revoke" /\ asked'[j].step = "ok" => IsDead(asked[j].link)'
    <3> SUFFICES ASSUME NEW j \in Asks', asked'[j].op = "revoke", asked'[j].step = "ok"
                 PROVE  IsDead(asked[j].link)'
      OBVIOUS
    <3>1. PICK l : l = asked[j].link
      OBVIOUS
    <3>2. asked'[j].link = l /\ asked[j].op = "revoke" /\ j \in Asks
      BY <1>2, <1>3, <2>12, <3>1
    <3>3. IsDead(l)'
      <4>1. CASE j # k
        <5>1. IsDead(l)
          BY <1>1, <1>2, <2>2, <3>1, <3>2, <4>1 DEF LinksFollow, Asks, Rail!Waiting
        <5> QED BY <2>8, <5>1
      <4>2. CASE j = k
        <5>1. Grants(q) /\ q.op = "revoke" /\ q.chat = d /\ q.link = l
          BY <1>1, <2>3, <2>6, <3>1, <3>2, <4>2 DEF Answers, Rail!DialogOps
        <5>2. Live = l /\ ~threads'[d].shared /\ threads'[d].minted = threads[d].minted
          BY <2>1, <5>1 DEF Grants, Live
        <5>3. l \in 1..threads'[d].minted /\ Live' = 0
          BY <2>4, <2>13, <2>14, <3>1, <3>2, <5>2
        <5> QED BY <1>1, <2>1, <5>3 DEF IsDead
      <4> QED BY <4>1, <4>2
    <3> QED BY <3>2, <3>3 DEF IsDead
  <2>17. \A j \in Asks' : asked'[j].op \in {"shares", "mint"} /\ asked'[j].step = "ok" =>
           /\ asked'[j].link \in 0..threads'[d].minted
           /\ threads'[d].status \in {"live", "archived"} => asked'[j].link = Live'
    <3> SUFFICES ASSUME NEW j \in Asks, asked[j].op \in {"shares", "mint"}, asked'[j].step = "ok"
                 PROVE  /\ asked'[j].link \in 0..threads'[d].minted
                        /\ threads'[d].status \in {"live", "archived"} => asked'[j].link = Live'
      BY <1>2, <1>3
    <3>1. CASE j = k
      <4>1. asked'[j].link = Live'
        BY <2>3, <2>4, <2>6, <2>11, <3>1 DEF Rail!LiveLink, Rail!DialogOps
      <4> QED BY <2>4, <2>5, <4>1
    <3>2. CASE j # k
      <4>1. /\ asked'[j] = asked[j] /\ asked[j].link \in 0..threads[d].minted
            /\ threads[d].status \in {"live", "archived"} => asked[j].link = Live
        BY <1>1, <2>1, <2>2, <3>2 DEF LinksFollow, Asks, Rail!Waiting, Rail!Exists
      <4>2. q.op # "mint" /\ ~(q.op = "revoke" /\ Live = q.link)
        <5>1. q.op \in Rail!DialogOps => asked[j].op = "mint" /\ rail.links = {} /\ q.op # "mint"
          BY <1>1, <2>3, <2>6, <3>2 DEF DialogFits
        <5>2. q.op = "revoke" => q.link \in rail.links \/ IsDead(q.link)
          BY <2>3, <2>6, <2>13 DEF Rail!DialogOps
        <5> QED BY <5>1, <5>2 DEF IsDead, Rail!DialogOps
      <4> QED BY <2>4, <2>5, <2>7, <4>1, <4>2
    <3> QED BY <3>1, <3>2
  <2>18. ASSUME rail.fresh, threads'[d].status \in {"live", "archived"}
         PROVE  \/ rail.links = {Live'} \ {0}
                \/ \E j \in Asks' : asked'[j].op = "mint"
                \/ \E j \in Asks' : /\ asked'[j].op = "revoke" /\ asked'[j].step \in {"ok", "failed"}
                                     /\ Live' = 0 /\ rail.links \subseteq {asked'[j].link}
    <3>1. q.op = "mint" => \E j \in Asks' : asked'[j].op = "mint"
      BY <1>2, <1>3, <2>3, <2>6 DEF Rail!DialogOps
    <3>2. CASE rail.links = {Live} \ {0}
      <4>1. CASE q.op = "revoke" /\ Live = q.link /\ Live' = 0
        BY <1>1, <1>2, <1>3, <2>3, <2>6, <2>12, <3>2, <4>1 DEF Rail!DialogOps
      <4>2. CASE ~(q.op = "revoke" /\ Live = q.link /\ Live' = 0)
        BY <2>4, <2>7, <2>18, <3>1, <3>2, <4>2
      <4> QED BY <4>1, <4>2
    <3>3. CASE \E j \in Asks : asked[j].op = "mint"
      BY <1>2, <1>3, <3>3
    <3>4. ASSUME NEW j \in Asks, asked[j].op = "revoke", asked[j].step \in {"ok", "failed"}, Live = 0, rail.links \subseteq {asked[j].link}
          PROVE  \/ \E i \in Asks' : asked'[i].op = "mint"
                 \/ asked'[j].op = "revoke" /\ asked'[j].step \in {"ok", "failed"} /\ Live' = 0 /\ rail.links \subseteq {asked'[j].link}
      <4>1. j # k /\ asked'[j] = asked[j]
        BY <1>1, <3>4 DEF Asks, Rail!Waiting
      <4>2. q.op # "mint" => Live' = 0
        BY <2>4, <2>5, <2>7, <2>18, <3>4
      <4> QED BY <3>1, <3>4, <4>1, <4>2
    <3>5. Rail!Exists(rail.dialog)
      BY <2>1, <2>5, <2>18 DEF Rail!Exists
    <3> QED BY <1>2, <2>2, <2>18, <3>2, <3>3, <3>4, <3>5 DEF LinksFollow
  <2>19. (Rail!Exists(rail.dialog)' <=> threads'[d].status \in {"live", "archived"}) /\ rail' = rail
    BY <1>1, <2>1 DEF Rail!Exists
  <2> QED BY <2>1, <2>9, <2>10, <2>15, <2>16, <2>17, <2>18, <2>19 DEF LinksFollow
<1> QED BY <1>1, <1>4, <1>5 DEF DialogInv

LEMMA AnswersKeep ==
  ASSUME RailInv, NEW k \in Rail!Calls, Answers(k), \A i \in asked'[k].items : threads[i.id].status # "none"
  PROVE  SidebarFits' /\ TermIsSearched' /\ DialogInv'
<1>1. /\ SidebarFits /\ UNCHANGED rail /\ rail \in Rail!Rail /\ asked[k].step = "sent" /\ asked'[k].step \in {"ok", "failed"}
      /\ asked' \in [Rail!Calls -> Rail!Call] /\ asked'[k].op = asked[k].op /\ asked'[k].wanted = asked[k].wanted
      /\ asked'[k].chat = asked[k].chat /\ asked'[k].word = asked[k].word /\ asked'[k].recent = asked[k].recent
      /\ asked'[k].results = asked[k].results /\ \A j \in Rail!Calls : j # k => asked'[j] = asked[j]
      /\ threads' \in [Rail!ChatIds -> Rail!Thread]
  BY RailTypes DEF RailInv, Answers
<1>2. \A c \in Rail!ChatIds : threads[c].status # "none" => threads'[c].status # "none"
  BY <1>1, GrantsThreads
<1>3. \A items \in SUBSET Rail!Item : AreMade(items) => AreMade(items)'
  BY <1>2, MadeStay
<1>4. AreMade(rail.recent)' /\ AreMade(rail.results)'
  <2>1. PICK x \in SUBSET Rail!Item : x = rail.recent
    BY <1>1 DEF Rail!Rail
  <2>2. PICK y \in SUBSET Rail!Item : y = rail.results
    BY <1>1 DEF Rail!Rail
  <2>3. AreMade(x)' /\ AreMade(y)'
    BY <1>1, <1>3, <2>1, <2>2 DEF SidebarFits
  <2> QED BY <1>1, <2>1, <2>2, <2>3 DEF AreMade
<1>5. \A j \in Rail!Calls : AreMade(asked[j].items)' /\ AreMade(asked[j].recent)' /\ AreMade(asked[j].results)'
  <2> SUFFICES ASSUME NEW j \in Rail!Calls
               PROVE  AreMade(asked[j].items)' /\ AreMade(asked[j].recent)' /\ AreMade(asked[j].results)'
    OBVIOUS
  <2>1. PICK x \in SUBSET Rail!Item : x = asked'[j].items
    BY <1>1 DEF Rail!Call
  <2>2. PICK y \in SUBSET Rail!Item : y = asked'[j].recent
    BY <1>1 DEF Rail!Call
  <2>3. PICK z \in SUBSET Rail!Item : z = asked'[j].results
    BY <1>1 DEF Rail!Call
  <2>4. AreMade(x) /\ AreMade(y) /\ AreMade(z)
    <3>1. AreMade(y) /\ AreMade(z)
      <4>1. y = asked[j].recent /\ z = asked[j].results
        BY <1>1, <2>2, <2>3
      <4> QED BY <1>1, <4>1 DEF SidebarFits
    <3>2. CASE j = k
      BY <2>1, <3>1, <3>2 DEF AreMade
    <3>3. CASE j # k
      <4>1. x = asked[j].items
        BY <1>1, <2>1, <3>3
      <4> QED BY <1>1, <3>1, <4>1 DEF SidebarFits
    <3> QED BY <3>2, <3>3
  <2>5. AreMade(x)' /\ AreMade(y)' /\ AreMade(z)'
    BY <1>3, <2>4
  <2> QED BY <2>1, <2>2, <2>3, <2>5 DEF AreMade
<1>6. \A c \in Rail!ChatIds : threads'[c].shared => threads'[c].minted # 0
  BY <1>1, GrantsThreads
<1>7. CallFits(asked'[k])
  <2>1. CallFits(asked[k])
    BY <1>1 DEF SidebarFits
  <2>2. asked[k].op = "mint" /\ asked'[k].step = "ok" => asked'[k].link # 0
    <3> SUFFICES ASSUME asked[k].op = "mint", asked'[k].step = "ok" PROVE asked'[k].link # 0
      OBVIOUS
    <3>1. Grants(asked[k]) /\ asked'[k].link = Rail!LiveLink(threads', asked[k].chat)
      BY DEF Answers
    <3>2. threads'[asked[k].chat].shared /\ asked[k].chat \in Rail!ChatIds
      BY <3>1 DEF Grants
    <3> QED BY <1>6, <3>1, <3>2 DEF Rail!LiveLink
  <2> QED BY <1>1, <2>1, <2>2 DEF CallFits
<1>8. \A j \in Rail!Calls : CallFits(asked'[j])
  BY <1>1, <1>7 DEF SidebarFits
<1>9. rail'.dialog # 0 => threads'[rail'.dialog].status # "none"
  <2>1. rail.dialog # 0 => rail.dialog \in Rail!ChatIds
    BY <1>1, RailTypes DEF Rail!ChatIds
  <2> QED BY <1>1, <1>2, <2>1 DEF SidebarFits
<1>10. SidebarFits'
  BY <1>1, <1>4, <1>5, <1>6, <1>8, <1>9 DEF SidebarFits, Rail!SidebarTypeOK, CallFits
<1>11. TermIsSearched'
  <2>1. Searches' = Searches /\ \A j \in Searches : asked'[j].word = asked[j].word
    BY <1>1 DEF Searches, Rail!Waiting
  <2> QED BY <1>1, <2>1, TermKeeps DEF RailInv
<1> QED BY <1>10, <1>11, DialogAnswered

LEMMA ListAnswered ==
  ASSUME RailInv, NEW k \in Rail!Calls, Answers(k), ~rail.stale,
         asked'[k].step = "ok" /\ asked[k].op = "recent" => asked'[k].items = Rail!Listed,
         asked'[k].step = "ok" /\ asked[k].op = "search" => asked'[k].items \subseteq Rail!Listed
  PROVE  ListIsFollowed'
<1>1. /\ SidebarFits /\ UNCHANGED rail /\ asked[k].step = "sent" /\ asked'[k].step \in {"ok", "failed"}
      /\ asked'[k].op = asked[k].op /\ asked'[k].chat = asked[k].chat
      /\ \A j \in Rail!Calls : j # k => asked'[j] = asked[j]
      /\ threads \in [Rail!ChatIds -> Rail!Thread] /\ threads' \in [Rail!ChatIds -> Rail!Thread]
  BY RailTypes DEF RailInv, Answers
<1>2. ListIsFollowed
  BY DEF RailInv
<1>3. Rail!Waiting' = Rail!Waiting /\ \A j \in Rail!Waiting : j = k
  BY <1>1, <1>2 DEF Rail!Waiting, ListIsFollowed
<1>4. k \in Rail!Waiting /\ ListFollows(asked[k])
  BY <1>1, <1>2 DEF Rail!Waiting, ListIsFollowed
<1>5. CASE asked'[k].step = "failed"
  BY <1>3, <1>4, <1>5 DEF ListIsFollowed, ListFollows
<1>6. CASE asked'[k].step = "ok"
  <2>1. PICK q \in Rail!Call : q = asked[k]
    BY <1>1, RailTypes
  <2>2. Grants(q) /\ q.step = "sent" /\ q.op \in Rail!Ops
    BY <1>1, <1>6, <2>1 DEF Answers, Rail!Call
  <2>3. PICK before : before = Rail!Listed
    OBVIOUS
  <2>4. PICK after : after = Rail!Listed'
    OBVIOUS
  <2>5. q.op = "rename" => rail.recent = Rail!Retitled(before, q.chat, q.word) /\ rail.results \subseteq Rail!Retitled(before, q.chat, q.word)
    BY <1>4, <2>1, <2>2, <2>3 DEF ListFollows
  <2>6. q.op = "recent" => rail.results \subseteq before
    BY <1>4, <2>1, <2>2, <2>3 DEF ListFollows
  <2>7. q.op \notin {"recent", "rename"} => rail.recent = before /\ rail.results \subseteq before
    BY <1>4, <2>1, <2>2, <2>3 DEF ListFollows
  <2>8. q.op \in {"recent", "search", "shares"} => after = before
    BY <2>2, <2>3, <2>4 DEF Grants, Rail!Listed
  <2>9. /\ before \in SUBSET Rail!Item /\ \A i \in Rail!Item : i \in before <=> threads[i.id].status = "live" /\ i.title = threads[i.id].title
        /\ after \in SUBSET Rail!Item /\ \A i \in Rail!Item : i \in after <=> threads'[i.id].status = "live" /\ i.title = threads'[i.id].title
    <3>1. Rail!Listed' \in SUBSET Rail!Item /\ \A i \in Rail!Item : i \in Rail!Listed' <=> threads'[i.id].status = "live" /\ i.title = threads'[i.id].title
      <4>1. \A c \in Rail!ChatIds : threads'[c].title \in Rail!Titles
        BY <1>1 DEF Rail!Thread
      <4>2. \A i \in Rail!Item : i = [id |-> i.id, title |-> i.title] /\ i.id \in Rail!ChatIds
        BY DEF Rail!Item
      <4> QED BY <1>1, <4>1, <4>2 DEF Rail!Listed, Rail!Item
    <3> QED BY <1>1, <2>3, <2>4, <3>1, ListedIs
  <2>10. \A i \in Rail!Item : i.id \in Rail!ChatIds
    BY DEF Rail!Item
  <2>11. q.op = "rename" => Rail!Retitled(before, q.chat, q.word) = after
    <3> SUFFICES ASSUME q.op = "rename" PROVE Rail!Retitled(before, q.chat, q.word) = after
      OBVIOUS
    <3>1. PICK c \in Rail!ChatIds : c = q.chat /\ threads'[c].title = q.word /\ threads'[c].status = threads[c].status
                                  /\ \A d \in Rail!ChatIds : d # c => threads'[d] = threads[d]
      BY <2>2 DEF Grants
    <3>2. q.word \in Rail!Titles
      BY <1>1, <3>1 DEF Rail!Thread
    <3>3. Rail!Retitled(before, c, q.word) \in SUBSET Rail!Item
      BY <2>9, <3>2, RetitledIs
    <3>4. ASSUME NEW i \in before PROVE (IF i.id = c THEN [i EXCEPT !.title = q.word] ELSE i) \in after
      <4>1. CASE i.id = c
        <5>1. PICK t \in Rail!Item : t = [i EXCEPT !.title = q.word] /\ t.id = c /\ t.title = q.word
          <6>1. i \in Rail!Item
            BY <2>9
          <6>2. PICK t : t = [i EXCEPT !.title = q.word]
            OBVIOUS
          <6>3. t \in Rail!Item /\ t.id = i.id /\ t.title = q.word
            BY <3>2, <6>1, <6>2 DEF Rail!Item
          <6> QED BY <4>1, <6>2, <6>3
        <5>2. t \in after
          BY <2>9, <3>1, <4>1, <5>1
        <5> QED BY <4>1, <5>1, <5>2
      <4>2. CASE i.id # c
        <5>1. i \in Rail!Item /\ i.id \in Rail!ChatIds /\ threads'[i.id] = threads[i.id]
          BY <2>9, <2>10, <3>1, <4>2
        <5> QED BY <2>9, <4>2, <5>1
      <4> QED BY <4>1, <4>2
    <3>5. ASSUME NEW i \in after PROVE i \in Rail!Retitled(before, c, q.word)
      <4>0. i \in Rail!Item /\ i.id \in Rail!ChatIds
        BY <2>9, <2>10
      <4>1. CASE i.id = c
        <5>1. PICK t \in Rail!Item : t.id = c /\ t.title = threads[c].title /\ [t EXCEPT !.title = q.word] = i
          <6>1. threads[c].title \in Rail!Titles
            BY <1>1 DEF Rail!Thread
          <6>2. PICK t : t = [i EXCEPT !.title = threads[c].title]
            OBVIOUS
          <6>3. t \in Rail!Item /\ t.id = c /\ t.title = threads[c].title
            BY <4>0, <4>1, <6>1, <6>2 DEF Rail!Item
          <6>4. i.title = q.word
            BY <2>9, <3>1, <4>0, <4>1
          <6>5. [t EXCEPT !.title = q.word] = i
            BY <4>0, <6>2, <6>3, <6>4 DEF Rail!Item
          <6> QED BY <6>3, <6>5
        <5>2. t \in before
          BY <2>9, <3>1, <4>0, <4>1, <5>1
        <5> QED BY <5>1, <5>2 DEF Rail!Retitled
      <4>2. CASE i.id # c
        <5>1. i \in before
          BY <2>9, <3>1, <4>0, <4>2
        <5> QED BY <4>2, <5>1 DEF Rail!Retitled
      <4> QED BY <4>1, <4>2
    <3>6. Rail!Retitled(before, c, q.word) \subseteq after
      BY <3>4 DEF Rail!Retitled
    <3> QED BY <3>1, <3>5, <3>6
  <2>12. q.op \in {"archive", "delete"} => Rail!Without(before, q.chat) = after
    <3> SUFFICES ASSUME q.op \in {"archive", "delete"} PROVE Rail!Without(before, q.chat) = after
      OBVIOUS
    <3>1. PICK c \in Rail!ChatIds : c = q.chat /\ threads'[c].status # "live"
                                  /\ \A d \in Rail!ChatIds : d # c => threads'[d] = threads[d]
      BY <2>2 DEF Grants
    <3>2. \A i \in Rail!Item : i \in before /\ i.id # c <=> i \in after
      BY <2>9, <2>10, <3>1
    <3> QED BY <2>9, <3>1, <3>2 DEF Rail!Without
  <2>13. q.op \in {"mint", "revoke"} => after = before
    <3> SUFFICES ASSUME q.op \in {"mint", "revoke"} PROVE after = before
      OBVIOUS
    <3>1. PICK c \in Rail!ChatIds : /\ threads'[c].status = threads[c].status /\ threads'[c].title = threads[c].title
                                  /\ \A d \in Rail!ChatIds : d # c => threads'[d] = threads[d]
      BY <2>2 DEF Grants
    <3>2. \A i \in Rail!Item : i \in before <=> i \in after
      BY <2>9, <2>10, <3>1
    <3> QED BY <2>9, <3>2
  <2>14. ListFollows(asked[k])'
    <3>1. CASE q.op = "recent"
      BY <1>1, <1>6, <2>1, <2>3, <2>4, <2>6, <2>8, <3>1 DEF ListFollows
    <3>2. CASE q.op = "search"
      BY <1>1, <1>6, <2>1, <2>3, <2>4, <2>7, <2>8, <3>2 DEF ListFollows
    <3>3. CASE q.op = "rename"
      BY <1>1, <1>6, <2>1, <2>3, <2>4, <2>5, <2>11, <3>3 DEF ListFollows
    <3>4. CASE q.op \in {"archive", "delete"}
      <4>1. /\ Rail!Without(rail.recent, q.chat) = after
            /\ Rail!Without(rail.results, q.chat) \subseteq after
        BY <2>7, <2>12, <3>4 DEF Rail!Without
      <4>2. /\ Rail!Without(rail'.recent, asked'[k].chat) = Rail!Listed'
            /\ Rail!Without(rail'.results, asked'[k].chat) \subseteq Rail!Listed'
        BY <1>1, <2>1, <2>4, <4>1
      <4> QED BY <1>1, <1>6, <2>1, <3>4, <4>2 DEF ListFollows, Rail!Without
    <3>5. CASE q.op \in Rail!DialogOps
      <4>1. rail'.recent = Rail!Listed' /\ rail'.results \subseteq Rail!Listed'
        BY <1>1, <2>4, <2>7, <2>8, <2>13, <3>5 DEF Rail!DialogOps
      <4>2. asked'[k].op \in {"shares", "mint", "revoke"}
        BY <1>1, <2>1, <3>5 DEF Rail!DialogOps
      <4> QED BY <1>6, <4>1, <4>2 DEF ListFollows
    <3> QED BY <2>2, <3>1, <3>2, <3>3, <3>4, <3>5 DEF Rail!Ops
  <2> QED BY <1>3, <1>4, <2>14 DEF ListIsFollowed
<1> QED BY <1>1, <1>5, <1>6

-----------------------------------------------------------------------------
LEMMA ServeStep ==
  ASSUME RailInv, NEW k \in Rail!Calls, Rail!Serve(k)
  PROVE  RailInv'
<1>1. SidebarFits /\ asked \in [Rail!Calls -> Rail!Call] /\ threads \in [Rail!ChatIds -> Rail!Thread]
  BY RailTypes DEF RailInv
<1>2. PICK q \in Rail!Call : q = asked[k] /\ q.step = "sent"
  BY <1>1 DEF Rail!Serve
<1>3. PICK items : items = CASE q.op = "recent" -> Rail!Listed [] q.op = "search" -> Rail!Found(q.word) [] OTHER -> {}
  OBVIOUS
<1>4. PICK link : link = IF q.op \in {"shares", "mint"} THEN Rail!LiveLink(threads', q.chat) ELSE q.link
  OBVIOUS
<1>5. /\ threads' \in Rail!Granted(q) /\ UNCHANGED rail
      /\ asked' = [asked EXCEPT ![k].step = "ok", ![k].items = items, ![k].link = link]
  BY <1>1, <1>2, <1>3, <1>4 DEF Rail!Serve
<1>6. Grants(q) /\ threads' \in [Rail!ChatIds -> Rail!Thread]
  BY <1>1, <1>2, <1>5, GrantedIs
<1>7. items \in SUBSET Rail!Item /\ items \subseteq Rail!Listed
  BY <1>1, <1>3, ListedIs DEF Rail!Found
<1>8. link \in 0..MaxLinks
  <2>1. CASE q.op \in {"shares", "mint"}
    <3>1. q.chat \in Rail!ChatIds
      BY <1>6, <2>1 DEF Grants
    <3>2. threads'[q.chat].minted \in 0..MaxLinks
      BY <1>6, <3>1 DEF Rail!Thread
    <3> QED BY <1>4, <2>1, <3>2, RailNumbers DEF Rail!LiveLink
  <2>2. CASE q.op \notin {"shares", "mint"}
    BY <1>4, <2>2 DEF Rail!Call
  <2> QED BY <2>1, <2>2
<1>9. PICK s : s = [q EXCEPT !.step = "ok", !.items = items, !.link = link]
  OBVIOUS
<1>10. /\ s \in Rail!Call /\ s.step = "ok" /\ s.items = items /\ s.link = link /\ s.op = q.op /\ s.chat = q.chat /\ s.word = q.word
       /\ s.wanted = q.wanted /\ s.recent = q.recent /\ s.results = q.results
  BY <1>7, <1>8, <1>9 DEF Rail!Call
<1>11. asked' = [asked EXCEPT ![k] = s]
  BY <1>1, <1>2, <1>5, <1>9 DEF Rail!Call
<1>12. Answers(k)
  BY <1>1, <1>2, <1>4, <1>5, <1>6, <1>10, <1>11, ZenonT(40) DEF Answers
<1>13. SidebarFits' /\ TermIsSearched' /\ DialogInv'
  <2>1. \A i \in asked'[k].items : threads[i.id].status # "none"
    BY <1>1, <1>7, <1>10, <1>11, ListedIs DEF AreMade
  <2> QED BY <1>12, <2>1, AnswersKeep
<1>14. ASSUME ~rail'.stale PROVE ListIsFollowed'
  <2>1. ~rail.stale
    BY <1>5, <1>14
  <2>2. asked'[k].items = items
    BY <1>1, <1>10, <1>11
  <2>3. asked[k].op = "recent" => items = Rail!Listed
    BY <1>2, <1>3
  <2> QED BY <1>7, <1>12, <2>1, <2>2, <2>3, ListAnswered
<1> QED BY <1>13, <1>14 DEF RailInv

LEMMA RefuseStep ==
  ASSUME RailInv, NEW k \in Rail!Calls, Rail!Refuse(k)
  PROVE  RailInv'
<1>1. SidebarFits /\ asked \in [Rail!Calls -> Rail!Call] /\ threads \in [Rail!ChatIds -> Rail!Thread]
  BY RailTypes DEF RailInv
<1>2. PICK q \in Rail!Call : q = asked[k] /\ q.step = "sent"
  BY <1>1 DEF Rail!Refuse
<1>3. PICK s : s = [q EXCEPT !.step = "failed"]
  OBVIOUS
<1>4. /\ s \in Rail!Call /\ s.step = "failed" /\ s.items = q.items /\ s.link = q.link /\ s.op = q.op /\ s.chat = q.chat
      /\ s.word = q.word /\ s.wanted = q.wanted /\ s.recent = q.recent /\ s.results = q.results
  BY <1>3 DEF Rail!Call
<1>5. asked' = [asked EXCEPT ![k] = s] /\ UNCHANGED rail /\ threads' \in {threads} \cup Rail!Granted(q)
  BY <1>1, <1>2, <1>3 DEF Rail!Refuse
<1>6. (Grants(q) \/ UNCHANGED threads) /\ threads' \in [Rail!ChatIds -> Rail!Thread]
  BY <1>1, <1>2, <1>5, GrantedIs
<1>7. Answers(k)
  BY <1>1, <1>2, <1>4, <1>5, <1>6 DEF Answers
<1>8. SidebarFits' /\ TermIsSearched' /\ DialogInv'
  <2>1. \A i \in asked'[k].items : threads[i.id].status # "none"
    BY <1>1, <1>2, <1>4, <1>5 DEF SidebarFits, AreMade
  <2> QED BY <1>7, <2>1, AnswersKeep
<1>9. ASSUME ~rail'.stale PROVE ListIsFollowed'
  <2>1. ~rail.stale /\ asked'[k].step = "failed"
    BY <1>1, <1>4, <1>5, <1>9
  <2> QED BY <1>7, <2>1, ListAnswered
<1> QED BY <1>8, <1>9 DEF RailInv

\* A request has been answered, and another may follow it.
Settles(k) ==
  /\ asked[k].step \in {"ok", "failed"} /\ UNCHANGED threads
  /\ asked' \in {[asked EXCEPT ![k] = Rail!Free], [asked EXCEPT ![k] = Rail!Sent("recent", 0)]}

LEMMA DoneFits ==
  ASSUME SidebarFits, NEW k \in Rail!Calls, Settles(k), rail' \in Rail!Rail, AreMade(rail'.recent), AreMade(rail'.results),
         rail'.dialog = rail.dialog
  PROVE  /\ SidebarFits' /\ k \in Rail!Waiting
         /\ Searches' = Searches \ {k} /\ Asks' = Asks \ {k} /\ OfDialog' = OfDialog \ {k}
         /\ asked'[k].op = "recent" /\ \A j \in Rail!Calls : j # k => asked'[j] = asked[j]
<1>1. asked \in [Rail!Calls -> Rail!Call]
  BY RailTypes
<1>2. PICK s \in Rail!Call : /\ asked' = [asked EXCEPT ![k] = s] /\ s.op = "recent" /\ s.step \in {"free", "sent"}
                             /\ s.items = {} /\ s.recent = {} /\ s.results = {}
  <2>1. PICK f : f = Rail!Free
    OBVIOUS
  <2>2. f \in Rail!Call /\ f.op = "recent" /\ f.step = "free" /\ f.items = {} /\ f.recent = {} /\ f.results = {}
    BY <2>1, FreeCall DEF Rail!Free
  <2>3. PICK g : g = Rail!Sent("recent", 0)
    OBVIOUS
  <2>4. g \in Rail!Call /\ g.op = "recent" /\ g.step = "sent" /\ g.items = {} /\ g.recent = {} /\ g.results = {}
    <3>1. "recent" \in Rail!Ops /\ 0 \in 0..MaxChats
      BY RailNumbers DEF Rail!Ops
    <3> QED BY <2>3, <3>1, SentCall, SentIs
  <2> QED BY <2>1, <2>2, <2>3, <2>4 DEF Settles
<1>3. asked' \in [Rail!Calls -> Rail!Call] /\ asked'[k] = s /\ \A j \in Rail!Calls : j # k => asked'[j] = asked[j]
  BY <1>1, <1>2
<1>4. SidebarFits'
  <2>1. CallFits(s)
    BY <1>2 DEF CallFits
  <2>2. \A j \in Rail!Calls : CallFits(asked'[j])
    BY <1>3, <2>1 DEF SidebarFits
  <2>3. \A j \in Rail!Calls : AreMade(asked'[j].items) /\ AreMade(asked'[j].recent) /\ AreMade(asked'[j].results)
    <3> SUFFICES ASSUME NEW j \in Rail!Calls
                 PROVE  AreMade(asked'[j].items) /\ AreMade(asked'[j].recent) /\ AreMade(asked'[j].results)
      OBVIOUS
    <3>1. CASE j = k
      BY <1>2, <1>3, <3>1 DEF AreMade
    <3>2. CASE j # k
      <4>1. AreMade(asked[j].items) /\ AreMade(asked[j].recent) /\ AreMade(asked[j].results)
        BY DEF SidebarFits
      <4> QED BY <1>3, <3>2, <4>1
    <3> QED BY <3>1, <3>2
  <2>4. UNCHANGED threads /\ (rail'.dialog # 0 => threads[rail'.dialog].status # "none")
    BY DEF Settles, SidebarFits
  <2> QED BY <1>3, <2>2, <2>3, <2>4, StillFits
<1> QED BY <1>2, <1>3, <1>4 DEF Settles, Searches, Asks, OfDialog, Rail!Waiting, Rail!DialogOps

LEMMA DoneElsewhere ==
  ASSUME RailInv, NEW k \in Rail!Calls, Settles(k), rail' \in Rail!Rail, AreMade(rail'.recent), AreMade(rail'.results),
         rail'.dialog = rail.dialog, rail'.links = rail.links, rail'.busy = rail.busy, rail'.fresh = rail.fresh,
         rail'.late = rail.late, k \notin Asks
  PROVE  DialogInv'
<1>1. /\ Asks' = Asks /\ OfDialog' = OfDialog \ {k} /\ \A j \in Rail!Calls : j # k => asked'[j] = asked[j]
  BY DoneFits DEF RailInv
<1>2. \A j \in Asks : asked'[j] = asked[j]
  BY <1>1 DEF Asks, Rail!Waiting
<1>3. DialogFits'
  BY <1>1, <1>2 DEF DialogFits, DialogInv, RailInv
<1>4. ASSUME rail.dialog # 0, ~rail.late PROVE DialogInv'
  <2>1. k \notin OfDialog
    BY <1>4 DEF RailInv, DialogInv, LinksFollow, OfDialog, Asks
  <2>2. OfDialog' = OfDialog /\ \A j \in OfDialog : asked'[j] = asked[j]
    BY <1>1, <2>1 DEF OfDialog, Rail!Waiting
  <2>3. Rail!Exists(rail.dialog)' <=> Rail!Exists(rail.dialog)
    BY DEF Rail!Exists, Settles
  <2> QED BY <2>2, <2>3, DialogKeeps DEF RailInv, Settles
<1> QED BY <1>3, <1>4 DEF DialogInv

LEMMA DialogSettles ==
  ASSUME RailInv, NEW k \in Asks, Settles(k), rail' \in Rail!Rail, AreMade(rail'.recent), AreMade(rail'.results),
         rail'.dialog = rail.dialog, rail'.late = rail.late,
         \/ asked[k].step = "ok" /\ asked[k].op = "shares" /\ rail'.links = {asked[k].link} \ {0} /\ rail'.busy = rail.busy /\ rail'.fresh
         \/ asked[k].step = "ok" /\ asked[k].op = "mint" /\ rail'.links = rail.links \cup {asked[k].link} /\ ~rail'.busy /\ rail'.fresh
         \/ asked[k].step = "ok" /\ asked[k].op = "revoke" /\ rail'.links = rail.links \ {asked[k].link}
              /\ rail'.busy = rail.busy /\ rail'.fresh = rail.fresh
         \/ rail'.links = rail.links /\ ~rail'.fresh /\ asked[k].op # "mint" /\ rail'.busy = rail.busy
         \/ rail'.links = rail.links /\ ~rail'.fresh /\ asked[k].op = "mint" /\ ~rail'.busy
  PROVE  DialogInv'
<1>1. /\ SidebarFits /\ DialogFits /\ k \in Rail!Calls /\ Asks' = Asks \ {k} /\ OfDialog' = OfDialog \ {k}
      /\ UNCHANGED threads
  BY DoneFits DEF RailInv, DialogInv, Asks, Rail!Waiting, Settles
<1>2. \A j \in Rail!Calls : j # k => asked'[j] = asked[j]
  BY <1>1, DoneFits
<1>3. PICK q : q = asked[k] /\ q.chat = rail.dialog /\ rail.dialog # 0
  BY <1>1 DEF DialogFits
<1>4. \A j \in Asks' : j \in Asks /\ j # k /\ asked'[j] = asked[j] /\ asked[j].op # "shares"
                      /\ (q.op = "mint" => asked[j].op # "mint") /\ q.op # "shares"
  <2>1. \A j \in Asks : j \in Rail!Calls
    BY DEF Asks, Rail!Waiting
  <2> QED BY <1>1, <1>2, <1>3, <2>1 DEF DialogFits
<1>5. q.op \in {"shares", "mint", "revoke"} /\ (q.op \in {"shares", "mint"} => rail.links = {})
  BY <1>1, <1>3 DEF DialogFits, Asks, Rail!DialogOps
<1>6. DialogFits'
  <2>1. \A j \in Asks' : asked'[j].chat = rail'.dialog /\ asked'[j].op # "shares"
    BY <1>1, <1>4 DEF DialogFits
  <2>2. \A j \in Asks' : asked'[j].op = "mint" => /\ rail'.busy /\ rail'.links = {}
                                                /\ \A i \in Asks' : asked'[i].op = "mint" => i = j
    BY <1>1, <1>3, <1>4, <1>5 DEF DialogFits
  <2> QED BY <1>3, <2>1, <2>2 DEF DialogFits
<1>7. ASSUME ~rail.late PROVE LinksFollow'
  <2>1. PICK d \in Rail!ChatIds : d = rail.dialog
    BY <1>1, <1>3, RailTypes DEF Rail!ChatIds
  <2>2. LinksFollow /\ rail'.dialog = d
    BY <1>3, <1>7, <2>1 DEF RailInv, DialogInv
  <2>3. \A j \in Rail!Waiting' : asked'[j].op \in Rail!DialogOps => asked'[j].wanted
    <3>1. \A j \in OfDialog : asked[j].wanted
      BY <2>2 DEF LinksFollow, OfDialog
    <3>2. \A j \in OfDialog' : j \in OfDialog /\ asked'[j] = asked[j]
      BY <1>1, <1>2 DEF OfDialog, Rail!Waiting
    <3> QED BY <3>1, <3>2 DEF OfDialog
  <2>4. PICK live : live = Live /\ live = Live'
    BY <1>1 DEF Live, Rail!LiveLink
  <2>5. (\A l : IsDead(l) <=> l \in 1..threads[d].minted /\ l # live) /\ (\A l : IsDead(l)' <=> IsDead(l))
    BY <1>1, <2>1, <2>4 DEF IsDead
  <2> DEFINE there == threads[d].status \in {"live", "archived"}
  <2>7. (Rail!Exists(rail.dialog) <=> there) /\ (Rail!Exists(rail.dialog)' <=> there)
    BY <1>1, <2>1 DEF Rail!Exists
  <2> HIDE DEF there
  <2>8. /\ \A l \in rail.links : l \in 1..threads[d].minted
        /\ q.op = "revoke" /\ q.step = "ok" => IsDead(q.link)
        /\ q.op \in {"shares", "mint"} /\ q.step = "ok" => q.link \in 0..threads[d].minted /\ (there => q.link = live)
        /\ rail.fresh /\ there =>
             \/ rail.links = {live} \ {0}
             \/ \E j \in Asks : asked[j].op = "mint"
             \/ \E j \in Asks : /\ asked[j].op = "revoke" /\ asked[j].step \in {"ok", "failed"}
                                /\ live = 0 /\ rail.links \subseteq {asked[j].link}
    BY <1>3, <2>1, <2>2, <2>4, <2>7 DEF LinksFollow
  <2>9. q.op = "mint" /\ q.step = "ok" => q.link # 0 /\ q.link \in 1..threads[d].minted
    <3>1. threads[d].minted \in Nat
      BY <1>1, RailTypes, RailNumbers DEF Rail!Thread
    <3>2. q.op = "mint" /\ q.step = "ok" => q.link # 0
      <4>1. CallFits(q)
        BY <1>1, <1>3 DEF SidebarFits
      <4> QED BY <4>1 DEF CallFits
    <3> QED BY <2>8, <3>1, <3>2
  <2>10. \A l \in rail'.links : l \in 1..threads[d].minted
    <3>1. \A l \in rail'.links : l \in rail.links \/ (l = q.link /\ q.step = "ok" /\ q.op \in {"shares", "mint"} /\ l # 0)
      BY <1>3, <2>9
    <3>2. q.link \in 0..threads[d].minted /\ q.link # 0 => q.link \in 1..threads[d].minted
      <4>1. threads[d].minted \in Nat
        BY <1>1, RailTypes, RailNumbers DEF Rail!Thread
      <4> QED BY <4>1
    <3> QED BY <2>8, <3>1, <3>2
  <2>11. \A j \in Asks' : /\ asked[j].op = "revoke" => asked[j].link \in rail'.links \/ IsDead(asked[j].link)
                          /\ asked[j].op = "revoke" /\ asked[j].step = "ok" => IsDead(asked[j].link)
                          /\ asked[j].op = "mint" /\ asked[j].step = "ok" =>
                               /\ asked[j].link \in 0..threads[d].minted
                               /\ there => asked[j].link = live
    <3> SUFFICES ASSUME NEW j \in Asks'
                 PROVE  /\ asked[j].op = "revoke" => asked[j].link \in rail'.links \/ IsDead(asked[j].link)
                        /\ asked[j].op = "revoke" /\ asked[j].step = "ok" => IsDead(asked[j].link)
                        /\ asked[j].op = "mint" /\ asked[j].step = "ok" =>
                             /\ asked[j].link \in 0..threads[d].minted
                             /\ there => asked[j].link = live
      OBVIOUS
    <3>1. j \in Asks
      BY <1>4
    <3>2. /\ asked[j].op = "revoke" => asked[j].link \in rail.links \/ IsDead(asked[j].link)
          /\ asked[j].op = "revoke" /\ asked[j].step = "ok" => IsDead(asked[j].link)
          /\ asked[j].op = "mint" /\ asked[j].step = "ok" =>
               /\ asked[j].link \in 0..threads[d].minted
               /\ there => asked[j].link = live
      BY <2>1, <2>2, <2>4, <2>7, <3>1 DEF LinksFollow
    <3>3. asked[j].link \in rail.links => asked[j].link \in rail'.links \/ IsDead(asked[j].link)
      BY <1>3, <1>5, <2>8
    <3> QED BY <3>2, <3>3
  <2>12. rail'.fresh /\ there =>
           \/ rail'.links = {live} \ {0}
           \/ \E j \in Asks' : asked'[j].op = "mint"
           \/ \E j \in Asks' : /\ asked'[j].op = "revoke" /\ asked'[j].step \in {"ok", "failed"}
                               /\ live = 0 /\ rail'.links \subseteq {asked'[j].link}
    <3>1. CASE q.op \in {"shares", "mint"} /\ rail'.fresh /\ there
      <4>1. q.step = "ok" /\ rail.links = {} /\ q.link = live
        BY <1>3, <1>5, <2>8, <3>1
      <4>2. CASE q.op = "shares"
        BY <1>3, <4>1, <4>2, <3>1
      <4>3. CASE q.op = "mint"
        <5>1. q.link # 0 /\ rail'.links = rail.links \cup {q.link}
          BY <1>3, <2>9, <3>1, <4>1, <4>3
        <5> QED BY <4>1, <5>1
      <4> QED BY <3>1, <4>2, <4>3
    <3>2. CASE q.op = "revoke" /\ rail'.fresh /\ there
      <4>1. q.step = "ok" /\ rail'.links = rail.links \ {q.link} /\ rail.fresh
        BY <1>3, <3>2
      <4>2. IsDead(q.link) /\ q.link # live
        BY <2>5, <2>8, <3>2, <4>1
      <4>3. CASE rail.links = {live} \ {0}
        BY <4>1, <4>2, <4>3
      <4>4. ASSUME NEW j \in Asks, asked[j].op = "mint" PROVE \E i \in Asks' : asked'[i].op = "mint"
        BY <1>1, <1>3, <1>4, <3>2, <4>4
      <4>5. ASSUME NEW j \in Asks, asked[j].op = "revoke", asked[j].step \in {"ok", "failed"}, live = 0, rail.links \subseteq {asked[j].link}
            PROVE  \/ rail'.links = {live} \ {0}
                   \/ \E i \in Asks' : /\ asked'[i].op = "revoke" /\ asked'[i].step \in {"ok", "failed"}
                                       /\ live = 0 /\ rail'.links \subseteq {asked'[i].link}
        <5>1. CASE j = k
          BY <1>3, <4>1, <4>5, <5>1
        <5>2. CASE j # k
          <6>1. j \in Asks' /\ asked'[j] = asked[j] /\ rail'.links \subseteq {asked[j].link}
            BY <1>1, <1>4, <4>1, <4>5, <5>2
          <6> QED BY <4>5, <6>1
        <5> QED BY <5>1, <5>2
      <4> QED BY <2>8, <3>2, <4>1, <4>3, <4>4, <4>5
    <3> QED BY <1>5, <3>1, <3>2
  <2>13. \A j \in Asks' : asked'[j] = asked[j] /\ asked'[j].op # "shares"
    BY <1>4
  <2>14. Live' = live /\ threads'[rail'.dialog].minted = threads[d].minted
    BY <1>1, <2>1, <2>2, <2>4
  <2>15. \A j \in Asks' :
           /\ asked'[j].op = "revoke" => asked'[j].link \in rail'.links \/ IsDead(asked[j].link)'
           /\ asked'[j].op = "revoke" /\ asked'[j].step = "ok" => IsDead(asked[j].link)'
           /\ asked'[j].op \in {"shares", "mint"} /\ asked'[j].step = "ok" =>
                /\ asked'[j].link \in 0..threads[d].minted
                /\ there => asked'[j].link = live
    <3> SUFFICES ASSUME NEW j \in Asks'
                 PROVE  /\ asked'[j].op = "revoke" => asked'[j].link \in rail'.links \/ IsDead(asked[j].link)'
                        /\ asked'[j].op = "revoke" /\ asked'[j].step = "ok" => IsDead(asked[j].link)'
                        /\ asked'[j].op \in {"shares", "mint"} /\ asked'[j].step = "ok" =>
                             /\ asked'[j].link \in 0..threads[d].minted
                             /\ there => asked'[j].link = live
      OBVIOUS
    <3>1. PICK l : l = asked[j].link
      OBVIOUS
    <3>2. IsDead(l)' <=> IsDead(l)
      BY <2>5
    <3>3. asked'[j].link = l /\ asked'[j] = asked[j]
      BY <2>13, <3>1
    <3>4. IsDead(asked[j].link)' <=> IsDead(l)'
      <4>1. asked'[j].link = l
        BY <3>3
      <4> QED BY <4>1 DEF IsDead
    <3> QED BY <2>11, <2>13, <3>1, <3>2, <3>3, <3>4
  <2> QED BY <2>2, <2>3, <2>7, <2>10, <2>12, <2>14, <2>15 DEF LinksFollow
<1> QED BY <1>6, <1>7 DEF DialogInv

-----------------------------------------------------------------------------
\* What an answer that is about a search, or is not, leaves of the term.
LEMMA TermSettles ==
  ASSUME RailInv, NEW k \in Rail!Calls, asked[k].step \in {"ok", "failed"}, Searches' = Searches \ {k},
         \A j \in Rail!Calls : j # k => asked'[j] = asked[j], rail'.term = rail.term,
         \/ k \in Searches /\ rail'.of = asked[k].word
         \/ k \notin Searches /\ rail'.of = rail.of /\ rail'.restored = rail.restored
         \/ k \notin Searches /\ rail'.restored = (rail.restored \/ rail'.of # rail.of)
  PROVE  TermIsSearched'
<1>1. \A j \in Searches' : j \in Searches /\ asked'[j] = asked[j]
  BY DEF Searches, Rail!Waiting
<1>2. TermIsSearched
  BY DEF RailInv
<1> QED BY <1>1, <1>2 DEF TermIsSearched

LEMMA RemovedIs ==
  ASSUME NEW items \in SUBSET Rail!Item, NEW c
  PROVE  Rail!Without(items, c) \in SUBSET Rail!Item /\ (AreMade(items) => AreMade(Rail!Without(items, c)))
<1>1. Rail!Without(items, c) \subseteq items
  BY DEF Rail!Without
<1> QED BY <1>1 DEF AreMade

LEMMA AnsweredStep ==
  ASSUME RailInv, NEW k \in Rail!Calls, Rail!Answered(k)
  PROVE  RailInv'
<1>1. /\ SidebarFits /\ asked \in [Rail!Calls -> Rail!Call] /\ rail \in Rail!Rail
      /\ rail.recent \in SUBSET Rail!Item /\ rail.results \in SUBSET Rail!Item /\ AreMade(rail.recent) /\ AreMade(rail.results)
      /\ threads \in [Rail!ChatIds -> Rail!Thread]
  BY RailTypes DEF RailInv, SidebarFits
<1>2. PICK q \in Rail!Call : q = asked[k] /\ q.step = "ok"
  BY <1>1 DEF Rail!Answered
<1>3. q.items \in SUBSET Rail!Item /\ AreMade(q.items) /\ q.op \in Rail!Ops /\ q.word \in Rail!Titles \cup {0} /\ q.link \in 0..MaxLinks
  <2>1. AreMade(q.items)
    BY <1>1, <1>2 DEF SidebarFits
  <2> QED BY <2>1 DEF Rail!Call, Rail!None
<1>4. Settles(k) /\ (asked' = [asked EXCEPT ![k] = IF q.op \in {"archive", "delete"} THEN Rail!Sent("recent", 0) ELSE Rail!Free])
  BY <1>2 DEF Rail!Answered, Settles, Rail!None
<1>5. rail' = CASE q.op = "recent" -> [rail EXCEPT !.recent = q.items]
                [] q.op = "search" -> Rail!Searched(rail, q, q.items)
                [] q.op \in {"archive", "delete"} -> Rail!Removed(rail, q.chat)
                [] q.op = "rename" -> rail
                [] OTHER -> Rail!InDialog(rail, q)
  BY <1>2 DEF Rail!Answered
<1>6. k \in Rail!Waiting /\ (k \in Searches <=> q.op = "search" /\ q.wanted) /\ (k \in Asks <=> q.op \in Rail!DialogOps /\ q.wanted)
  BY <1>2 DEF Searches, Asks, Rail!Waiting
<1> DEFINE Untouched == /\ rail'.links = rail.links /\ rail'.busy = rail.busy /\ rail'.fresh = rail.fresh
           Result == /\ rail' \in Rail!Rail /\ AreMade(rail'.recent) /\ AreMade(rail'.results)
                     /\ rail'.dialog = rail.dialog /\ rail'.late = rail.late /\ rail'.term = rail.term /\ rail'.stale = rail.stale
           Recents == rail'.recent = rail.recent
           Results == rail'.results = rail.results
           Searching == rail'.of = rail.of /\ rail'.restored = rail.restored
<1>7. q.op = "recent" => Result /\ Untouched /\ rail'.recent = q.items /\ Results /\ Searching
  <2> SUFFICES ASSUME q.op = "recent" PROVE Result /\ Untouched /\ rail'.recent = q.items /\ Results /\ Searching
    OBVIOUS
  <2>1. rail' = [rail EXCEPT !.recent = q.items]
    BY <1>5
  <2>2. /\ rail' \in Rail!Rail /\ rail'.recent = q.items /\ rail'.results = rail.results /\ rail'.term = rail.term
        /\ rail'.of = rail.of /\ rail'.dialog = rail.dialog /\ rail'.links = rail.links /\ rail'.busy = rail.busy
        /\ rail'.fresh = rail.fresh /\ rail'.late = rail.late /\ rail'.restored = rail.restored /\ rail'.stale = rail.stale
    BY <1>1, <1>3, <2>1 DEF Rail!Rail
  <2> QED BY <1>1, <1>3, <2>2
<1>8. q.op = "search" /\ q.wanted => Result /\ Untouched /\ rail'.results = q.items /\ Recents /\ rail'.of = q.word
  <2> SUFFICES ASSUME q.op = "search", q.wanted PROVE Result /\ Untouched /\ rail'.results = q.items /\ Recents /\ rail'.of = q.word
    OBVIOUS
  <2>1. rail' = [rail EXCEPT !.results = q.items, !.of = q.word, !.restored = FALSE]
    BY <1>5 DEF Rail!Searched
  <2>2. /\ rail' \in Rail!Rail /\ rail'.recent = rail.recent /\ rail'.results = q.items /\ rail'.term = rail.term
        /\ rail'.of = q.word /\ rail'.dialog = rail.dialog /\ rail'.links = rail.links /\ rail'.busy = rail.busy
        /\ rail'.fresh = rail.fresh /\ rail'.late = rail.late /\ rail'.stale = rail.stale
    BY <1>1, <1>3, <2>1 DEF Rail!Rail, Rail!None
  <2> QED BY <1>1, <1>3, <2>2
<1>9. (q.op = "search" /\ ~q.wanted) \/ q.op = "rename" \/ (q.op \in Rail!DialogOps /\ ~q.wanted) =>
        Result /\ Untouched /\ Results /\ Recents /\ Searching
  <2> SUFFICES ASSUME (q.op = "search" /\ ~q.wanted) \/ q.op = "rename" \/ (q.op \in Rail!DialogOps /\ ~q.wanted)
               PROVE  Result /\ Untouched /\ Results /\ Recents /\ Searching
    OBVIOUS
  <2>1. rail' = rail
    <3>1. CASE q.op = "search" /\ ~q.wanted
      BY <1>5, <3>1 DEF Rail!Searched
    <3>2. CASE q.op = "rename"
      BY <1>5, <3>2
    <3>3. CASE q.op \in Rail!DialogOps /\ ~q.wanted
      <4>1. rail' = Rail!InDialog(rail, q)
        BY <1>5, <3>3 DEF Rail!DialogOps
      <4> QED BY <3>3, <4>1 DEF Rail!InDialog
    <3> QED BY <3>1, <3>2, <3>3
  <2> QED BY <1>1, <2>1
<1>10. q.op \in {"archive", "delete"} =>
         /\ Result /\ Untouched /\ Searching
         /\ rail'.recent = Rail!Without(rail.recent, q.chat) /\ rail'.results = Rail!Without(rail.results, q.chat)
  <2> SUFFICES ASSUME q.op \in {"archive", "delete"}
               PROVE  /\ Result /\ Untouched /\ Searching
                      /\ rail'.recent = Rail!Without(rail.recent, q.chat) /\ rail'.results = Rail!Without(rail.results, q.chat)
    OBVIOUS
  <2>1. rail' = [rail EXCEPT !.recent = Rail!Without(@, q.chat), !.results = Rail!Without(@, q.chat)]
    BY <1>5 DEF Rail!Removed
  <2>2. PICK x \in SUBSET Rail!Item : x = Rail!Without(rail.recent, q.chat) /\ AreMade(x)
    BY <1>1, RemovedIs
  <2>3. PICK y \in SUBSET Rail!Item : y = Rail!Without(rail.results, q.chat) /\ AreMade(y)
    BY <1>1, RemovedIs
  <2>4. rail' = [rail EXCEPT !.recent = x, !.results = y]
    BY <1>1, <2>1, <2>2, <2>3 DEF Rail!Rail
  <2>5. /\ rail' \in Rail!Rail /\ rail'.recent = x /\ rail'.results = y /\ rail'.term = rail.term
        /\ rail'.of = rail.of /\ rail'.dialog = rail.dialog /\ rail'.links = rail.links /\ rail'.busy = rail.busy
        /\ rail'.fresh = rail.fresh /\ rail'.late = rail.late /\ rail'.restored = rail.restored /\ rail'.stale = rail.stale
    BY <1>1, <2>4 DEF Rail!Rail
  <2> QED BY <2>2, <2>3, <2>5
<1>11. q.op \in Rail!DialogOps /\ q.wanted =>
         /\ Result /\ Results /\ Recents /\ Searching
         /\ q.op = "shares" => rail'.links = {q.link} \ {0} /\ rail'.busy = rail.busy /\ rail'.fresh
         /\ q.op = "mint" => rail'.links = rail.links \cup {q.link} /\ ~rail'.busy /\ rail'.fresh
         /\ q.op = "revoke" => rail'.links = rail.links \ {q.link} /\ rail'.busy = rail.busy /\ rail'.fresh = rail.fresh
  <2> SUFFICES ASSUME q.op \in Rail!DialogOps, q.wanted
               PROVE  /\ Result /\ Results /\ Recents /\ Searching
                      /\ q.op = "shares" => rail'.links = {q.link} \ {0} /\ rail'.busy = rail.busy /\ rail'.fresh
                      /\ q.op = "mint" => rail'.links = rail.links \cup {q.link} /\ ~rail'.busy /\ rail'.fresh
                      /\ q.op = "revoke" => rail'.links = rail.links \ {q.link} /\ rail'.busy = rail.busy /\ rail'.fresh = rail.fresh
    OBVIOUS
  <2>1. rail' = Rail!InDialog(rail, q)
    BY <1>5 DEF Rail!DialogOps
  <2>2. {q.link} \ {0} \in SUBSET (1..MaxLinks) /\ rail.links \in SUBSET (1..MaxLinks)
    BY <1>1, <1>3, RailNumbers DEF Rail!Rail
  <2>3. CASE q.op = "shares"
    <3>1. rail' = [rail EXCEPT !.links = {q.link} \ {0}, !.fresh = TRUE]
      BY <2>1, <2>3 DEF Rail!InDialog
    <3>2. /\ rail' \in Rail!Rail /\ rail'.recent = rail.recent /\ rail'.results = rail.results /\ rail'.term = rail.term
          /\ rail'.of = rail.of /\ rail'.dialog = rail.dialog /\ rail'.links = {q.link} \ {0} /\ rail'.busy = rail.busy
          /\ rail'.fresh /\ rail'.late = rail.late /\ rail'.restored = rail.restored /\ rail'.stale = rail.stale
      BY <1>1, <2>2, <3>1 DEF Rail!Rail
    <3> QED BY <1>1, <2>3, <3>2
  <2>4. CASE q.op = "mint"
    <3>1. rail' = [rail EXCEPT !.links = rail.links \cup {q.link}, !.busy = FALSE, !.fresh = TRUE]
      BY <1>1, <2>1, <2>4 DEF Rail!InDialog, Rail!Rail
    <3>2. rail.links \cup {q.link} \in SUBSET (1..MaxLinks)
      <4>1. q.link # 0
        BY <1>1, <1>2, <2>4 DEF SidebarFits, CallFits
      <4> QED BY <1>3, <2>2, <4>1, RailNumbers
    <3>3. /\ rail' \in Rail!Rail /\ rail'.recent = rail.recent /\ rail'.results = rail.results /\ rail'.term = rail.term
          /\ rail'.of = rail.of /\ rail'.dialog = rail.dialog /\ rail'.links = rail.links \cup {q.link} /\ ~rail'.busy
          /\ rail'.fresh /\ rail'.late = rail.late /\ rail'.restored = rail.restored /\ rail'.stale = rail.stale
      BY <1>1, <3>1, <3>2 DEF Rail!Rail
    <3> QED BY <1>1, <2>4, <3>3
  <2>5. CASE q.op = "revoke"
    <3>1. rail' = [rail EXCEPT !.links = rail.links \ {q.link}]
      BY <1>1, <2>1, <2>5 DEF Rail!InDialog, Rail!Rail
    <3>2. /\ rail' \in Rail!Rail /\ rail'.recent = rail.recent /\ rail'.results = rail.results /\ rail'.term = rail.term
          /\ rail'.of = rail.of /\ rail'.dialog = rail.dialog /\ rail'.links = rail.links \ {q.link} /\ rail'.busy = rail.busy
          /\ rail'.fresh = rail.fresh /\ rail'.late = rail.late /\ rail'.restored = rail.restored /\ rail'.stale = rail.stale
      BY <1>1, <2>2, <3>1 DEF Rail!Rail
    <3> QED BY <1>1, <2>5, <3>2
  <2> QED BY <2>3, <2>4, <2>5 DEF Rail!DialogOps
<1>12. SidebarFits' /\ Searches' = Searches \ {k} /\ rail'.term = rail.term /\ rail'.stale = rail.stale
       /\ (\A j \in Rail!Calls : j # k => asked'[j] = asked[j])
  <2>1. Result
    BY <1>3, <1>7, <1>8, <1>9, <1>10, <1>11 DEF Rail!Ops
  <2> QED BY <1>1, <1>4, <2>1, DoneFits
<1>13. TermIsSearched'
  <2>1. q.op = "search" \/ Searching
    BY <1>3, <1>7, <1>9, <1>10, <1>11 DEF Rail!Ops
  <2>2. q.op = "search" /\ ~q.wanted => Searching
    BY <1>9
  <2>3. q.op = "search" /\ q.wanted => rail'.of = q.word
    BY <1>8
  <2>4. \/ k \in Searches /\ rail'.of = q.word
        \/ k \notin Searches /\ rail'.of = rail.of /\ rail'.restored = rail.restored
    BY <1>6, <2>1, <2>2, <2>3
  <2> QED BY <1>2, <1>12, <2>4, TermSettles
<1>14. DialogInv'
  <2>1. CASE k \in Asks
    BY <1>2, <1>4, <1>6, <1>11, <2>1, DialogSettles DEF Rail!DialogOps
  <2>2. CASE k \notin Asks
    <3>1. Result /\ Untouched
      BY <1>3, <1>6, <1>7, <1>8, <1>9, <1>10, <2>2 DEF Rail!Ops
    <3> QED BY <1>4, <2>2, <3>1, DoneElsewhere
  <2> QED BY <2>1, <2>2
<1>15. ASSUME ~rail'.stale PROVE ListIsFollowed'
  <2>1. ListIsFollowed /\ Rail!Listed' = Rail!Listed
    BY <1>4, <1>12, <1>15 DEF RailInv, Rail!Listed, Settles
  <2>2. (\A j \in Rail!Waiting : j = k) /\ ListFollows(q)
    BY <1>2, <1>6, <2>1 DEF ListIsFollowed
  <2>3. PICK listed : listed = Rail!Listed /\ listed = Rail!Listed'
    BY <2>1
  <2>4. q.op \in {"archive", "delete"} =>
          Rail!Without(rail.recent, q.chat) = listed /\ Rail!Without(rail.results, q.chat) \subseteq listed
    BY <1>2, <2>2, <2>3 DEF ListFollows
  <2>5. q.op = "recent" => rail.results \subseteq listed /\ q.items = listed
    BY <1>2, <2>2, <2>3 DEF ListFollows
  <2>6. q.op = "search" => rail.recent = listed /\ rail.results \subseteq listed /\ q.items \subseteq listed
    BY <1>2, <2>2, <2>3 DEF ListFollows
  <2>7. q.op \in {"rename"} \cup Rail!DialogOps => rail.recent = listed /\ rail.results \subseteq listed
    BY <1>2, <2>2, <2>3 DEF ListFollows, Rail!DialogOps
  <2>8. rail'.recent = listed /\ rail'.results \subseteq listed
    BY <1>3, <1>7, <1>8, <1>9, <1>10, <1>11, <2>4, <2>5, <2>6, <2>7 DEF Rail!Ops
  <2>9. asked' = [asked EXCEPT ![k] = asked'[k]] /\ asked'[k].step \in {"free", "sent"} /\ asked'[k].op = "recent"
    <3>1. CASE q.op \in {"archive", "delete"}
      BY <1>1, <1>4, <3>1, SentIs
    <3>2. CASE q.op \notin {"archive", "delete"}
      BY <1>1, <1>4, <3>2 DEF Rail!Free
    <3> QED BY <3>1, <3>2
  <2>10. \A j \in Rail!Waiting' : j = k
    BY <1>12, <2>2 DEF Rail!Waiting
  <2>11. k \in Rail!Waiting' => ListFollows(asked[k])'
    <3>1. rail'.results \subseteq Rail!Listed' /\ (k \in Rail!Waiting' => asked'[k].step = "sent")
      BY <2>3, <2>8, <2>9 DEF Rail!Waiting
    <3> QED BY <2>9, <3>1 DEF ListFollows
  <2> QED BY <2>3, <2>8, <2>10, <2>11 DEF ListIsFollowed
<1> QED BY <1>12, <1>13, <1>14, <1>15 DEF RailInv

LEMMA FailedStep ==
  ASSUME RailInv, NEW k \in Rail!Calls, Rail!Failed(k)
  PROVE  RailInv'
<1>1. /\ SidebarFits /\ asked \in [Rail!Calls -> Rail!Call] /\ rail \in Rail!Rail /\ AreMade({})
      /\ rail.recent \in SUBSET Rail!Item /\ rail.results \in SUBSET Rail!Item /\ AreMade(rail.recent) /\ AreMade(rail.results)
  BY RailTypes DEF RailInv, SidebarFits
<1>2. PICK q \in Rail!Call : q = asked[k] /\ q.step = "failed"
  BY <1>1 DEF Rail!Failed
<1>3. /\ q.recent \in SUBSET Rail!Item /\ q.results \in SUBSET Rail!Item /\ AreMade(q.recent) /\ AreMade(q.results)
      /\ q.op \in Rail!Ops /\ q.word \in Rail!Titles \cup {0} /\ q.of \in Rail!Titles \cup {0}
  <2>1. AreMade(q.recent) /\ AreMade(q.results)
    BY <1>1, <1>2 DEF SidebarFits
  <2> QED BY <2>1 DEF Rail!Call, Rail!None
<1>4. Settles(k) /\ asked' = [asked EXCEPT ![k] = Rail!Free]
  BY <1>2 DEF Rail!Failed, Settles
<1>5. PICK r : r = [rail EXCEPT !.stale = TRUE]
  OBVIOUS
<1>6. rail' = CASE q.op = "search" -> Rail!Searched(r, q, {})
                [] q.op = "rename" -> [r EXCEPT !.recent = q.recent, !.results = q.results,
                                                !.of = q.of, !.restored = @ \/ q.of # r.of]
                [] q.op \in Rail!DialogOps /\ q.wanted ->
                     [r EXCEPT !.fresh = FALSE, !.busy = IF q.op = "mint" THEN FALSE ELSE @]
                [] OTHER -> r
  BY <1>2, <1>5 DEF Rail!Failed
<1>7. /\ r \in Rail!Rail /\ r.recent = rail.recent /\ r.results = rail.results /\ r.term = rail.term
      /\ r.of = rail.of /\ r.dialog = rail.dialog /\ r.links = rail.links /\ r.busy = rail.busy
      /\ r.fresh = rail.fresh /\ r.late = rail.late /\ r.restored = rail.restored /\ r.stale
  BY <1>1, <1>5 DEF Rail!Rail
<1>8. k \in Rail!Waiting /\ (k \in Searches <=> q.op = "search" /\ q.wanted) /\ (k \in Asks <=> q.op \in Rail!DialogOps /\ q.wanted)
  BY <1>2 DEF Searches, Asks, Rail!Waiting
<1> DEFINE Untouched == rail'.links = rail.links /\ rail'.busy = rail.busy /\ rail'.fresh = rail.fresh
           Result == /\ rail' \in Rail!Rail /\ AreMade(rail'.recent) /\ AreMade(rail'.results)
                     /\ rail'.dialog = rail.dialog /\ rail'.late = rail.late /\ rail'.term = rail.term /\ rail'.stale
           Searching == rail'.of = rail.of /\ rail'.restored = rail.restored
<1>9. CASE q.op = "search" /\ q.wanted
  <2>1. rail' = [r EXCEPT !.results = {}, !.of = q.word, !.restored = FALSE]
    BY <1>6, <1>9 DEF Rail!Searched, Rail!DialogOps
  <2>2. /\ rail' \in Rail!Rail /\ rail'.recent = r.recent /\ rail'.results = {} /\ rail'.term = r.term
        /\ rail'.of = q.word /\ rail'.dialog = r.dialog /\ rail'.links = r.links /\ rail'.busy = r.busy
        /\ rail'.fresh = r.fresh /\ rail'.late = r.late /\ rail'.stale
    BY <1>3, <1>7, <2>1 DEF Rail!Rail, Rail!None
  <2>3. Result /\ Untouched /\ rail'.of = q.word
    BY <1>1, <1>7, <2>2
  <2>4. SidebarFits' /\ Searches' = Searches \ {k} /\ \A j \in Rail!Calls : j # k => asked'[j] = asked[j]
    BY <1>1, <1>4, <2>3, DoneFits
  <2>5. TermIsSearched'
    BY <1>2, <1>8, <1>9, <2>3, <2>4, TermSettles
  <2>6. k \notin Asks
    BY <1>8, <1>9 DEF Rail!DialogOps
  <2>7. DialogInv'
    BY <1>4, <2>3, <2>6, DoneElsewhere
  <2> QED BY <2>3, <2>4, <2>5, <2>7 DEF RailInv
<1>10. CASE q.op = "rename"
  <2>1. rail' = [r EXCEPT !.recent = q.recent, !.results = q.results, !.of = q.of, !.restored = @ \/ q.of # r.of]
    BY <1>6, <1>10 DEF Rail!DialogOps
  <2>2. /\ rail' \in Rail!Rail /\ rail'.recent = q.recent /\ rail'.results = q.results /\ rail'.term = r.term
        /\ rail'.of = q.of /\ rail'.dialog = r.dialog /\ rail'.links = r.links /\ rail'.busy = r.busy
        /\ rail'.fresh = r.fresh /\ rail'.late = r.late /\ rail'.stale /\ rail'.restored = (r.restored \/ q.of # r.of)
    BY <1>3, <1>7, <2>1 DEF Rail!Rail, Rail!None
  <2>3. Result /\ Untouched /\ rail'.restored = (rail.restored \/ rail'.of # rail.of)
    BY <1>3, <1>7, <2>2
  <2>4. SidebarFits' /\ Searches' = Searches \ {k} /\ \A j \in Rail!Calls : j # k => asked'[j] = asked[j]
    BY <1>1, <1>4, <2>3, DoneFits
  <2>5. k \notin Asks /\ k \notin Searches
    BY <1>8, <1>10 DEF Rail!DialogOps
  <2>6. TermIsSearched'
    BY <1>2, <2>3, <2>4, <2>5, TermSettles
  <2>7. DialogInv'
    BY <1>4, <2>3, <2>5, DoneElsewhere
  <2> QED BY <2>3, <2>4, <2>6, <2>7 DEF RailInv
<1>11. CASE q.op \in Rail!DialogOps /\ q.wanted
  <2>1. rail' = [r EXCEPT !.fresh = FALSE, !.busy = IF q.op = "mint" THEN FALSE ELSE @]
    BY <1>6, <1>11 DEF Rail!DialogOps
  <2>2. /\ rail' \in Rail!Rail /\ rail'.recent = r.recent /\ rail'.results = r.results /\ rail'.term = r.term
        /\ rail'.of = r.of /\ rail'.dialog = r.dialog /\ rail'.links = r.links /\ ~rail'.fresh /\ rail'.late = r.late
        /\ rail'.stale /\ rail'.restored = r.restored /\ rail'.busy = IF q.op = "mint" THEN FALSE ELSE r.busy
    BY <1>7, <2>1 DEF Rail!Rail
  <2>3. /\ Result /\ Searching /\ rail'.links = rail.links /\ ~rail'.fresh
        /\ q.op = "mint" => ~rail'.busy
        /\ q.op # "mint" => rail'.busy = rail.busy
    BY <1>1, <1>7, <2>2
  <2>4. SidebarFits' /\ Searches' = Searches \ {k} /\ \A j \in Rail!Calls : j # k => asked'[j] = asked[j]
    BY <1>1, <1>4, <2>3, DoneFits
  <2>5. k \in Asks /\ k \notin Searches
    BY <1>8, <1>11 DEF Rail!DialogOps
  <2>6. TermIsSearched'
    BY <1>2, <2>3, <2>4, <2>5, TermSettles
  <2>7. DialogInv'
    BY <1>2, <1>4, <2>3, <2>5, DialogSettles
  <2> QED BY <2>3, <2>4, <2>6, <2>7 DEF RailInv
<1>12. CASE ~(q.op = "search" /\ q.wanted) /\ q.op # "rename" /\ ~(q.op \in Rail!DialogOps /\ q.wanted)
  <2>1. rail' = r
    <3>1. CASE q.op = "search"
      BY <1>6, <1>12, <3>1 DEF Rail!Searched
    <3>2. CASE q.op # "search"
      BY <1>6, <1>12, <3>2
    <3> QED BY <3>1, <3>2
  <2>2. Result /\ Untouched /\ Searching
    BY <1>1, <1>7, <2>1
  <2>3. SidebarFits' /\ Searches' = Searches \ {k} /\ \A j \in Rail!Calls : j # k => asked'[j] = asked[j]
    BY <1>1, <1>4, <2>2, DoneFits
  <2>4. k \notin Asks /\ k \notin Searches
    BY <1>8, <1>12
  <2>5. TermIsSearched'
    BY <1>2, <2>2, <2>3, <2>4, TermSettles
  <2>6. DialogInv'
    BY <1>4, <2>2, <2>4, DoneElsewhere
  <2> QED BY <2>2, <2>3, <2>5, <2>6 DEF RailInv
<1> QED BY <1>9, <1>10, <1>11, <1>12

LEMMA RailBegins == Rail!SidebarInit => RailInv
<1> SUFFICES ASSUME Rail!SidebarInit PROVE RailInv
  OBVIOUS
<1>1. PICK f : f = Rail!Free
  OBVIOUS
<1>2. /\ f \in Rail!Call /\ f.op = "recent" /\ f.step = "free" /\ f.items = {} /\ f.recent = {} /\ f.results = {}
  BY <1>1, FreeCall DEF Rail!Free
<1>3. PICK s : s = [f EXCEPT !.step = "sent"]
  OBVIOUS
<1>4. s \in Rail!Call /\ s.op = "recent" /\ s.step = "sent" /\ s.items = {} /\ s.recent = {} /\ s.results = {}
  BY <1>2, <1>3 DEF Rail!Call
<1>5. asked = [k \in Rail!Calls |-> IF k = 1 THEN s ELSE f]
  BY <1>1, <1>3 DEF Rail!SidebarInit
<1>6. /\ rail.recent = {} /\ rail.results = {} /\ rail.term = 0 /\ rail.of = 0 /\ rail.dialog = 0 /\ rail.links = {}
      /\ ~rail.busy /\ ~rail.fresh /\ ~rail.late /\ ~rail.restored /\ ~rail.stale /\ rail \in Rail!Rail
  BY RailNumbers DEF Rail!SidebarInit, Rail!None, Rail!Rail
<1>7. PICK n \in 0..MaxChats : threads = [c \in Rail!ChatIds |-> [status |-> IF c <= n THEN "live" ELSE "none", title |-> 1,
                                                            minted |-> 0, shared |-> FALSE]]
  BY DEF Rail!SidebarInit
<1>8. threads \in [Rail!ChatIds -> Rail!Thread] /\ \A c \in Rail!ChatIds : ~threads[c].shared
  <2>1. 1 \in Rail!Titles /\ 0 \in 0..MaxLinks
    BY RailNumbers DEF Rail!Titles
  <2>2. \A c \in Rail!ChatIds : [status |-> IF c <= n THEN "live" ELSE "none", title |-> 1, minted |-> 0, shared |-> FALSE] \in Rail!Thread
    BY <2>1 DEF Rail!Thread
  <2> QED BY <1>7, <2>2
<1>9. SidebarFits
  BY <1>2, <1>4, <1>5, <1>6, <1>8 DEF SidebarFits, Rail!SidebarTypeOK, AreMade, CallFits
<1>10. \A k \in Rail!Calls : asked[k].op = "recent"
  BY <1>2, <1>4, <1>5
<1>11. TermIsSearched /\ DialogInv
  <2>1. Searches = {} /\ Asks = {}
    BY <1>10 DEF Searches, Asks, Rail!Waiting, Rail!DialogOps
  <2> QED BY <1>6, <2>1 DEF TermIsSearched, DialogInv, DialogFits
<1>12. ListIsFollowed
  <2>1. 1 \in Rail!Calls
    BY RailNumbers DEF Rail!Calls
  <2>2. Rail!Waiting = {1} /\ asked[1].op = "recent" /\ asked[1].step = "sent"
    BY <1>2, <1>4, <1>5, <2>1 DEF Rail!Waiting
  <2>3. ListFollows(asked[1])
    BY <1>6, <2>2 DEF ListFollows
  <2> QED BY <2>2, <2>3 DEF ListIsFollowed
<1> QED BY <1>9, <1>11, <1>12 DEF RailInv

LEMMA RailSteps == RailInv /\ [Rail!SidebarNext]_railVars => RailInv'
<1> SUFFICES ASSUME RailInv, [Rail!SidebarNext]_railVars PROVE RailInv'
  OBVIOUS
<1>1. CASE Rail!SidebarNext
  <2>1. ASSUME NEW k \in Rail!Calls,
               \/ Rail!ConversationsChanged(k) \/ Rail!Paused(k) \/ Rail!CommitRename(k)
               \/ Rail!ArchiveConversation(k) \/ Rail!DeleteConversation(k)
               \/ Rail!OpenShareDialog(k) \/ Rail!CreateLink(k) \/ Rail!RevokeLink(k)
               \/ Rail!Serve(k) \/ Rail!Refuse(k) \/ Rail!Answered(k) \/ Rail!Failed(k)
        PROVE  RailInv'
    BY <2>1, ConversationsChangedStep, PausedStep, CommitRenameStep, RemovalStep, OpenShareDialogStep, CreateLinkStep,
       RevokeLinkStep, ServeStep, RefuseStep, AnsweredStep, FailedStep
  <2>2. ASSUME NEW word \in Rail!Titles \cup {0}, Rail!Search(word) PROVE RailInv'
    BY <2>2, SearchStep
  <2>3. ASSUME NEW c \in Rail!ChatIds, Rail!StartRename(c) PROVE RailInv'
    BY <2>3, StartRenameStep
  <2>4. ASSUME Rail!CloseShareDialog PROVE RailInv'
    BY <2>4, CloseShareDialogStep
  <2> QED BY <1>1, <2>1, <2>2, <2>3, <2>4 DEF Rail!SidebarNext, Rail!None
<1>2. CASE UNCHANGED railVars
  BY <1>2 DEF railVars, RailInv, SidebarFits, TermIsSearched, ListIsFollowed, ListFollows, DialogInv, DialogFits, LinksFollow,
              Asks, Searches, Live, IsDead, AreMade, CallFits, Rail!SidebarTypeOK, Rail!Waiting, Rail!Listed, Rail!Exists,
              Rail!LiveLink, Rail!Retitled, Rail!Without
<1> QED BY <1>1, <1>2

LEMMA RailKeepsUp ==
  RailInv => Rail!SidebarTypeOK /\ Rail!ResultsAreOfTerm /\ Rail!ListIsCurrent /\ Rail!DialogShowsTheLink
<1> SUFFICES ASSUME RailInv PROVE Rail!SidebarTypeOK /\ Rail!ResultsAreOfTerm /\ Rail!ListIsCurrent /\ Rail!DialogShowsTheLink
  OBVIOUS
<1>1. Rail!SidebarTypeOK
  BY DEF RailInv, SidebarFits
<1>2. Rail!ResultsAreOfTerm
  BY DEF RailInv, TermIsSearched, Searches, Rail!ResultsAreOfTerm, Rail!None
<1>3. Rail!ListIsCurrent
  BY DEF RailInv, ListIsFollowed, Rail!ListIsCurrent
<1>4. Rail!DialogShowsTheLink
  <2> SUFFICES ASSUME rail.dialog # 0, rail.fresh, ~rail.late, ~Rail!DialogBusy, Rail!Exists(rail.dialog)
               PROVE  rail.links = {Live} \ {0}
    BY DEF Rail!DialogShowsTheLink, Live, Rail!None
  <2>1. Asks = {}
    BY DEF Rail!DialogBusy, Asks
  <2> QED BY <2>1 DEF RailInv, DialogInv, LinksFollow
<1> QED BY <1>1, <1>2, <1>3, <1>4

-----------------------------------------------------------------------------
(* The page of the prompts.                                                *)

LEMMA ShelfNumbers ==
  /\ MaxPrompts \in Nat /\ MaxTexts \in Nat /\ MaxTexts >= 1 /\ MaxSends \in Nat /\ MaxSends >= 1 /\ MaxSteps \in Nat
BY PagesAssumption

LEMMA ShelfNames ==
  /\ \A S, key : Shelf!InOrder(S, key) = InOrder(S, key)
  /\ \A s, places : Shelf!Picked(s, places) = Picked(s, places)
  /\ \A S : Shelf!Cardinality(S) = Cardinality(S)
<1>1. \A S : Shelf!Cardinality(S) = Cardinality(S)
  BY DEF Shelf!Cardinality, Cardinality
<1>2. \A S, key : Shelf!InOrder(S, key) = InOrder(S, key)
  BY <1>1 DEF Shelf!InOrder, InOrder
<1> QED BY <1>1, <1>2 DEF Shelf!Picked, Picked

-----------------------------------------------------------------------------
(* Lists of prompts.                                                       *)

\* What a list has, and that it has each prompt once.
ItemsOf(s) == {s[i] : i \in DOMAIN s}

OnceEach(s) == \A i, j \in DOMAIN s : s[i].id = s[j].id => i = j

NumberedOnce(items) == \A i, j \in items : i.id = j.id => i = j

\* An order has every element.
LEMMA OrderIsOnto ==
  ASSUME NEW S, IsFiniteSet(S), NEW key, NEW s, Ordered(s, S, key)
  PROVE  Cardinality(S) \in Nat /\ DOMAIN s = 1..Cardinality(S) /\ \A x \in S : \E i \in DOMAIN s : s[i] = x
<1>1. Cardinality(S) \in Nat
  BY FS_CardinalityType
<1>2. s \in [1..Cardinality(S) -> S] /\ Unrepeated(s) /\ DOMAIN s = 1..Cardinality(S)
  BY DEF Ordered
<1>3. s \in Injection(1..Cardinality(S), S)
  BY <1>2 DEF Injection, IsInjective, Unrepeated
<1>4. IsFiniteSet(1..Cardinality(S)) /\ Cardinality(1..Cardinality(S)) = Cardinality(S)
  BY <1>1, FS_Interval
<1>5. s \in Surjection(1..Cardinality(S), S)
  BY <1>3, <1>4, FS_Injection
<1> QED BY <1>1, <1>2, <1>5 DEF Surjection

LEMMA PickedHas ==
  ASSUME NEW S, NEW s \in Seq(S), NEW places \in SUBSET (DOMAIN s)
  PROVE  /\ \A i \in places : \E k \in DOMAIN Picked(s, places) : Picked(s, places)[k] = s[i]
         /\ \A k, l \in DOMAIN Picked(s, places) : k # l =>
              \E i, j \in places : i # j /\ Picked(s, places)[k] = s[i] /\ Picked(s, places)[l] = s[j]
<1> DEFINE key == [i \in places |-> i]
           at == InOrder(places, key)
<1>1. Len(s) \in Nat /\ DOMAIN s = 1..Len(s)
  BY ElementOfSeq
<1>2. IsFiniteSet(places)
  BY PickedIs
<1>3. \A i \in places : key[i] \in Nat
  BY <1>1
<1>4. Ordered(at, places, key)
  <2> HIDE DEF key
  <2> QED BY <1>2, <1>3, InOrderIs
<1>5. Picked(s, places) = [k \in DOMAIN at |-> s[at[k]]]
  BY DEF Picked
<1> HIDE DEF at, key
<1>6. (\A i \in places : \E k \in DOMAIN at : at[k] = i) /\ Unrepeated(at) /\ at \in [DOMAIN at -> places]
  <2>1. \A i \in places : \E k \in DOMAIN at : at[k] = i
    BY <1>2, <1>4, OrderIsOnto
  <2>2. at \in [1..Cardinality(places) -> places] /\ Unrepeated(at)
    BY <1>4 DEF Ordered
  <2> QED BY <2>1, <2>2
<1> QED BY <1>5, <1>6 DEF Unrepeated

\* The list without a prompt.
LEMMA ListWithout ==
  ASSUME NEW s \in Seq(Shelf!Item), NEW p
  PROVE  LET t == Picked(s, {i \in DOMAIN s : s[i].id # p})
         IN  /\ t \in Seq(Shelf!Item) /\ Len(t) <= Len(s)
             /\ ItemsOf(t) = {x \in ItemsOf(s) : x.id # p}
             /\ OnceEach(s) => OnceEach(t)
<1> DEFINE places == {i \in DOMAIN s : s[i].id # p}
           t == Picked(s, places)
<1>1. places \in SUBSET (DOMAIN s) /\ (\A i \in DOMAIN s : i \in places <=> s[i].id # p)
  OBVIOUS
<1>2. DOMAIN s = 1..Len(s) /\ Len(s) \in Nat
  BY ElementOfSeq
<1> HIDE DEF places
<1>3. /\ t \in Seq(Shelf!Item) /\ Len(t) = Cardinality(places)
      /\ \A k \in DOMAIN t : \E i \in places : t[k] = s[i]
  BY <1>1, PickedIs
<1>4. /\ \A i \in places : \E k \in DOMAIN t : t[k] = s[i]
      /\ \A k, l \in DOMAIN t : k # l => \E i, j \in places : i # j /\ t[k] = s[i] /\ t[l] = s[j]
  BY <1>1, PickedHas
<1>5. Cardinality(places) <= Len(s)
  <2>1. IsFiniteSet(1..Len(s)) /\ Cardinality(1..Len(s)) = Len(s)
    BY <1>2, FS_Interval
  <2> QED BY <1>1, <1>2, <2>1, FS_Subset
<1> HIDE DEF t
<1>6. ItemsOf(t) = {x \in ItemsOf(s) : x.id # p}
  BY <1>1, <1>3, <1>4 DEF ItemsOf
<1>7. OnceEach(s) => OnceEach(t)
  BY <1>1, <1>4 DEF OnceEach
<1> QED BY <1>3, <1>5, <1>6, <1>7 DEF t, places

\* The list with a prompt in front.
LEMMA ListInFront ==
  ASSUME NEW s \in Seq(Shelf!Item), NEW x \in Shelf!Item
  PROVE  /\ <<x>> \o s \in Seq(Shelf!Item) /\ Len(<<x>> \o s) = Len(s) + 1
         /\ ItemsOf(<<x>> \o s) = ItemsOf(s) \cup {x}
         /\ OnceEach(s) /\ (\A y \in ItemsOf(s) : y.id # x.id) => OnceEach(<<x>> \o s)
<1> DEFINE t == <<x>> \o s
<1>1. DOMAIN s = 1..Len(s) /\ Len(s) \in Nat
  BY ElementOfSeq
<1>2. /\ t \in Seq(Shelf!Item) /\ Len(t) = Len(s) + 1 /\ DOMAIN t = 1..(Len(s) + 1)
      /\ \A i \in 1..(Len(s) + 1) : t[i] = IF i = 1 THEN x ELSE s[i - 1]
  BY <1>1
<1> HIDE DEF t
<1>3. \A i \in DOMAIN s : i + 1 \in DOMAIN t /\ t[i + 1] = s[i]
  BY <1>1, <1>2
<1>4. \A i \in DOMAIN t : (i = 1 /\ t[i] = x) \/ (i - 1 \in DOMAIN s /\ t[i] = s[i - 1])
  <2>1. \A i \in 1..(Len(s) + 1) : i = 1 \/ i - 1 \in 1..Len(s)
    BY <1>1
  <2> QED BY <1>1, <1>2, <2>1
<1>5. ItemsOf(t) = ItemsOf(s) \cup {x}
  <2>1. 1 \in DOMAIN t /\ t[1] = x
    BY <1>1, <1>2
  <2> QED BY <1>3, <1>4, <2>1 DEF ItemsOf
<1>6. ASSUME OnceEach(s), \A y \in ItemsOf(s) : y.id # x.id, NEW i \in DOMAIN t, NEW j \in DOMAIN t, t[i].id = t[j].id PROVE i = j
  <2>1. \A k \in DOMAIN s : s[k].id # x.id
    BY <1>6 DEF ItemsOf
  <2>2. CASE i = 1 \/ j = 1
    BY <1>4, <1>6, <2>1, <2>2
  <2>3. CASE i # 1 /\ j # 1
    <3>1. i - 1 \in DOMAIN s /\ j - 1 \in DOMAIN s /\ s[i - 1].id = s[j - 1].id
      BY <1>4, <1>6, <2>3
    <3>2. i - 1 = j - 1 /\ i \in Nat /\ j \in Nat
      BY <1>1, <1>2, <1>6, <3>1 DEF OnceEach
    <3> QED BY <3>2
  <2> QED BY <2>2, <2>3
<1> QED BY <1>2, <1>5, <1>6 DEF OnceEach, t

\* The list with a prompt in the place of the one that it was.
LEMMA ListInPlace ==
  ASSUME NEW s \in Seq(Shelf!Item), NEW x \in Shelf!Item,
         NEW t, t = [i \in DOMAIN s |-> IF s[i].id = x.id THEN x ELSE s[i]]
  PROVE  /\ t \in Seq(Shelf!Item) /\ Len(t) = Len(s)
         /\ (\E y \in ItemsOf(s) : y.id = x.id) => ItemsOf(t) = {y \in ItemsOf(s) : y.id # x.id} \cup {x}
         /\ OnceEach(s) => OnceEach(t)
<1>1. DOMAIN s = 1..Len(s) /\ Len(s) \in Nat /\ \A i \in DOMAIN s : s[i] \in Shelf!Item
  BY ElementOfSeq
<1>2. DOMAIN t = DOMAIN s /\ \A i \in DOMAIN s : /\ s[i].id = x.id => t[i] = x
                                                 /\ s[i].id # x.id => t[i] = s[i]
                                                 /\ t[i].id = s[i].id
  OBVIOUS
<1>3. t \in Seq(Shelf!Item) /\ Len(t) = Len(s)
  <2>1. \A i \in 1..Len(s) : t[i] \in Shelf!Item
    BY <1>1, <1>2
  <2>2. t = [i \in 1..Len(s) |-> t[i]]
    BY <1>1
  <2> QED BY <1>1, <2>1, <2>2
<1>4. OnceEach(s) => OnceEach(t)
  BY <1>2 DEF OnceEach
<1>5. (\E y \in ItemsOf(s) : y.id = x.id) => ItemsOf(t) = {y \in ItemsOf(s) : y.id # x.id} \cup {x}
  BY <1>2 DEF ItemsOf
<1> QED BY <1>3, <1>4, <1>5

\* A list that has every prompt once is as long as there are prompts.
LEMMA OnceIsAll ==
  ASSUME NEW s \in Seq(Shelf!Item), OnceEach(s)
  PROVE  Len(s) = Cardinality(ItemsOf(s)) /\ IsFiniteSet(ItemsOf(s))
<1>1. DOMAIN s = 1..Len(s) /\ Len(s) \in Nat
  BY ElementOfSeq
<1>2. s \in [1..Len(s) -> ItemsOf(s)] /\ (\A i, j \in 1..Len(s) : s[i] = s[j] => i = j)
      /\ \A y \in ItemsOf(s) : \E i \in 1..Len(s) : s[i] = y
  BY <1>1 DEF ItemsOf, OnceEach
<1>3. s \in Bijection(1..Len(s), ItemsOf(s))
  BY <1>2 DEF Bijection, Injection, Surjection, IsInjective
<1>4. IsFiniteSet(1..Len(s)) /\ Cardinality(1..Len(s)) = Len(s)
  BY <1>1, FS_Interval
<1> QED BY <1>3, <1>4, FS_Bijection DEF ExistsBijection

\* There are no more prompts than numbers.
LEMMA NumberedIsFinite ==
  ASSUME NEW items \in SUBSET Shelf!Item, NumberedOnce(items)
  PROVE  IsFiniteSet(items) /\ Cardinality(items) \in Nat /\ Cardinality(items) <= MaxPrompts
<1> DEFINE f == [x \in items |-> x.id]
<1>1. IsFiniteSet(1..MaxPrompts) /\ Cardinality(1..MaxPrompts) = MaxPrompts
  BY ShelfNumbers, FS_Interval
<1>2. f \in Injection(items, 1..MaxPrompts)
  BY DEF Injection, IsInjective, NumberedOnce, Shelf!Item, Shelf!PromptIds
<1> HIDE DEF f
<1> QED BY <1>1, <1>2, FS_Injection, FS_CardinalityType

LEMMA NewestIs ==
  ASSUME NEW items \in SUBSET Shelf!Item, NumberedOnce(items)
  PROVE  LET s == Shelf!NewestFirst(items)
         IN  s \in Seq(Shelf!Item) /\ Len(s) = Cardinality(items) /\ ItemsOf(s) = items /\ OnceEach(s)
<1> DEFINE key == [i \in items |-> MaxPrompts - i.id]
           s == InOrder(items, key)
<1>1. IsFiniteSet(items) /\ Cardinality(items) \in Nat
  BY NumberedIsFinite
<1>2. \A i \in items : key[i] \in Nat
  BY ShelfNumbers DEF Shelf!Item, Shelf!PromptIds
<1>3. Ordered(s, items, key)
  <2> HIDE DEF key
  <2> QED BY <1>1, <1>2, InOrderIs
<1>4. Shelf!NewestFirst(items) = s
  BY ShelfNames DEF Shelf!NewestFirst
<1> HIDE DEF s, key
<1>5. s \in [1..Cardinality(items) -> items] /\ Unrepeated(s) /\ DOMAIN s = 1..Cardinality(items)
      /\ \A x \in items : \E i \in DOMAIN s : s[i] = x
  BY <1>1, <1>3, OrderIsOnto DEF Ordered
<1>6. s \in Seq(Shelf!Item) /\ Len(s) = Cardinality(items)
  BY <1>1, <1>5
<1>7. ItemsOf(s) = items
  BY <1>5 DEF ItemsOf
<1>8. OnceEach(s)
  BY <1>5 DEF OnceEach, Unrepeated, NumberedOnce
<1> QED BY <1>4, <1>6, <1>7, <1>8

-----------------------------------------------------------------------------
(* What the page of the prompts keeps.                                     *)

\* The answers that bring a prompt that was not.
Creations == {k \in Shelf!Sends : sends[k].step = "ok" /\ sends[k].op \in {"save", "template"} /\ sends[k].id = 0}

\* The requests of the dialog that saves.
Savings == {k \in Shelf!Waiting : sends[k].op = "save"}

\* A request has what it needs, and its answer what it asked for.
SendFits(call) ==
  /\ call.op = "template" => call.id = 0
  /\ call.op = "delete" => call.id # 0
  /\ call.op \in {"save", "template"} => call.text # 0
  /\ call.step = "ok" /\ call.op = "list" => NumberedOnce(call.items)
  /\ call.step = "ok" /\ call.op \in {"save", "template"} =>
       \E x \in Shelf!Item : call.items = {x} /\ (call.id # 0 => x.id = call.id)

\* Ids are new, and each answer that is still to come adds one prompt at most to the list, so that it
\* stays in its bound.
ShelfFits ==
  /\ Shelf!PromptsTypeOK
  /\ NumberedOnce(stored.prompts) /\ \A i \in stored.prompts : i.id <= stored.made
  /\ stored.stars = shelf.stars
  /\ \A k \in Shelf!Sends : SendFits(sends[k])
  /\ Cardinality(Creations) <= stored.made
  /\ Len(shelf.listed) + Cardinality(Creations) <= MaxPrompts + stored.made
  /\ \A j, k \in Savings : j = k
  /\ shelf.saving <=> Savings # {}

ShownItems == ItemsOf(shelf.listed)

\* The list shows these prompts.
IsListed(items) == ShownItems = items /\ OnceEach(shelf.listed)

\* While a request is under way, the list is what it will be when that is answered.
FollowsSend(call) ==
  CASE call.op = "list" ->
         /\ \A i \in ShownItems : Shelf!Live(i.id)
         /\ OnceEach(shelf.listed)
         /\ call.step = "ok" => call.items = stored.prompts
    [] call.op # "list" /\ call.step = "sent" -> IsListed(stored.prompts)
    [] call.op \in {"save", "template"} /\ call.step = "ok" /\ call.id = 0 ->
         \E x \in stored.prompts : call.items = {x} /\ IsListed(stored.prompts \ {x})
    [] call.op \in {"save", "template"} /\ call.step = "ok" /\ call.id # 0 ->
         /\ OnceEach(shelf.listed) /\ \E i \in ShownItems : i.id = call.id
         /\ \E x \in stored.prompts : call.items = {x} /\ stored.prompts = Shelf!Without(ShownItems, call.id) \cup {x}
    [] call.op = "delete" /\ call.step = "ok" ->
         OnceEach(shelf.listed) /\ Shelf!Without(ShownItems, call.id) = stored.prompts
    [] OTHER -> TRUE

\* A star is of a prompt that is there, or that is about to go from the list.
StarsFollow ==
  ~shelf.lost /\ (\A k \in Shelf!Waiting : sends[k].step # "failed") =>
    \A p \in shelf.stars : \/ Shelf!Live(p)
                           \/ \E k \in Shelf!Waiting : sends[k].op = "delete" /\ sends[k].step = "ok" /\ sends[k].id = p

\* Nothing overlapped and nothing failed so far.
ShelfIsFollowed ==
  /\ \A j, k \in Shelf!Waiting : j = k
  /\ Shelf!Waiting = {} => IsListed(stored.prompts)
  /\ \A k \in Shelf!Waiting : FollowsSend(sends[k])
  /\ StarsFollow

\* The inductive invariant of the page of the prompts.
ShelfInv == ShelfFits /\ (~shelf.stale => ShelfIsFollowed)

LEMMA ShelfTypes ==
  ShelfFits => /\ shelf \in Shelf!Shelf /\ sends \in [Shelf!Sends -> Shelf!Send] /\ shelf.listed \in Seq(Shelf!Item)
               /\ stored \in [prompts : SUBSET Shelf!Item, made : 0..MaxPrompts, stars : SUBSET Shelf!PromptIds]
               /\ stored.prompts \in SUBSET Shelf!Item /\ stored.made \in 0..MaxPrompts /\ stored.made \in Nat
               /\ stored.stars \in SUBSET Shelf!PromptIds /\ Len(shelf.listed) \in Nat
               /\ IsFiniteSet(Creations) /\ Cardinality(Creations) \in Nat
               /\ \A p \in Shelf!PromptIds : p \in 0..MaxPrompts /\ p # 0
<1> SUFFICES ASSUME ShelfFits
             PROVE  /\ shelf \in Shelf!Shelf /\ sends \in [Shelf!Sends -> Shelf!Send] /\ shelf.listed \in Seq(Shelf!Item)
                    /\ stored \in [prompts : SUBSET Shelf!Item, made : 0..MaxPrompts, stars : SUBSET Shelf!PromptIds]
                    /\ stored.prompts \in SUBSET Shelf!Item /\ stored.made \in 0..MaxPrompts /\ stored.made \in Nat
                    /\ stored.stars \in SUBSET Shelf!PromptIds /\ Len(shelf.listed) \in Nat
                    /\ IsFiniteSet(Creations) /\ Cardinality(Creations) \in Nat
                    /\ \A p \in Shelf!PromptIds : p \in 0..MaxPrompts /\ p # 0
  OBVIOUS
<1>1. /\ shelf \in Shelf!Shelf /\ sends \in [Shelf!Sends -> Shelf!Send]
      /\ stored \in [prompts : SUBSET Shelf!Item, made : 0..MaxPrompts, stars : SUBSET Shelf!PromptIds]
  BY DEF ShelfFits, Shelf!PromptsTypeOK
<1>2. shelf.listed \in Seq(Shelf!Item) /\ stored.prompts \in SUBSET Shelf!Item /\ stored.made \in 0..MaxPrompts
      /\ stored.stars \in SUBSET Shelf!PromptIds
  BY <1>1 DEF Shelf!Shelf
<1>3. IsFiniteSet(Creations) /\ Cardinality(Creations) \in Nat
  <2>1. IsFiniteSet(1..MaxSends) /\ Creations \in SUBSET (1..MaxSends)
    BY ShelfNumbers, FS_Interval DEF Creations, Shelf!Sends
  <2> QED BY <2>1, FS_Subset, FS_CardinalityType
<1> QED BY <1>1, <1>2, <1>3, ShelfNumbers DEF Shelf!PromptIds

LEMMA DidIs ==
  ASSUME shelf \in Shelf!Shelf, NEW s \in Shelf!Shelf, s.steps = shelf.steps, Shelf!Do(s)
  PROVE  /\ shelf' \in Shelf!Shelf /\ shelf'.listed = s.listed /\ shelf'.saving = s.saving /\ shelf'.stars = s.stars
         /\ shelf'.stale = s.stale /\ shelf'.lost = s.lost
<1>1. shelf' = [s EXCEPT !.steps = @ + 1]
  BY DEF Shelf!Do
<1>2. s.steps + 1 \in 0..MaxSteps
  <2>1. shelf.steps \in 0..MaxSteps /\ shelf.steps < MaxSteps
    BY DEF Shelf!Shelf, Shelf!Do, Shelf!Steps
  <2> QED BY <2>1, ShelfNumbers
<1> QED BY <1>1, <1>2 DEF Shelf!Shelf

LEMMA CallStarts ==
  ASSUME ShelfFits, NEW k \in Shelf!Sends, NEW op \in {"list", "save", "template", "delete"}, NEW p \in 0..MaxPrompts,
         NEW text \in 0..MaxTexts, NEW s \in Shelf!Shelf, s.steps = shelf.steps, s.listed = shelf.listed, s.stars = shelf.stars,
         s.stale = shelf.stale, s.lost = shelf.lost, Shelf!Start(k, op, p, text, s)
  PROVE  /\ sends[k].step = "free" /\ UNCHANGED stored /\ sends' \in [Shelf!Sends -> Shelf!Send]
         /\ sends'[k].op = op /\ sends'[k].step = "sent" /\ sends'[k].id = p /\ sends'[k].text = text
         /\ \A j \in Shelf!Sends : j # k => sends'[j] = sends[j]
         /\ shelf' \in Shelf!Shelf /\ shelf'.listed = shelf.listed /\ shelf'.saving = s.saving /\ shelf'.stars = shelf.stars
         /\ shelf'.stale = (shelf.stale \/ Shelf!Waiting # {}) /\ shelf'.lost = shelf.lost
<1>1. sends \in [Shelf!Sends -> Shelf!Send] /\ shelf \in Shelf!Shelf
  BY ShelfTypes
<1>2. PICK f : f = [Shelf!Free EXCEPT !.op = op, !.step = "sent", !.id = p, !.text = text]
  OBVIOUS
<1>3. f \in Shelf!Send /\ f.op = op /\ f.step = "sent" /\ f.id = p /\ f.text = text
  BY <1>2 DEF Shelf!Free, Shelf!Send
<1>4. PICK r : r = [s EXCEPT !.stale = @ \/ Shelf!Waiting # {}]
  OBVIOUS
<1>5. /\ r \in Shelf!Shelf /\ r.listed = s.listed /\ r.saving = s.saving /\ r.stars = s.stars
      /\ r.stale = (s.stale \/ Shelf!Waiting # {}) /\ r.lost = s.lost /\ r.steps = s.steps
  BY <1>4 DEF Shelf!Shelf
<1>6. sends[k].step = "free" /\ UNCHANGED stored /\ sends' = [sends EXCEPT ![k] = f] /\ Shelf!Do(r)
  BY <1>2, <1>4 DEF Shelf!Start
<1>7. /\ shelf' \in Shelf!Shelf /\ shelf'.listed = r.listed /\ shelf'.saving = r.saving /\ shelf'.stars = r.stars
      /\ shelf'.stale = r.stale /\ shelf'.lost = r.lost
  BY <1>1, <1>5, <1>6, DidIs
<1> QED BY <1>1, <1>3, <1>5, <1>6, <1>7

\* A step of the user that changes no list and sends nothing.
LEMMA LooksKeep ==
  ASSUME ShelfInv, UNCHANGED <<stored, sends>>, shelf' \in Shelf!Shelf, shelf'.listed = shelf.listed, shelf'.saving = shelf.saving,
         shelf'.stars = shelf.stars, shelf'.stale = shelf.stale, shelf'.lost = shelf.lost
  PROVE  ShelfInv'
<1>1. Shelf!Waiting' = Shelf!Waiting /\ Creations' = Creations /\ Savings' = Savings /\ ShownItems' = ShownItems
  BY DEF Shelf!Waiting, Creations, Savings, ShownItems, ItemsOf
<1>2. ShelfFits'
  BY <1>1 DEF ShelfInv, ShelfFits, Shelf!PromptsTypeOK
<1>3. ASSUME ~shelf.stale PROVE ShelfIsFollowed'
  BY <1>1, <1>3 DEF ShelfInv, ShelfIsFollowed, FollowsSend, StarsFollow, IsListed, Shelf!Live
<1> QED BY <1>2, <1>3 DEF ShelfInv

LEMMA LooksStep ==
  ASSUME ShelfInv,
         \/ Shelf!OpenCreate \/ Shelf!CloseDialog \/ Shelf!BrowseTemplates \/ Shelf!CancelDelete
         \/ \E p \in Shelf!PromptIds : Shelf!OpenEdit(p) \/ Shelf!RequestDelete(p)
  PROVE  ShelfInv'
<1>1. shelf \in Shelf!Shelf /\ UNCHANGED <<stored, sends>> /\ \A p \in Shelf!PromptIds : p \in 0..MaxPrompts
  BY ShelfTypes DEF ShelfInv, Shelf!OpenCreate, Shelf!CloseDialog, Shelf!BrowseTemplates, Shelf!CancelDelete, Shelf!OpenEdit, Shelf!RequestDelete
<1>2. 0 \in 0..MaxPrompts
  BY ShelfNumbers
<1>3. PICK s \in Shelf!Shelf : /\ s.steps = shelf.steps /\ s.listed = shelf.listed /\ s.saving = shelf.saving
                               /\ s.stars = shelf.stars /\ s.stale = shelf.stale /\ s.lost = shelf.lost /\ Shelf!Do(s)
  <2>1. CASE Shelf!OpenCreate
    <3> DEFINE s == [shelf EXCEPT !.dialog = "create"]
    <3>1. /\ s \in Shelf!Shelf /\ s.steps = shelf.steps /\ s.listed = shelf.listed /\ s.saving = shelf.saving
          /\ s.stars = shelf.stars /\ s.stale = shelf.stale /\ s.lost = shelf.lost
      BY <1>1 DEF Shelf!Shelf
    <3> QED BY <2>1, <3>1 DEF Shelf!OpenCreate
  <2>2. CASE Shelf!CloseDialog
    <3> DEFINE s == [shelf EXCEPT !.dialog = "closed", !.editing = 0]
    <3>1. /\ s \in Shelf!Shelf /\ s.steps = shelf.steps /\ s.listed = shelf.listed /\ s.saving = shelf.saving
          /\ s.stars = shelf.stars /\ s.stale = shelf.stale /\ s.lost = shelf.lost
      BY <1>1, <1>2 DEF Shelf!Shelf
    <3> QED BY <2>2, <3>1 DEF Shelf!CloseDialog, Shelf!Closed, Shelf!NoPrompt
  <2>3. CASE Shelf!BrowseTemplates
    <3> DEFINE s == [shelf EXCEPT !.browsing = ~@]
    <3>1. /\ s \in Shelf!Shelf /\ s.steps = shelf.steps /\ s.listed = shelf.listed /\ s.saving = shelf.saving
          /\ s.stars = shelf.stars /\ s.stale = shelf.stale /\ s.lost = shelf.lost
      BY <1>1 DEF Shelf!Shelf
    <3> QED BY <2>3, <3>1 DEF Shelf!BrowseTemplates
  <2>4. CASE Shelf!CancelDelete
    <3> DEFINE s == [shelf EXCEPT !.pending = 0]
    <3>1. /\ s \in Shelf!Shelf /\ s.steps = shelf.steps /\ s.listed = shelf.listed /\ s.saving = shelf.saving
          /\ s.stars = shelf.stars /\ s.stale = shelf.stale /\ s.lost = shelf.lost
      BY <1>1, <1>2 DEF Shelf!Shelf
    <3> QED BY <2>4, <3>1 DEF Shelf!CancelDelete, Shelf!NoPrompt
  <2>5. ASSUME NEW p \in Shelf!PromptIds, Shelf!OpenEdit(p) \/ Shelf!RequestDelete(p)
        PROVE  \E s \in Shelf!Shelf : /\ s.steps = shelf.steps /\ s.listed = shelf.listed /\ s.saving = shelf.saving
                                      /\ s.stars = shelf.stars /\ s.stale = shelf.stale /\ s.lost = shelf.lost /\ Shelf!Do(s)
    <3>1. p \in 0..MaxPrompts
      BY <1>1
    <3>2. CASE Shelf!OpenEdit(p)
      <4> DEFINE s == [shelf EXCEPT !.dialog = "edit", !.editing = p]
      <4>1. /\ s \in Shelf!Shelf /\ s.steps = shelf.steps /\ s.listed = shelf.listed /\ s.saving = shelf.saving
            /\ s.stars = shelf.stars /\ s.stale = shelf.stale /\ s.lost = shelf.lost
        BY <1>1, <3>1 DEF Shelf!Shelf
      <4> QED BY <3>2, <4>1 DEF Shelf!OpenEdit
    <3>3. CASE Shelf!RequestDelete(p)
      <4> DEFINE s == [shelf EXCEPT !.pending = p]
      <4>1. /\ s \in Shelf!Shelf /\ s.steps = shelf.steps /\ s.listed = shelf.listed /\ s.saving = shelf.saving
            /\ s.stars = shelf.stars /\ s.stale = shelf.stale /\ s.lost = shelf.lost
        BY <1>1, <3>1 DEF Shelf!Shelf
      <4> QED BY <3>3, <4>1 DEF Shelf!RequestDelete
    <3> QED BY <2>5, <3>2, <3>3
  <2> QED BY <2>1, <2>2, <2>3, <2>4, <2>5
<1>4. /\ shelf' \in Shelf!Shelf /\ shelf'.listed = shelf.listed /\ shelf'.saving = shelf.saving
      /\ shelf'.stars = shelf.stars /\ shelf'.stale = shelf.stale /\ shelf'.lost = shelf.lost
  BY <1>1, <1>3, DidIs
<1> QED BY <1>1, <1>4, LooksKeep

-----------------------------------------------------------------------------
\* Whose star can be set: what the list shows is there, or is about to go from it.
LEMMA ListedIsKnown ==
  ASSUME ShelfFits, ShelfIsFollowed, \A k \in Shelf!Waiting : sends[k].step # "failed", NEW p, Shelf!Listed(p)
  PROVE  \/ Shelf!Live(p)
         \/ \E k \in Shelf!Waiting : sends[k].op = "delete" /\ sends[k].step = "ok" /\ sends[k].id = p
<1>1. PICK y \in ShownItems : y.id = p
  BY DEF Shelf!Listed, ShownItems, ItemsOf
<1>2. CASE Shelf!Waiting = {}
  BY <1>1, <1>2 DEF ShelfIsFollowed, IsListed, Shelf!Live
<1>3. ASSUME NEW k \in Shelf!Waiting
      PROVE  \/ Shelf!Live(p)
             \/ sends[k].op = "delete" /\ sends[k].step = "ok" /\ sends[k].id = p
  <2>1. FollowsSend(sends[k]) /\ SendFits(sends[k]) /\ sends[k] \in Shelf!Send /\ sends[k].step \in {"sent", "ok"}
    <3>1. sends[k] \in Shelf!Send /\ sends[k].step # "free" /\ SendFits(sends[k]) /\ FollowsSend(sends[k])
      BY <1>3, ShelfTypes DEF ShelfFits, ShelfIsFollowed, Shelf!Waiting
    <3> QED BY <1>3, <3>1 DEF Shelf!Send
  <2>2. CASE sends[k].op = "list"
    BY <1>1, <2>1, <2>2 DEF FollowsSend
  <2>3. CASE sends[k].op # "list" /\ sends[k].step = "sent"
    BY <1>1, <2>1, <2>3 DEF FollowsSend, IsListed, Shelf!Live
  <2>4. CASE sends[k].op \in {"save", "template"} /\ sends[k].step = "ok" /\ sends[k].id = 0
    BY <1>1, <2>1, <2>4 DEF FollowsSend, IsListed, Shelf!Live
  <2>5. CASE sends[k].op \in {"save", "template"} /\ sends[k].step = "ok" /\ sends[k].id # 0
    <3>1. PICK x \in stored.prompts : sends[k].items = {x} /\ stored.prompts = Shelf!Without(ShownItems, sends[k].id) \cup {x}
      BY <2>1, <2>5 DEF FollowsSend
    <3>2. x.id = sends[k].id
      BY <2>1, <2>5, <3>1 DEF SendFits
    <3>3. p # sends[k].id => y \in stored.prompts
      BY <1>1, <3>1 DEF Shelf!Without
    <3> QED BY <1>1, <3>2, <3>3 DEF Shelf!Live
  <2>6. CASE sends[k].op = "delete" /\ sends[k].step = "ok"
    <3>1. Shelf!Without(ShownItems, sends[k].id) = stored.prompts
      BY <2>1, <2>6 DEF FollowsSend
    <3> QED BY <1>1, <2>6, <3>1 DEF Shelf!Without, Shelf!Live
  <2> QED BY <2>1, <2>2, <2>3, <2>4, <2>5, <2>6 DEF Shelf!Send
<1> QED BY <1>2, <1>3

LEMMA ToggleStep ==
  ASSUME ShelfInv, NEW p \in Shelf!PromptIds, Shelf!ToggleFavorite(p)
  PROVE  ShelfInv'
<1>1. /\ shelf \in Shelf!Shelf /\ shelf.stars \in SUBSET Shelf!PromptIds /\ ShelfFits
      /\ stored \in [prompts : SUBSET Shelf!Item, made : 0..MaxPrompts, stars : SUBSET Shelf!PromptIds]
  <2>1. ShelfFits /\ shelf \in Shelf!Shelf
    BY ShelfTypes DEF ShelfInv
  <2> QED BY <2>1, ShelfTypes DEF Shelf!Shelf
<1>2. PICK st : st = IF p \in shelf.stars THEN shelf.stars \ {p} ELSE shelf.stars \cup {p}
  OBVIOUS
<1>3. st \in SUBSET Shelf!PromptIds /\ \A q \in st : q \in shelf.stars \/ q = p
  BY <1>1, <1>2
<1>4. PICK s : s = [shelf EXCEPT !.stars = st]
  OBVIOUS
<1>5. /\ s \in Shelf!Shelf /\ s.steps = shelf.steps /\ s.listed = shelf.listed /\ s.saving = shelf.saving
      /\ s.stars = st /\ s.stale = shelf.stale /\ s.lost = shelf.lost
  BY <1>1, <1>3, <1>4 DEF Shelf!Shelf
<1>6. Shelf!Do(s) /\ Shelf!Listed(p) /\ sends' = sends /\ stored' = [stored EXCEPT !.stars = st]
  BY <1>2, <1>4 DEF Shelf!ToggleFavorite
<1>7. /\ shelf' \in Shelf!Shelf /\ shelf'.listed = shelf.listed /\ shelf'.saving = shelf.saving
      /\ shelf'.stars = st /\ shelf'.stale = shelf.stale /\ shelf'.lost = shelf.lost
  BY <1>1, <1>5, <1>6, DidIs
<1>8. /\ stored' \in [prompts : SUBSET Shelf!Item, made : 0..MaxPrompts, stars : SUBSET Shelf!PromptIds]
      /\ stored'.prompts = stored.prompts /\ stored'.made = stored.made /\ stored'.stars = st
  BY <1>1, <1>3, <1>6
<1>9. /\ Shelf!Waiting' = Shelf!Waiting /\ Creations' = Creations /\ Savings' = Savings /\ ShownItems' = ShownItems
      /\ \A q : Shelf!Live(q)' <=> Shelf!Live(q)
  BY <1>6, <1>7, <1>8 DEF Shelf!Waiting, Creations, Savings, ShownItems, ItemsOf, Shelf!Live
<1>10. ShelfFits'
  BY <1>1, <1>6, <1>7, <1>8, <1>9 DEF ShelfFits, Shelf!PromptsTypeOK
<1>11. ASSUME ~shelf.stale PROVE ShelfIsFollowed'
  <2>1. ShelfIsFollowed
    BY <1>11 DEF ShelfInv
  <2>2. StarsFollow'
    <3>1. ASSUME ~shelf.lost, \A k \in Shelf!Waiting : sends[k].step # "failed", NEW q \in st
          PROVE  \/ Shelf!Live(q)
                 \/ \E k \in Shelf!Waiting : sends[k].op = "delete" /\ sends[k].step = "ok" /\ sends[k].id = q
      <4>1. CASE q \in shelf.stars
        BY <2>1, <3>1, <4>1 DEF ShelfIsFollowed, StarsFollow
      <4>2. CASE q = p
        BY <1>1, <1>6, <2>1, <3>1, <4>2, ListedIsKnown
      <4> QED BY <1>3, <3>1, <4>1, <4>2
    <3> QED BY <1>6, <1>7, <1>9, <3>1 DEF StarsFollow
  <2>3. \A k \in Shelf!Waiting : FollowsSend(sends[k])'
    BY <1>6, <1>7, <1>8, <1>9, <2>1 DEF ShelfIsFollowed, FollowsSend, IsListed
  <2> QED BY <1>6, <1>7, <1>8, <1>9, <2>1, <2>2, <2>3 DEF ShelfIsFollowed, IsListed
<1> QED BY <1>7, <1>10, <1>11 DEF ShelfInv

-----------------------------------------------------------------------------
\* A request that is sent.
LEMMA SentStep ==
  ASSUME ShelfInv, NEW k \in Shelf!Sends, NEW op \in {"list", "save", "template", "delete"}, NEW p \in 0..MaxPrompts,
         NEW text \in 0..MaxTexts, NEW s \in Shelf!Shelf, s.steps = shelf.steps, s.listed = shelf.listed, s.stars = shelf.stars,
         s.stale = shelf.stale, s.lost = shelf.lost, Shelf!Start(k, op, p, text, s),
         op = "template" => p = 0, op = "delete" => p # 0, op \in {"save", "template"} => text # 0,
         op # "save" => s.saving = shelf.saving, op = "save" => s.saving /\ ~shelf.saving
  PROVE  ShelfInv'
<1>1. ShelfFits /\ sends \in [Shelf!Sends -> Shelf!Send] /\ IsFiniteSet(Creations)
  BY ShelfTypes DEF ShelfInv
<1>2. /\ sends[k].step = "free" /\ UNCHANGED stored /\ sends' \in [Shelf!Sends -> Shelf!Send]
      /\ sends'[k].op = op /\ sends'[k].step = "sent" /\ sends'[k].id = p /\ sends'[k].text = text
      /\ \A j \in Shelf!Sends : j # k => sends'[j] = sends[j]
      /\ shelf' \in Shelf!Shelf /\ shelf'.listed = shelf.listed /\ shelf'.saving = s.saving /\ shelf'.stars = shelf.stars
      /\ shelf'.stale = (shelf.stale \/ Shelf!Waiting # {}) /\ shelf'.lost = shelf.lost
  BY <1>1, CallStarts
<1>3. /\ Shelf!Waiting' = Shelf!Waiting \cup {k} /\ k \notin Shelf!Waiting /\ Creations' = Creations /\ ShownItems' = ShownItems
      /\ Savings' = IF op = "save" THEN Savings \cup {k} ELSE Savings
  <2>1. Shelf!Waiting' = Shelf!Waiting \cup {k} /\ k \notin Shelf!Waiting
    BY <1>2 DEF Shelf!Waiting
  <2>2. Creations' = Creations
    BY <1>2 DEF Creations
  <2>3. ShownItems' = ShownItems
    BY <1>2 DEF ShownItems
  <2>4. Savings' = IF op = "save" THEN Savings \cup {k} ELSE Savings
    BY <1>2, <2>1 DEF Savings, Shelf!Waiting
  <2> QED BY <2>1, <2>2, <2>3, <2>4
<1>4. SendFits(sends'[k])
  BY <1>2 DEF SendFits
<1>5. ShelfFits'
  <2>1. Shelf!PromptsTypeOK'
    BY <1>1, <1>2 DEF ShelfFits, Shelf!PromptsTypeOK
  <2>2. \A j \in Shelf!Sends : SendFits(sends'[j])
    BY <1>1, <1>2, <1>4 DEF ShelfFits
  <2>3. (\A i, j \in Savings' : i = j) /\ (shelf'.saving <=> Savings' # {})
    BY <1>1, <1>2, <1>3 DEF ShelfFits
  <2> QED BY <1>1, <1>2, <1>3, <2>1, <2>2, <2>3 DEF ShelfFits, SendFits
<1>6. ASSUME ~shelf'.stale PROVE ShelfIsFollowed'
  <2>1. ~shelf.stale /\ Shelf!Waiting = {} /\ Shelf!Waiting' = {k} /\ ShelfIsFollowed
    BY <1>2, <1>3, <1>6 DEF ShelfInv
  <2>2. IsListed(stored.prompts) /\ IsListed(stored.prompts)'
    BY <1>2, <1>3, <2>1 DEF ShelfIsFollowed, IsListed
  <2>3. FollowsSend(sends[k])'
    <3>1. CASE op = "list"
      BY <1>2, <2>2, <3>1 DEF FollowsSend, IsListed, Shelf!Live
    <3>2. CASE op # "list"
      BY <1>2, <2>2, <3>2 DEF FollowsSend
    <3> QED BY <3>1, <3>2
  <2>4. StarsFollow'
    BY <1>2, <2>1 DEF ShelfIsFollowed, StarsFollow, Shelf!Live
  <2> QED BY <2>1, <2>3, <2>4 DEF ShelfIsFollowed
<1> QED BY <1>2, <1>5, <1>6 DEF ShelfInv

LEMMA SendStep ==
  ASSUME ShelfInv, NEW k \in Shelf!Sends,
         Shelf!LoadPrompts(k) \/ Shelf!SavePrompt(k) \/ Shelf!CreateFromTemplate(k) \/ Shelf!ConfirmDelete(k)
  PROVE  ShelfInv'
<1>1. shelf \in Shelf!Shelf
  BY ShelfTypes DEF ShelfInv
<1>2. 0 \in 0..MaxPrompts /\ 0 \in 0..MaxTexts /\ 1 \in 0..MaxTexts /\ \A text \in Shelf!Texts : text \in 0..MaxTexts /\ text # 0
  BY ShelfNumbers DEF Shelf!Texts
<1>3. CASE Shelf!LoadPrompts(k)
  BY <1>1, <1>2, <1>3, SentStep DEF Shelf!LoadPrompts, Shelf!NoPrompt
<1>4. CASE Shelf!SavePrompt(k)
  <2>1. PICK s : s = [shelf EXCEPT !.saving = TRUE]
    OBVIOUS
  <2>2. /\ s \in Shelf!Shelf /\ s.steps = shelf.steps /\ s.listed = shelf.listed /\ s.saving
        /\ s.stars = shelf.stars /\ s.stale = shelf.stale /\ s.lost = shelf.lost
    BY <1>1, <2>1 DEF Shelf!Shelf
  <2>3. shelf.editing \in 0..MaxPrompts /\ ~shelf.saving
    BY <1>1, <1>4 DEF Shelf!Shelf, Shelf!SavePrompt
  <2>4. PICK text \in Shelf!Texts : Shelf!Start(k, "save", shelf.editing, text, s)
    BY <1>4, <2>1 DEF Shelf!SavePrompt
  <2> QED BY <1>2, <2>2, <2>3, <2>4, SentStep
<1>5. CASE Shelf!CreateFromTemplate(k)
  <2>1. PICK s : s = [shelf EXCEPT !.adding = TRUE]
    OBVIOUS
  <2>2. /\ s \in Shelf!Shelf /\ s.steps = shelf.steps /\ s.listed = shelf.listed /\ s.saving = shelf.saving
        /\ s.stars = shelf.stars /\ s.stale = shelf.stale /\ s.lost = shelf.lost
    BY <1>1, <2>1 DEF Shelf!Shelf
  <2>3. Shelf!Start(k, "template", 0, 1, s)
    BY <1>5, <2>1 DEF Shelf!CreateFromTemplate, Shelf!NoPrompt
  <2> QED BY <1>2, <2>2, <2>3, SentStep
<1>6. CASE Shelf!ConfirmDelete(k)
  <2>1. PICK p : p = shelf.pending
    OBVIOUS
  <2>2. p \in 0..MaxPrompts /\ p # 0
    <3>1. \E y \in Shelf!Item : y.id = p
      <4>1. shelf.listed \in Seq(Shelf!Item) /\ Shelf!Listed(p)
        BY <1>1, <1>6, <2>1 DEF Shelf!ConfirmDelete, Shelf!Shelf
      <4> QED BY <4>1, ElementOfSeq DEF Shelf!Listed
    <3> QED BY <3>1, ShelfNumbers DEF Shelf!Item, Shelf!PromptIds
  <2>3. PICK s : s = [shelf EXCEPT !.deleting = p]
    OBVIOUS
  <2>4. /\ s \in Shelf!Shelf /\ s.steps = shelf.steps /\ s.listed = shelf.listed /\ s.saving = shelf.saving
        /\ s.stars = shelf.stars /\ s.stale = shelf.stale /\ s.lost = shelf.lost
    BY <1>1, <2>2, <2>3 DEF Shelf!Shelf
  <2>5. Shelf!Start(k, "delete", p, 0, s)
    BY <1>6, <2>1, <2>3 DEF Shelf!ConfirmDelete
  <2> QED BY <1>2, <2>2, <2>4, <2>5, SentStep
<1> QED BY <1>3, <1>4, <1>5, <1>6

-----------------------------------------------------------------------------
\* What a request does to the library when it is granted.
LEMMA LibraryGrants ==
  ASSUME ShelfFits, NEW call \in Shelf!Send, SendFits(call), NEW d \in Shelf!Granted(call)
  PROVE  /\ d \in [prompts : SUBSET Shelf!Item, made : 0..MaxPrompts, stars : SUBSET Shelf!PromptIds]
         /\ d.stars = stored.stars /\ d.made \in Nat /\ stored.made <= d.made
         /\ NumberedOnce(d.prompts) /\ \A i \in d.prompts : i.id <= d.made
         /\ \/ call.op = "list" /\ d = stored
            \/ /\ call.op \in {"save", "template"} /\ call.id = 0 /\ d.made = stored.made + 1
               /\ \E x \in Shelf!Item : x \notin stored.prompts /\ d.prompts = stored.prompts \cup {x}
            \/ /\ call.op = "save" /\ call.id # 0 /\ Shelf!Live(call.id)
               /\ \E x \in Shelf!Item : x.id = call.id /\ d.prompts = Shelf!Without(stored.prompts, call.id) \cup {x}
            \/ call.op = "delete" /\ d.prompts = Shelf!Without(stored.prompts, call.id)
<1>1. /\ stored \in [prompts : SUBSET Shelf!Item, made : 0..MaxPrompts, stars : SUBSET Shelf!PromptIds]
      /\ stored.prompts \in SUBSET Shelf!Item /\ stored.made \in 0..MaxPrompts /\ stored.made \in Nat
      /\ NumberedOnce(stored.prompts) /\ \A i \in stored.prompts : i.id <= stored.made
  BY ShelfTypes DEF ShelfFits
<1>2. \A i \in Shelf!Item : i.id \in Nat
  BY ShelfNumbers DEF Shelf!Item, Shelf!PromptIds
<1>3. CASE call.op = "list"
  <2>1. d = stored
    BY <1>3 DEF Shelf!Granted
  <2> QED BY <1>1, <1>3, <2>1
<1>4. CASE call.op \in {"save", "template"} /\ call.id = 0
  <2>1. PICK m : m = stored.made + 1
    OBVIOUS
  <2>2. PICK x : x = [id |-> m, text |-> call.text]
    OBVIOUS
  <2>3. m <= MaxPrompts /\ d = [[stored EXCEPT !.prompts = stored.prompts \cup {x}] EXCEPT !.made = m]
    BY <1>4, <2>1, <2>2, Zenon DEF Shelf!Granted, Shelf!NoPrompt
  <2>4. m \in 0..MaxPrompts /\ m \in Shelf!PromptIds /\ m \in Nat /\ stored.made < m
    BY <1>1, <2>1, <2>3, ShelfNumbers DEF Shelf!PromptIds
  <2>5. x \in Shelf!Item /\ x.id = m
    BY <1>4, <2>2, <2>4, ShelfNumbers DEF Shelf!Item, Shelf!Texts, Shelf!Send, SendFits
  <2>6. d.prompts = stored.prompts \cup {x} /\ d.made = m /\ d.stars = stored.stars
        /\ d \in [prompts : SUBSET Shelf!Item, made : 0..MaxPrompts, stars : SUBSET Shelf!PromptIds]
    BY <1>1, <2>3, <2>4, <2>5
  <2>7. \A i \in stored.prompts : i.id \in Nat /\ i.id < m
    BY <1>1, <1>2, <2>4
  <2>8. x \notin stored.prompts /\ NumberedOnce(d.prompts) /\ \A i \in d.prompts : i.id <= d.made
    BY <1>1, <2>4, <2>5, <2>6, <2>7 DEF NumberedOnce
  <2> QED BY <1>1, <1>4, <2>1, <2>4, <2>5, <2>6, <2>8
<1>5. CASE call.op = "save" /\ call.id # 0
  <2>1. PICK x : x = [id |-> call.id, text |-> call.text]
    OBVIOUS
  <2>2. Shelf!Live(call.id) /\ d = [stored EXCEPT !.prompts = Shelf!Without(stored.prompts, call.id) \cup {x}]
    BY <1>5, <2>1, Zenon DEF Shelf!Granted, Shelf!NoPrompt
  <2>3. x \in Shelf!Item /\ x.id = call.id
    BY <1>5, <2>1, ShelfNumbers DEF Shelf!Item, Shelf!Texts, Shelf!PromptIds, Shelf!Send, SendFits
  <2>4. d.prompts = Shelf!Without(stored.prompts, call.id) \cup {x} /\ d.made = stored.made /\ d.stars = stored.stars
        /\ d \in [prompts : SUBSET Shelf!Item, made : 0..MaxPrompts, stars : SUBSET Shelf!PromptIds]
    BY <1>1, <2>2, <2>3 DEF Shelf!Without
  <2>5. NumberedOnce(d.prompts) /\ \A i \in d.prompts : i.id <= d.made
    BY <1>1, <2>2, <2>3, <2>4 DEF NumberedOnce, Shelf!Without, Shelf!Live
  <2> QED BY <1>1, <1>5, <2>2, <2>3, <2>4, <2>5
<1>6. CASE call.op = "delete"
  <2>1. d = [stored EXCEPT !.prompts = Shelf!Without(stored.prompts, call.id)]
    BY <1>6, Zenon DEF Shelf!Granted
  <2>2. d.prompts = Shelf!Without(stored.prompts, call.id) /\ d.made = stored.made /\ d.stars = stored.stars
        /\ d \in [prompts : SUBSET Shelf!Item, made : 0..MaxPrompts, stars : SUBSET Shelf!PromptIds]
    BY <1>1, <2>1 DEF Shelf!Without
  <2>3. NumberedOnce(d.prompts) /\ \A i \in d.prompts : i.id <= d.made
    BY <1>1, <2>2 DEF NumberedOnce, Shelf!Without
  <2> QED BY <1>1, <1>6, <2>2, <2>3
<1>7. call.op \in {"list", "save", "template", "delete"} /\ (call.op = "template" => call.id = 0)
  BY DEF Shelf!Send, SendFits
<1> QED BY <1>3, <1>4, <1>5, <1>6, <1>7

-----------------------------------------------------------------------------
LEMMA ShelfServeStep ==
  ASSUME ShelfInv, NEW k \in Shelf!Sends, Shelf!Serve(k)
  PROVE  ShelfInv'
<1>1. /\ ShelfFits /\ sends \in [Shelf!Sends -> Shelf!Send] /\ IsFiniteSet(Creations) /\ Cardinality(Creations) \in Nat
      /\ Len(shelf.listed) \in Nat /\ stored.made \in Nat
  BY ShelfTypes DEF ShelfInv
<1>2. PICK call : call = sends[k]
  OBVIOUS
<1>3. call \in Shelf!Send /\ SendFits(call) /\ call.step = "sent" /\ call.op \in {"list", "save", "template", "delete"} /\ UNCHANGED shelf
  BY <1>1, <1>2 DEF ShelfFits, Shelf!Serve, Shelf!Send
<1>4. PICK d \in Shelf!Granted(call) : stored' = d
  BY <1>2 DEF Shelf!Serve
<1>5. /\ d \in [prompts : SUBSET Shelf!Item, made : 0..MaxPrompts, stars : SUBSET Shelf!PromptIds]
      /\ d.stars = stored.stars /\ d.made \in Nat /\ stored.made <= d.made
      /\ NumberedOnce(d.prompts) /\ \A i \in d.prompts : i.id <= d.made
  BY <1>1, <1>3, LibraryGrants
<1>6. \/ call.op = "list" /\ d = stored
      \/ /\ call.op \in {"save", "template"} /\ call.id = 0 /\ d.made = stored.made + 1
         /\ \E x \in Shelf!Item : x \notin stored.prompts /\ d.prompts = stored.prompts \cup {x}
      \/ /\ call.op = "save" /\ call.id # 0 /\ Shelf!Live(call.id)
         /\ \E x \in Shelf!Item : x.id = call.id /\ d.prompts = Shelf!Without(stored.prompts, call.id) \cup {x}
      \/ call.op = "delete" /\ d.prompts = Shelf!Without(stored.prompts, call.id)
  BY <1>1, <1>3, LibraryGrants
<1>7. PICK its : /\ its = CASE call.op = "list" -> stored.prompts
                            [] call.op = "delete" -> {}
                            [] OTHER -> IF call.id # 0 THEN {i \in d.prompts : i.id = call.id} ELSE d.prompts \ stored.prompts
                 /\ sends' = [sends EXCEPT ![k].step = "ok", ![k].items = its]
  BY <1>2, <1>4, Zenon DEF Shelf!Serve, Shelf!NoPrompt
<1>8. /\ call.op = "list" => its = stored.prompts
      /\ call.op = "delete" => its = {}
      /\ call.op \in {"save", "template"} /\ call.id = 0 => its = d.prompts \ stored.prompts
      /\ call.op \in {"save", "template"} /\ call.id # 0 => its = {i \in d.prompts : i.id = call.id}
  <2>1. call.op = "list" => its = stored.prompts
    BY <1>7
  <2>2. call.op = "delete" => its = {}
    BY <1>7
  <2>3. call.op \in {"save", "template"} /\ call.id = 0 => its = d.prompts \ stored.prompts
    BY <1>7
  <2>4. call.op \in {"save", "template"} /\ call.id # 0 => its = {i \in d.prompts : i.id = call.id}
    BY <1>7
  <2> QED BY <2>1, <2>2, <2>3, <2>4
<1>9. /\ call.op \in {"save", "template"} /\ call.id = 0 =>
           \E x \in Shelf!Item : x \notin stored.prompts /\ its = {x} /\ d.prompts = stored.prompts \cup {x}
      /\ call.op \in {"save", "template"} /\ call.id # 0 =>
           \E x \in Shelf!Item : x.id = call.id /\ its = {x} /\ d.prompts = Shelf!Without(stored.prompts, call.id) \cup {x}
  <2>1. ASSUME call.op \in {"save", "template"}, call.id = 0
        PROVE  \E x \in Shelf!Item : x \notin stored.prompts /\ its = {x} /\ d.prompts = stored.prompts \cup {x}
    <3>1. PICK x \in Shelf!Item : x \notin stored.prompts /\ d.prompts = stored.prompts \cup {x}
      BY <1>6, <2>1
    <3>2. its = {x}
      BY <1>8, <2>1, <3>1
    <3> QED BY <3>1, <3>2
  <2>2. ASSUME call.op \in {"save", "template"}, call.id # 0
        PROVE  \E x \in Shelf!Item : x.id = call.id /\ its = {x} /\ d.prompts = Shelf!Without(stored.prompts, call.id) \cup {x}
    <3>1. PICK x \in Shelf!Item : x.id = call.id /\ d.prompts = Shelf!Without(stored.prompts, call.id) \cup {x}
      BY <1>6, <2>2
    <3>2. its = {x}
      BY <1>8, <2>2, <3>1 DEF Shelf!Without
    <3> QED BY <3>1, <3>2
  <2> QED BY <2>1, <2>2
<1>10. its \in SUBSET Shelf!Item
  <2>1. stored.prompts \in SUBSET Shelf!Item
    BY <1>1, ShelfTypes
  <2> QED BY <1>3, <1>5, <1>8, <2>1
<1>11. /\ sends' \in [Shelf!Sends -> Shelf!Send] /\ \A j \in Shelf!Sends : j # k => sends'[j] = sends[j]
       /\ sends'[k].op = call.op /\ sends'[k].id = call.id /\ sends'[k].text = call.text /\ sends'[k].step = "ok" /\ sends'[k].items = its
  <2>1. PICK f : f = [[call EXCEPT !.step = "ok"] EXCEPT !.items = its]
    OBVIOUS
  <2>2. f \in Shelf!Send /\ f.op = call.op /\ f.id = call.id /\ f.text = call.text /\ f.step = "ok" /\ f.items = its
    BY <1>3, <1>10, <2>1 DEF Shelf!Send
  <2>3. sends' = [sends EXCEPT ![k] = f]
    BY <1>1, <1>2, <1>7, <2>1
  <2> QED BY <1>1, <2>2, <2>3
<1>12. /\ Shelf!Waiting' = Shelf!Waiting /\ k \in Shelf!Waiting /\ Savings' = Savings /\ ShownItems' = ShownItems
       /\ Creations' = IF call.op \in {"save", "template"} /\ call.id = 0 THEN Creations \cup {k} ELSE Creations
       /\ k \notin Creations
  <2>1. Shelf!Waiting' = Shelf!Waiting /\ k \in Shelf!Waiting
    BY <1>2, <1>3, <1>11 DEF Shelf!Waiting
  <2>2. Savings' = Savings
    BY <1>2, <1>11, <2>1 DEF Savings, Shelf!Waiting
  <2>3. ShownItems' = ShownItems
    BY <1>3 DEF ShownItems
  <2>4. k \notin Creations /\ Creations' = IF call.op \in {"save", "template"} /\ call.id = 0 THEN Creations \cup {k} ELSE Creations
    BY <1>2, <1>3, <1>11 DEF Creations
  <2> QED BY <2>1, <2>2, <2>3, <2>4
<1>13. Cardinality(Creations') <= d.made /\ Len(shelf.listed) + Cardinality(Creations') <= MaxPrompts + d.made
  <2>1. Cardinality(Creations) <= stored.made /\ Len(shelf.listed) + Cardinality(Creations) <= MaxPrompts + stored.made
    BY <1>1 DEF ShelfFits
  <2>2. CASE call.op \in {"save", "template"} /\ call.id = 0
    <3>1. Cardinality(Creations') = Cardinality(Creations) + 1 /\ d.made = stored.made + 1
      BY <1>1, <1>6, <1>12, <2>2, FS_AddElement
    <3> QED BY <1>1, <2>1, <3>1, ShelfNumbers
  <2>3. CASE ~(call.op \in {"save", "template"} /\ call.id = 0)
    BY <1>1, <1>5, <1>12, <2>1, <2>3, ShelfNumbers
  <2> QED BY <2>2, <2>3
<1>14. SendFits(sends'[k])
  <2>1. SendFits(call) /\ NumberedOnce(stored.prompts)
    BY <1>1, <1>3 DEF ShelfFits
  <2> QED BY <1>8, <1>9, <1>11, <2>1 DEF SendFits
<1>15. ShelfFits'
  <2>1. Shelf!PromptsTypeOK'
    BY <1>1, <1>3, <1>4, <1>5, <1>11 DEF ShelfFits, Shelf!PromptsTypeOK
  <2>2. \A j \in Shelf!Sends : SendFits(sends'[j])
    BY <1>1, <1>11, <1>14 DEF ShelfFits
  <2>3. \A j \in Shelf!Sends : SendFits(sends[j])'
    BY <2>2 DEF SendFits
  <2>4. stored'.stars = shelf'.stars /\ NumberedOnce(stored.prompts)' /\ (\A i \in stored'.prompts : i.id <= stored'.made)
    BY <1>1, <1>3, <1>4, <1>5 DEF ShelfFits, NumberedOnce
  <2> QED BY <1>1, <1>3, <1>4, <1>12, <1>13, <2>1, <2>3, <2>4 DEF ShelfFits
<1>16. ASSUME ~shelf.stale PROVE ShelfIsFollowed'
  <2>1. ShelfIsFollowed /\ Shelf!Waiting = {k}
    BY <1>12, <1>16 DEF ShelfInv, ShelfIsFollowed
  <2>2. FollowsSend(call)
    BY <1>2, <2>1 DEF ShelfIsFollowed
  <2>3. FollowsSend(sends[k])'
    <3>1. CASE call.op = "list"
      BY <1>3, <1>4, <1>6, <1>8, <1>11, <1>12, <2>2, <3>1 DEF FollowsSend, Shelf!Live
    <3>2. ASSUME call.op # "list" PROVE IsListed(stored.prompts)
      BY <1>3, <2>2, <3>2 DEF FollowsSend
    <3>3. CASE call.op \in {"save", "template"} /\ call.id = 0
      <4>1. PICK x \in Shelf!Item : x \notin stored.prompts /\ its = {x} /\ d.prompts = stored.prompts \cup {x}
        BY <1>9, <3>3
      <4>2. x \in d.prompts /\ d.prompts \ {x} = stored.prompts
        BY <4>1
      <4>3. IsListed(d.prompts \ {x})'
        BY <1>3, <1>4, <1>12, <3>2, <3>3, <4>2 DEF IsListed
      <4>4. stored'.prompts = d.prompts /\ IsListed(stored.prompts \ {x})'
        BY <1>4, <4>3 DEF IsListed
      <4> QED BY <1>11, <3>3, <4>1, <4>2, <4>4 DEF FollowsSend
    <3>4. CASE call.op \in {"save", "template"} /\ call.id # 0
      <4>1. PICK x \in Shelf!Item : x.id = call.id /\ its = {x} /\ d.prompts = Shelf!Without(stored.prompts, call.id) \cup {x}
        BY <1>9, <3>4
      <4>2. ShownItems = stored.prompts /\ OnceEach(shelf.listed) /\ \E i \in ShownItems : i.id = call.id
        BY <1>6, <3>2, <3>4 DEF IsListed, Shelf!Live
      <4> QED BY <1>3, <1>4, <1>11, <1>12, <3>4, <4>1, <4>2 DEF FollowsSend
    <3>5. CASE call.op = "delete"
      <4>1. d.prompts = Shelf!Without(ShownItems, call.id) /\ OnceEach(shelf.listed)
        BY <1>6, <3>2, <3>5 DEF IsListed
      <4> QED BY <1>3, <1>4, <1>11, <1>12, <3>5, <4>1 DEF FollowsSend
    <3> QED BY <1>3, <3>1, <3>3, <3>4, <3>5
  <2>4. StarsFollow'
    <3>1. ASSUME ~shelf.lost, NEW p \in shelf.stars
          PROVE  Shelf!Live(p)' \/ (call.op = "delete" /\ call.id = p)
      <4>1. Shelf!Live(p)
        BY <1>2, <1>3, <2>1, <3>1 DEF ShelfIsFollowed, StarsFollow
      <4>2. CASE d = stored
        BY <1>4, <4>1, <4>2 DEF Shelf!Live
      <4>3. PICK y \in stored.prompts : y.id = p
        BY <4>1 DEF Shelf!Live
      <4>4. CASE stored.prompts \subseteq d.prompts
        BY <1>4, <4>3, <4>4 DEF Shelf!Live
      <4>5. ASSUME NEW x \in Shelf!Item, x.id = call.id, d.prompts = Shelf!Without(stored.prompts, call.id) \cup {x}
            PROVE  Shelf!Live(p)'
        BY <1>4, <4>3, <4>5 DEF Shelf!Live, Shelf!Without
      <4>6. CASE call.op = "delete" /\ d.prompts = Shelf!Without(stored.prompts, call.id)
        BY <1>4, <4>3, <4>6 DEF Shelf!Live, Shelf!Without
      <4> QED BY <1>6, <4>2, <4>4, <4>5, <4>6
    <3> QED BY <1>3, <1>11, <1>12, <3>1 DEF StarsFollow
  <2> QED BY <1>12, <2>1, <2>3, <2>4 DEF ShelfIsFollowed
<1> QED BY <1>3, <1>15, <1>16 DEF ShelfInv

-----------------------------------------------------------------------------
LEMMA ShelfRefuseStep ==
  ASSUME ShelfInv, NEW k \in Shelf!Sends, Shelf!Refuse(k)
  PROVE  ShelfInv'
<1>1. /\ ShelfFits /\ sends \in [Shelf!Sends -> Shelf!Send] /\ Cardinality(Creations) \in Nat
      /\ Len(shelf.listed) \in Nat /\ stored.made \in Nat
      /\ stored \in [prompts : SUBSET Shelf!Item, made : 0..MaxPrompts, stars : SUBSET Shelf!PromptIds]
  BY ShelfTypes DEF ShelfInv
<1>2. PICK call : call = sends[k]
  OBVIOUS
<1>3. call \in Shelf!Send /\ SendFits(call) /\ call.step = "sent" /\ UNCHANGED shelf
  BY <1>1, <1>2 DEF ShelfFits, Shelf!Refuse
<1>4. PICK d : stored' = d /\ (d = stored \/ d \in Shelf!Granted(call))
  BY <1>2 DEF Shelf!Refuse
<1>5. /\ d \in [prompts : SUBSET Shelf!Item, made : 0..MaxPrompts, stars : SUBSET Shelf!PromptIds]
      /\ d.stars = stored.stars /\ d.made \in Nat /\ stored.made <= d.made
      /\ NumberedOnce(d.prompts) /\ \A i \in d.prompts : i.id <= d.made
      /\ call.op = "list" => d = stored
  <2>1. CASE d = stored
    BY <1>1, <2>1 DEF ShelfFits
  <2>2. CASE d \in Shelf!Granted(call)
    BY <1>1, <1>3, <2>2, LibraryGrants
  <2> QED BY <1>4, <2>1, <2>2
<1>6. /\ sends' \in [Shelf!Sends -> Shelf!Send] /\ \A j \in Shelf!Sends : j # k => sends'[j] = sends[j]
      /\ sends'[k].op = call.op /\ sends'[k].id = call.id /\ sends'[k].text = call.text /\ sends'[k].step = "failed"
  <2>1. PICK f : f = [call EXCEPT !.step = "failed"]
    OBVIOUS
  <2>2. f \in Shelf!Send /\ f.op = call.op /\ f.id = call.id /\ f.text = call.text /\ f.step = "failed"
    BY <1>3, <2>1 DEF Shelf!Send
  <2>3. sends' = [sends EXCEPT ![k] = f]
    BY <1>2, <2>1 DEF Shelf!Refuse
  <2> QED BY <1>1, <2>2, <2>3
<1>7. /\ Shelf!Waiting' = Shelf!Waiting /\ k \in Shelf!Waiting /\ Savings' = Savings /\ ShownItems' = ShownItems
      /\ Creations' = Creations
  <2>1. Shelf!Waiting' = Shelf!Waiting /\ k \in Shelf!Waiting
    BY <1>2, <1>3, <1>6 DEF Shelf!Waiting
  <2>2. Savings' = Savings
    BY <1>2, <1>6, <2>1 DEF Savings, Shelf!Waiting
  <2>3. ShownItems' = ShownItems /\ Creations' = Creations
    BY <1>2, <1>3, <1>6 DEF ShownItems, Creations
  <2> QED BY <2>1, <2>2, <2>3
<1>8. ShelfFits'
  <2>1. Shelf!PromptsTypeOK'
    BY <1>1, <1>3, <1>4, <1>5, <1>6 DEF ShelfFits, Shelf!PromptsTypeOK
  <2>2. \A j \in Shelf!Sends : SendFits(sends'[j])
    <3>1. SendFits(sends'[k])
      BY <1>3, <1>6 DEF SendFits
    <3> QED BY <1>1, <1>6, <3>1 DEF ShelfFits
  <2>3. \A j \in Shelf!Sends : SendFits(sends[j])'
    BY <2>2 DEF SendFits
  <2>4. stored'.stars = shelf'.stars /\ NumberedOnce(stored.prompts)' /\ (\A i \in stored'.prompts : i.id <= stored'.made)
    BY <1>1, <1>3, <1>4, <1>5 DEF ShelfFits, NumberedOnce
  <2>5. Cardinality(Creations') <= d.made /\ Len(shelf.listed) + Cardinality(Creations') <= MaxPrompts + d.made
    <3>1. Cardinality(Creations) <= stored.made /\ Len(shelf.listed) + Cardinality(Creations) <= MaxPrompts + stored.made
      BY <1>1 DEF ShelfFits
    <3> QED BY <1>1, <1>5, <1>7, <3>1, ShelfNumbers
  <2> QED BY <1>1, <1>3, <1>4, <1>7, <2>1, <2>3, <2>4, <2>5 DEF ShelfFits
<1>9. ASSUME ~shelf.stale PROVE ShelfIsFollowed'
  <2>1. ShelfIsFollowed /\ Shelf!Waiting = {k}
    BY <1>7, <1>9 DEF ShelfInv, ShelfIsFollowed
  <2>2. FollowsSend(call)
    BY <1>2, <2>1 DEF ShelfIsFollowed
  <2>3. FollowsSend(sends[k])'
    BY <1>3, <1>4, <1>5, <1>6, <1>7, <2>2 DEF FollowsSend, Shelf!Live
  <2>4. StarsFollow'
    BY <1>6, <1>7 DEF StarsFollow
  <2> QED BY <1>7, <2>1, <2>3, <2>4 DEF ShelfIsFollowed
<1> QED BY <1>3, <1>8, <1>9 DEF ShelfInv

-----------------------------------------------------------------------------
\* What every answer does.
LEMMA FinallyIs ==
  ASSUME NEW call \in Shelf!Send, NEW r \in Shelf!Shelf, NEW s, s = Shelf!Finally(call, r)
  PROVE  /\ s \in Shelf!Shelf /\ s.listed = r.listed /\ s.stars = r.stars /\ s.stale = r.stale /\ s.lost = r.lost
         /\ s.saving = IF call.op = "save" THEN FALSE ELSE r.saving
<1>1. call.op \in {"list", "save", "template", "delete"} /\ 0 \in 0..MaxPrompts
  BY ShelfNumbers DEF Shelf!Send
<1>2. CASE call.op = "list"
  BY <1>2 DEF Shelf!Finally
<1>3. CASE call.op = "save"
  <2>1. s = [r EXCEPT !.saving = FALSE]
    BY <1>3 DEF Shelf!Finally
  <2> QED BY <1>3, <2>1 DEF Shelf!Shelf
<1>4. CASE call.op = "template"
  <2>1. s = [r EXCEPT !.adding = FALSE]
    BY <1>4 DEF Shelf!Finally
  <2> QED BY <1>4, <2>1 DEF Shelf!Shelf
<1>5. CASE call.op = "delete"
  <2>1. s = [[r EXCEPT !.deleting = 0] EXCEPT !.pending = 0]
    BY <1>5 DEF Shelf!Finally, Shelf!NoPrompt
  <2>2. PICK q : q = [r EXCEPT !.deleting = 0]
    OBVIOUS
  <2>3. /\ q \in Shelf!Shelf /\ q.listed = r.listed /\ q.stars = r.stars /\ q.stale = r.stale /\ q.lost = r.lost
        /\ q.saving = r.saving
    BY <1>1, <2>2 DEF Shelf!Shelf
  <2>4. s = [q EXCEPT !.pending = 0]
    BY <2>1, <2>2
  <2> QED BY <1>1, <1>5, <2>3, <2>4 DEF Shelf!Shelf
<1> QED BY <1>1, <1>2, <1>3, <1>4, <1>5

\* The list after an answer.
ListAfter(call) ==
  CASE call.op = "list" -> Shelf!NewestFirst(call.items)
    [] call.op \in {"save", "template"} -> Shelf!Changed(shelf.listed, call)
    [] call.op = "delete" -> Picked(shelf.listed, {i \in DOMAIN shelf.listed : shelf.listed[i].id # call.id})

LEMMA AppliedIs ==
  ASSUME ShelfFits, NEW call \in Shelf!Send, NEW t, t = ListAfter(call), t \in Seq(Shelf!Item), NEW r, r = Shelf!Applied(call)
  PROVE  /\ r \in Shelf!Shelf /\ r.listed = t /\ r.stale = shelf.stale /\ r.lost = shelf.lost /\ r.saving = shelf.saving
         /\ r.stars = IF call.op = "delete" THEN shelf.stars \ {call.id} ELSE shelf.stars
<1>1. call.op \in {"list", "save", "template", "delete"} /\ 0 \in 0..MaxPrompts /\ shelf \in Shelf!Shelf
  BY ShelfNumbers, ShelfTypes DEF Shelf!Send
<1>2. PICK q : q = [shelf EXCEPT !.listed = t]
  OBVIOUS
<1>3. /\ q \in Shelf!Shelf /\ q.listed = t /\ q.stars = shelf.stars /\ q.stale = shelf.stale /\ q.lost = shelf.lost
      /\ q.saving = shelf.saving
  BY <1>1, <1>2 DEF Shelf!Shelf
<1>4. CASE call.op = "list"
  <2>1. r = q
    BY <1>2, <1>4 DEF Shelf!Applied, ListAfter
  <2> QED BY <1>3, <1>4, <2>1
<1>5. CASE call.op = "save"
  <2>1. r = Shelf!Closed(q)
    BY <1>2, <1>5 DEF Shelf!Applied, ListAfter
  <2>2. PICK p : p = [q EXCEPT !.dialog = "closed"]
    OBVIOUS
  <2>3. /\ p \in Shelf!Shelf /\ p.listed = t /\ p.stars = shelf.stars /\ p.stale = shelf.stale /\ p.lost = shelf.lost
        /\ p.saving = shelf.saving
    BY <1>3, <2>2 DEF Shelf!Shelf
  <2>4. r = [p EXCEPT !.editing = 0]
    BY <2>1, <2>2 DEF Shelf!Closed, Shelf!NoPrompt
  <2> QED BY <1>1, <1>5, <2>3, <2>4 DEF Shelf!Shelf
<1>6. CASE call.op = "template"
  <2>1. r = [q EXCEPT !.browsing = FALSE]
    BY <1>2, <1>6 DEF Shelf!Applied, ListAfter
  <2> QED BY <1>3, <1>6, <2>1 DEF Shelf!Shelf
<1>7. CASE call.op = "delete"
  <2>1. r = [q EXCEPT !.stars = shelf.stars \ {call.id}]
    BY <1>2, <1>7, ShelfNames DEF Shelf!Applied, ListAfter
  <2>2. shelf.stars \ {call.id} \in SUBSET Shelf!PromptIds
    BY <1>1 DEF Shelf!Shelf
  <2> QED BY <1>3, <1>7, <2>1, <2>2 DEF Shelf!Shelf
<1> QED BY <1>1, <1>4, <1>5, <1>6, <1>7

\* The list after an answer is a list, and what it shows.
LEMMA ListAfterIs ==
  ASSUME ShelfFits, NEW call \in Shelf!Send, SendFits(call), call.step = "ok", NEW t, t = ListAfter(call)
  PROVE  /\ t \in Seq(Shelf!Item) /\ Len(t) \in Nat
         /\ call.op = "list" => Len(t) <= MaxPrompts /\ ItemsOf(t) = call.items /\ OnceEach(t)
         /\ call.op \in {"save", "template"} =>
              \E x \in Shelf!Item :
                /\ call.items = {x} /\ (call.id # 0 => x.id = call.id)
                /\ call.id = 0 => /\ Len(t) = Len(shelf.listed) + 1
                                  /\ ItemsOf(t) = ItemsOf(shelf.listed) \cup {x}
                                  /\ OnceEach(shelf.listed) /\ (\A y \in ItemsOf(shelf.listed) : y.id # x.id) => OnceEach(t)
                /\ call.id # 0 => /\ Len(t) = Len(shelf.listed)
                                  /\ (\E y \in ItemsOf(shelf.listed) : y.id = call.id) =>
                                       ItemsOf(t) = Shelf!Without(ItemsOf(shelf.listed), call.id) \cup {x}
                                  /\ OnceEach(shelf.listed) => OnceEach(t)
         /\ call.op = "delete" => /\ Len(t) <= Len(shelf.listed)
                                  /\ ItemsOf(t) = Shelf!Without(ItemsOf(shelf.listed), call.id)
                                  /\ OnceEach(shelf.listed) => OnceEach(t)
<1>1. call.op \in {"list", "save", "template", "delete"} /\ call.items \in SUBSET Shelf!Item /\ shelf.listed \in Seq(Shelf!Item)
  BY ShelfTypes DEF Shelf!Send
<1>2. CASE call.op = "list"
  <2>1. t = Shelf!NewestFirst(call.items) /\ NumberedOnce(call.items)
    BY <1>2 DEF ListAfter, SendFits
  <2>2. t \in Seq(Shelf!Item) /\ Len(t) = Cardinality(call.items) /\ ItemsOf(t) = call.items /\ OnceEach(t)
    BY <1>1, <2>1, NewestIs
  <2>3. Cardinality(call.items) \in Nat /\ Cardinality(call.items) <= MaxPrompts
    BY <1>1, <2>1, NumberedIsFinite
  <2> QED BY <1>2, <2>2, <2>3
<1>3. CASE call.op \in {"save", "template"}
  <2>1. PICK x \in Shelf!Item : call.items = {x} /\ (call.id # 0 => x.id = call.id)
    BY <1>3 DEF SendFits
  <2>2. Shelf!Only(call.items) = x
    BY <2>1 DEF Shelf!Only
  <2>3. t = Shelf!Changed(shelf.listed, call)
    BY <1>3 DEF ListAfter
  <2>4. CASE call.id = 0
    <3>1. t = <<x>> \o shelf.listed
      BY <2>2, <2>3, <2>4 DEF Shelf!Changed, Shelf!NoPrompt
    <3>2. /\ t \in Seq(Shelf!Item) /\ Len(t) = Len(shelf.listed) + 1
          /\ ItemsOf(t) = ItemsOf(shelf.listed) \cup {x}
          /\ OnceEach(shelf.listed) /\ (\A y \in ItemsOf(shelf.listed) : y.id # x.id) => OnceEach(t)
      BY <1>1, <3>1, ListInFront
    <3> QED BY <1>3, <2>1, <2>4, <3>2
  <2>5. CASE call.id # 0
    <3>1. t = [i \in DOMAIN shelf.listed |-> IF shelf.listed[i].id = x.id THEN x ELSE shelf.listed[i]]
      BY <2>1, <2>2, <2>3, <2>5 DEF Shelf!Changed, Shelf!NoPrompt
    <3>2. /\ t \in Seq(Shelf!Item) /\ Len(t) = Len(shelf.listed)
          /\ (\E y \in ItemsOf(shelf.listed) : y.id = x.id) => ItemsOf(t) = {y \in ItemsOf(shelf.listed) : y.id # x.id} \cup {x}
          /\ OnceEach(shelf.listed) => OnceEach(t)
      BY <1>1, <3>1, ListInPlace
    <3>3. Shelf!Without(ItemsOf(shelf.listed), call.id) = {y \in ItemsOf(shelf.listed) : y.id # x.id} /\ x.id = call.id
      BY <2>1, <2>5 DEF Shelf!Without
    <3> QED BY <1>1, <1>3, <2>1, <2>5, <3>2, <3>3
  <2> QED BY <2>4, <2>5
<1>4. CASE call.op = "delete"
  <2>1. PICK p : p = call.id
    OBVIOUS
  <2>2. t = Picked(shelf.listed, {i \in DOMAIN shelf.listed : shelf.listed[i].id # p})
    BY <1>4, <2>1 DEF ListAfter
  <2>3. PICK l \in Seq(Shelf!Item) : l = shelf.listed
    BY <1>1
  <2>4. t = Picked(l, {i \in DOMAIN l : l[i].id # p})
    BY <2>2, <2>3
  <2>5. /\ t \in Seq(Shelf!Item) /\ Len(t) <= Len(l)
        /\ ItemsOf(t) = {x \in ItemsOf(l) : x.id # p}
        /\ OnceEach(l) => OnceEach(t)
    BY <2>4, ListWithout, ZenonT(40)
  <2> QED BY <1>1, <1>4, <2>1, <2>3, <2>5 DEF Shelf!Without
<1> QED BY <1>1, <1>2, <1>3, <1>4

-----------------------------------------------------------------------------
LEMMA ShelfSettles ==
  ASSUME ShelfFits, NEW k \in Shelf!Sends, sends[k].step \in {"ok", "failed"}, sends' = [sends EXCEPT ![k] = Shelf!Free],
         shelf'.saving = IF sends[k].op = "save" THEN FALSE ELSE shelf.saving
  PROVE  /\ sends' \in [Shelf!Sends -> Shelf!Send] /\ k \in Shelf!Waiting /\ Shelf!Waiting' = Shelf!Waiting \ {k}
         /\ \A j \in Shelf!Sends : SendFits(sends[j])'
         /\ (\A i, j \in Savings' : i = j) /\ (shelf'.saving <=> Savings' # {})
         /\ Creations' = Creations \ {k}
<1>1. sends \in [Shelf!Sends -> Shelf!Send]
  BY ShelfTypes
<1>2. Shelf!Free \in Shelf!Send /\ Shelf!Free.step = "free" /\ Shelf!Free.op = "list"
  BY ShelfNumbers DEF Shelf!Free, Shelf!Send, Shelf!NoPrompt
<1>3. sends' \in [Shelf!Sends -> Shelf!Send] /\ sends'[k] = Shelf!Free /\ \A j \in Shelf!Sends : j # k => sends'[j] = sends[j]
  BY <1>1, <1>2
<1>4. k \in Shelf!Waiting /\ Shelf!Waiting' = Shelf!Waiting \ {k} /\ Creations' = Creations \ {k}
  BY <1>2, <1>3 DEF Shelf!Waiting, Creations
<1>5. \A j \in Shelf!Sends : SendFits(sends[j])'
  BY <1>2, <1>3 DEF ShelfFits, SendFits
<1>6. Savings' = Savings \ {k} /\ (k \in Savings <=> sends[k].op = "save")
  BY <1>3, <1>4 DEF Savings, Shelf!Waiting
<1>7. (\A i, j \in Savings' : i = j) /\ (shelf'.saving <=> Savings' # {})
  BY <1>6 DEF ShelfFits
<1> QED BY <1>3, <1>4, <1>5, <1>7

LEMMA ShelfAnsweredStep ==
  ASSUME ShelfInv, NEW k \in Shelf!Sends, Shelf!Answered(k)
  PROVE  ShelfInv'
<1>1. /\ ShelfFits /\ sends \in [Shelf!Sends -> Shelf!Send] /\ IsFiniteSet(Creations) /\ Cardinality(Creations) \in Nat
      /\ Len(shelf.listed) \in Nat /\ stored.made \in Nat /\ stored.made \in 0..MaxPrompts
      /\ stored \in [prompts : SUBSET Shelf!Item, made : 0..MaxPrompts, stars : SUBSET Shelf!PromptIds]
  BY ShelfTypes DEF ShelfInv
<1>2. PICK call : call = sends[k]
  OBVIOUS
<1>3. /\ call \in Shelf!Send /\ SendFits(call) /\ call.step = "ok" /\ call.op \in {"list", "save", "template", "delete"}
      /\ sends' = [sends EXCEPT ![k] = Shelf!Free]
  BY <1>1, <1>2 DEF ShelfFits, Shelf!Answered, Shelf!Send
<1>4. PICK t : t = ListAfter(call)
  OBVIOUS
<1>5. /\ t \in Seq(Shelf!Item) /\ Len(t) \in Nat
      /\ call.op = "list" => Len(t) <= MaxPrompts /\ ItemsOf(t) = call.items /\ OnceEach(t)
      /\ call.op = "delete" => /\ Len(t) <= Len(shelf.listed)
                               /\ ItemsOf(t) = Shelf!Without(ShownItems, call.id)
                               /\ OnceEach(shelf.listed) => OnceEach(t)
  BY <1>1, <1>3, <1>4, ListAfterIs DEF ShownItems
<1>6. call.op \in {"save", "template"} =>
        \E x \in Shelf!Item :
          /\ call.items = {x} /\ (call.id # 0 => x.id = call.id)
          /\ call.id = 0 => /\ Len(t) = Len(shelf.listed) + 1
                            /\ ItemsOf(t) = ShownItems \cup {x}
                            /\ OnceEach(shelf.listed) /\ (\A y \in ShownItems : y.id # x.id) => OnceEach(t)
          /\ call.id # 0 => /\ Len(t) = Len(shelf.listed)
                            /\ (\E y \in ShownItems : y.id = call.id) => ItemsOf(t) = Shelf!Without(ShownItems, call.id) \cup {x}
                            /\ OnceEach(shelf.listed) => OnceEach(t)
  BY <1>1, <1>3, <1>4, ListAfterIs DEF ShownItems
<1>7. PICK r : r = Shelf!Applied(call)
  OBVIOUS
<1>8. /\ r \in Shelf!Shelf /\ r.listed = t /\ r.stale = shelf.stale /\ r.lost = shelf.lost /\ r.saving = shelf.saving
      /\ r.stars = IF call.op = "delete" THEN shelf.stars \ {call.id} ELSE shelf.stars
  <2>1. ShelfFits /\ call \in Shelf!Send /\ t = ListAfter(call) /\ t \in Seq(Shelf!Item) /\ r = Shelf!Applied(call)
    BY <1>1, <1>3, <1>4, <1>5, <1>7
  <2> QED BY <2>1, AppliedIs
<1>9. PICK s : s = Shelf!Finally(call, r)
  OBVIOUS
<1>10. /\ s \in Shelf!Shelf /\ s.listed = t /\ s.stale = shelf.stale /\ s.lost = shelf.lost
       /\ s.saving = IF call.op = "save" THEN FALSE ELSE shelf.saving
       /\ s.stars = IF call.op = "delete" THEN shelf.stars \ {call.id} ELSE shelf.stars
  BY <1>3, <1>8, <1>9, FinallyIs
<1>11. shelf' = s /\ stored' = [stored EXCEPT !.stars = s.stars]
  BY <1>2, <1>7, <1>9 DEF Shelf!Answered
<1>12. /\ stored' \in [prompts : SUBSET Shelf!Item, made : 0..MaxPrompts, stars : SUBSET Shelf!PromptIds]
       /\ stored'.prompts = stored.prompts /\ stored'.made = stored.made /\ stored'.stars = s.stars
  <2>1. s.stars \in SUBSET Shelf!PromptIds
    BY <1>10 DEF Shelf!Shelf
  <2> QED BY <1>1, <1>11, <2>1
<1>13. /\ sends' \in [Shelf!Sends -> Shelf!Send] /\ k \in Shelf!Waiting /\ Shelf!Waiting' = Shelf!Waiting \ {k}
       /\ \A j \in Shelf!Sends : SendFits(sends[j])'
       /\ (\A i, j \in Savings' : i = j) /\ (shelf'.saving <=> Savings' # {})
       /\ Creations' = Creations \ {k}
  <2>1. sends[k].step \in {"ok", "failed"} /\ shelf'.saving = IF sends[k].op = "save" THEN FALSE ELSE shelf.saving
    BY <1>2, <1>3, <1>10, <1>11
  <2> QED BY <1>1, <1>3, <2>1, ShelfSettles
<1>14. Cardinality(Creations') <= stored.made /\ Len(t) + Cardinality(Creations') <= MaxPrompts + stored.made
       /\ Cardinality(Creations') \in Nat
  <2>1. Cardinality(Creations) <= stored.made /\ Len(shelf.listed) + Cardinality(Creations) <= MaxPrompts + stored.made
    BY <1>1 DEF ShelfFits
  <2>2. CASE call.op \in {"save", "template"} /\ call.id = 0
    <3>1. k \in Creations
      BY <1>2, <1>3, <2>2 DEF Creations
    <3>2. Cardinality(Creations') = Cardinality(Creations) - 1
      BY <1>1, <1>13, <3>1, FS_RemoveElement
    <3>3. Cardinality(Creations') \in Nat
      BY <1>1, <1>13, FS_RemoveElement, FS_CardinalityType
    <3>4. Len(t) = Len(shelf.listed) + 1
      BY <1>6, <2>2
    <3> QED BY <1>1, <2>1, <3>2, <3>3, <3>4, ShelfNumbers
  <2>3. CASE ~(call.op \in {"save", "template"} /\ call.id = 0)
    <3>1. k \notin Creations
      BY <1>2, <1>3, <2>3 DEF Creations
    <3>2. Creations' = Creations
      BY <1>13, <3>1
    <3>3. Len(t) <= MaxPrompts \/ Len(t) <= Len(shelf.listed)
      BY <1>1, <1>3, <1>5, <1>6, <2>3
    <3> QED BY <1>1, <1>5, <2>1, <3>2, <3>3, ShelfNumbers
  <2> QED BY <2>2, <2>3
<1>15. ShelfFits'
  <2>1. Len(t) <= 2 * MaxPrompts
    BY <1>1, <1>5, <1>14, ShelfNumbers
  <2>2. Shelf!PromptsTypeOK'
    BY <1>10, <1>11, <1>12, <1>13, <2>1 DEF Shelf!PromptsTypeOK
  <2>3. NumberedOnce(stored.prompts)' /\ (\A i \in stored'.prompts : i.id <= stored'.made)
    BY <1>1, <1>12 DEF ShelfFits, NumberedOnce
  <2>4. Cardinality(Creations)' <= stored'.made /\ Len(shelf'.listed) + Cardinality(Creations)' <= MaxPrompts + stored'.made
    BY <1>10, <1>11, <1>12, <1>14
  <2> QED BY <1>11, <1>12, <1>13, <2>2, <2>3, <2>4 DEF ShelfFits
<1>16. ASSUME ~shelf.stale PROVE ShelfIsFollowed'
  <2>1. ShelfIsFollowed /\ Shelf!Waiting = {k} /\ Shelf!Waiting' = {}
    BY <1>13, <1>16 DEF ShelfInv, ShelfIsFollowed
  <2>2. FollowsSend(call)
    BY <1>2, <2>1 DEF ShelfIsFollowed
  <2>3. ItemsOf(t) = stored.prompts /\ OnceEach(t)
    <3>1. CASE call.op = "list"
      BY <1>3, <1>5, <2>2, <3>1 DEF FollowsSend
    <3>2. CASE call.op \in {"save", "template"} /\ call.id = 0
      <4>1. PICK x \in stored.prompts : call.items = {x} /\ IsListed(stored.prompts \ {x})
        BY <1>3, <2>2, <3>2 DEF FollowsSend
      <4>2. ItemsOf(t) = ShownItems \cup {x} /\ (OnceEach(shelf.listed) /\ (\A y \in ShownItems : y.id # x.id) => OnceEach(t))
        BY <1>6, <3>2, <4>1
      <4>3. ShownItems = stored.prompts \ {x} /\ OnceEach(shelf.listed)
        BY <4>1 DEF IsListed
      <4>4. \A y \in ShownItems : y.id # x.id
        BY <1>1, <4>1, <4>3 DEF ShelfFits, NumberedOnce
      <4> QED BY <4>1, <4>2, <4>3, <4>4
    <3>3. CASE call.op \in {"save", "template"} /\ call.id # 0
      <4>1. PICK x \in stored.prompts : call.items = {x} /\ stored.prompts = Shelf!Without(ShownItems, call.id) \cup {x}
        BY <1>3, <2>2, <3>3 DEF FollowsSend
      <4>2. OnceEach(shelf.listed) /\ \E i \in ShownItems : i.id = call.id
        BY <1>3, <2>2, <3>3 DEF FollowsSend
      <4> QED BY <1>6, <3>3, <4>1, <4>2
    <3>4. CASE call.op = "delete"
      BY <1>3, <1>5, <2>2, <3>4 DEF FollowsSend
    <3> QED BY <1>3, <3>1, <3>2, <3>3, <3>4
  <2>4. IsListed(stored.prompts)'
    BY <1>10, <1>11, <1>12, <2>3 DEF IsListed, ShownItems
  <2>5. StarsFollow'
    <3>1. ASSUME ~shelf.lost, NEW p \in s.stars PROVE Shelf!Live(p)
      <4>1. p \in shelf.stars /\ (call.op = "delete" => p # call.id)
        BY <1>10, <3>1
      <4> QED BY <1>2, <1>3, <2>1, <3>1, <4>1 DEF ShelfIsFollowed, StarsFollow
    <3>2. ASSUME ~s.lost, NEW p \in s.stars PROVE Shelf!Live(p)'
      BY <1>10, <1>12, <3>1, <3>2 DEF Shelf!Live
    <3> QED BY <1>11, <3>2 DEF StarsFollow
  <2> QED BY <2>1, <2>4, <2>5 DEF ShelfIsFollowed
<1> QED BY <1>10, <1>11, <1>15, <1>16 DEF ShelfInv

LEMMA ShelfFailedStep ==
  ASSUME ShelfInv, NEW k \in Shelf!Sends, Shelf!Failed(k)
  PROVE  ShelfInv'
<1>1. /\ ShelfFits /\ sends \in [Shelf!Sends -> Shelf!Send] /\ shelf \in Shelf!Shelf
  BY ShelfTypes DEF ShelfInv
<1>2. PICK call : call = sends[k]
  OBVIOUS
<1>3. /\ call \in Shelf!Send /\ call.step = "failed" /\ UNCHANGED stored /\ sends' = [sends EXCEPT ![k] = Shelf!Free]
  BY <1>1, <1>2 DEF Shelf!Failed
<1>4. PICK r : r = [shelf EXCEPT !.stale = TRUE]
  OBVIOUS
<1>5. /\ r \in Shelf!Shelf /\ r.listed = shelf.listed /\ r.stale /\ r.saving = shelf.saving /\ r.stars = shelf.stars
  BY <1>1, <1>4 DEF Shelf!Shelf
<1>6. shelf' = Shelf!Finally(call, r)
  BY <1>2, <1>4 DEF Shelf!Failed
<1>7. /\ shelf' \in Shelf!Shelf /\ shelf'.listed = shelf.listed /\ shelf'.stale /\ shelf'.stars = shelf.stars
      /\ shelf'.saving = IF call.op = "save" THEN FALSE ELSE shelf.saving
  BY <1>3, <1>5, <1>6, FinallyIs, ZenonT(40)
<1>8. /\ sends' \in [Shelf!Sends -> Shelf!Send]
      /\ \A j \in Shelf!Sends : SendFits(sends[j])'
      /\ (\A i, j \in Savings' : i = j) /\ (shelf'.saving <=> Savings' # {})
      /\ Creations' = Creations \ {k}
  BY <1>1, <1>2, <1>3, <1>7, ShelfSettles
<1>9. Creations' = Creations
  BY <1>2, <1>3, <1>8 DEF Creations
<1>10. ShelfFits'
  <2>1. Shelf!PromptsTypeOK'
    BY <1>1, <1>3, <1>7, <1>8 DEF ShelfFits, Shelf!PromptsTypeOK
  <2> QED BY <1>1, <1>3, <1>7, <1>8, <1>9, <2>1 DEF ShelfFits
<1> QED BY <1>7, <1>10 DEF ShelfInv

-----------------------------------------------------------------------------
LEMMA OpenedIs ==
  ASSUME NEW st \in SUBSET Shelf!PromptIds
  PROVE  LET o == Shelf!Opened(st)
         IN  /\ o \in Shelf!Shelf /\ o.listed = <<>> /\ ~o.saving /\ o.stars = st /\ ~o.stale /\ ~o.lost /\ o.steps = 0
             /\ Len(o.listed) = 0 /\ ItemsOf(o.listed) = {} /\ OnceEach(o.listed)
<1>1. <<>> \in Seq(Shelf!Item) /\ 0 \in 0..MaxPrompts /\ 0 \in 0..MaxSteps
  BY ShelfNumbers
<1>2. ItemsOf(<<>>) = {} /\ OnceEach(<<>>)
  BY DEF ItemsOf, OnceEach
<1>3. Shelf!Opened(st) \in Shelf!Shelf
  BY <1>1 DEF Shelf!Opened, Shelf!Shelf, Shelf!NoPrompt
<1> QED BY <1>2, <1>3 DEF Shelf!Opened

LEMMA ListingIs ==
  ASSUME sends' = Shelf!Listing
  PROVE  /\ sends' \in [Shelf!Sends -> Shelf!Send] /\ \A j \in Shelf!Sends : SendFits(sends'[j])
         /\ Shelf!Waiting' = {1} /\ Creations' = {} /\ Savings' = {}
         /\ sends'[1].op = "list" /\ sends'[1].step = "sent"
<1>1. 1 \in Shelf!Sends
  BY ShelfNumbers DEF Shelf!Sends
<1>2. PICK f : f = [Shelf!Free EXCEPT !.step = "sent"]
  OBVIOUS
<1>3. Shelf!Free \in Shelf!Send /\ Shelf!Free.step = "free" /\ Shelf!Free.op = "list"
      /\ f \in Shelf!Send /\ f.step = "sent" /\ f.op = "list"
  BY <1>2, ShelfNumbers DEF Shelf!Free, Shelf!Send, Shelf!NoPrompt
<1>4. sends' = [j \in Shelf!Sends |-> IF j = 1 THEN f ELSE Shelf!Free]
  BY <1>2 DEF Shelf!Listing
<1>5. sends' \in [Shelf!Sends -> Shelf!Send] /\ sends'[1] = f /\ \A j \in Shelf!Sends : j # 1 => sends'[j] = Shelf!Free
  BY <1>1, <1>3, <1>4
<1>6. \A j \in Shelf!Sends : SendFits(sends'[j])
  BY <1>3, <1>5 DEF SendFits
<1>7. Shelf!Waiting' = {1} /\ Creations' = {}
  BY <1>1, <1>3, <1>5 DEF Shelf!Waiting, Creations
<1>8. Savings' = {}
  BY <1>3, <1>5, <1>7 DEF Savings
<1> QED BY <1>3, <1>5, <1>6, <1>7, <1>8

LEMMA ShelfOpenStep ==
  ASSUME ShelfInv, Shelf!OpenPage
  PROVE  ShelfInv'
<1>1. /\ ShelfFits /\ sends \in [Shelf!Sends -> Shelf!Send] /\ shelf \in Shelf!Shelf /\ stored.made \in Nat
      /\ stored.stars \in SUBSET Shelf!PromptIds
      /\ stored \in [prompts : SUBSET Shelf!Item, made : 0..MaxPrompts, stars : SUBSET Shelf!PromptIds]
  BY ShelfTypes DEF ShelfInv
<1>2. PICK d : stored' = d /\ (d = stored \/ \E k \in Shelf!Sends : sends[k].step = "sent" /\ d \in Shelf!Granted(sends[k]))
  BY DEF Shelf!OpenPage
<1>3. /\ d \in [prompts : SUBSET Shelf!Item, made : 0..MaxPrompts, stars : SUBSET Shelf!PromptIds]
      /\ d.stars = stored.stars /\ d.made \in Nat /\ NumberedOnce(d.prompts) /\ \A i \in d.prompts : i.id <= d.made
  <2>1. CASE d = stored
    BY <1>1, <2>1 DEF ShelfFits
  <2>2. ASSUME NEW k \in Shelf!Sends, d \in Shelf!Granted(sends[k])
        PROVE  /\ d \in [prompts : SUBSET Shelf!Item, made : 0..MaxPrompts, stars : SUBSET Shelf!PromptIds]
               /\ d.stars = stored.stars /\ d.made \in Nat /\ NumberedOnce(d.prompts) /\ \A i \in d.prompts : i.id <= d.made
    <3>1. sends[k] \in Shelf!Send /\ SendFits(sends[k])
      BY <1>1 DEF ShelfFits
    <3> QED BY <1>1, <2>2, <3>1, LibraryGrants
  <2> QED BY <1>2, <2>1, <2>2
<1>4. PICK o : o = Shelf!Opened(stored.stars)
  OBVIOUS
<1>5. /\ o \in Shelf!Shelf /\ o.listed = <<>> /\ ~o.saving /\ o.stars = stored.stars
      /\ Len(o.listed) = 0 /\ ItemsOf(o.listed) = {} /\ OnceEach(o.listed)
  BY <1>1, <1>4, OpenedIs
<1>6. /\ shelf' \in Shelf!Shelf /\ shelf'.listed = o.listed /\ ~shelf'.saving /\ shelf'.stars = stored.stars
      /\ shelf'.stale = (Shelf!Waiting # {}) /\ shelf'.lost = (shelf.lost \/ shelf.stale \/ Shelf!Waiting # {})
  <2>1. PICK n : n = shelf.steps + 1
    OBVIOUS
  <2>2. n \in 0..MaxSteps
    <3>1. shelf.steps \in 0..MaxSteps /\ shelf.steps < MaxSteps
      BY <1>1 DEF Shelf!Shelf, Shelf!OpenPage, Shelf!Steps
    <3> QED BY <2>1, <3>1, ShelfNumbers
  <2>3. PICK b : b = (Shelf!Waiting # {})
    OBVIOUS
  <2>4. PICK c : c = (shelf.lost \/ shelf.stale \/ Shelf!Waiting # {})
    OBVIOUS
  <2>5. b \in BOOLEAN /\ c \in BOOLEAN
    BY <2>3, <2>4
  <2>6. shelf' = [o EXCEPT !.steps = n, !.stale = b, !.lost = c]
    BY <1>4, <2>1, <2>3, <2>4 DEF Shelf!OpenPage
  <2>7. /\ shelf' \in Shelf!Shelf /\ shelf'.listed = o.listed /\ shelf'.saving = o.saving /\ shelf'.stars = o.stars
        /\ shelf'.stale = b /\ shelf'.lost = c
    BY <1>5, <2>2, <2>5, <2>6 DEF Shelf!Shelf
  <2> QED BY <1>5, <2>3, <2>4, <2>7
<1>7. /\ sends' \in [Shelf!Sends -> Shelf!Send] /\ \A j \in Shelf!Sends : SendFits(sends'[j])
      /\ Shelf!Waiting' = {1} /\ Creations' = {} /\ Savings' = {}
      /\ sends'[1].op = "list" /\ sends'[1].step = "sent"
  BY ListingIs DEF Shelf!OpenPage
<1>8. Cardinality(Creations') = 0
  BY <1>7, FS_EmptySet
<1>9. ShelfFits'
  <2>1. Shelf!PromptsTypeOK'
    BY <1>2, <1>3, <1>5, <1>6, <1>7, ShelfNumbers DEF Shelf!PromptsTypeOK
  <2>2. \A j \in Shelf!Sends : SendFits(sends[j])'
    BY <1>7 DEF SendFits
  <2>3. NumberedOnce(stored.prompts)' /\ (\A i \in stored'.prompts : i.id <= stored'.made) /\ stored'.stars = shelf'.stars
    BY <1>2, <1>3, <1>6 DEF NumberedOnce
  <2>4. Cardinality(Creations)' <= stored'.made /\ Len(shelf'.listed) + Cardinality(Creations)' <= MaxPrompts + stored'.made
    BY <1>2, <1>3, <1>5, <1>6, <1>8, ShelfNumbers
  <2> QED BY <1>6, <1>7, <2>1, <2>2, <2>3, <2>4 DEF ShelfFits
<1>10. ASSUME ~shelf'.stale PROVE ShelfIsFollowed'
  <2>1. Shelf!Waiting = {}
    BY <1>6, <1>10
  <2>2. FollowsSend(sends[1])'
    <3>1. ShownItems' = {} /\ OnceEach(shelf.listed)'
      BY <1>5, <1>6 DEF ShownItems, OnceEach
    <3> QED BY <1>7, <3>1 DEF FollowsSend
  <2>3. StarsFollow'
    <3>1. d = stored
      BY <1>2, <2>1 DEF Shelf!Waiting
    <3>2. ASSUME ~shelf'.lost, NEW p \in stored.stars PROVE Shelf!Live(p)'
      <4>1. ~shelf.lost /\ ~shelf.stale /\ ShelfIsFollowed /\ p \in shelf.stars
        BY <1>1, <1>6, <3>2 DEF ShelfInv, ShelfFits
      <4>2. Shelf!Live(p)
        BY <2>1, <4>1 DEF ShelfIsFollowed, StarsFollow
      <4> QED BY <1>2, <3>1, <4>2 DEF Shelf!Live
    <3> QED BY <1>6, <3>2 DEF StarsFollow
  <2> QED BY <1>7, <2>2, <2>3 DEF ShelfIsFollowed
<1> QED BY <1>9, <1>10 DEF ShelfInv

-----------------------------------------------------------------------------
LEMMA ShelfBegins ==
  Shelf!PromptsInit => ShelfInv
<1> SUFFICES ASSUME Shelf!PromptsInit
             PROVE  ShelfInv
  OBVIOUS
<1>1. PICK n \in 0..MaxPrompts, st \in SUBSET Shelf!PromptIds :
        /\ st \subseteq 1..n
        /\ stored = [prompts |-> [id : 1..n, text : {1}], made |-> n, stars |-> st]
        /\ shelf = Shelf!Opened(st)
        /\ sends = Shelf!Listing
  BY DEF Shelf!PromptsInit
<1>2. n \in Nat /\ n <= MaxPrompts
  BY <1>1, ShelfNumbers
<1>3. PICK its : its = [id : 1..n, text : {1}]
  OBVIOUS
<1>4. its \in SUBSET Shelf!Item /\ NumberedOnce(its) /\ (\A i \in its : i.id <= n) /\ \A q \in 1..n : \E i \in its : i.id = q
  <2>1. 1..n \in SUBSET Shelf!PromptIds /\ 1 \in Shelf!Texts
    BY <1>2, ShelfNumbers DEF Shelf!PromptIds, Shelf!Texts
  <2>2. its \in SUBSET Shelf!Item
    BY <1>3, <2>1 DEF Shelf!Item
  <2>3. \A i, j \in its : i.id = j.id => i = j
    BY <1>3
  <2>4. \A i \in its : i.id <= n
    BY <1>2, <1>3
  <2>5. ASSUME NEW q \in 1..n PROVE \E i \in its : i.id = q
    <3>1. [id |-> q, text |-> 1] \in its
      BY <1>3
    <3> QED BY <3>1
  <2> QED BY <2>2, <2>3, <2>4, <2>5 DEF NumberedOnce
<1>5. /\ shelf \in Shelf!Shelf /\ shelf.listed = <<>> /\ ~shelf.saving /\ shelf.stars = st
      /\ Len(shelf.listed) = 0 /\ ItemsOf(shelf.listed) = {} /\ OnceEach(shelf.listed)
  BY <1>1, OpenedIs
<1>6. stored.prompts = its /\ stored.made = n /\ stored.stars = st
      /\ stored \in [prompts : SUBSET Shelf!Item, made : 0..MaxPrompts, stars : SUBSET Shelf!PromptIds]
  BY <1>1, <1>3, <1>4
<1>7. /\ sends \in [Shelf!Sends -> Shelf!Send] /\ \A j \in Shelf!Sends : SendFits(sends[j])
      /\ Shelf!Waiting = {1} /\ Creations = {} /\ Savings = {}
      /\ sends[1].op = "list" /\ sends[1].step = "sent"
  <2>1. 1 \in Shelf!Sends
    BY ShelfNumbers DEF Shelf!Sends
  <2>2. PICK f : f = [Shelf!Free EXCEPT !.step = "sent"]
    OBVIOUS
  <2>3. Shelf!Free \in Shelf!Send /\ Shelf!Free.step = "free" /\ Shelf!Free.op = "list"
        /\ f \in Shelf!Send /\ f.step = "sent" /\ f.op = "list"
    BY <2>2, ShelfNumbers DEF Shelf!Free, Shelf!Send, Shelf!NoPrompt
  <2>4. sends = [j \in Shelf!Sends |-> IF j = 1 THEN f ELSE Shelf!Free]
    BY <1>1, <2>2 DEF Shelf!Listing
  <2>5. sends \in [Shelf!Sends -> Shelf!Send] /\ sends[1] = f /\ \A j \in Shelf!Sends : j # 1 => sends[j] = Shelf!Free
    BY <2>1, <2>3, <2>4
  <2>6. \A j \in Shelf!Sends : SendFits(sends[j])
    BY <2>3, <2>5 DEF SendFits
  <2>7. Shelf!Waiting = {1} /\ Creations = {}
    BY <2>1, <2>3, <2>5 DEF Shelf!Waiting, Creations
  <2>8. Savings = {}
    BY <2>3, <2>5, <2>7 DEF Savings
  <2> QED BY <2>3, <2>5, <2>6, <2>7, <2>8
<1>8. Cardinality(Creations) = 0
  BY <1>7, FS_EmptySet
<1>9. ShelfFits
  <2>1. Shelf!PromptsTypeOK
    BY <1>5, <1>6, <1>7, ShelfNumbers DEF Shelf!PromptsTypeOK
  <2>2. Cardinality(Creations) <= stored.made /\ Len(shelf.listed) + Cardinality(Creations) <= MaxPrompts + stored.made
    BY <1>2, <1>5, <1>6, <1>8, ShelfNumbers
  <2> QED BY <1>4, <1>5, <1>6, <1>7, <2>1, <2>2 DEF ShelfFits
<1>10. ShelfIsFollowed
  <2>1. FollowsSend(sends[1])
    BY <1>5, <1>7 DEF FollowsSend, ShownItems
  <2>2. StarsFollow
    BY <1>1, <1>4, <1>5, <1>6 DEF StarsFollow, Shelf!Live
  <2> QED BY <1>7, <2>1, <2>2 DEF ShelfIsFollowed
<1> QED BY <1>9, <1>10 DEF ShelfInv

LEMMA ShelfSteps ==
  ShelfInv /\ [Shelf!PromptsNext]_<<stored, shelf, sends>> => ShelfInv'
<1> SUFFICES ASSUME ShelfInv, [Shelf!PromptsNext]_<<stored, shelf, sends>>
             PROVE  ShelfInv'
  OBVIOUS
<1>1. CASE UNCHANGED <<stored, shelf, sends>>
  <2>1. shelf \in Shelf!Shelf
    BY ShelfTypes DEF ShelfInv
  <2> QED BY <1>1, <2>1, LooksKeep
<1>2. ASSUME NEW k \in Shelf!Sends,
             Shelf!LoadPrompts(k) \/ Shelf!SavePrompt(k) \/ Shelf!CreateFromTemplate(k) \/ Shelf!ConfirmDelete(k)
      PROVE  ShelfInv'
  BY <1>2, SendStep
<1>3. ASSUME NEW k \in Shelf!Sends, Shelf!Serve(k)
      PROVE  ShelfInv'
  BY <1>3, ShelfServeStep
<1>4. ASSUME NEW k \in Shelf!Sends, Shelf!Refuse(k)
      PROVE  ShelfInv'
  BY <1>4, ShelfRefuseStep
<1>5. ASSUME NEW k \in Shelf!Sends, Shelf!Answered(k)
      PROVE  ShelfInv'
  BY <1>5, ShelfAnsweredStep
<1>6. ASSUME NEW k \in Shelf!Sends, Shelf!Failed(k)
      PROVE  ShelfInv'
  BY <1>6, ShelfFailedStep
<1>7. ASSUME NEW p \in Shelf!PromptIds, Shelf!ToggleFavorite(p)
      PROVE  ShelfInv'
  BY <1>7, ToggleStep
<1>8. CASE \/ Shelf!OpenCreate \/ Shelf!CloseDialog \/ Shelf!BrowseTemplates \/ Shelf!CancelDelete
           \/ \E p \in Shelf!PromptIds : Shelf!OpenEdit(p) \/ Shelf!RequestDelete(p)
  BY <1>8, LooksStep
<1>9. CASE Shelf!OpenPage
  BY <1>9, ShelfOpenStep
<1> QED BY <1>1, <1>2, <1>3, <1>4, <1>5, <1>6, <1>7, <1>8, <1>9, Zenon DEF Shelf!PromptsNext

LEMMA ShelfKeepsUp ==
  ShelfInv => Shelf!PromptsTypeOK /\ Shelf!LibraryIsCurrent /\ Shelf!SavingIsWork
<1> SUFFICES ASSUME ShelfInv
             PROVE  Shelf!PromptsTypeOK /\ Shelf!LibraryIsCurrent /\ Shelf!SavingIsWork
  OBVIOUS
<1>1. ShelfFits /\ shelf.listed \in Seq(Shelf!Item)
  BY ShelfTypes DEF ShelfInv
<1>2. Shelf!SavingIsWork
  BY <1>1 DEF ShelfFits, Shelf!SavingIsWork, Savings
<1>3. ASSUME Shelf!Waiting = {}, ~shelf.stale
      PROVE  /\ {shelf.listed[i] : i \in DOMAIN shelf.listed} = stored.prompts
             /\ Len(shelf.listed) = Shelf!Cardinality(stored.prompts)
             /\ ~shelf.lost => \A p \in shelf.stars : Shelf!Live(p)
  <2>1. IsListed(stored.prompts) /\ StarsFollow
    BY <1>3 DEF ShelfInv, ShelfIsFollowed
  <2>2. {shelf.listed[i] : i \in DOMAIN shelf.listed} = stored.prompts
    BY <2>1 DEF IsListed, ShownItems, ItemsOf
  <2>3. Len(shelf.listed) = Cardinality(stored.prompts)
    BY <1>1, <2>1, OnceIsAll DEF IsListed, ShownItems
  <2>4. ~shelf.lost => \A p \in shelf.stars : Shelf!Live(p)
    BY <1>3, <2>1 DEF StarsFollow
  <2> QED BY <2>2, <2>3, <2>4, ShelfNames
<1> QED BY <1>1, <1>2, <1>3 DEF ShelfFits, Shelf!LibraryIsCurrent

-----------------------------------------------------------------------------
(* The page of the knowledge files.                                        *)

LEMMA KnowledgeNumbers ==
  MaxBases \in Nat /\ MaxPapers \in Nat /\ MaxNames \in Nat /\ MaxTasks \in Nat /\ MaxTasks >= 1 /\ MaxClicks \in Nat
BY PagesAssumption

\* The handlers beside which no other works while the page is not stale.
Alterations == {"upload", "renameDoc", "deleteDoc", "delete"}

\* The rows listed, with those that an answer brings in their place.
MergedRows(listed, given) == {IF \E s \in given : s.base = r.base THEN Knowledge!RowOf(given, r.base) ELSE r : r \in listed}

WorkIn(ts) == {t \in Knowledge!Tasks : ts[t].step # "free"}

\* A handler waits for its own request, or for a list that it loads.
WorkFits(task) ==
  /\ task.request = task.op \/ task.request \in {"list", "docs"}
  /\ task.op \in {"list", "docs"} => task.request = task.op
  /\ task.request = "docs" \/ task.op \in Alterations => task.base # 0

\* A base has one row, and none has the number of one that is still to be made.
LibraryFits(lib) ==
  /\ \A r, s \in lib.rows : r.base = s.base => r = s
  /\ \A r \in lib.rows : r.base <= lib.bases

\* What is busy is what a handler works on.
FlagsFit(p, ts) == \A op \in p.busy : \E t \in WorkIn(ts) : ts[t].op = op \/ ts[t].request = op

\* The task is for the base that is selected, or for one that was made and will be.
AtHome(p, task) == task.base \in {0, p.selected} \/ (task.request = "create" /\ task.step = "ok")

\* All that is shown, and all that is under way, is about the base that is selected.
PageInPlace(p, ts) ==
  /\ p.edit \in {0, p.selected} /\ p.results \in {0, p.selected}
  /\ \A t \in WorkIn(ts) : AtHome(p, ts[t])

DocsOf(lib, b) == {d \in lib.docs : d.base = b}

\* The handlers that are not just a load of documents.
MainsIn(ts) == {t \in WorkIn(ts) : ts[t].op # "docs"}

\* The list of the bases is what the server has, once the answer that is awaited has come.
RowsFollow(lib, listed, task) ==
  \/ task.request \in {"list", "create"}
  \/ task.step = "failed"
  \/ task.step = "ok" /\ task.request \in {"save", "archive"} /\ MergedRows(listed, task.rows) = lib.rows
  \/ task.step = "ok" /\ task.request = "delete" /\ {r \in listed : r.base # task.base} = lib.rows
  \/ (task.step = "sent" \/ task.request \notin {"save", "archive", "delete"}) /\ listed = lib.rows

\* The documents are those of the selected base, or a request will load them, has failed or removes
\* the one that is gone.
DocsFollow(lib, p, ts) ==
  \/ p.docs = DocsOf(lib, p.selected)
  \/ \E t \in WorkIn(ts) :
       \/ ts[t].request = "docs" /\ ts[t].base = p.selected
       \/ ts[t].request \in Alterations /\ ts[t].step = "failed"
       \/ ts[t].request \in {"upload", "renameDoc", "delete"} /\ ts[t].step = "ok"
       \/ ts[t].request = "deleteDoc" /\ ts[t].step = "ok" /\ {d \in p.docs : d.doc # ts[t].doc} = DocsOf(lib, p.selected)

\* What an answer carries is what the server still has.
CarriesTruth(lib, task) ==
  /\ task.request = "docs" => task.docs = DocsOf(lib, task.base)
  /\ task.request = "list" => task.rows = lib.rows
  /\ task.request = "deleteDoc" => \A x \in lib.docs : x.doc # task.doc

\* One handler at a time beside the loads of documents, and none beside an alteration.
WorkFollows(lib, p, ts) ==
  /\ \A t, u \in MainsIn(ts) : t = u
  /\ \A t \in WorkIn(ts) : ts[t].request \in Alterations => WorkIn(ts) = {t}
  /\ \A t \in WorkIn(ts) : ts[t].step = "ok" => CarriesTruth(lib, ts[t])
  /\ MainsIn(ts) = {} => p.listed = lib.rows
  /\ \A t \in MainsIn(ts) : RowsFollow(lib, p.listed, ts[t])

\* The inductive invariant of the page, of what it has and is about to have.
PageInv(lib, p, ts) ==
  /\ LibraryFits(lib) /\ FlagsFit(p, ts) /\ \A t \in WorkIn(ts) : WorkFits(ts[t])
  /\ ~p.crossed => PageInPlace(p, ts)
  /\ ~p.crossed /\ ~p.stale => WorkFollows(lib, p, ts) /\ DocsFollow(lib, p, ts)

KnowledgeInv == Knowledge!KnowledgeTypeOK /\ PageInv(library, page, tasks)

\* The first of the slots that are free.
LEMMA FirstFree ==
  ASSUME NEW ts, Knowledge!FreeIn(ts) # {}
  PROVE  (CHOOSE t \in Knowledge!FreeIn(ts) : \A v \in Knowledge!FreeIn(ts) : t <= v) \in Knowledge!FreeIn(ts)
<1>1. Knowledge!FreeIn(ts) \in SUBSET Nat
  BY KnowledgeNumbers DEF Knowledge!FreeIn, Knowledge!Tasks
<1>2. \E t \in Knowledge!FreeIn(ts) : \A v \in Knowledge!FreeIn(ts) : t <= v
  BY <1>1, LeastOf
<1> QED BY <1>2

LEMMA NewestIsOne ==
  ASSUME NEW given \in SUBSET Knowledge!Row
  PROVE  Knowledge!Newest(given) \in 0..MaxBases
<1>1. CASE given = {}
  BY <1>1, KnowledgeNumbers DEF Knowledge!Newest, Knowledge!NoBase
<1>2. CASE given # {}
  <2>1. PICK T : T = {MaxBases - r.base : r \in given}
    OBVIOUS
  <2>2. \A r \in given : r.base \in 1..MaxBases
    BY DEF Knowledge!Row, Knowledge!Bases
  <2>3. T \in SUBSET Nat /\ T # {}
    BY <1>2, <2>1, <2>2, KnowledgeNumbers
  <2>4. PICK m \in T : \A k \in T : m <= k
    BY <2>3, LeastOf
  <2>5. PICK r \in given : m = MaxBases - r.base
    BY <2>1, <2>4
  <2>6. ASSUME NEW s \in given PROVE s.base <= r.base
    <3>1. MaxBases - r.base <= MaxBases - s.base
      BY <2>1, <2>4, <2>5
    <3> QED BY <2>2, <3>1, KnowledgeNumbers
  <2>7. (CHOOSE q \in given : \A s \in given : s.base <= q.base) \in given
    BY <2>6
  <2> QED BY <1>2, <2>2, <2>7, KnowledgeNumbers DEF Knowledge!Newest
<1> QED BY <1>1, <1>2

\* What a handler loads next.
LEMMA AfterIs ==
  ASSUME NEW task \in Knowledge!Task
  PROVE  LET next == Knowledge!After(task)
         IN  /\ next \in {"none", "list", "docs"}
             /\ next # "none" => task.op \in {"upload", "renameDoc", "create", "deleteDoc"}
             /\ next = "docs" => task.op \in {"upload", "renameDoc"}
             /\ task.op \in {"upload", "renameDoc"} /\ task.request = task.op => next = "docs"
             /\ task.op = "create" /\ task.request = task.op => next = "list"
<1> DEFINE loads == Knowledge!Loads(task.op)
           here == {i \in DOMAIN loads : loads[i] = task.request}
           n == IF here = {} THEN 1 ELSE (CHOOSE i \in here : TRUE) + 1
           next == IF n > Len(loads) THEN "none" ELSE loads[n]
<1>1. Knowledge!After(task) = next
  BY DEF Knowledge!After
<1>2. CASE task.op = "upload"
  <2>1. loads = <<"docs", "list">>
    BY <1>2 DEF Knowledge!Loads
  <2>2. DOMAIN loads = {1, 2} /\ Len(loads) = 2 /\ loads[1] = "docs" /\ loads[2] = "list"
    BY <2>1
  <2>3. next \in {"none", "list", "docs"}
    <3>1. n \in {1, 2, 3}
      <4>1. here \in SUBSET {1, 2}
        BY <2>2
      <4> HIDE DEF here
      <4>2. PICK c : c = CHOOSE i \in here : TRUE
        OBVIOUS
      <4>3. here # {} => c \in here
        BY <4>2
      <4>4. n = IF here = {} THEN 1 ELSE c + 1
        BY <4>2
      <4> HIDE DEF n
      <4>5. here # {} => c \in {1, 2}
        BY <4>1, <4>3
      <4> QED BY <4>4, <4>5
    <3> HIDE DEF n, loads
    <3> QED BY <2>2, <3>1
  <2>4. task.request = "upload" => next = "docs"
    <3>1. task.request = "upload" => here = {}
      BY <2>2
    <3> HIDE DEF here
    <3> QED BY <2>2, <3>1
  <2> HIDE DEF next
  <2> QED BY <1>1, <1>2, <2>3, <2>4
<1>3. CASE task.op = "renameDoc"
  <2>1. loads = <<"docs">>
    BY <1>3 DEF Knowledge!Loads
  <2>2. DOMAIN loads = {1} /\ Len(loads) = 1 /\ loads[1] = "docs"
    BY <2>1
  <2>3. next \in {"none", "docs"}
    <3>1. n \in {1, 2}
      <4>1. here \in SUBSET {1}
        BY <2>2
      <4> HIDE DEF here
      <4>2. PICK c : c = CHOOSE i \in here : TRUE
        OBVIOUS
      <4>3. here # {} => c \in here
        BY <4>2
      <4>4. n = IF here = {} THEN 1 ELSE c + 1
        BY <4>2
      <4> HIDE DEF n
      <4>5. here # {} => c \in {1}
        BY <4>1, <4>3
      <4> QED BY <4>4, <4>5
    <3> HIDE DEF n, loads
    <3> QED BY <2>2, <3>1
  <2>4. task.request = "renameDoc" => next = "docs"
    <3>1. task.request = "renameDoc" => here = {}
      BY <2>2
    <3> HIDE DEF here
    <3> QED BY <2>2, <3>1
  <2> HIDE DEF next
  <2> QED BY <1>1, <1>3, <2>3, <2>4
<1>4. CASE task.op \in {"create", "deleteDoc"}
  <2>1. loads = <<"list">>
    BY <1>4 DEF Knowledge!Loads
  <2>2. DOMAIN loads = {1} /\ Len(loads) = 1 /\ loads[1] = "list"
    BY <2>1
  <2>3. next \in {"none", "list"}
    <3>1. n \in {1, 2}
      <4>1. here \in SUBSET {1}
        BY <2>2
      <4> HIDE DEF here
      <4>2. PICK c : c = CHOOSE i \in here : TRUE
        OBVIOUS
      <4>3. here # {} => c \in here
        BY <4>2
      <4>4. n = IF here = {} THEN 1 ELSE c + 1
        BY <4>2
      <4> HIDE DEF n
      <4>5. here # {} => c \in {1}
        BY <4>1, <4>3
      <4> QED BY <4>4, <4>5
    <3> HIDE DEF n, loads
    <3> QED BY <2>2, <3>1
  <2>4. task.request = task.op => next = "list"
    <3>1. task.request = task.op => here = {}
      BY <1>4, <2>2
    <3> HIDE DEF here
    <3> QED BY <2>2, <3>1
  <2> HIDE DEF next
  <2> QED BY <1>1, <1>4, <2>3, <2>4
<1>5. CASE task.op \notin {"upload", "renameDoc", "create", "deleteDoc"}
  <2>1. loads = <<>>
    BY <1>5 DEF Knowledge!Loads
  <2>2. here = {} /\ Len(loads) = 0
    BY <2>1
  <2>3. next = "none"
    <3> HIDE DEF here, loads
    <3> QED BY <2>2
  <2> HIDE DEF next
  <2> QED BY <1>1, <1>5, <2>3
<1> QED BY <1>2, <1>3, <1>4, <1>5

-----------------------------------------------------------------------------
(* What a selection brings about.                                          *)

LEMMA LoadIs ==
  ASSUME NEW b \in 0..MaxBases
  PROVE  LET f == Knowledge!LoadOf(b)
         IN  f \in Knowledge!Task /\ f.op = "docs" /\ f.request = "docs" /\ f.step = "sent" /\ f.base = b
<1>1. 0 \in 0..MaxBases /\ 0 \in 0..MaxPapers /\ 0 \in Knowledge!Names
  BY KnowledgeNumbers DEF Knowledge!Names
<1>2. Knowledge!Free \in Knowledge!Task
  BY <1>1 DEF Knowledge!Free, Knowledge!Task, Knowledge!Ops, Knowledge!NoBase
<1>3. Knowledge!LoadOf(b) = [Knowledge!Free EXCEPT !.op = "docs", !.request = "docs", !.step = "sent", !.base = b]
  BY DEF Knowledge!LoadOf
<1> QED BY <1>2, <1>3 DEF Knowledge!Task, Knowledge!Ops

LEMMA SettleCases ==
  ASSUME page \in Knowledge!Page, NEW p \in Knowledge!Page, NEW ts \in [Knowledge!Tasks -> Knowledge!Task], Knowledge!Settle(p, ts)
  PROVE  /\ page' \in Knowledge!Page /\ tasks' \in [Knowledge!Tasks -> Knowledge!Task]
         /\ page'.selected = p.selected /\ page'.listed = p.listed /\ page'.stale = p.stale
         /\ page'.crossed <=> \/ p.crossed
                              \/ p.selected # page.selected /\ \E t \in WorkIn(ts) : ts[t].base \notin {0, p.selected}
         /\ \/ /\ p.selected = page.selected /\ Knowledge!Shown(p) = Knowledge!Shown(page)
               /\ page'.edit = p.edit /\ page'.results = p.results
               /\ page'.docs = p.docs /\ page'.busy = p.busy /\ tasks' = ts
            \/ /\ p.selected # page.selected \/ Knowledge!Shown(p) # Knowledge!Shown(page)
               /\ page'.edit \in {0, p.selected} /\ page'.results = 0
               /\ \/ p.selected = 0 /\ page'.docs = {} /\ page'.busy = p.busy /\ tasks' = ts
                  \/ /\ p.selected # 0 /\ page'.docs = p.docs /\ page'.busy = p.busy \cup {"docs"}
                     /\ \E u \in Knowledge!Tasks : ts[u].step = "free" /\ tasks' = [ts EXCEPT ![u] = Knowledge!LoadOf(p.selected)]
<1> DEFINE moved == p.selected # page.selected
           others == {t \in Knowledge!Tasks : ts[t].step # "free" /\ ts[t].base \notin {0, p.selected}}
<1>1. others # {} <=> \E t \in WorkIn(ts) : ts[t].base \notin {0, p.selected}
  BY DEF WorkIn
<1>2. PICK q : q = [p EXCEPT !.crossed = @ \/ (moved /\ others # {})]
  OBVIOUS
<1>3. /\ q \in Knowledge!Page /\ q.selected = p.selected /\ q.listed = p.listed /\ q.stale = p.stale
      /\ q.crossed = (p.crossed \/ (moved /\ others # {}))
      /\ q.edit = p.edit /\ q.results = p.results /\ q.docs = p.docs /\ q.busy = p.busy
  BY <1>2 DEF Knowledge!Page
<1>4. 0 \in 0..MaxBases /\ p.selected \in 0..MaxBases /\ 0 = Knowledge!NoBase
  BY KnowledgeNumbers DEF Knowledge!Page, Knowledge!NoBase
<1>5. Knowledge!Shown(q) = Knowledge!Shown(p)
  BY <1>3 DEF Knowledge!Shown
<1>6. CASE ~(moved \/ Knowledge!Shown(p) # Knowledge!Shown(page))
  <2>1. page' = q /\ tasks' = ts
    BY <1>2, <1>4, <1>6 DEF Knowledge!Settle
  <2> QED BY <1>1, <1>3, <1>6, <2>1
<1>7. CASE moved \/ Knowledge!Shown(p) # Knowledge!Shown(page)
  <2>1. page' = Knowledge!Reset(q)
    BY <1>2, <1>4, <1>7 DEF Knowledge!Settle
  <2>2. PICK e : e = IF Knowledge!Shown(q) THEN q.selected ELSE 0
    OBVIOUS
  <2>3. e \in {0, p.selected} /\ e \in 0..MaxBases
    BY <1>3, <1>4, <2>2
  <2>4. CASE p.selected = 0
    <3>1. PICK r : r = [[q EXCEPT !.edit = e] EXCEPT !.results = 0]
      OBVIOUS
    <3>2. /\ r \in Knowledge!Page /\ r.selected = q.selected /\ r.listed = q.listed /\ r.stale = q.stale /\ r.crossed = q.crossed
          /\ r.edit = e /\ r.results = 0 /\ r.busy = q.busy
      BY <1>3, <1>4, <2>3, <3>1 DEF Knowledge!Page
    <3>3. page' = [[r EXCEPT !.docs = {}] EXCEPT !.busy = q.busy]
      BY <1>3, <1>4, <2>1, <2>2, <2>4, <3>1 DEF Knowledge!Reset
    <3>4. /\ page' \in Knowledge!Page /\ page'.selected = r.selected /\ page'.listed = r.listed /\ page'.stale = r.stale
          /\ page'.crossed = r.crossed /\ page'.edit = r.edit /\ page'.results = r.results /\ page'.busy = q.busy /\ page'.docs = {}
      BY <3>2, <3>3 DEF Knowledge!Page
    <3>5. tasks' = ts
      BY <1>2, <1>3, <1>4, <1>7, <2>4 DEF Knowledge!Settle
    <3> QED BY <1>1, <1>3, <1>7, <2>3, <2>4, <3>2, <3>4, <3>5
  <2>5. CASE p.selected # 0
    <3>1. PICK r : r = [[q EXCEPT !.edit = e] EXCEPT !.results = 0]
      OBVIOUS
    <3>2. /\ r \in Knowledge!Page /\ r.selected = q.selected /\ r.listed = q.listed /\ r.stale = q.stale /\ r.crossed = q.crossed
          /\ r.edit = e /\ r.results = 0 /\ r.busy = q.busy /\ r.docs = q.docs
      BY <1>3, <1>4, <2>3, <3>1 DEF Knowledge!Page
    <3>3. page' = [[r EXCEPT !.docs = q.docs] EXCEPT !.busy = q.busy \cup {"docs"}]
      BY <1>3, <1>4, <2>1, <2>2, <2>5, <3>1 DEF Knowledge!Reset
    <3>4. q.busy \cup {"docs"} \in SUBSET Knowledge!Ops
      BY <1>3 DEF Knowledge!Page, Knowledge!Ops
    <3>5. /\ page' \in Knowledge!Page /\ page'.selected = r.selected /\ page'.listed = r.listed /\ page'.stale = r.stale
          /\ page'.crossed = r.crossed /\ page'.edit = r.edit /\ page'.results = r.results /\ page'.busy = q.busy \cup {"docs"}
          /\ page'.docs = q.docs
      BY <3>2, <3>3, <3>4 DEF Knowledge!Page
    <3>6. PICK u : u = CHOOSE t \in Knowledge!FreeIn(ts) : \A v \in Knowledge!FreeIn(ts) : t <= v
      OBVIOUS
    <3>7. Knowledge!FreeIn(ts) # {} /\ tasks' = [ts EXCEPT ![u] = Knowledge!LoadOf(p.selected)]
      BY <1>2, <1>3, <1>4, <1>7, <2>5, <3>6 DEF Knowledge!Settle
    <3>8. u \in Knowledge!Tasks /\ ts[u].step = "free"
      BY <3>6, <3>7, FirstFree DEF Knowledge!FreeIn
    <3>9. tasks' \in [Knowledge!Tasks -> Knowledge!Task]
      BY <1>4, <3>7, LoadIs
    <3> QED BY <1>1, <1>3, <1>7, <2>3, <2>5, <3>2, <3>5, <3>7, <3>8, <3>9
  <2> QED BY <2>4, <2>5
<1> QED BY <1>6, <1>7

-----------------------------------------------------------------------------
\* A page that becomes p, with the tasks ts, still follows the library after the effect.
LEMMA SettleKeeps ==
  ASSUME page \in Knowledge!Page, NEW lib, lib.docs \in SUBSET Knowledge!Doc, LibraryFits(lib),
         NEW p \in Knowledge!Page, NEW ts \in [Knowledge!Tasks -> Knowledge!Task], Knowledge!Settle(p, ts),
         \A t \in WorkIn(ts) : WorkFits(ts[t]), FlagsFit(p, ts),
         ~p.crossed /\ p.selected = page.selected => PageInPlace(p, ts),
         ~page'.crossed /\ ~p.stale => WorkFollows(lib, p, ts),
         ~page'.crossed /\ ~p.stale /\ p.selected = page.selected /\ Knowledge!Shown(p) = Knowledge!Shown(page) => DocsFollow(lib, p, ts),
         ~page'.crossed /\ ~p.stale /\ (p.selected # page.selected \/ Knowledge!Shown(p) # Knowledge!Shown(page)) =>
           \A t \in WorkIn(ts) : ts[t].request \notin Alterations
  PROVE  page' \in Knowledge!Page /\ tasks' \in [Knowledge!Tasks -> Knowledge!Task] /\ PageInv(lib, page', tasks')
<1>1. /\ page' \in Knowledge!Page /\ tasks' \in [Knowledge!Tasks -> Knowledge!Task]
      /\ page'.selected = p.selected /\ page'.listed = p.listed /\ page'.stale = p.stale
      /\ page'.crossed <=> \/ p.crossed
                           \/ p.selected # page.selected /\ \E t \in WorkIn(ts) : ts[t].base \notin {0, p.selected}
  BY SettleCases
<1>2. \/ /\ p.selected = page.selected /\ Knowledge!Shown(p) = Knowledge!Shown(page)
         /\ page'.edit = p.edit /\ page'.results = p.results
         /\ page'.docs = p.docs /\ page'.busy = p.busy /\ tasks' = ts
      \/ /\ p.selected # page.selected \/ Knowledge!Shown(p) # Knowledge!Shown(page)
         /\ page'.edit \in {0, p.selected} /\ page'.results = 0
         /\ \/ p.selected = 0 /\ page'.docs = {} /\ page'.busy = p.busy /\ tasks' = ts
            \/ /\ p.selected # 0 /\ page'.docs = p.docs /\ page'.busy = p.busy \cup {"docs"}
               /\ \E u \in Knowledge!Tasks : ts[u].step = "free" /\ tasks' = [ts EXCEPT ![u] = Knowledge!LoadOf(p.selected)]
  BY SettleCases
<1>3. CASE /\ p.selected = page.selected /\ Knowledge!Shown(p) = Knowledge!Shown(page)
           /\ page'.edit = p.edit /\ page'.results = p.results
           /\ page'.docs = p.docs /\ page'.busy = p.busy /\ tasks' = ts
  <2>1. FlagsFit(page', tasks') /\ \A t \in WorkIn(tasks') : WorkFits(tasks'[t])
    BY <1>3 DEF FlagsFit
  <2>2. ~page'.crossed => PageInPlace(page', tasks')
    BY <1>1, <1>3 DEF PageInPlace, AtHome
  <2>3. ~page'.crossed /\ ~page'.stale => WorkFollows(lib, page', tasks') /\ DocsFollow(lib, page', tasks')
    BY <1>1, <1>3 DEF WorkFollows, DocsFollow
  <2> QED BY <1>1, <2>1, <2>2, <2>3 DEF PageInv
<1>4. CASE /\ p.selected # page.selected \/ Knowledge!Shown(p) # Knowledge!Shown(page)
           /\ page'.edit \in {0, p.selected} /\ page'.results = 0
           /\ p.selected = 0 /\ page'.docs = {} /\ page'.busy = p.busy /\ tasks' = ts
  <2>1. FlagsFit(page', tasks') /\ \A t \in WorkIn(tasks') : WorkFits(tasks'[t])
    BY <1>4 DEF FlagsFit
  <2>2. ASSUME ~page'.crossed PROVE PageInPlace(page', tasks')
    <3>1. \A t \in WorkIn(ts) : AtHome(p, ts[t])
      BY <1>1, <2>2 DEF PageInPlace, AtHome
    <3> QED BY <1>1, <1>4, <3>1 DEF PageInPlace, AtHome
  <2>3. ~page'.crossed /\ ~page'.stale => WorkFollows(lib, page', tasks')
    BY <1>1, <1>4 DEF WorkFollows
  <2>4. DocsFollow(lib, page', tasks')
    <3>1. DocsOf(lib, 0) = {}
      BY KnowledgeNumbers DEF DocsOf, Knowledge!Doc, Knowledge!Bases
    <3> QED BY <1>1, <1>4, <3>1 DEF DocsFollow
  <2> QED BY <1>1, <2>1, <2>2, <2>3, <2>4 DEF PageInv
<1>5. ASSUME p.selected # page.selected \/ Knowledge!Shown(p) # Knowledge!Shown(page),
             page'.edit \in {0, p.selected}, page'.results = 0, p.selected # 0, page'.docs = p.docs, page'.busy = p.busy \cup {"docs"},
             NEW u \in Knowledge!Tasks, ts[u].step = "free", tasks' = [ts EXCEPT ![u] = Knowledge!LoadOf(p.selected)]
      PROVE  PageInv(lib, page', tasks')
  <2>1. PICK f : f = Knowledge!LoadOf(p.selected)
    OBVIOUS
  <2>2. f \in Knowledge!Task /\ f.op = "docs" /\ f.request = "docs" /\ f.step = "sent" /\ f.base = p.selected
    <3>1. p.selected \in 0..MaxBases
      BY DEF Knowledge!Page
    <3> QED BY <2>1, <3>1, LoadIs
  <2>3. tasks'[u] = f /\ \A t \in Knowledge!Tasks : t # u => tasks'[t] = ts[t]
    BY <1>5, <2>1
  <2>4. WorkIn(tasks') = WorkIn(ts) \cup {u} /\ u \notin WorkIn(ts) /\ MainsIn(tasks') = MainsIn(ts)
    BY <1>5, <2>2, <2>3 DEF WorkIn, MainsIn
  <2>5. \A t \in WorkIn(ts) : tasks'[t] = ts[t]
    BY <2>3, <2>4 DEF WorkIn
  <2>6. \A t \in WorkIn(tasks') : WorkFits(tasks'[t])
    <3>1. WorkFits(f)
      BY <1>5, <2>2 DEF WorkFits, Alterations
    <3> QED BY <2>3, <2>4, <2>5, <3>1
  <2>7. FlagsFit(page', tasks')
    <3>1. \A op \in p.busy : \E t \in WorkIn(tasks') : tasks'[t].op = op \/ tasks'[t].request = op
      BY <2>4, <2>5 DEF FlagsFit
    <3>2. u \in WorkIn(tasks') /\ tasks'[u].request = "docs"
      BY <2>2, <2>3, <2>4
    <3> QED BY <1>5, <3>1, <3>2 DEF FlagsFit
  <2>8. ASSUME ~page'.crossed PROVE PageInPlace(page', tasks')
    <3>1. \A t \in WorkIn(ts) : AtHome(p, ts[t])
      BY <1>1, <2>8 DEF PageInPlace, AtHome
    <3>2. AtHome(p, f)
      BY <2>2 DEF AtHome
    <3>3. \A t \in WorkIn(tasks') : AtHome(page', tasks'[t])
      BY <1>1, <2>3, <2>4, <2>5, <3>1, <3>2 DEF AtHome
    <3> QED BY <1>1, <1>5, <3>3 DEF PageInPlace
  <2>9. ASSUME ~page'.crossed, ~page'.stale PROVE WorkFollows(lib, page', tasks')
    <3>1. WorkFollows(lib, p, ts) /\ \A t \in WorkIn(ts) : ts[t].request \notin Alterations
      BY <1>1, <1>5, <2>9
    <3>2. \A t \in WorkIn(tasks') : tasks'[t].request \notin Alterations
      BY <2>2, <2>3, <2>4, <2>5, <3>1 DEF Alterations
    <3>3. \A t \in WorkIn(tasks') : tasks'[t].step = "ok" => CarriesTruth(lib, tasks'[t])
      BY <2>2, <2>3, <2>4, <2>5, <3>1 DEF WorkFollows
    <3>4. \A t \in MainsIn(ts) : tasks'[t] = ts[t]
      BY <2>5 DEF MainsIn
    <3> QED BY <1>1, <2>4, <3>1, <3>2, <3>3, <3>4 DEF WorkFollows
  <2>10. DocsFollow(lib, page', tasks')
    BY <1>1, <2>2, <2>3, <2>4 DEF DocsFollow
  <2> QED BY <2>6, <2>7, <2>8, <2>9, <2>10 DEF PageInv
<1> QED BY <1>1, <1>2, <1>3, <1>4, <1>5

-----------------------------------------------------------------------------
LEMMA KnowledgeTypes ==
  KnowledgeInv => /\ library \in [rows : SUBSET Knowledge!Row, docs : SUBSET Knowledge!Doc, bases : 0..MaxBases, made : 0..MaxPapers]
                  /\ page \in Knowledge!Page /\ tasks \in [Knowledge!Tasks -> Knowledge!Task]
                  /\ PageInv(library, page, tasks)
BY DEF KnowledgeInv, Knowledge!KnowledgeTypeOK

LEMMA KnowledgeHolds ==
  ASSUME library' \in [rows : SUBSET Knowledge!Row, docs : SUBSET Knowledge!Doc, bases : 0..MaxBases, made : 0..MaxPapers],
         page' \in Knowledge!Page, tasks' \in [Knowledge!Tasks -> Knowledge!Task], PageInv(library', page', tasks')
  PROVE  KnowledgeInv'
BY DEF KnowledgeInv, Knowledge!KnowledgeTypeOK

\* A request that a handler sends first.
LEMMA TaskStarts ==
  ASSUME KnowledgeInv, NEW t \in Knowledge!Tasks, NEW p \in Knowledge!Page,
         p.listed = page.listed, p.selected = page.selected, p.edit = page.edit, p.docs = page.docs, p.busy = page.busy,
         p.stale = page.stale, p.crossed = page.crossed, p.clicks = page.clicks, p.results \in {0, page.results},
         NEW op \in Knowledge!Ops, NEW b \in 0..MaxBases, NEW d \in 0..MaxPapers, NEW n \in Knowledge!Names,
         b \in {0, page.selected, page.edit}, op \in Alterations \cup {"docs"} => b # 0,
         Knowledge!Send(t, p, op, b, d, n)
  PROVE  KnowledgeInv'
<1>1. /\ library \in [rows : SUBSET Knowledge!Row, docs : SUBSET Knowledge!Doc, bases : 0..MaxBases, made : 0..MaxPapers]
      /\ page \in Knowledge!Page /\ tasks \in [Knowledge!Tasks -> Knowledge!Task] /\ PageInv(library, page, tasks)
  BY KnowledgeTypes
<1>2. tasks[t].step = "free" /\ page.clicks < MaxClicks /\ UNCHANGED library
  BY DEF Knowledge!Send
<1>3. PICK f : f = [Knowledge!Free EXCEPT !.op = op, !.request = op, !.step = "sent", !.base = b, !.doc = d, !.name = n]
  OBVIOUS
<1>4. f \in Knowledge!Task /\ f.op = op /\ f.request = op /\ f.step = "sent" /\ f.base = b
  <2>1. 0 \in 0..MaxBases /\ 0 \in 0..MaxPapers /\ 0 \in Knowledge!Names
    BY KnowledgeNumbers DEF Knowledge!Names
  <2>2. Knowledge!Free \in Knowledge!Task
    BY <2>1 DEF Knowledge!Free, Knowledge!Task, Knowledge!Ops, Knowledge!NoBase
  <2> QED BY <1>3, <2>2 DEF Knowledge!Task
<1>5. tasks' = [tasks EXCEPT ![t] = f]
  BY <1>3 DEF Knowledge!Send
<1>6. /\ tasks' \in [Knowledge!Tasks -> Knowledge!Task] /\ tasks'[t] = f
      /\ \A u \in Knowledge!Tasks : u # t => tasks'[u] = tasks[u]
  BY <1>1, <1>4, <1>5
<1>7. /\ WorkIn(tasks') = WorkIn(tasks) \cup {t} /\ t \notin WorkIn(tasks)
      /\ \A u \in WorkIn(tasks) : tasks'[u] = tasks[u]
  BY <1>2, <1>4, <1>6 DEF WorkIn
<1>8. /\ page' \in Knowledge!Page /\ page'.listed = page.listed /\ page'.selected = page.selected /\ page'.edit = page.edit
      /\ page'.docs = page.docs /\ page'.results \in {0, page.results} /\ page'.crossed = page.crossed
      /\ page'.busy \in SUBSET (page.busy \cup {op}) /\ page'.stale = (page.stale \/ WorkIn(tasks) # {})
  <2>1. PICK k : k = p.clicks + 1
    OBVIOUS
  <2>2. PICK bz : bz = IF op \in Knowledge!Flagged \cup {"list", "docs"} THEN p.busy \cup {op} ELSE p.busy
    OBVIOUS
  <2>3. PICK st : st = (p.stale \/ Knowledge!Waiting # {})
    OBVIOUS
  <2>4. k \in 0..MaxClicks /\ bz \in SUBSET Knowledge!Ops /\ bz \in SUBSET (page.busy \cup {op}) /\ st \in BOOLEAN
    <3>1. p.clicks \in 0..MaxClicks /\ p.busy \in SUBSET Knowledge!Ops /\ p.clicks < MaxClicks
      BY <1>2 DEF Knowledge!Page
    <3>2. k \in 0..MaxClicks
      BY <2>1, <3>1, KnowledgeNumbers
    <3> QED BY <2>2, <2>3, <3>1, <3>2
  <2>5. page' = [p EXCEPT !.clicks = k, !.busy = bz, !.stale = st]
    BY <2>1, <2>2, <2>3 DEF Knowledge!Send
  <2>6. /\ page' \in Knowledge!Page /\ page'.listed = p.listed /\ page'.selected = p.selected /\ page'.edit = p.edit
        /\ page'.docs = p.docs /\ page'.results = p.results /\ page'.crossed = p.crossed
        /\ page'.busy = bz /\ page'.stale = st
    BY <2>4, <2>5 DEF Knowledge!Page
  <2>7. Knowledge!Waiting = WorkIn(tasks)
    BY DEF Knowledge!Waiting, WorkIn
  <2> QED BY <2>3, <2>4, <2>6, <2>7
<1>9. FlagsFit(page', tasks') /\ \A u \in WorkIn(tasks') : WorkFits(tasks'[u])
  <2>1. WorkFits(f)
    BY <1>4 DEF WorkFits, Alterations
  <2>2. \A u \in WorkIn(tasks') : WorkFits(tasks'[u])
    BY <1>1, <1>6, <1>7, <2>1 DEF PageInv
  <2>3. ASSUME NEW o \in page'.busy PROVE \E u \in WorkIn(tasks') : tasks'[u].op = o \/ tasks'[u].request = o
    <3>1. CASE o = op
      BY <1>4, <1>6, <1>7, <3>1
    <3>2. CASE o \in page.busy
      BY <1>1, <1>7, <3>2 DEF PageInv, FlagsFit
    <3> QED BY <1>8, <3>1, <3>2
  <2> QED BY <2>2, <2>3 DEF FlagsFit
<1>10. ASSUME ~page'.crossed PROVE PageInPlace(page', tasks')
  <2>1. PageInPlace(page, tasks)
    BY <1>1, <1>8, <1>10 DEF PageInv
  <2>2. b \in {0, page.selected}
    BY <2>1 DEF PageInPlace
  <2>3. \A u \in WorkIn(tasks') : AtHome(page', tasks'[u])
    BY <1>4, <1>6, <1>7, <1>8, <2>1, <2>2 DEF PageInPlace, AtHome
  <2> QED BY <1>8, <2>1, <2>3 DEF PageInPlace
<1>11. ASSUME ~page'.crossed, ~page'.stale PROVE WorkFollows(library, page', tasks') /\ DocsFollow(library, page', tasks')
  <2>1. WorkIn(tasks) = {} /\ WorkFollows(library, page, tasks) /\ DocsFollow(library, page, tasks)
    BY <1>1, <1>8, <1>11 DEF PageInv
  <2>2. page.listed = library.rows /\ page.docs = DocsOf(library, page.selected)
    BY <2>1 DEF WorkFollows, DocsFollow, MainsIn
  <2>3. WorkIn(tasks') = {t} /\ MainsIn(tasks') \in SUBSET {t}
    BY <1>7, <2>1 DEF MainsIn
  <2>4. RowsFollow(library, page'.listed, tasks'[t])
    BY <1>4, <1>6, <1>8, <2>2 DEF RowsFollow
  <2>5. WorkFollows(library, page', tasks')
    BY <1>4, <1>6, <1>8, <2>2, <2>3, <2>4 DEF WorkFollows
  <2> QED BY <1>8, <2>2, <2>5 DEF DocsFollow
<1>12. PageInv(library', page', tasks')
  BY <1>1, <1>2, <1>9, <1>10, <1>11 DEF PageInv
<1> QED BY <1>1, <1>2, <1>6, <1>8, <1>12, KnowledgeHolds

LEMMA ClickStep ==
  ASSUME KnowledgeInv, NEW t \in Knowledge!Tasks,
         \/ Knowledge!CreateKnowledgeBase(t) \/ Knowledge!SaveKnowledgeBase(t) \/ Knowledge!ArchiveKnowledgeBase(t)
         \/ Knowledge!DeleteKnowledgeBase(t) \/ Knowledge!UploadFile(t) \/ Knowledge!SearchKnowledge(t) \/ Knowledge!RefreshIndex(t)
         \/ Knowledge!RefreshBases(t) \/ Knowledge!RefreshDocuments(t) \/ Knowledge!RenameDocument(t) \/ Knowledge!DeleteDocument(t)
  PROVE  KnowledgeInv'
<1>1. page \in Knowledge!Page
  BY KnowledgeTypes
<1>2. /\ 0 \in 0..MaxBases /\ 0 \in 0..MaxPapers /\ 0 \in Knowledge!Names /\ 0 = Knowledge!NoBase
      /\ page.selected \in 0..MaxBases /\ page.edit \in 0..MaxBases
      /\ {"create", "save", "upload", "search", "renameDoc", "reembed", "archive", "delete", "deleteDoc", "list", "docs"}
           \subseteq Knowledge!Ops
  BY <1>1, KnowledgeNumbers DEF Knowledge!Names, Knowledge!Page, Knowledge!Ops, Knowledge!Flagged, Knowledge!NoBase
<1>3. Knowledge!Shown(page) => page.selected # 0
  <2>1. \A r \in page.listed : r.base # 0
    BY <1>1, KnowledgeNumbers DEF Knowledge!Page, Knowledge!Row, Knowledge!Bases
  <2> QED BY <2>1 DEF Knowledge!Shown
<1>4. CASE Knowledge!CreateKnowledgeBase(t)
  <2>1. Knowledge!Send(t, page, "create", 0, 0, 0)
    BY <1>2, <1>4 DEF Knowledge!CreateKnowledgeBase
  <2> QED BY <1>1, <1>2, <2>1, TaskStarts DEF Alterations
<1>5. CASE Knowledge!SaveKnowledgeBase(t)
  <2>1. PICK n \in Knowledge!Names : Knowledge!Send(t, page, "save", page.edit, 0, n)
    BY <1>5 DEF Knowledge!SaveKnowledgeBase
  <2> QED BY <1>1, <1>2, <2>1, TaskStarts DEF Alterations
<1>6. CASE Knowledge!ArchiveKnowledgeBase(t)
  <2>1. Knowledge!Send(t, page, "archive", page.selected, 0, 0)
    BY <1>6 DEF Knowledge!ArchiveKnowledgeBase
  <2> QED BY <1>1, <1>2, <2>1, TaskStarts DEF Alterations
<1>7. CASE Knowledge!DeleteKnowledgeBase(t)
  <2>1. Knowledge!Send(t, page, "delete", page.selected, 0, 0) /\ page.selected # 0
    BY <1>3, <1>7 DEF Knowledge!DeleteKnowledgeBase
  <2> QED BY <1>1, <1>2, <2>1, TaskStarts DEF Alterations
<1>8. CASE Knowledge!UploadFile(t)
  <2>1. Knowledge!Send(t, page, "upload", page.selected, 0, 0) /\ page.selected # 0
    BY <1>3, <1>8 DEF Knowledge!UploadFile
  <2> QED BY <1>1, <1>2, <2>1, TaskStarts DEF Alterations
<1>9. CASE Knowledge!SearchKnowledge(t)
  <2>1. PICK p : p = [page EXCEPT !.results = 0]
    OBVIOUS
  <2>2. /\ p \in Knowledge!Page /\ p.listed = page.listed /\ p.selected = page.selected /\ p.edit = page.edit /\ p.docs = page.docs
        /\ p.busy = page.busy /\ p.stale = page.stale /\ p.crossed = page.crossed /\ p.clicks = page.clicks /\ p.results = 0
    BY <1>1, <1>2, <2>1 DEF Knowledge!Page
  <2>3. Knowledge!Send(t, p, "search", page.selected, 0, 0)
    BY <1>2, <1>9, <2>1 DEF Knowledge!SearchKnowledge
  <2> QED BY <1>1, <1>2, <2>2, <2>3, TaskStarts DEF Alterations
<1>10. CASE Knowledge!RefreshIndex(t)
  <2>1. Knowledge!Send(t, page, "reembed", page.selected, 0, 0)
    BY <1>10 DEF Knowledge!RefreshIndex
  <2> QED BY <1>1, <1>2, <2>1, TaskStarts DEF Alterations
<1>11. CASE Knowledge!RefreshBases(t)
  <2>1. Knowledge!Send(t, page, "list", 0, 0, 0)
    BY <1>2, <1>11 DEF Knowledge!RefreshBases
  <2> QED BY <1>1, <1>2, <2>1, TaskStarts DEF Alterations
<1>12. CASE Knowledge!RefreshDocuments(t)
  <2>1. Knowledge!Send(t, page, "docs", page.selected, 0, 0) /\ page.selected # 0
    BY <1>3, <1>12 DEF Knowledge!RefreshDocuments
  <2> QED BY <1>1, <1>2, <2>1, TaskStarts DEF Alterations
<1>13. \A x \in page.docs : x.doc \in 0..MaxPapers
  BY <1>1, KnowledgeNumbers DEF Knowledge!Page, Knowledge!Doc
<1>14. CASE Knowledge!RenameDocument(t)
  <2>1. PICK x \in page.docs, n \in Knowledge!Names : Knowledge!Send(t, page, "renameDoc", page.selected, x.doc, n)
    BY <1>14 DEF Knowledge!RenameDocument
  <2>2. page.selected # 0
    BY <1>3, <1>14 DEF Knowledge!RenameDocument
  <2> QED BY <1>1, <1>2, <1>13, <2>1, <2>2, TaskStarts DEF Alterations
<1>15. CASE Knowledge!DeleteDocument(t)
  <2>1. PICK x \in page.docs : Knowledge!Send(t, page, "deleteDoc", page.selected, x.doc, 0)
    BY <1>15 DEF Knowledge!DeleteDocument
  <2>2. page.selected # 0
    BY <1>3, <1>15 DEF Knowledge!DeleteDocument
  <2> QED BY <1>1, <1>2, <1>13, <2>1, <2>2, TaskStarts DEF Alterations
<1> QED BY <1>4, <1>5, <1>6, <1>7, <1>8, <1>9, <1>10, <1>11, <1>12, <1>14, <1>15

LEMMA SelectStep ==
  ASSUME KnowledgeInv, NEW b \in Knowledge!Bases, Knowledge!SelectBase(b)
  PROVE  KnowledgeInv'
<1>1. /\ library \in [rows : SUBSET Knowledge!Row, docs : SUBSET Knowledge!Doc, bases : 0..MaxBases, made : 0..MaxPapers]
      /\ page \in Knowledge!Page /\ tasks \in [Knowledge!Tasks -> Knowledge!Task] /\ PageInv(library, page, tasks)
      /\ UNCHANGED library
  BY KnowledgeTypes DEF Knowledge!SelectBase
<1>2. PICK k : k = page.clicks + 1
  OBVIOUS
<1>3. PICK p : p = [page EXCEPT !.selected = b, !.clicks = k]
  OBVIOUS
<1>4. k \in 0..MaxClicks /\ b \in 0..MaxBases
  <2>1. page.clicks \in 0..MaxClicks /\ page.clicks < MaxClicks
    BY <1>1 DEF Knowledge!Page, Knowledge!SelectBase
  <2> QED BY <1>2, <2>1, KnowledgeNumbers DEF Knowledge!Bases
<1>5. /\ p \in Knowledge!Page /\ p.selected = b /\ p.listed = page.listed /\ p.edit = page.edit /\ p.docs = page.docs
      /\ p.results = page.results /\ p.busy = page.busy /\ p.stale = page.stale /\ p.crossed = page.crossed
  BY <1>1, <1>3, <1>4 DEF Knowledge!Page
<1>6. Knowledge!Settle(p, tasks)
  BY <1>2, <1>3 DEF Knowledge!SelectBase
<1>7. page'.crossed <=> \/ p.crossed
                        \/ p.selected # page.selected /\ \E t \in WorkIn(tasks) : tasks[t].base \notin {0, p.selected}
  BY <1>1, <1>5, <1>6, SettleCases
<1>8. (\A t \in WorkIn(tasks) : WorkFits(tasks[t])) /\ FlagsFit(p, tasks) /\ LibraryFits(library)
  BY <1>1, <1>5 DEF PageInv, FlagsFit
<1>9. ~p.crossed /\ p.selected = page.selected => PageInPlace(p, tasks)
  BY <1>1, <1>5 DEF PageInv, PageInPlace, AtHome
<1>10. ~page'.crossed /\ ~p.stale => WorkFollows(library, p, tasks)
  BY <1>1, <1>5, <1>7 DEF PageInv, WorkFollows
<1>11. ~page'.crossed /\ ~p.stale /\ p.selected = page.selected => DocsFollow(library, p, tasks)
  BY <1>1, <1>5, <1>7 DEF PageInv, DocsFollow
<1>12. ASSUME ~page'.crossed, p.selected # page.selected \/ Knowledge!Shown(p) # Knowledge!Shown(page),
              NEW t \in WorkIn(tasks), tasks[t].request \in Alterations
       PROVE  FALSE
  <2>1. p.selected # page.selected
    BY <1>5, <1>12 DEF Knowledge!Shown
  <2>2. tasks[t].base \in {0, b} /\ PageInPlace(page, tasks)
    BY <1>1, <1>5, <1>7, <1>12, <2>1 DEF PageInv
  <2>3. tasks[t].base \in {0, page.selected}
    BY <1>12, <2>2 DEF PageInPlace, AtHome, Alterations
  <2>4. tasks[t].base # 0
    BY <1>8, <1>12 DEF WorkFits, Alterations
  <2> QED BY <1>5, <2>1, <2>2, <2>3, <2>4
<1>13. library.docs \in SUBSET Knowledge!Doc
  BY <1>1
<1>14. page' \in Knowledge!Page /\ tasks' \in [Knowledge!Tasks -> Knowledge!Task] /\ PageInv(library, page', tasks')
  BY <1>1, <1>5, <1>6, <1>8, <1>9, <1>10, <1>11, <1>12, <1>13, SettleKeeps
<1> QED BY <1>1, <1>14, KnowledgeHolds

-----------------------------------------------------------------------------
\* What a request does to the library when it is granted.
LEMMA KnowledgeGrants ==
  ASSUME library \in [rows : SUBSET Knowledge!Row, docs : SUBSET Knowledge!Doc, bases : 0..MaxBases, made : 0..MaxPapers],
         LibraryFits(library), NEW task \in Knowledge!Task, Knowledge!InBounds(task), NEW d \in Knowledge!Granted(task)
  PROVE  /\ d \in [rows : SUBSET Knowledge!Row, docs : SUBSET Knowledge!Doc, bases : 0..MaxBases, made : 0..MaxPapers]
         /\ LibraryFits(d)
         /\ task.request \in {"list", "docs", "search", "reembed"} => d = library
         /\ task.request \notin Alterations => d.docs = library.docs
         /\ task.request \notin {"create", "save", "archive", "delete"} => d.rows = library.rows
         /\ task.request \in {"save", "archive"} => MergedRows(library.rows, {r \in d.rows : r.base = task.base}) = d.rows
         /\ task.request = "delete" => d.rows = {r \in library.rows : r.base # task.base}
         /\ task.request = "deleteDoc" => d.docs = {x \in library.docs : x.doc # task.doc}
<1> DEFINE Libraries == [rows : SUBSET Knowledge!Row, docs : SUBSET Knowledge!Doc, bases : 0..MaxBases, made : 0..MaxPapers]
<1>1. /\ library.rows \in SUBSET Knowledge!Row /\ library.docs \in SUBSET Knowledge!Doc /\ library.bases \in 0..MaxBases
      /\ library.made \in 0..MaxPapers
      /\ \A r, s \in library.rows : r.base = s.base => r = s
      /\ \A r \in library.rows : r.base \in Nat /\ r.base <= library.bases
  BY KnowledgeNumbers DEF LibraryFits, Knowledge!Row, Knowledge!Bases
<1>2. task.request \in {"create", "save", "upload", "search", "renameDoc", "reembed", "archive", "delete", "deleteDoc", "list", "docs"}
      /\ task.name \in Knowledge!Names
  BY DEF Knowledge!Task, Knowledge!Ops, Knowledge!Flagged
<1>3. CASE task.request = "create"
  <2>1. PICK n : n = library.bases + 1
    OBVIOUS
  <2>2. PICK x : x = [base |-> n, status |-> "active", name |-> 0]
    OBVIOUS
  <2>3. d = [library EXCEPT !.rows = library.rows \cup {x}, !.bases = n]
    BY <1>3, <2>1, <2>2 DEF Knowledge!Granted
  <2>4. n \in 1..MaxBases /\ \A r \in library.rows : r.base < n /\ r.base # n
    <3>1. library.bases < MaxBases
      BY <1>3 DEF Knowledge!InBounds
    <3> QED BY <1>1, <2>1, <3>1, KnowledgeNumbers
  <2>5. x \in Knowledge!Row /\ x.base = n
    BY <2>2, <2>4, KnowledgeNumbers DEF Knowledge!Row, Knowledge!Bases, Knowledge!Names
  <2>6. d \in Libraries /\ d.rows = library.rows \cup {x} /\ d.bases = n /\ d.docs = library.docs
    <3>1. library.rows \cup {x} \in SUBSET Knowledge!Row /\ n \in 0..MaxBases
      BY <1>1, <2>4, <2>5, KnowledgeNumbers
    <3> QED BY <1>1, <2>3, <3>1
  <2>7. LibraryFits(d)
    BY <1>1, <2>4, <2>5, <2>6 DEF LibraryFits
  <2> QED BY <1>3, <2>6, <2>7
<1>4. CASE task.request \in {"save", "archive"}
  <2>1. PICK b : b = task.base
    OBVIOUS
  <2>2. PICK g : g = [r \in library.rows |-> IF r.base = b THEN Knowledge!Changed(task, r) ELSE r]
    OBVIOUS
  <2>3. d = [library EXCEPT !.rows = {g[r] : r \in library.rows}]
    BY <1>4, <2>1, <2>2 DEF Knowledge!Granted
  <2>4. \A r \in library.rows : g[r] \in Knowledge!Row /\ g[r].base = r.base /\ (r.base # b => g[r] = r)
    <3>1. ASSUME NEW r \in library.rows PROVE Knowledge!Changed(task, r) \in Knowledge!Row /\ Knowledge!Changed(task, r).base = r.base
      <4>1. r \in Knowledge!Row
        BY <1>1
      <4>2. CASE task.request = "archive"
        BY <4>1, <4>2 DEF Knowledge!Changed, Knowledge!Row
      <4>3. CASE task.request # "archive"
        BY <1>2, <4>1, <4>3 DEF Knowledge!Changed, Knowledge!Row
      <4> QED BY <4>2, <4>3
    <3> QED BY <1>1, <2>2, <3>1
  <2>5. /\ d.rows = {g[r] : r \in library.rows} /\ d.bases = library.bases /\ d.docs = library.docs
        /\ d \in Libraries
    BY <1>1, <2>3, <2>4
  <2>6. LibraryFits(d)
    BY <1>1, <2>4, <2>5 DEF LibraryFits
  <2>7. PICK new : new = {r \in d.rows : r.base = b}
    OBVIOUS
  <2>8. ASSUME NEW r \in library.rows
        PROVE  (IF \E s \in new : s.base = r.base THEN Knowledge!RowOf(new, r.base) ELSE r) = g[r]
    <3>1. CASE r.base = b
      <4>1. g[r] \in new /\ g[r].base = b
        BY <2>4, <2>5, <2>7, <3>1
      <4>2. \A s \in new : s = g[r]
        BY <1>1, <2>4, <2>5, <2>7, <3>1
      <4>3. Knowledge!RowOf(new, b) = g[r]
        BY <4>1, <4>2 DEF Knowledge!RowOf
      <4> QED BY <3>1, <4>1, <4>3
    <3>2. CASE r.base # b
      BY <2>4, <2>7, <3>2
    <3> QED BY <3>1, <3>2
  <2>9. MergedRows(library.rows, new) = d.rows
    BY <2>5, <2>8 DEF MergedRows
  <2> QED BY <1>4, <2>1, <2>5, <2>6, <2>7, <2>9 DEF Alterations
<1>5. CASE task.request = "delete"
  <2>1. PICK b : b = task.base
    OBVIOUS
  <2>2. d = [library EXCEPT !.rows = {r \in library.rows : r.base # b}, !.docs = {x \in library.docs : x.base # b}]
    BY <1>5, <2>1 DEF Knowledge!Granted
  <2>3. /\ d.rows = {r \in library.rows : r.base # b} /\ d.bases = library.bases
        /\ d \in Libraries
    BY <1>1, <2>2
  <2>4. LibraryFits(d)
    BY <1>1, <2>3 DEF LibraryFits
  <2> QED BY <1>5, <2>1, <2>3, <2>4 DEF Alterations
<1>6. CASE task.request = "upload"
  <2>1. PICK b : b = task.base
    OBVIOUS
  <2>2. PICK n : n = library.made + 1
    OBVIOUS
  <2>3. PICK x : x = [doc |-> n, base |-> b, title |-> 0]
    OBVIOUS
  <2>4. Knowledge!HasBase(b) /\ d = [library EXCEPT !.docs = library.docs \cup {x}, !.made = n]
    BY <1>6, <2>1, <2>2, <2>3 DEF Knowledge!Granted
  <2>5. n \in 1..MaxPapers /\ b \in Knowledge!Bases
    <3>1. library.made < MaxPapers
      BY <1>6 DEF Knowledge!InBounds
    <3>2. b \in Knowledge!Bases
      BY <1>1, <2>4 DEF Knowledge!HasBase, Knowledge!Row
    <3> QED BY <1>1, <2>2, <3>1, <3>2, KnowledgeNumbers
  <2>6. x \in Knowledge!Doc
    BY <2>3, <2>5, KnowledgeNumbers DEF Knowledge!Doc, Knowledge!Names
  <2>7. d.rows = library.rows /\ d.bases = library.bases /\ d \in Libraries
    <3>1. library.docs \cup {x} \in SUBSET Knowledge!Doc /\ n \in 0..MaxPapers
      BY <1>1, <2>5, <2>6, KnowledgeNumbers
    <3> QED BY <1>1, <2>4, <3>1
  <2>8. LibraryFits(d)
    BY <1>1, <2>7 DEF LibraryFits
  <2> QED BY <1>6, <2>7, <2>8 DEF Alterations
<1>7. CASE task.request = "renameDoc"
  <2>1. PICK these : these = {IF x.doc = task.doc THEN [x EXCEPT !.title = task.name] ELSE x : x \in library.docs}
    OBVIOUS
  <2>2. d = [library EXCEPT !.docs = these]
    BY <1>7, <2>1 DEF Knowledge!Granted
  <2>3. these \in SUBSET Knowledge!Doc
    <3>1. ASSUME NEW x \in library.docs PROVE [x EXCEPT !.title = task.name] \in Knowledge!Doc
      BY <1>1, <1>2 DEF Knowledge!Doc
    <3> QED BY <1>1, <2>1, <3>1
  <2>4. d.rows = library.rows /\ d.bases = library.bases /\ d \in Libraries
    BY <1>1, <2>2, <2>3
  <2>5. LibraryFits(d)
    BY <1>1, <2>4 DEF LibraryFits
  <2> QED BY <1>7, <2>4, <2>5 DEF Alterations
<1>8. CASE task.request = "deleteDoc"
  <2>1. d = [library EXCEPT !.docs = {x \in library.docs : x.doc # task.doc}]
    BY <1>8 DEF Knowledge!Granted
  <2>2. d.rows = library.rows /\ d.bases = library.bases /\ d.docs = {x \in library.docs : x.doc # task.doc} /\ d \in Libraries
    BY <1>1, <2>1
  <2>3. LibraryFits(d)
    BY <1>1, <2>2 DEF LibraryFits
  <2> QED BY <1>8, <2>2, <2>3 DEF Alterations
<1>9. CASE task.request \in {"list", "docs", "search", "reembed"}
  <2>1. d = library
    BY <1>9 DEF Knowledge!Granted
  <2> QED BY <1>9, <2>1
<1> QED BY <1>2, <1>3, <1>4, <1>5, <1>6, <1>7, <1>8, <1>9

-----------------------------------------------------------------------------
\* The slots that work stay the same when a task is replaced by one of its handler.
LEMMA WorkStays ==
  ASSUME tasks \in [Knowledge!Tasks -> Knowledge!Task], NEW t \in Knowledge!Tasks, tasks[t].step # "free",
         NEW f \in Knowledge!Task, f.op = tasks[t].op, f.step # "free", tasks' = [tasks EXCEPT ![t] = f]
  PROVE  /\ tasks' \in [Knowledge!Tasks -> Knowledge!Task] /\ tasks'[t] = f
         /\ WorkIn(tasks') = WorkIn(tasks) /\ MainsIn(tasks') = MainsIn(tasks) /\ t \in WorkIn(tasks)
         /\ \A u \in WorkIn(tasks) : u \in Knowledge!Tasks /\ (u # t => tasks'[u] = tasks[u])
<1>1. tasks' \in [Knowledge!Tasks -> Knowledge!Task] /\ tasks'[t] = f /\ \A u \in Knowledge!Tasks : u # t => tasks'[u] = tasks[u]
  OBVIOUS
<1>2. WorkIn(tasks') = WorkIn(tasks) /\ t \in WorkIn(tasks) /\ \A u \in WorkIn(tasks) : u \in Knowledge!Tasks
  BY <1>1 DEF WorkIn
<1>3. MainsIn(tasks') = MainsIn(tasks)
  BY <1>1, <1>2 DEF MainsIn
<1> QED BY <1>1, <1>2, <1>3

LEMMA KnowledgeServeStep ==
  ASSUME KnowledgeInv, NEW t \in Knowledge!Tasks, Knowledge!Serve(t)
  PROVE  KnowledgeInv'
<1>1. /\ library \in [rows : SUBSET Knowledge!Row, docs : SUBSET Knowledge!Doc, bases : 0..MaxBases, made : 0..MaxPapers]
      /\ page \in Knowledge!Page /\ tasks \in [Knowledge!Tasks -> Knowledge!Task] /\ PageInv(library, page, tasks)
      /\ page' = page
  BY KnowledgeTypes DEF Knowledge!Serve
<1>2. PICK task : task = tasks[t]
  OBVIOUS
<1>3. task \in Knowledge!Task /\ task.step = "sent" /\ Knowledge!InBounds(task) /\ t \in WorkIn(tasks) /\ WorkFits(task)
  BY <1>1, <1>2 DEF Knowledge!Serve, WorkIn, PageInv
<1>4. PICK d \in Knowledge!Granted(task) : library' = d
  BY <1>2 DEF Knowledge!Serve
<1>5. /\ d \in [rows : SUBSET Knowledge!Row, docs : SUBSET Knowledge!Doc, bases : 0..MaxBases, made : 0..MaxPapers]
      /\ LibraryFits(d)
      /\ task.request \in {"list", "docs", "search", "reembed"} => d = library
      /\ task.request \notin Alterations => d.docs = library.docs
      /\ task.request \notin {"create", "save", "archive", "delete"} => d.rows = library.rows
      /\ task.request \in {"save", "archive"} => MergedRows(library.rows, {r \in d.rows : r.base = task.base}) = d.rows
      /\ task.request = "delete" => d.rows = {r \in library.rows : r.base # task.base}
      /\ task.request = "deleteDoc" => d.docs = {x \in library.docs : x.doc # task.doc}
  <2>1. LibraryFits(library)
    BY <1>1 DEF PageInv
  <2> QED BY <1>1, <1>3, <2>1, KnowledgeGrants
<1>6. PICK nb : nb = IF task.request = "create" THEN d.bases ELSE task.base
  OBVIOUS
<1>7. PICK nr : nr = CASE task.request = "list" -> d.rows
                       [] task.request \in {"save", "archive"} -> {r \in d.rows : r.base = task.base}
                       [] OTHER -> {}
  OBVIOUS
<1>8. PICK nd : nd = IF task.request = "docs" THEN {x \in d.docs : x.base = task.base} ELSE {}
  OBVIOUS
<1>9. tasks' = [tasks EXCEPT ![t].step = "ok", ![t].base = nb, ![t].rows = nr, ![t].docs = nd]
  BY <1>2, <1>4, <1>6, <1>7, <1>8 DEF Knowledge!Serve
<1>10. /\ nb \in 0..MaxBases /\ nr \in SUBSET Knowledge!Row /\ nd \in SUBSET Knowledge!Doc
       /\ task.request # "create" => nb = task.base
       /\ task.request = "list" => nr = d.rows
       /\ task.request \in {"save", "archive"} => nr = {r \in d.rows : r.base = task.base}
       /\ task.request = "docs" => nd = DocsOf(d, task.base)
  <2>1. nb \in 0..MaxBases
    BY <1>3, <1>5, <1>6 DEF Knowledge!Task
  <2>2. nr \in SUBSET Knowledge!Row
    BY <1>5, <1>7
  <2>3. nd \in SUBSET Knowledge!Doc
    BY <1>5, <1>8
  <2> QED BY <1>6, <1>7, <1>8, <2>1, <2>2, <2>3 DEF DocsOf
<1>11. PICK f : f = [task EXCEPT !.step = "ok", !.base = nb, !.rows = nr, !.docs = nd]
  OBVIOUS
<1>12. /\ f \in Knowledge!Task /\ f.op = task.op /\ f.request = task.request /\ f.step = "ok" /\ f.base = nb /\ f.doc = task.doc
       /\ f.rows = nr /\ f.docs = nd
  BY <1>3, <1>10, <1>11 DEF Knowledge!Task
<1>13. tasks' = [tasks EXCEPT ![t] = f]
  BY <1>1, <1>2, <1>9, <1>11
<1>14. /\ tasks' \in [Knowledge!Tasks -> Knowledge!Task] /\ tasks'[t] = f
       /\ WorkIn(tasks') = WorkIn(tasks) /\ MainsIn(tasks') = MainsIn(tasks)
       /\ \A u \in WorkIn(tasks) : u \in Knowledge!Tasks /\ (u # t => tasks'[u] = tasks[u])
  BY <1>1, <1>2, <1>3, <1>12, <1>13, WorkStays
<1>15. FlagsFit(page, tasks') /\ \A u \in WorkIn(tasks') : WorkFits(tasks'[u])
  <2>1. WorkFits(f)
    BY <1>3, <1>10, <1>12 DEF WorkFits, Alterations
  <2>2. \A u \in WorkIn(tasks) : WorkFits(tasks'[u])
    BY <1>1, <1>14, <2>1 DEF PageInv
  <2>3. \A u \in WorkIn(tasks) : tasks'[u].op = tasks[u].op /\ tasks'[u].request = tasks[u].request
    BY <1>2, <1>12, <1>14
  <2>4. FlagsFit(page, tasks')
    BY <1>1, <1>14, <2>3 DEF PageInv, FlagsFit
  <2> QED BY <1>14, <2>2, <2>4
<1>16. ASSUME ~page.crossed PROVE PageInPlace(page, tasks')
  <2>1. PageInPlace(page, tasks)
    BY <1>1, <1>16 DEF PageInv
  <2>2. AtHome(page, f)
    BY <1>2, <1>3, <1>10, <1>12, <2>1 DEF PageInPlace, AtHome
  <2> QED BY <1>14, <2>1, <2>2 DEF PageInPlace
<1>17. ASSUME ~page.crossed, ~page.stale PROVE WorkFollows(d, page, tasks') /\ DocsFollow(d, page, tasks')
  <2>1. WorkFollows(library, page, tasks) /\ DocsFollow(library, page, tasks)
    BY <1>1, <1>17 DEF PageInv
  <2>2. task.op = "docs" => d = library
    BY <1>3, <1>5 DEF WorkFits
  <2>3. t \in MainsIn(tasks) <=> task.op # "docs"
    BY <1>2, <1>3 DEF MainsIn
  <2>4. \A u \in WorkIn(tasks) : tasks'[u].request \in Alterations => WorkIn(tasks) = {u}
    BY <1>2, <1>12, <1>14, <2>1 DEF WorkFollows
  <2>5. ASSUME NEW u \in WorkIn(tasks), tasks'[u].step = "ok" PROVE CarriesTruth(d, tasks'[u])
    <3>1. CASE u = t
      BY <1>5, <1>10, <1>12, <1>14, <3>1 DEF CarriesTruth
    <3>2. CASE u # t
      <4>1. tasks'[u] = tasks[u] /\ CarriesTruth(library, tasks[u]) /\ WorkFits(tasks[u])
        BY <1>1, <1>14, <2>1, <2>5, <3>2 DEF WorkFollows, PageInv
      <4>2. task.request \notin Alterations
        BY <1>2, <1>3, <2>1, <2>5, <3>2 DEF WorkFollows
      <4>3. d.docs = library.docs
        BY <1>5, <4>2
      <4>4. ASSUME tasks[u].request = "list" PROVE d.rows = library.rows
        <5>1. u \in MainsIn(tasks)
          BY <2>5, <4>1, <4>4 DEF MainsIn, WorkFits
        <5>2. t \notin MainsIn(tasks)
          BY <2>1, <3>2, <5>1 DEF WorkFollows
        <5> QED BY <2>2, <2>3, <5>2
      <4> QED BY <4>1, <4>3, <4>4 DEF CarriesTruth, DocsOf
    <3> QED BY <3>1, <3>2
  <2>6. MainsIn(tasks) = {} => page.listed = d.rows
    BY <2>1, <2>2, <2>3 DEF WorkFollows
  <2>7. ASSUME NEW u \in MainsIn(tasks) PROVE RowsFollow(d, page.listed, tasks'[u])
    <3>1. RowsFollow(library, page.listed, tasks[u]) /\ u \in WorkIn(tasks)
      BY <2>1, <2>7 DEF WorkFollows, MainsIn
    <3>2. CASE u = t
      <4>1. task.request \notin {"list", "create"} => page.listed = library.rows
        BY <1>2, <1>3, <3>1, <3>2 DEF RowsFollow
      <4>2. CASE task.request \in {"list", "create"}
        BY <1>12, <1>14, <3>2, <4>2 DEF RowsFollow
      <4>3. CASE task.request \in {"save", "archive"}
        BY <1>5, <1>10, <1>12, <1>14, <3>2, <4>1, <4>3 DEF RowsFollow
      <4>4. CASE task.request = "delete"
        BY <1>5, <1>10, <1>12, <1>14, <3>2, <4>1, <4>4 DEF RowsFollow
      <4>5. CASE task.request \notin {"list", "create", "save", "archive", "delete"}
        BY <1>5, <1>12, <1>14, <3>2, <4>1, <4>5 DEF RowsFollow
      <4> QED BY <4>2, <4>3, <4>4, <4>5
    <3>3. CASE u # t
      <4>1. d = library
        BY <2>1, <2>2, <2>3, <2>7, <3>3 DEF WorkFollows
      <4> QED BY <1>14, <3>1, <3>3, <4>1
    <3> QED BY <3>2, <3>3
  <2>8. WorkFollows(d, page, tasks')
    BY <1>14, <2>1, <2>4, <2>5, <2>6, <2>7 DEF WorkFollows
  <2>9. DocsFollow(d, page, tasks')
    <3>1. CASE task.request \notin Alterations
      <4>1. \A b : DocsOf(d, b) = DocsOf(library, b)
        BY <1>5, <3>1 DEF DocsOf
      <4>2. CASE page.docs = DocsOf(library, page.selected)
        BY <4>1, <4>2 DEF DocsFollow
      <4>3. ASSUME NEW u \in WorkIn(tasks),
                   \/ tasks[u].request = "docs" /\ tasks[u].base = page.selected
                   \/ tasks[u].request \in Alterations /\ tasks[u].step = "failed"
                   \/ tasks[u].request \in {"upload", "renameDoc", "delete"} /\ tasks[u].step = "ok"
                   \/ /\ tasks[u].request = "deleteDoc" /\ tasks[u].step = "ok"
                      /\ {x \in page.docs : x.doc # tasks[u].doc} = DocsOf(library, page.selected)
            PROVE  DocsFollow(d, page, tasks')
        <5>1. CASE u = t
          BY <1>2, <1>3, <1>10, <1>12, <1>14, <3>1, <4>3, <5>1 DEF DocsFollow, Alterations
        <5>2. CASE u # t
          BY <1>14, <4>1, <4>3, <5>2 DEF DocsFollow
        <5> QED BY <5>1, <5>2
      <4> QED BY <2>1, <4>2, <4>3 DEF DocsFollow
    <3>2. CASE task.request \in Alterations
      <4>1. WorkIn(tasks) = {t}
        BY <1>2, <1>3, <2>1, <3>2 DEF WorkFollows
      <4>2. page.docs = DocsOf(library, page.selected)
        BY <1>2, <1>3, <2>1, <3>2, <4>1 DEF DocsFollow, Alterations
      <4>3. CASE task.request = "deleteDoc"
        <5>1. {x \in page.docs : x.doc # f.doc} = DocsOf(d, page.selected)
          BY <1>5, <1>12, <4>2, <4>3 DEF DocsOf
        <5> QED BY <1>12, <1>14, <4>1, <4>3, <5>1 DEF DocsFollow
      <4>4. CASE task.request \in {"upload", "renameDoc", "delete"}
        BY <1>12, <1>14, <4>1, <4>4 DEF DocsFollow
      <4> QED BY <3>2, <4>3, <4>4 DEF Alterations
    <3> QED BY <3>1, <3>2
  <2> QED BY <2>8, <2>9
<1>18. PageInv(d, page, tasks')
  BY <1>5, <1>15, <1>16, <1>17 DEF PageInv
<1> QED BY <1>1, <1>4, <1>5, <1>14, <1>18, KnowledgeHolds

-----------------------------------------------------------------------------
LEMMA KnowledgeRefuseStep ==
  ASSUME KnowledgeInv, NEW t \in Knowledge!Tasks, Knowledge!Refuse(t)
  PROVE  KnowledgeInv'
<1>1. /\ library \in [rows : SUBSET Knowledge!Row, docs : SUBSET Knowledge!Doc, bases : 0..MaxBases, made : 0..MaxPapers]
      /\ page \in Knowledge!Page /\ tasks \in [Knowledge!Tasks -> Knowledge!Task] /\ PageInv(library, page, tasks)
      /\ page' = page
  BY KnowledgeTypes DEF Knowledge!Refuse
<1>2. PICK task : task = tasks[t]
  OBVIOUS
<1>3. task \in Knowledge!Task /\ task.step = "sent" /\ t \in WorkIn(tasks) /\ WorkFits(task)
  BY <1>1, <1>2 DEF Knowledge!Refuse, WorkIn, PageInv
<1>4. PICK d : library' = d /\ (d = library \/ (Knowledge!InBounds(task) /\ d \in Knowledge!Granted(task)))
  BY <1>2 DEF Knowledge!Refuse
<1>5. /\ d \in [rows : SUBSET Knowledge!Row, docs : SUBSET Knowledge!Doc, bases : 0..MaxBases, made : 0..MaxPapers]
      /\ LibraryFits(d)
      /\ task.request \in {"list", "docs"} => d = library
      /\ task.request \notin Alterations => d.docs = library.docs
  <2>1. LibraryFits(library)
    BY <1>1 DEF PageInv
  <2>2. CASE d = library
    BY <1>1, <2>1, <2>2
  <2>3. CASE Knowledge!InBounds(task) /\ d \in Knowledge!Granted(task)
    BY <1>1, <1>3, <2>1, <2>3, KnowledgeGrants
  <2> QED BY <1>4, <2>2, <2>3
<1>6. PICK f : f = [task EXCEPT !.step = "failed"]
  OBVIOUS
<1>7. /\ f \in Knowledge!Task /\ f.op = task.op /\ f.request = task.request /\ f.step = "failed" /\ f.base = task.base
  BY <1>3, <1>6 DEF Knowledge!Task
<1>8. tasks' = [tasks EXCEPT ![t] = f]
  BY <1>1, <1>2, <1>6 DEF Knowledge!Refuse
<1>9. /\ tasks' \in [Knowledge!Tasks -> Knowledge!Task] /\ tasks'[t] = f
      /\ WorkIn(tasks') = WorkIn(tasks) /\ MainsIn(tasks') = MainsIn(tasks)
      /\ \A u \in WorkIn(tasks) : u \in Knowledge!Tasks /\ (u # t => tasks'[u] = tasks[u])
  BY <1>1, <1>2, <1>3, <1>7, <1>8, WorkStays
<1>10. FlagsFit(page, tasks') /\ \A u \in WorkIn(tasks') : WorkFits(tasks'[u])
  <2>1. WorkFits(f)
    BY <1>3, <1>7 DEF WorkFits
  <2>2. \A u \in WorkIn(tasks) : WorkFits(tasks'[u])
    BY <1>1, <1>9, <2>1 DEF PageInv
  <2>3. \A u \in WorkIn(tasks) : tasks'[u].op = tasks[u].op /\ tasks'[u].request = tasks[u].request
    BY <1>2, <1>7, <1>9
  <2>4. FlagsFit(page, tasks')
    BY <1>1, <1>9, <2>3 DEF PageInv, FlagsFit
  <2> QED BY <1>9, <2>2, <2>4
<1>11. ASSUME ~page.crossed PROVE PageInPlace(page, tasks')
  <2>1. PageInPlace(page, tasks)
    BY <1>1, <1>11 DEF PageInv
  <2>2. AtHome(page, f)
    BY <1>2, <1>3, <1>7, <2>1 DEF PageInPlace, AtHome
  <2> QED BY <1>9, <2>1, <2>2 DEF PageInPlace
<1>12. ASSUME ~page.crossed, ~page.stale PROVE WorkFollows(d, page, tasks') /\ DocsFollow(d, page, tasks')
  <2>1. WorkFollows(library, page, tasks) /\ DocsFollow(library, page, tasks)
    BY <1>1, <1>12 DEF PageInv
  <2>2. task.op = "docs" => d = library
    BY <1>3, <1>5 DEF WorkFits
  <2>3. t \in MainsIn(tasks) <=> task.op # "docs"
    BY <1>2, <1>3 DEF MainsIn
  <2>4. \A u \in WorkIn(tasks) : tasks'[u].request \in Alterations => WorkIn(tasks) = {u}
    BY <1>2, <1>7, <1>9, <2>1 DEF WorkFollows
  <2>5. ASSUME NEW u \in WorkIn(tasks), tasks'[u].step = "ok" PROVE CarriesTruth(d, tasks'[u])
    <3>1. u # t
      BY <1>7, <1>9, <2>5
    <3>2. tasks'[u] = tasks[u] /\ CarriesTruth(library, tasks[u]) /\ WorkFits(tasks[u])
      BY <1>1, <1>9, <2>1, <2>5, <3>1 DEF WorkFollows, PageInv
    <3>3. task.request \notin Alterations
      BY <1>2, <1>3, <2>1, <2>5, <3>1 DEF WorkFollows
    <3>4. d.docs = library.docs
      BY <1>5, <3>3
    <3>5. ASSUME tasks[u].request = "list" PROVE d.rows = library.rows
      <4>1. u \in MainsIn(tasks)
        BY <2>5, <3>2, <3>5 DEF MainsIn, WorkFits
      <4>2. t \notin MainsIn(tasks)
        BY <2>1, <3>1, <4>1 DEF WorkFollows
      <4> QED BY <2>2, <2>3, <4>2
    <3> QED BY <3>2, <3>4, <3>5 DEF CarriesTruth, DocsOf
  <2>6. MainsIn(tasks) = {} => page.listed = d.rows
    BY <2>1, <2>2, <2>3 DEF WorkFollows
  <2>7. ASSUME NEW u \in MainsIn(tasks) PROVE RowsFollow(d, page.listed, tasks'[u])
    <3>1. RowsFollow(library, page.listed, tasks[u]) /\ u \in WorkIn(tasks)
      BY <2>1, <2>7 DEF WorkFollows, MainsIn
    <3>2. CASE u = t
      BY <1>7, <1>9, <3>2 DEF RowsFollow
    <3>3. CASE u # t
      <4>1. d = library
        BY <2>1, <2>2, <2>3, <2>7, <3>3 DEF WorkFollows
      <4> QED BY <1>9, <3>1, <3>3, <4>1
    <3> QED BY <3>2, <3>3
  <2>8. WorkFollows(d, page, tasks')
    BY <1>9, <2>1, <2>4, <2>5, <2>6, <2>7 DEF WorkFollows
  <2>9. DocsFollow(d, page, tasks')
    <3>1. CASE task.request \notin Alterations
      <4>1. \A b : DocsOf(d, b) = DocsOf(library, b)
        BY <1>5, <3>1 DEF DocsOf
      <4>2. CASE page.docs = DocsOf(library, page.selected)
        BY <4>1, <4>2 DEF DocsFollow
      <4>3. ASSUME NEW u \in WorkIn(tasks),
                   \/ tasks[u].request = "docs" /\ tasks[u].base = page.selected
                   \/ tasks[u].request \in Alterations /\ tasks[u].step = "failed"
                   \/ tasks[u].request \in {"upload", "renameDoc", "delete"} /\ tasks[u].step = "ok"
                   \/ /\ tasks[u].request = "deleteDoc" /\ tasks[u].step = "ok"
                      /\ {x \in page.docs : x.doc # tasks[u].doc} = DocsOf(library, page.selected)
            PROVE  DocsFollow(d, page, tasks')
        <5>1. CASE u = t
          BY <1>2, <1>3, <1>7, <1>9, <3>1, <4>3, <5>1 DEF DocsFollow, Alterations
        <5>2. CASE u # t
          BY <1>9, <4>1, <4>3, <5>2 DEF DocsFollow
        <5> QED BY <5>1, <5>2
      <4> QED BY <2>1, <4>2, <4>3 DEF DocsFollow
    <3>2. CASE task.request \in Alterations
      BY <1>3, <1>7, <1>9, <3>2 DEF DocsFollow
    <3> QED BY <3>1, <3>2
  <2> QED BY <2>8, <2>9
<1>13. PageInv(d, page, tasks')
  BY <1>5, <1>10, <1>11, <1>12 DEF PageInv
<1> QED BY <1>1, <1>4, <1>5, <1>9, <1>13, KnowledgeHolds

-----------------------------------------------------------------------------
\* What an answer does to the page.
LEMMA PageApplied ==
  ASSUME page \in Knowledge!Page, NEW task \in Knowledge!Task, NEW r, r = Knowledge!Applied(page, task)
  PROVE  /\ r \in Knowledge!Page /\ r.busy = page.busy /\ r.stale = page.stale /\ r.crossed = page.crossed
         /\ task.request = "create" => r.selected = task.base
         /\ task.request = "delete" => r.selected = 0
         /\ task.request = "list" => r.listed = task.rows
         /\ task.request \in {"save", "archive"} => r.listed = MergedRows(page.listed, task.rows)
         /\ task.request = "delete" => r.listed = {x \in page.listed : x.base # task.base}
         /\ task.request \notin {"list", "save", "archive", "delete"} => r.listed = page.listed
         /\ task.request = "docs" => r.docs = task.docs
         /\ task.request = "delete" => r.docs = {}
         /\ task.request = "deleteDoc" => r.docs = {x \in page.docs : x.doc # task.doc}
         /\ task.request \notin {"docs", "delete", "deleteDoc"} => r.docs = page.docs
         /\ r.edit = page.edit \/ (task.request = "save" /\ r.edit = task.base)
         /\ r.results \in {0, page.results} \/ (task.request = "search" /\ r.results = task.base)
<1>1. 0 \in 0..MaxBases /\ task.base \in 0..MaxBases /\ task.rows \in SUBSET Knowledge!Row /\ task.docs \in SUBSET Knowledge!Doc
      /\ page.listed \in SUBSET Knowledge!Row /\ page.docs \in SUBSET Knowledge!Doc /\ 0 = Knowledge!NoBase
      /\ page.selected \in 0..MaxBases
  BY KnowledgeNumbers DEF Knowledge!Task, Knowledge!Page, Knowledge!NoBase
<1>2. task.request \in {"create", "save", "upload", "search", "renameDoc", "reembed", "archive", "delete", "deleteDoc", "list", "docs"}
  BY DEF Knowledge!Task, Knowledge!Ops, Knowledge!Flagged
<1>3. MergedRows(page.listed, task.rows) \in SUBSET Knowledge!Row
  <2>1. ASSUME NEW x \in page.listed, \E s \in task.rows : s.base = x.base PROVE Knowledge!RowOf(task.rows, x.base) \in Knowledge!Row
    BY <1>1, <2>1 DEF Knowledge!RowOf
  <2> QED BY <1>1, <2>1 DEF MergedRows
<1>4. PICK m : m = Knowledge!Merged(page, task.rows)
  OBVIOUS
<1>5. /\ m \in Knowledge!Page /\ m.busy = page.busy /\ m.stale = page.stale /\ m.crossed = page.crossed
      /\ m.listed = MergedRows(page.listed, task.rows) /\ m.docs = page.docs /\ m.edit = page.edit /\ m.results = page.results
  <2>1. m = [page EXCEPT !.listed = MergedRows(page.listed, task.rows)]
    BY <1>4 DEF Knowledge!Merged, MergedRows
  <2> QED BY <1>3, <2>1 DEF Knowledge!Page
<1>6. CASE task.request = "list"
  <2>1. PICK b : b = IF page.selected = 0 THEN Knowledge!Newest(task.rows) ELSE page.selected
    OBVIOUS
  <2>2. b \in 0..MaxBases
    BY <1>1, <2>1, NewestIsOne
  <2>3. r = [page EXCEPT !.listed = task.rows, !.selected = b]
    BY <1>1, <1>6, <2>1 DEF Knowledge!Applied
  <2> QED BY <1>1, <1>6, <2>2, <2>3 DEF Knowledge!Page
<1>7. CASE task.request = "docs"
  <2>1. r = [page EXCEPT !.docs = task.docs]
    BY <1>7 DEF Knowledge!Applied
  <2> QED BY <1>1, <1>7, <2>1 DEF Knowledge!Page
<1>8. CASE task.request = "create"
  <2>1. r = [page EXCEPT !.selected = task.base]
    BY <1>8 DEF Knowledge!Applied
  <2> QED BY <1>1, <1>8, <2>1 DEF Knowledge!Page
<1>9. CASE task.request = "save"
  <2>1. r = [m EXCEPT !.edit = task.base]
    BY <1>4, <1>9 DEF Knowledge!Applied
  <2> QED BY <1>1, <1>5, <1>9, <2>1 DEF Knowledge!Page
<1>10. CASE task.request = "archive"
  <2>1. r = m
    BY <1>4, <1>10 DEF Knowledge!Applied
  <2> QED BY <1>5, <1>10, <2>1
<1>11. CASE task.request = "search"
  <2>1. r = [page EXCEPT !.results = task.base]
    BY <1>11 DEF Knowledge!Applied
  <2> QED BY <1>1, <1>11, <2>1 DEF Knowledge!Page
<1>12. CASE task.request = "delete"
  <2>1. PICK l : l = {x \in page.listed : x.base # task.base}
    OBVIOUS
  <2>2. l \in SUBSET Knowledge!Row
    BY <1>1, <2>1
  <2>3. r = [page EXCEPT !.listed = l, !.selected = 0, !.docs = {}, !.results = 0]
    BY <1>1, <1>12, <2>1 DEF Knowledge!Applied
  <2> QED BY <1>1, <1>12, <2>1, <2>2, <2>3 DEF Knowledge!Page
<1>13. CASE task.request = "deleteDoc"
  <2>1. PICK l : l = {x \in page.docs : x.doc # task.doc}
    OBVIOUS
  <2>2. l \in SUBSET Knowledge!Doc
    BY <1>1, <2>1
  <2>3. r = [page EXCEPT !.docs = l]
    BY <1>13, <2>1 DEF Knowledge!Applied
  <2> QED BY <1>13, <2>1, <2>2, <2>3 DEF Knowledge!Page
<1>14. CASE task.request \in {"upload", "renameDoc", "reembed"}
  <2>1. r = page
    BY <1>14 DEF Knowledge!Applied
  <2> QED BY <1>14, <2>1
<1> QED BY <1>2, <1>6, <1>7, <1>8, <1>9, <1>10, <1>11, <1>12, <1>13, <1>14

\* What a handler that goes on has done before the effect.
LEMMA HandlerGoesOn ==
  ASSUME KnowledgeInv, NEW t \in Knowledge!Tasks, tasks[t].step \in {"ok", "failed"},
         NEW p \in Knowledge!Page, p.busy = page.busy, Knowledge!GoOn(t, p)
  PROVE  \E q \in Knowledge!Page, ts \in [Knowledge!Tasks -> Knowledge!Task] :
           /\ Knowledge!Settle(q, ts)
           /\ q.listed = p.listed /\ q.selected = p.selected /\ q.docs = p.docs /\ q.edit = p.edit /\ q.results = p.results
           /\ q.stale = p.stale /\ q.crossed = p.crossed
           /\ FlagsFit(q, ts) /\ (\A u \in WorkIn(ts) : WorkFits(ts[u]))
           /\ \A u \in WorkIn(tasks) \ {t} : ts[u] = tasks[u]
           /\ \/ /\ WorkIn(ts) = WorkIn(tasks) \ {t} /\ MainsIn(ts) = MainsIn(tasks) \ {t}
                 /\ tasks[t].request \notin {"upload", "renameDoc", "create"}
              \/ /\ WorkIn(ts) = WorkIn(tasks) /\ MainsIn(ts) = MainsIn(tasks) /\ t \in MainsIn(tasks)
                 /\ ts[t].request \in {"list", "docs"} /\ ts[t].step = "sent" /\ ts[t].base = tasks[t].base
                 /\ tasks[t].request = "create" => ts[t].request = "list"
                 /\ tasks[t].request \in {"upload", "renameDoc"} => ts[t].request = "docs"
<1>1. /\ page \in Knowledge!Page /\ tasks \in [Knowledge!Tasks -> Knowledge!Task] /\ PageInv(library, page, tasks)
  BY KnowledgeTypes
<1>2. PICK task : task = tasks[t]
  OBVIOUS
<1>3. task \in Knowledge!Task /\ task.step # "free" /\ t \in WorkIn(tasks) /\ WorkFits(task) /\ FlagsFit(page, tasks)
  BY <1>1, <1>2 DEF WorkIn, PageInv
<1>4. PICK next : next = Knowledge!After(task)
  OBVIOUS
<1>5. /\ next \in {"none", "list", "docs"}
      /\ next # "none" => task.op \in {"upload", "renameDoc", "create", "deleteDoc"}
      /\ next = "docs" => task.op \in {"upload", "renameDoc"}
      /\ task.op \in {"upload", "renameDoc"} /\ task.request = task.op => next = "docs"
      /\ task.op = "create" /\ task.request = task.op => next = "list"
  BY <1>3, <1>4, AfterIs
<1>6. PICK done : done = IF next = "none" THEN {task.op, task.request} ELSE {task.request} \cap {"list", "docs"}
  OBVIOUS
<1>7. PICK bz : bz = (p.busy \ done) \cup ({next} \ {"none"})
  OBVIOUS
<1>8. PICK q : q = [p EXCEPT !.busy = bz]
  OBVIOUS
<1>9. /\ q \in Knowledge!Page /\ q.busy = bz
      /\ q.listed = p.listed /\ q.selected = p.selected /\ q.docs = p.docs /\ q.edit = p.edit /\ q.results = p.results
      /\ q.stale = p.stale /\ q.crossed = p.crossed
  <2>1. bz \in SUBSET Knowledge!Ops
    BY <1>5, <1>7 DEF Knowledge!Page, Knowledge!Ops
  <2> QED BY <1>8, <2>1 DEF Knowledge!Page
<1>10. PICK f : f = IF next = "none" THEN Knowledge!Free ELSE [task EXCEPT !.request = next, !.step = "sent", !.rows = {}, !.docs = {}]
  OBVIOUS
<1>11. Knowledge!Settle(q, [tasks EXCEPT ![t] = f])
  BY <1>2, <1>4, <1>6, <1>7, <1>8, <1>10 DEF Knowledge!GoOn
<1>12. CASE next = "none"
  <2>1. f \in Knowledge!Task /\ f.step = "free"
    <3>1. 0 \in 0..MaxBases /\ 0 \in 0..MaxPapers /\ 0 \in Knowledge!Names
      BY KnowledgeNumbers DEF Knowledge!Names
    <3> QED BY <1>10, <1>12, <3>1 DEF Knowledge!Free, Knowledge!Task, Knowledge!Ops, Knowledge!NoBase
  <2>2. PICK ts : ts = [tasks EXCEPT ![t] = f]
    OBVIOUS
  <2>3. ts \in [Knowledge!Tasks -> Knowledge!Task] /\ ts[t] = f /\ \A u \in Knowledge!Tasks : u # t => ts[u] = tasks[u]
    BY <1>1, <2>1, <2>2
  <2>4. WorkIn(ts) = WorkIn(tasks) \ {t} /\ \A u \in WorkIn(tasks) \ {t} : ts[u] = tasks[u]
    BY <2>1, <2>3 DEF WorkIn
  <2>5. MainsIn(ts) = MainsIn(tasks) \ {t}
    BY <2>4 DEF MainsIn
  <2>6. \A u \in WorkIn(ts) : WorkFits(ts[u])
    BY <1>1, <2>4 DEF PageInv
  <2>7. FlagsFit(q, ts)
    <3>1. ASSUME NEW o \in bz PROVE \E u \in WorkIn(ts) : ts[u].op = o \/ ts[u].request = o
      <4>1. o \in page.busy /\ o # task.op /\ o # task.request
        BY <1>6, <1>7, <1>12, <3>1
      <4>2. PICK u \in WorkIn(tasks) : tasks[u].op = o \/ tasks[u].request = o
        BY <1>3, <4>1 DEF FlagsFit
      <4>3. u # t
        BY <1>2, <4>1, <4>2
      <4> QED BY <2>4, <4>2, <4>3
    <3> QED BY <1>9, <3>1 DEF FlagsFit
  <2>8. task.request \notin {"upload", "renameDoc", "create"}
    BY <1>3, <1>5, <1>12 DEF WorkFits
  <2> QED BY <1>2, <1>9, <1>11, <2>2, <2>3, <2>4, <2>5, <2>6, <2>7, <2>8
<1>13. CASE next # "none"
  <2>1. /\ f \in Knowledge!Task /\ f.op = task.op /\ f.request = next /\ f.step = "sent" /\ f.base = task.base
    <3>1. f = [task EXCEPT !.request = next, !.step = "sent", !.rows = {}, !.docs = {}]
      BY <1>10, <1>13
    <3>2. next \in Knowledge!Ops
      BY <1>5, <1>13 DEF Knowledge!Ops
    <3> QED BY <1>3, <3>1, <3>2 DEF Knowledge!Task
  <2>2. PICK ts : ts = [tasks EXCEPT ![t] = f]
    OBVIOUS
  <2>3. ts \in [Knowledge!Tasks -> Knowledge!Task] /\ ts[t] = f /\ \A u \in Knowledge!Tasks : u # t => ts[u] = tasks[u]
    BY <1>1, <2>1, <2>2
  <2>4. WorkIn(ts) = WorkIn(tasks) /\ \A u \in WorkIn(tasks) \ {t} : ts[u] = tasks[u]
    BY <1>2, <1>3, <2>1, <2>3 DEF WorkIn
  <2>5. MainsIn(ts) = MainsIn(tasks) /\ t \in MainsIn(tasks)
    BY <1>2, <1>3, <1>5, <1>13, <2>1, <2>3, <2>4 DEF MainsIn
  <2>6. \A u \in WorkIn(ts) : WorkFits(ts[u])
    <3>1. WorkFits(f)
      BY <1>3, <1>5, <1>13, <2>1 DEF WorkFits, Alterations
    <3> QED BY <1>1, <2>3, <2>4, <3>1 DEF PageInv
  <2>7. FlagsFit(q, ts)
    <3>1. ASSUME NEW o \in bz PROVE \E u \in WorkIn(ts) : ts[u].op = o \/ ts[u].request = o
      <4>1. CASE o = next
        BY <1>3, <2>1, <2>3, <2>4, <4>1
      <4>2. CASE o # next
        <5>1. o \in page.busy /\ o \notin {task.request} \cap {"list", "docs"}
          BY <1>6, <1>7, <1>13, <3>1, <4>2
        <5>2. PICK u \in WorkIn(tasks) : tasks[u].op = o \/ tasks[u].request = o
          BY <1>3, <5>1 DEF FlagsFit
        <5>3. CASE u # t
          BY <2>4, <5>2, <5>3
        <5>4. CASE u = t
          <6>1. task.op = o
            BY <1>2, <1>3, <5>1, <5>2, <5>4 DEF WorkFits
          <6> QED BY <1>3, <2>1, <2>3, <2>4, <6>1
        <5> QED BY <5>3, <5>4
      <4> QED BY <4>1, <4>2
    <3> QED BY <1>9, <3>1 DEF FlagsFit
  <2>8. /\ task.request = "create" => next = "list"
        /\ task.request \in {"upload", "renameDoc"} => next = "docs"
    BY <1>3, <1>5 DEF WorkFits
  <2> QED BY <1>2, <1>5, <1>9, <1>11, <1>13, <2>1, <2>2, <2>3, <2>4, <2>5, <2>6, <2>7, <2>8
<1> QED BY <1>12, <1>13

-----------------------------------------------------------------------------
LEMMA KnowledgeAnsweredStep ==
  ASSUME KnowledgeInv, NEW t \in Knowledge!Tasks, Knowledge!Answered(t)
  PROVE  KnowledgeInv'
<1>1. /\ library \in [rows : SUBSET Knowledge!Row, docs : SUBSET Knowledge!Doc, bases : 0..MaxBases, made : 0..MaxPapers]
      /\ library.docs \in SUBSET Knowledge!Doc
      /\ page \in Knowledge!Page /\ tasks \in [Knowledge!Tasks -> Knowledge!Task] /\ PageInv(library, page, tasks)
      /\ library' = library
  BY KnowledgeTypes DEF Knowledge!Answered
<1>2. PICK task : task = tasks[t]
  OBVIOUS
<1>3. task \in Knowledge!Task /\ task.step = "ok" /\ t \in WorkIn(tasks) /\ WorkFits(task) /\ LibraryFits(library)
  BY <1>1, <1>2 DEF Knowledge!Answered, WorkIn, PageInv
<1>4. PICK p : p = Knowledge!Applied(page, task)
  OBVIOUS
<1>5. /\ p \in Knowledge!Page /\ p.busy = page.busy /\ p.stale = page.stale /\ p.crossed = page.crossed
      /\ task.request = "create" => p.selected = task.base
      /\ task.request = "delete" => p.selected = 0
      /\ task.request = "list" => p.listed = task.rows
      /\ task.request \in {"save", "archive"} => p.listed = MergedRows(page.listed, task.rows)
      /\ task.request = "delete" => p.listed = {x \in page.listed : x.base # task.base}
      /\ task.request \notin {"list", "save", "archive", "delete"} => p.listed = page.listed
      /\ task.request = "docs" => p.docs = task.docs
      /\ task.request = "delete" => p.docs = {}
      /\ task.request = "deleteDoc" => p.docs = {x \in page.docs : x.doc # task.doc}
      /\ task.request \notin {"docs", "delete", "deleteDoc"} => p.docs = page.docs
      /\ p.edit = page.edit \/ (task.request = "save" /\ p.edit = task.base)
      /\ p.results \in {0, page.results} \/ (task.request = "search" /\ p.results = task.base)
  BY <1>1, <1>3, <1>4, PageApplied
<1>6. Knowledge!GoOn(t, p) /\ tasks[t].step \in {"ok", "failed"}
  BY <1>2, <1>3, <1>4 DEF Knowledge!Answered
<1>7. PICK q \in Knowledge!Page, ts \in [Knowledge!Tasks -> Knowledge!Task] :
        /\ Knowledge!Settle(q, ts)
        /\ q.listed = p.listed /\ q.selected = p.selected /\ q.docs = p.docs /\ q.edit = p.edit /\ q.results = p.results
        /\ q.stale = p.stale /\ q.crossed = p.crossed
        /\ FlagsFit(q, ts) /\ (\A u \in WorkIn(ts) : WorkFits(ts[u]))
        /\ \A u \in WorkIn(tasks) \ {t} : ts[u] = tasks[u]
        /\ \/ /\ WorkIn(ts) = WorkIn(tasks) \ {t} /\ MainsIn(ts) = MainsIn(tasks) \ {t}
              /\ tasks[t].request \notin {"upload", "renameDoc", "create"}
           \/ /\ WorkIn(ts) = WorkIn(tasks) /\ MainsIn(ts) = MainsIn(tasks) /\ t \in MainsIn(tasks)
              /\ ts[t].request \in {"list", "docs"} /\ ts[t].step = "sent" /\ ts[t].base = tasks[t].base
              /\ tasks[t].request = "create" => ts[t].request = "list"
              /\ tasks[t].request \in {"upload", "renameDoc"} => ts[t].request = "docs"
  BY <1>5, <1>6, HandlerGoesOn
<1>8. page'.crossed <=> \/ q.crossed
                        \/ q.selected # page.selected /\ \E u \in WorkIn(ts) : ts[u].base \notin {0, q.selected}
  BY <1>1, <1>7, SettleCases
<1>9. \A u \in WorkIn(ts) : u # t => u \in WorkIn(tasks) /\ ts[u] = tasks[u]
  BY <1>7
<1>10. t \in WorkIn(ts) => ts[t].request \in {"list", "docs"} /\ ts[t].step = "sent" /\ ts[t].base = task.base
  BY <1>2, <1>7
<1>11. ASSUME ~q.crossed, q.selected = page.selected PROVE PageInPlace(q, ts)
  <2>1. PageInPlace(page, tasks)
    BY <1>1, <1>5, <1>7, <1>11 DEF PageInv
  <2>2. task.base \in {0, page.selected}
    BY <1>2, <1>3, <1>5, <1>7, <1>11, <2>1 DEF PageInPlace, AtHome
  <2>3. \A u \in WorkIn(ts) : AtHome(q, ts[u])
    BY <1>9, <1>10, <1>11, <2>1, <2>2 DEF PageInPlace, AtHome
  <2>4. q.edit \in {0, q.selected} /\ q.results \in {0, q.selected}
    BY <1>5, <1>7, <1>11, <2>1, <2>2 DEF PageInPlace
  <2> QED BY <2>3, <2>4 DEF PageInPlace
<1>12. ASSUME ~page'.crossed, ~q.stale
       PROVE  WorkFollows(library, page, tasks) /\ DocsFollow(library, page, tasks) /\ PageInPlace(page, tasks)
  BY <1>1, <1>5, <1>7, <1>8, <1>12 DEF PageInv
<1>13. ASSUME ~page'.crossed, ~q.stale, NEW u \in WorkIn(ts) PROVE ts[u].request \notin Alterations
  BY <1>3, <1>9, <1>10, <1>12, <1>13 DEF WorkFollows, Alterations
<1>14. ASSUME ~page'.crossed, ~q.stale PROVE WorkFollows(library, q, ts)
  <2>1. WorkFollows(library, page, tasks)
    BY <1>12, <1>14
  <2>2. \A u, v \in MainsIn(ts) : u = v
    BY <1>7, <2>1 DEF WorkFollows
  <2>3. \A u \in WorkIn(ts) : ts[u].step = "ok" => CarriesTruth(library, ts[u])
    BY <1>9, <1>10, <2>1 DEF WorkFollows
  <2>4. CASE t \in MainsIn(tasks)
    <3>1. RowsFollow(library, page.listed, task) /\ CarriesTruth(library, task) /\ MainsIn(tasks) = {t}
      BY <1>2, <1>3, <2>1, <2>4 DEF WorkFollows
    <3>2. task.request = "create" \/ q.listed = library.rows
      BY <1>3, <1>5, <1>7, <3>1 DEF RowsFollow, CarriesTruth
    <3>3. MainsIn(ts) = {} => q.listed = library.rows
      BY <1>2, <1>7, <2>4, <3>2
    <3>4. ASSUME NEW u \in MainsIn(ts) PROVE RowsFollow(library, q.listed, ts[u])
      <4>1. u = t /\ t \in WorkIn(ts)
        BY <1>7, <3>1, <3>4 DEF MainsIn
      <4>2. ts[t].request = "list" \/ (ts[t].step = "sent" /\ q.listed = library.rows)
        BY <1>2, <1>7, <1>10, <3>2, <4>1
      <4> QED BY <4>1, <4>2 DEF RowsFollow
    <3> QED BY <1>13, <1>14, <2>2, <2>3, <3>3, <3>4 DEF WorkFollows
  <2>5. CASE t \notin MainsIn(tasks)
    <3>1. task.op = "docs" /\ task.request = "docs" /\ q.listed = page.listed /\ MainsIn(ts) = MainsIn(tasks)
      BY <1>2, <1>3, <1>5, <1>7, <2>5 DEF MainsIn, WorkFits
    <3>2. \A u \in MainsIn(ts) : u # t /\ ts[u] = tasks[u]
      BY <1>9, <2>5, <3>1 DEF MainsIn
    <3> QED BY <1>13, <1>14, <2>1, <2>2, <2>3, <3>1, <3>2 DEF WorkFollows
  <2> QED BY <2>4, <2>5
<1>15. ASSUME ~page'.crossed, ~q.stale, q.selected = page.selected PROVE DocsFollow(library, q, ts)
  <2>1. WorkFollows(library, page, tasks) /\ DocsFollow(library, page, tasks) /\ PageInPlace(page, tasks)
    BY <1>12, <1>15
  <2>2. CarriesTruth(library, task) /\ task.base \in {0, page.selected}
    BY <1>2, <1>3, <1>5, <1>7, <1>15, <2>1 DEF WorkFollows, PageInPlace, AtHome
  <2>3. CASE task.request = "docs"
    <3>1. task.base = page.selected
      BY <1>3, <2>2, <2>3 DEF WorkFits
    <3>2. q.docs = DocsOf(library, q.selected)
      BY <1>5, <1>7, <1>15, <2>2, <2>3, <3>1 DEF CarriesTruth
    <3> QED BY <3>2 DEF DocsFollow
  <2>4. CASE task.request = "delete"
    <3>1. q.selected = 0 /\ q.docs = {}
      BY <1>5, <1>7, <2>4
    <3>2. DocsOf(library, 0) = {}
      BY <1>1, KnowledgeNumbers DEF DocsOf, Knowledge!Doc, Knowledge!Bases
    <3> QED BY <3>1, <3>2 DEF DocsFollow
  <2>5. CASE task.request \in {"upload", "renameDoc"}
    <3>1. t \in WorkIn(ts) /\ ts[t].request = "docs" /\ ts[t].base = task.base
      BY <1>2, <1>3, <1>7, <2>5
    <3>2. task.base = q.selected
      BY <1>3, <1>15, <2>2, <2>5 DEF WorkFits, Alterations
    <3> QED BY <3>1, <3>2 DEF DocsFollow
  <2>6. CASE task.request = "deleteDoc"
    <3>1. WorkIn(tasks) = {t}
      BY <1>2, <1>3, <2>1, <2>6 DEF WorkFollows, Alterations
    <3>2. \/ page.docs = DocsOf(library, page.selected)
          \/ {x \in page.docs : x.doc # task.doc} = DocsOf(library, page.selected)
      BY <1>2, <1>3, <2>1, <2>6, <3>1 DEF DocsFollow
    <3>3. q.docs = DocsOf(library, q.selected)
      BY <1>5, <1>7, <1>15, <2>2, <2>6, <3>2 DEF CarriesTruth, DocsOf
    <3> QED BY <3>3 DEF DocsFollow
  <2>7. CASE task.request \notin {"docs", "delete", "upload", "renameDoc", "deleteDoc"}
    <3>1. q.docs = page.docs
      BY <1>5, <1>7, <2>7
    <3>2. CASE page.docs = DocsOf(library, page.selected)
      BY <1>15, <3>1, <3>2 DEF DocsFollow
    <3>3. ASSUME NEW u \in WorkIn(tasks),
                 \/ tasks[u].request = "docs" /\ tasks[u].base = page.selected
                 \/ tasks[u].request \in Alterations /\ tasks[u].step = "failed"
                 \/ tasks[u].request \in {"upload", "renameDoc", "delete"} /\ tasks[u].step = "ok"
                 \/ /\ tasks[u].request = "deleteDoc" /\ tasks[u].step = "ok"
                    /\ {x \in page.docs : x.doc # tasks[u].doc} = DocsOf(library, page.selected)
          PROVE  DocsFollow(library, q, ts)
      <4>1. u # t
        BY <1>2, <1>3, <2>7, <3>3 DEF Alterations
      <4>2. u \in WorkIn(ts) /\ ts[u] = tasks[u]
        BY <1>7, <3>3, <4>1
      <4> QED BY <1>15, <3>1, <3>3, <4>2 DEF DocsFollow
    <3> QED BY <2>1, <3>2, <3>3 DEF DocsFollow
  <2> QED BY <2>3, <2>4, <2>5, <2>6, <2>7
<1>16. page' \in Knowledge!Page /\ tasks' \in [Knowledge!Tasks -> Knowledge!Task] /\ PageInv(library, page', tasks')
  BY <1>1, <1>3, <1>7, <1>11, <1>13, <1>14, <1>15, SettleKeeps
<1> QED BY <1>1, <1>16, KnowledgeHolds

LEMMA KnowledgeFailedStep ==
  ASSUME KnowledgeInv, NEW t \in Knowledge!Tasks, Knowledge!Failed(t)
  PROVE  KnowledgeInv'
<1>1. /\ library \in [rows : SUBSET Knowledge!Row, docs : SUBSET Knowledge!Doc, bases : 0..MaxBases, made : 0..MaxPapers]
      /\ library.docs \in SUBSET Knowledge!Doc
      /\ page \in Knowledge!Page /\ tasks \in [Knowledge!Tasks -> Knowledge!Task] /\ PageInv(library, page, tasks)
      /\ library' = library
  BY KnowledgeTypes DEF Knowledge!Failed
<1>2. PICK task : task = tasks[t]
  OBVIOUS
<1>3. task \in Knowledge!Task /\ task.step = "failed" /\ t \in WorkIn(tasks) /\ WorkFits(task) /\ LibraryFits(library)
  BY <1>1, <1>2 DEF Knowledge!Failed, WorkIn, PageInv
<1>4. PICK p : p = [page EXCEPT !.stale = TRUE]
  OBVIOUS
<1>5. /\ p \in Knowledge!Page /\ p.busy = page.busy /\ p.stale /\ p.crossed = page.crossed /\ p.selected = page.selected
      /\ p.listed = page.listed /\ p.docs = page.docs /\ p.edit = page.edit /\ p.results = page.results
  BY <1>1, <1>4 DEF Knowledge!Page
<1>6. CASE task.request \in {"list", "docs"}
  <2>1. Knowledge!GoOn(t, p) /\ tasks[t].step \in {"ok", "failed"}
    BY <1>2, <1>3, <1>4, <1>6 DEF Knowledge!Failed
  <2>2. PICK q \in Knowledge!Page, ts \in [Knowledge!Tasks -> Knowledge!Task] :
          /\ Knowledge!Settle(q, ts)
          /\ q.listed = p.listed /\ q.selected = p.selected /\ q.docs = p.docs /\ q.edit = p.edit /\ q.results = p.results
          /\ q.stale = p.stale /\ q.crossed = p.crossed
          /\ FlagsFit(q, ts) /\ (\A u \in WorkIn(ts) : WorkFits(ts[u]))
          /\ \A u \in WorkIn(tasks) \ {t} : ts[u] = tasks[u]
          /\ \/ /\ WorkIn(ts) = WorkIn(tasks) \ {t} /\ MainsIn(ts) = MainsIn(tasks) \ {t}
                /\ tasks[t].request \notin {"upload", "renameDoc", "create"}
             \/ /\ WorkIn(ts) = WorkIn(tasks) /\ MainsIn(ts) = MainsIn(tasks) /\ t \in MainsIn(tasks)
                /\ ts[t].request \in {"list", "docs"} /\ ts[t].step = "sent" /\ ts[t].base = tasks[t].base
                /\ tasks[t].request = "create" => ts[t].request = "list"
                /\ tasks[t].request \in {"upload", "renameDoc"} => ts[t].request = "docs"
    BY <1>5, <2>1, HandlerGoesOn
  <2>3. ASSUME ~q.crossed PROVE PageInPlace(q, ts)
    <3>1. PageInPlace(page, tasks)
      BY <1>1, <1>5, <2>2, <2>3 DEF PageInv
    <3>2. task.base \in {0, page.selected}
      BY <1>2, <1>3, <1>6, <3>1 DEF PageInPlace, AtHome
    <3>3. \A u \in WorkIn(ts) : AtHome(q, ts[u])
      BY <1>2, <1>5, <2>2, <3>1, <3>2 DEF PageInPlace, AtHome
    <3> QED BY <1>5, <2>2, <3>1, <3>3 DEF PageInPlace
  <2>4. q.stale
    BY <1>5, <2>2
  <2>5. page' \in Knowledge!Page /\ tasks' \in [Knowledge!Tasks -> Knowledge!Task] /\ PageInv(library, page', tasks')
    BY <1>1, <1>3, <2>2, <2>3, <2>4, SettleKeeps
  <2> QED BY <1>1, <2>5, KnowledgeHolds
<1>7. CASE task.request \notin {"list", "docs"}
  <2>1. PICK bz : bz = page.busy \ {task.op}
    OBVIOUS
  <2>2. page' = [p EXCEPT !.busy = bz] /\ tasks' = [tasks EXCEPT ![t] = Knowledge!Free]
    BY <1>2, <1>4, <1>5, <1>7, <2>1 DEF Knowledge!Failed
  <2>3. /\ page' \in Knowledge!Page /\ page'.busy = bz /\ page'.stale /\ page'.crossed = page.crossed /\ page'.selected = page.selected
        /\ page'.edit = page.edit /\ page'.results = page.results
    <3>1. bz \in SUBSET Knowledge!Ops
      BY <1>1, <2>1 DEF Knowledge!Page
    <3> QED BY <1>5, <2>2, <3>1 DEF Knowledge!Page
  <2>4. Knowledge!Free \in Knowledge!Task /\ Knowledge!Free.step = "free"
    <3>1. 0 \in 0..MaxBases /\ 0 \in 0..MaxPapers /\ 0 \in Knowledge!Names
      BY KnowledgeNumbers DEF Knowledge!Names
    <3> QED BY <3>1 DEF Knowledge!Free, Knowledge!Task, Knowledge!Ops, Knowledge!NoBase
  <2>5. /\ tasks' \in [Knowledge!Tasks -> Knowledge!Task]
        /\ WorkIn(tasks') = WorkIn(tasks) \ {t} /\ \A u \in WorkIn(tasks) \ {t} : tasks'[u] = tasks[u]
    <3>1. tasks'[t] = Knowledge!Free /\ \A u \in Knowledge!Tasks : u # t => tasks'[u] = tasks[u]
      BY <1>1, <2>2
    <3> QED BY <1>1, <2>2, <2>4, <3>1 DEF WorkIn
  <2>6. \A u \in WorkIn(tasks') : WorkFits(tasks'[u])
    BY <1>1, <2>5 DEF PageInv
  <2>7. FlagsFit(page', tasks')
    <3>1. ASSUME NEW o \in bz PROVE \E u \in WorkIn(tasks') : tasks'[u].op = o \/ tasks'[u].request = o
      <4>1. o \in page.busy /\ o # task.op
        BY <2>1, <3>1
      <4>2. PICK u \in WorkIn(tasks) : tasks[u].op = o \/ tasks[u].request = o
        BY <1>1, <4>1 DEF PageInv, FlagsFit
      <4>3. u # t
        BY <1>2, <1>3, <1>7, <4>1, <4>2 DEF WorkFits
      <4> QED BY <2>5, <4>2, <4>3
    <3> QED BY <2>3, <3>1 DEF FlagsFit
  <2>8. ~page'.crossed => PageInPlace(page', tasks')
    BY <1>1, <2>3, <2>5 DEF PageInv, PageInPlace, AtHome
  <2>9. PageInv(library', page', tasks')
    BY <1>1, <1>3, <2>3, <2>6, <2>7, <2>8 DEF PageInv
  <2> QED BY <1>1, <2>3, <2>5, <2>9, KnowledgeHolds
<1> QED BY <1>6, <1>7

-----------------------------------------------------------------------------
LEMMA KnowledgeBegins ==
  Knowledge!KnowledgeInit => KnowledgeInv
<1> SUFFICES ASSUME Knowledge!KnowledgeInit
             PROVE  KnowledgeInv
  OBVIOUS
<1>1. /\ 0 \in 0..MaxBases /\ 0 \in 0..MaxPapers /\ 0 \in Knowledge!Names /\ 0 \in 0..MaxClicks /\ 1 \in Knowledge!Tasks
      /\ 0 = Knowledge!NoBase
  BY KnowledgeNumbers DEF Knowledge!Names, Knowledge!Tasks, Knowledge!NoBase
<1>0. PICK n \in 0..MaxBases, m \in 0..MaxPapers : \E home \in [1..m -> 1..n] :
        library = [rows |-> [base : 1..n, status : {"active"}, name : {0}],
                   docs |-> {[doc |-> x, base |-> home[x], title |-> 0] : x \in 1..m}, bases |-> n, made |-> m]
  BY DEF Knowledge!KnowledgeInit
<1>2. PICK home \in [1..m -> 1..n] :
        library = [rows |-> [base : 1..n, status : {"active"}, name : {0}],
                   docs |-> {[doc |-> x, base |-> home[x], title |-> 0] : x \in 1..m}, bases |-> n, made |-> m]
  BY <1>0
<1>3. n \in Nat /\ m \in Nat /\ 1..n \in SUBSET Knowledge!Bases /\ 1..m \in SUBSET (1..MaxPapers)
  BY KnowledgeNumbers DEF Knowledge!Bases
<1>4. PICK these : these = [base : 1..n, status : {"active"}, name : {0}]
  OBVIOUS
<1>5. these \in SUBSET Knowledge!Row /\ (\A r, s \in these : r.base = s.base => r = s) /\ \A r \in these : r.base <= n
  <2>1. these \in SUBSET Knowledge!Row
    BY <1>1, <1>3, <1>4 DEF Knowledge!Row
  <2>2. \A r, s \in these : r.base = s.base => r = s
    BY <1>4
  <2>3. \A r \in these : r.base <= n
    BY <1>3, <1>4
  <2> QED BY <2>1, <2>2, <2>3
<1>6. PICK papers : papers = {[doc |-> x, base |-> home[x], title |-> 0] : x \in 1..m}
  OBVIOUS
<1>7. papers \in SUBSET Knowledge!Doc
  <2>1. ASSUME NEW x \in 1..m PROVE [doc |-> x, base |-> home[x], title |-> 0] \in Knowledge!Doc
    <3>1. home[x] \in Knowledge!Bases /\ x \in 1..MaxPapers
      BY <1>3
    <3> QED BY <1>1, <3>1 DEF Knowledge!Doc
  <2> QED BY <1>6, <2>1
<1>8. library = [rows |-> these, docs |-> papers, bases |-> n, made |-> m]
  BY <1>2, <1>4, <1>6
<1>9. /\ library \in [rows : SUBSET Knowledge!Row, docs : SUBSET Knowledge!Doc, bases : 0..MaxBases, made : 0..MaxPapers]
      /\ library.docs = papers /\ library.rows = these /\ library.bases = n
  BY <1>5, <1>7, <1>8
<1>10. page = [listed |-> {}, selected |-> 0, edit |-> 0, docs |-> {}, results |-> 0,
               busy |-> {"list"}, stale |-> FALSE, crossed |-> FALSE, clicks |-> 0]
  BY <1>1 DEF Knowledge!KnowledgeInit
<1>11. page \in Knowledge!Page
  BY <1>1, <1>10 DEF Knowledge!Page, Knowledge!Ops
<1>12. PICK f : f = [Knowledge!Free EXCEPT !.step = "sent"]
  OBVIOUS
<1>13. /\ Knowledge!Free \in Knowledge!Task /\ Knowledge!Free.step = "free"
       /\ f \in Knowledge!Task /\ f.step = "sent" /\ f.op = "list" /\ f.request = "list" /\ f.base = 0
  <2>1. Knowledge!Free \in Knowledge!Task /\ Knowledge!Free.step = "free" /\ Knowledge!Free.op = "list"
        /\ Knowledge!Free.request = "list" /\ Knowledge!Free.base = 0
    BY <1>1 DEF Knowledge!Free, Knowledge!Task, Knowledge!Ops
  <2> QED BY <1>12, <2>1 DEF Knowledge!Task
<1>14. tasks = [t \in Knowledge!Tasks |-> IF t = 1 THEN f ELSE Knowledge!Free]
  BY <1>12 DEF Knowledge!KnowledgeInit
<1>15. /\ tasks \in [Knowledge!Tasks -> Knowledge!Task] /\ tasks[1] = f
       /\ \A t \in Knowledge!Tasks : t # 1 => tasks[t] = Knowledge!Free
  BY <1>1, <1>13, <1>14
<1>16. WorkIn(tasks) = {1} /\ MainsIn(tasks) = {1}
  <2>1. WorkIn(tasks) = {1}
    BY <1>1, <1>13, <1>15 DEF WorkIn
  <2> QED BY <1>13, <1>15, <2>1 DEF MainsIn
<1>17. LibraryFits(library)
  BY <1>5, <1>9 DEF LibraryFits
<1>18. FlagsFit(page, tasks) /\ \A t \in WorkIn(tasks) : WorkFits(tasks[t])
  BY <1>10, <1>13, <1>15, <1>16 DEF FlagsFit, WorkFits, Alterations
<1>19. PageInPlace(page, tasks)
  BY <1>10, <1>13, <1>15, <1>16 DEF PageInPlace, AtHome
<1>20. WorkFollows(library, page, tasks)
  BY <1>13, <1>15, <1>16 DEF WorkFollows, RowsFollow, Alterations
<1>21. DocsFollow(library, page, tasks)
  <2>1. DocsOf(library, 0) = {}
    BY <1>7, <1>9, KnowledgeNumbers DEF DocsOf, Knowledge!Doc, Knowledge!Bases
  <2> QED BY <1>10, <2>1 DEF DocsFollow
<1> QED BY <1>9, <1>11, <1>15, <1>17, <1>18, <1>19, <1>20, <1>21 DEF KnowledgeInv, PageInv, Knowledge!KnowledgeTypeOK

LEMMA KnowledgeSteps ==
  KnowledgeInv /\ [Knowledge!KnowledgeNext]_<<library, page, tasks>> => KnowledgeInv'
<1> SUFFICES ASSUME KnowledgeInv, [Knowledge!KnowledgeNext]_<<library, page, tasks>>
             PROVE  KnowledgeInv'
  OBVIOUS
<1>1. CASE UNCHANGED <<library, page, tasks>>
  BY <1>1, KnowledgeTypes, KnowledgeHolds
<1>2. ASSUME NEW t \in Knowledge!Tasks,
             \/ Knowledge!CreateKnowledgeBase(t) \/ Knowledge!SaveKnowledgeBase(t) \/ Knowledge!ArchiveKnowledgeBase(t)
             \/ Knowledge!DeleteKnowledgeBase(t) \/ Knowledge!UploadFile(t) \/ Knowledge!SearchKnowledge(t) \/ Knowledge!RefreshIndex(t)
             \/ Knowledge!RefreshBases(t) \/ Knowledge!RefreshDocuments(t) \/ Knowledge!RenameDocument(t) \/ Knowledge!DeleteDocument(t)
      PROVE  KnowledgeInv'
  BY <1>2, ClickStep
<1>3. ASSUME NEW t \in Knowledge!Tasks, Knowledge!Serve(t)
      PROVE  KnowledgeInv'
  BY <1>3, KnowledgeServeStep
<1>4. ASSUME NEW t \in Knowledge!Tasks, Knowledge!Refuse(t)
      PROVE  KnowledgeInv'
  BY <1>4, KnowledgeRefuseStep
<1>5. ASSUME NEW t \in Knowledge!Tasks, Knowledge!Answered(t)
      PROVE  KnowledgeInv'
  BY <1>5, KnowledgeAnsweredStep
<1>6. ASSUME NEW t \in Knowledge!Tasks, Knowledge!Failed(t)
      PROVE  KnowledgeInv'
  BY <1>6, KnowledgeFailedStep
<1>7. ASSUME NEW b \in Knowledge!Bases, Knowledge!SelectBase(b)
      PROVE  KnowledgeInv'
  BY <1>7, SelectStep
<1> QED BY <1>1, <1>2, <1>3, <1>4, <1>5, <1>6, <1>7, Zenon DEF Knowledge!KnowledgeNext

LEMMA KnowledgeKeepsUp ==
  KnowledgeInv => Knowledge!KnowledgeTypeOK /\ Knowledge!KnowledgePageIsCurrent /\ Knowledge!DisabledIsWork
<1> SUFFICES ASSUME KnowledgeInv
             PROVE  Knowledge!KnowledgeTypeOK /\ Knowledge!KnowledgePageIsCurrent /\ Knowledge!DisabledIsWork
  OBVIOUS
<1>1. PageInv(library, page, tasks) /\ Knowledge!KnowledgeTypeOK /\ Knowledge!Waiting = WorkIn(tasks)
  BY DEF KnowledgeInv, Knowledge!Waiting, WorkIn
<1>2. Knowledge!DisabledIsWork
  BY <1>1 DEF PageInv, FlagsFit, Knowledge!DisabledIsWork
<1>3. ASSUME ~page.crossed
      PROVE  /\ page.edit \in {0, page.selected} /\ page.results \in {0, page.selected}
             /\ WorkIn(tasks) = {} /\ ~page.stale => page.listed = library.rows /\ page.docs = DocsOf(library, page.selected)
  <2>1. PageInPlace(page, tasks)
    BY <1>1, <1>3 DEF PageInv
  <2>2. ASSUME WorkIn(tasks) = {}, ~page.stale PROVE page.listed = library.rows /\ page.docs = DocsOf(library, page.selected)
    BY <1>1, <1>3, <2>2 DEF PageInv, WorkFollows, DocsFollow, MainsIn
  <2> QED BY <2>1, <2>2 DEF PageInPlace
<1>4. Knowledge!KnowledgePageIsCurrent
  BY <1>1, <1>3 DEF Knowledge!KnowledgePageIsCurrent, Knowledge!NoBase, DocsOf
<1> QED BY <1>1, <1>2, <1>4

-----------------------------------------------------------------------------
(* A behaviour of Services that is one of a page takes all its steps.      *)

PagesInv ==
  /\ part = "shelf" => ShelfInv
  /\ part = "knowledge" => KnowledgeInv
  /\ part = "rail" => RailInv

LEMMA PagesBegin == ServicesInit => PagesInv
BY ShelfBegins, KnowledgeBegins, RailBegins DEF ServicesInit, PagesInv

LEMMA PagesAct ==
  [ServicesNext]_servicesVars =>
    /\ part' = part
    /\ part = "shelf" => [Shelf!PromptsNext]_<<stored, shelf, sends>>
    /\ part = "knowledge" => [Knowledge!KnowledgeNext]_<<library, page, tasks>>
    /\ part = "rail" => [Rail!SidebarNext]_railVars
BY DEF ServicesNext, Rest, servicesVars, shelfVars, knowledgeVars

LEMMA PagesInvariance == ServicesSpec => []PagesInv
<1>1. PagesInv /\ [ServicesNext]_servicesVars => PagesInv'
  BY PagesAct, ShelfSteps, KnowledgeSteps, RailSteps DEF PagesInv
<1> QED BY PagesBegin, <1>1, PTL DEF ServicesSpec

\* For any numbers of prompts, bases, documents, conversations, links, clicks and requests: a page
\* that has its answers shows what the server has, however the answers were late or in another
\* order, except where two crossed: the prompts and their stars, the bases, documents and results
\* of the library, the conversations, the results of a search and the link of the dialog; and a
\* control that is disabled waits for a request (PromptsClient.tsx:184-360,
\* knowledge-manager.tsx:121-430, app-shell.tsx:281-424, 702-790).
THEOREM ListsStayCurrent == ServicesSpec => []ListsAreCurrent
<1>1. PagesInv => ListsAreCurrent
  BY ShelfKeepsUp, KnowledgeKeepsUp, RailKeepsUp DEF PagesInv, ListsAreCurrent
<1> QED BY PagesInvariance, <1>1, PTL
=============================================================================
