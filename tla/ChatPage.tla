------------------------------ MODULE ChatPage ------------------------------
(***************************************************************************)
(* The chat page of one tab with the server and another tab.  The page     *)
(* shows a copy of a tree, adds the messages of a turn under ids of its    *)
(* own before the server has named them, renames them when the stream      *)
(* opens, and reads the tree again when the stream is over.  It follows    *)
(* the conversation in its address with requests that nothing cancels.     *)
(*                                                                         *)
(* State set in one handler is set at once; a handler that awaits is as    *)
(* many actions as it has awaits.                                          *)
(***************************************************************************)
EXTENDS Conversations

CONSTANTS Slots,     \* loads of a conversation that overlap
          MaxMoves,  \* changes of the address by the user
          MaxFaults  \* responses lost on their way to the page

\* The slot of the turn is none of the others, and there is room for what is stored at first.
ASSUME PastAssumption == MaxChats >= 2 /\ MaxTurns >= 2
ASSUME SlotsAssumption == "turn" \notin Slots
ASSUME MovesAssumption == MaxMoves \in Nat
ASSUME FaultsAssumption == MaxFaults \in Nat

VARIABLES page,    \* the state of the page
          posted,  \* the requests for an answer that are on their way
          loads,   \* the requests for a tree: one per slot, and that of the turn
          patch,   \* the request that selects a branch
          moves, faults

vars == <<serverVars, page, posted, loads, patch, moves, faults>>

client == <<posted, loads, patch, moves, faults>>

-----------------------------------------------------------------------------
Nothing == [kind |-> "none", chat |-> NoChat, target |-> NoMsg]

NoLoad == [step |-> "none", chat |-> NoChat, leaf |-> NoMsg, tree |-> <<>>]

NoPatch == [chat |-> NoChat, leaf |-> NoMsg]

ShownIds == MessageIds \cup LocalIds

\* The page's own ids for the two messages of a turn.
LocalUser(t) == Id(t, "user", TRUE)

LocalAnswer(t) == Id(t, "assistant", TRUE)

\* url and conv: the conversation in the address and the one the page is on; stage: where
\* runTurn is; on: streamConversationId; prev: the leaf before the turn; mixed: a load
\* was under way during a turn (history).
Page == [url : Chats \cup {NoChat}, conv : Chats \cup {NoChat},
         shown : Seq([id : ShownIds, parent : ShownIds \cup {NoMsg}]),
         leaf : ShownIds \cup {NoMsg}, agent : BOOLEAN,
         stage : {"idle", "sent", "opened", "reload"}, turn : 0..MaxTurns,
         on : Chats \cup {NoChat}, prev : ShownIds \cup {NoMsg}, mixed : BOOLEAN]

Load == [step : {"none", "asked", "leaf", "rows"}, chat : Chats \cup {NoChat},
         leaf : MessageIds \cup {NoMsg}, tree : Tree]

\* No request for an answer names an id of the page's own, though the leaf is one while a turn runs
\* and may be left behind by a failure (page.tsx:188-194, 693, 702-708).
LocalIdsStayHome == \A t \in Turns : posted[t].target \notin LocalIds

\* The page waits for a tree exactly when the request for it is out.
PageTypeOK ==
  /\ TypeOK
  /\ page \in Page
  /\ page.stage = "idle" <=> page.turn = 0
  /\ page.stage = "reload" <=> loads["turn"].step # "none"
  /\ posted \in [Turns -> Request \cup {Nothing}]
  /\ LocalIdsStayHome
  /\ loads \in [Slots \cup {"turn"} -> Load]
  /\ patch \in [chat : Chats \cup {NoChat}, leaf : ShownIds \cup {NoMsg}]
  /\ moves \in 0..MaxMoves
  /\ faults \in 0..MaxFaults

AtRest == [url |-> NoChat, conv |-> NoChat, shown |-> <<>>, leaf |-> NoMsg, agent |-> FALSE,
           stage |-> "idle", turn |-> 0, on |-> NoChat, prev |-> NoMsg, mixed |-> FALSE]

\* A finished turn in a tree.
Exchange(t, parent) ==
  <<Message(UserMsg(t), parent), Message(AnswerMsg(t), UserMsg(t))>>

\* What is stored when the page opens: nothing, two turns of a conversation on one branch
\* or on two, or two conversations.
Line == Exchange(1, NoMsg) \o Exchange(2, AnswerMsg(1))

Fork == Exchange(1, NoMsg) \o Exchange(2, NoMsg)

Pasts == {<<>>, <<Line>>, <<Fork>>, <<Exchange(1, NoMsg), Exchange(2, NoMsg)>>}

\* The page shows the first conversation, or none if that is not a single one; a single
\* one, or the next, may be with an agent.  Where nothing is stored a turn was refused, so
\* that two are left.
PageInit ==
  /\ \E past \in Pasts, kind \in {"new", "agent"}, c \in {NoChat, 1} :
       LET Home(t) == {d \in DOMAIN past : UserMsg(t) \in Ids(past[d])} IN
       /\ c \in DOMAIN past \cup {NoChat} /\ (Len(past) = 1 => c = 1)
       /\ kind = "agent" => past \in {<<>>, <<Line>>}
       /\ chats = [d \in Chats |-> IF d \notin DOMAIN past THEN NewChat
                                   ELSE [state |-> "live", leaf |-> Last(past[d]).id, tree |-> past[d]]]
       /\ turns = [t \in Turns |->
                     IF Home(t) # {}
                     THEN [NoTurn EXCEPT !.pc = "ended", !.kind = kind, !.under = UserMsg(t),
                                         !.chat = CHOOSE d \in Home(t) : TRUE, !.text = TRUE]
                     ELSE IF t = 1 THEN [NoTurn EXCEPT !.pc = "rejected"] ELSE NoTurn]
       /\ page = [AtRest EXCEPT !.url = c, !.conv = c, !.agent = kind = "agent",
                                !.shown = IF c = NoChat THEN <<>> ELSE past[c],
                                !.leaf = IF c = NoChat THEN NoMsg ELSE Last(past[c]).id]
  /\ links = [l \in Links |-> [state |-> "unused", chat |-> NoChat, leaf |-> NoMsg]]
  /\ posted = [t \in Turns |-> Nothing]
  /\ loads = [s \in Slots \cup {"turn"} |-> NoLoad]
  /\ patch = NoPatch
  /\ moves = 0
  /\ faults = 0

-----------------------------------------------------------------------------
(* The address, and the loads that follow it.                              *)

OpenLoads(ls) == {s \in Slots : ls[s].step # "none"}

Asked(c) == [step |-> "asked", chat |-> c, leaf |-> NoMsg, tree |-> <<>>]

\* Mutant of Follow: the effect loads nothing while a turn runs.
FollowAtRest(p, ls) ==
  IF p.url \in {NoChat, p.conv} \/ p.stage # "idle" \/ <<p.url, p.conv>> = <<page.url, page.conv>> THEN ls
  ELSE LET free == Slots \ OpenLoads(ls)
       IN  [s \in DOMAIN ls |-> IF free # {} /\ s = CHOOSE f \in free : TRUE
                                THEN Asked(p.url) ELSE ls[s]]

\* The effect on the address and the conversation: when either changes and they differ,
\* the conversation of the address is loaded.
Follow(p, ls) ==
  IF p.url \in {NoChat, p.conv} \/ <<p.url, p.conv>> = <<page.url, page.conv>> THEN ls
  ELSE LET free == Slots \ OpenLoads(ls)
       IN  [s \in DOMAIN ls |-> IF free # {} /\ s = CHOOSE f \in free : TRUE
                                THEN Asked(p.url) ELSE ls[s]]

\* The handler sets the state of the page to p; the effect runs after it.
Render(p, ls) ==
  /\ loads' = Follow(p, ls)
  /\ page' = [p EXCEPT !.mixed = @ \/ (p.stage # "idle" /\ OpenLoads(loads') # {})]

Idle == page.stage = "idle"

\* The locals of runTurn go with it.
Rest(p) == [p EXCEPT !.stage = "idle", !.turn = 0, !.on = NoChat, !.prev = NoMsg]

\* A link of the sidebar; "New chat" is the address without a conversation.
Navigate(c) ==
  /\ moves < MaxMoves
  /\ c # page.url
  /\ c # NoChat => chats[c].state # "absent"
  /\ OpenLoads(loads) # Slots
  /\ moves' = moves + 1
  /\ Render([page EXCEPT !.url = c], loads)
  /\ UNCHANGED <<serverVars, posted, patch, faults>>

\* GET .../messages reads the conversation, then its messages.
ReadLeaf(s) ==
  LET c == loads[s].chat IN
  /\ loads[s].step = "asked"
  /\ Kept(c)
  /\ loads' = [loads EXCEPT ![s] = [step |-> "leaf", chat |-> c, leaf |-> chats[c].leaf, tree |-> <<>>]]
  /\ UNCHANGED <<serverVars, page, posted, patch, moves, faults>>

ReadRows(s) ==
  LET c == loads[s].chat IN
  /\ loads[s].step = "leaf"
  /\ loads' = [loads EXCEPT ![s].step = "rows", ![s].tree = chats[c].tree]
  /\ UNCHANGED <<serverVars, page, posted, patch, moves, faults>>

IsAgentChat(tree) == \E m \in Range(tree) : turns[m.id.turn].kind = "agent"

\* Mutant of ShowConversation: the leaf of the conversation shown before is kept.
ShowConversationAtOldLeaf(s) ==
  /\ loads[s].step = "rows"
  /\ Render([page EXCEPT !.conv = loads[s].chat, !.shown = loads[s].tree,
                         !.agent = IsAgentChat(loads[s].tree), !.mixed = @ /\ ~Idle],
            [loads EXCEPT ![s] = NoLoad])
  /\ UNCHANGED <<serverVars, posted, patch, moves, faults>>

\* loadConversation: whatever the page is doing, it is on that conversation now.
ShowConversation(s) ==
  /\ loads[s].step = "rows"
  /\ Render([page EXCEPT !.conv = loads[s].chat, !.shown = loads[s].tree, !.leaf = loads[s].leaf,
                         !.agent = IsAgentChat(loads[s].tree), !.mixed = @ /\ ~Idle],
            [loads EXCEPT ![s] = NoLoad])
  /\ UNCHANGED <<serverVars, posted, patch, moves, faults>>

\* The conversation is gone, or the response is lost: the page shows a message only.
LoadFails(s) ==
  /\ loads[s].step # "none"
  /\ \/ loads[s].step = "asked" /\ ~Kept(loads[s].chat) /\ UNCHANGED faults
     \/ faults < MaxFaults /\ faults' = faults + 1
  /\ loads' = [loads EXCEPT ![s] = NoLoad]
  /\ page' = IF s = "turn" THEN Rest(page) ELSE page
  /\ UNCHANGED <<serverVars, posted, patch, moves>>

-----------------------------------------------------------------------------
(* runTurn and the handlers that call it.                                  *)

Stored(id) == IF id \in LocalIds THEN NoMsg ELSE id

ActivePath == BuildActivePath(page.shown, page.leaf)

\* Mutant of ParentToSend: the leaf is sent as it is.
LeafToSend == page.leaf

\* The leaf if the server knows it, else the last message of the path that it knows.
ParentToSend ==
  IF Stored(page.leaf) # NoMsg THEN page.leaf
  ELSE LET known == Those(ActivePath, {m \in Range(ActivePath) : m.id \notin LocalIds})
       IN  IF known = <<>> THEN NoMsg ELSE Last(known).id

IsNext(t) ==
  /\ turns[t].pc = "unused" /\ posted[t] = Nothing
  /\ \A u \in 1..(t-1) : turns[u].pc # "unused" \/ posted[u] # Nothing

\* The bound on conversations leaves one for every turn that will start one.
Room ==
  LET starting == {t \in Turns : \/ posted[t] # Nothing /\ posted[t].chat = NoChat
                                 \/ turns[t].pc = "open" /\ turns[t].chat = NoChat}
  IN  Cardinality(starting) < Cardinality({c \in Chats : chats[c].state = "absent"})

CanRun(t) == Idle /\ IsNext(t) /\ (page.conv = NoChat => Room)

\* The messages of the turn are shown at once, and the request leaves.
RunTurn(t, kind, target, optimistic) ==
  /\ Render([page EXCEPT !.shown = @ \o optimistic, !.prev = page.leaf, !.leaf = LocalAnswer(t),
                         !.stage = "sent", !.turn = t, !.on = page.conv], loads)
  /\ posted' = [posted EXCEPT ![t] =
                  [kind |-> IF page.agent THEN "agent" ELSE kind, chat |-> page.conv,
                   target |-> IF page.agent THEN NoMsg ELSE target]]
  /\ UNCHANGED <<serverVars, patch, moves, faults>>

WithUser(t, parent) ==
  <<Message(LocalUser(t), parent), Message(LocalAnswer(t), LocalUser(t))>>

SendMessage(t) == CanRun(t) /\ RunTurn(t, "new", ParentToSend, WithUser(t, ParentToSend))

\* An edit in a chat with an agent is one more message to the agent.
SubmitUserEdit(t) == CanRun(t) /\
  \E m \in Range(ActivePath) :
    /\ m.id.role = "user" /\ m.id \notin LocalIds
    /\ RunTurn(t, "edit", m.id, WithUser(t, Stored(m.parent)))

\* Only the last answer on the path has the button.
SubmitRegenerate(t) ==
  LET answers == Those(ActivePath, {m \in Range(ActivePath) : m.id.role = "assistant"})
  IN  /\ CanRun(t) /\ ~page.agent
      /\ answers # <<>>
      /\ RunTurn(t, "regenerate", Stored(Last(answers).id),
                 <<Message(LocalAnswer(t), Stored(Last(answers).parent))>>)

\* What is shown without the page's own messages of the turn.
Others(p) ==
  Those(p.shown, {m \in Range(p.shown) : m.id \notin {LocalUser(p.turn), LocalAnswer(p.turn)}})

\* Mutant of Discard: the leaf stays on the answer that was taken away.
DiscardMessages(p) == Rest([p EXCEPT !.shown = Others(p)])

\* Mutant of Discard: the page goes on waiting for the turn (no finally).
DiscardAndWait(p) == [p EXCEPT !.shown = Others(p), !.leaf = p.prev]

\* discardOptimistic: the page's own messages of the turn go, and the leaf goes back.
Discard(p) == Rest([p EXCEPT !.shown = Others(p), !.leaf = p.prev])

\* An error before the stream opened, or the answer of an agent that never came.
TurnRefused ==
  /\ page.stage = "sent"
  /\ \/ turns[page.turn].pc = "rejected" /\ UNCHANGED faults
     \/ faults < MaxFaults /\ faults' = faults + 1
  /\ Render(Discard(page), loads)
  /\ UNCHANGED <<serverVars, posted, patch, moves>>

\* The server's name for an id of the page.
Renamed(t, id) ==
  IF id = LocalUser(t) THEN turns[t].under
  ELSE IF id = LocalAnswer(t) THEN AnswerMsg(t) ELSE id

\* The page is on the conversation of its turn, in the address too.
On(p, c) == [p EXCEPT !.conv = c, !.url = c, !.on = c]

\* The event 'conversation', the first of the stream.
StreamOpens ==
  LET t == page.turn IN
  /\ page.stage = "sent"
  /\ turns[t].kind # "agent"
  /\ turns[t].pc \in {"streaming", "ended", "dead"}
  /\ OpenLoads(loads) # Slots
  /\ Render([On(page, turns[t].chat) EXCEPT
               !.shown = [i \in DOMAIN page.shown |->
                            Message(Renamed(t, page.shown[i].id), Renamed(t, page.shown[i].parent))],
               !.leaf = Renamed(t, @), !.prev = NoMsg, !.stage = "opened"], loads)
  /\ UNCHANGED <<serverVars, posted, patch, moves, faults>>

\* Mutant of Reload: the turn is over before the tree is back.
ReloadLater(p) == Render(Rest(p), [loads EXCEPT !["turn"] = Asked(p.on)])

\* loadTree(streamConversationId), which runTurn awaits.
Reload(p) == Render([p EXCEPT !.prev = NoMsg, !.stage = "reload"], [loads EXCEPT !["turn"] = Asked(p.on)])

\* The event 'conversation_updated', the last of the stream.
StreamEnds ==
  LET t == page.turn IN
  /\ page.stage = "opened"
  /\ turns[t].pc = "ended"
  /\ Reload([page EXCEPT !.leaf = IF Answers(t) THEN AnswerMsg(t) ELSE turns[t].under])
  /\ UNCHANGED <<serverVars, posted, patch, moves, faults>>

\* An error event, sent before the server's last transaction, or a stream that breaks.
StreamErrs ==
  /\ page.stage = "opened"
  /\ Reload(page)
  /\ UNCHANGED <<serverVars, posted, patch, moves, faults>>

\* The answer to the request that ran the agent.
AgentAnswers ==
  LET t == page.turn IN
  /\ page.stage = "sent"
  /\ turns[t].kind = "agent"
  /\ turns[t].pc \in {"ended", "dead"}
  /\ OpenLoads(loads) # Slots
  /\ Reload(On(page, turns[t].chat))
  /\ UNCHANGED <<serverVars, posted, patch, moves, faults>>

\* loadTree is back: the tree is shown whatever conversation the page is on now.
ShowTree ==
  /\ loads["turn"].step = "rows"
  /\ Render(Rest([page EXCEPT !.shown = loads["turn"].tree, !.leaf = loads["turn"].leaf]),
            [loads EXCEPT !["turn"] = NoLoad])
  /\ UNCHANGED <<serverVars, posted, patch, moves, faults>>

\* The abort reaches the page at once and the server later or never.
StopStreaming ==
  /\ page.stage \in {"sent", "opened"}
  /\ posted[page.turn].kind # "agent" /\ turns[page.turn].kind # "agent"
  /\ IF page.stage = "sent" THEN Render(Discard(page), loads) ELSE Reload(page)
  /\ UNCHANGED <<serverVars, posted, patch, moves, faults>>

\* The branch shown changes at once; the request to record it is not awaited.
SwitchBranch ==
  /\ Idle
  /\ page.conv # NoChat
  /\ patch = NoPatch
  /\ \E m \in Range(ActivePath) \ {x \in Range(page.shown) : x.id \in FlatPrefix(page.shown)}, step \in {-1, 1} :
       LET target == AdjacentSibling(page.shown, m.id, step)
           leaf   == DeepestLeaf(page.shown, target)
       IN  /\ ~IsFlatThread(page.shown)
           /\ target # NoMsg
           /\ page' = [page EXCEPT !.leaf = leaf]
           /\ patch' = [chat |-> page.conv, leaf |-> leaf]
  /\ UNCHANGED <<serverVars, posted, loads, moves, faults>>

LeaveAgent ==
  /\ Idle
  /\ page.agent
  /\ page' = [page EXCEPT !.agent = FALSE]
  /\ UNCHANGED <<serverVars, client>>

-----------------------------------------------------------------------------
(* The requests arrive, or the network loses them.                         *)

PostArrives(t) ==
  /\ posted[t] # Nothing
  /\ Receive(t, posted[t])
  /\ posted' = [posted EXCEPT ![t] = Nothing]
  /\ UNCHANGED <<page, loads, patch, moves, faults>>

PatchArrives ==
  /\ patch # NoPatch
  /\ \/ SelectLeaf(patch.chat, patch.leaf)
     \/ ~(Kept(patch.chat) /\ Holds(patch.chat, patch.leaf)) /\ UNCHANGED serverVars
  /\ patch' = NoPatch
  /\ UNCHANGED <<page, posted, loads, moves, faults>>

\* The other tab continues a conversation from its leaf, or deletes one.
OtherTab ==
  /\ \/ \E t \in Turns, c \in Chats :
          IsNext(t) /\ Receive(t, [kind |-> "new", chat |-> c, target |-> chats[c].leaf])
     \/ \E c \in Chats : Delete(c)
  /\ UNCHANGED <<page, client>>

Server ==
  /\ \E t \in Turns : Serve(t) \/ StreamText(t) \/ CrashTurn(t)
  /\ UNCHANGED <<page, client>>

Loading == \E s \in Slots \cup {"turn"} : ReadLeaf(s) \/ ReadRows(s) \/ LoadFails(s)

Turning ==
  \/ TurnRefused \/ StreamOpens \/ StreamEnds \/ StreamErrs \/ AgentAnswers \/ ShowTree

User ==
  \/ \E c \in Chats \cup {NoChat} : Navigate(c)
  \/ \E t \in Turns : SendMessage(t) \/ SubmitUserEdit(t) \/ SubmitRegenerate(t)
  \/ StopStreaming \/ SwitchBranch \/ LeaveAgent

PageNext ==
  \/ User \/ Loading \/ Turning \/ Server \/ OtherTab \/ PatchArrives
  \/ \E s \in Slots : ShowConversation(s)
  \/ \E t \in Turns : PostArrives(t)

PageSpec == PageInit /\ [][PageNext]_vars

-----------------------------------------------------------------------------
(* Properties.                                                             *)

\* A page at rest shows nothing of its own making, and every message it shows is stored,
\* unless a conversation was deleted or a load failed (page.tsx:873-901).
ShownIsStored ==
  Idle /\ faults = 0 /\ (\A c \in Chats : chats[c].state # "deleted") =>
    /\ page.leaf \notin LocalIds
    /\ \A m \in Range(page.shown) : \E c \in Chats : Holds(c, m.id)

\* A page at rest shows the conversation it is on, if no other conversation was loading
\* while a turn ran: every message is of that conversation, and the leaf is too.
ShowsItsConversation ==
  Idle /\ ~page.mixed /\ faults = 0 =>
    \/ page.conv = NoChat /\ page.shown = <<>> /\ page.leaf = NoMsg
    \/ /\ page.conv # NoChat
       /\ \/ Ids(page.shown) \cup ({page.leaf} \ {NoMsg}) \subseteq Ids(chats[page.conv].tree)
          \/ chats[page.conv].state = "deleted"

(***************************************************************************)
(* Fairness: requests that are not lost arrive, the server and the         *)
(* provider go on, responses come back.  The user need not do anything.    *)
(***************************************************************************)
Arriving == (\E t \in Turns : PostArrives(t)) \/ (\E s \in Slots : ShowConversation(s)) \/ Loading

Fairness ==
  /\ WF_vars(Arriving)
  /\ WF_vars((\E t \in Turns : Serve(t)) /\ UNCHANGED <<page, client>>)
  /\ WF_vars(Turning)

FairPageSpec == PageSpec /\ Fairness

\* A turn ends for the page, however it ends on the server (runTurn, page.tsx:873-904).
TurnsSettle == ~Idle ~> Idle

\* The page comes to the conversation of its address, or the address moves on
\* (page.tsx:450-458), unless that conversation is gone or a load failed.
Astray == page.url \notin {NoChat, page.conv} /\ Kept(page.url) /\ faults = 0

AddressIsFollowed == Astray ~> ~Astray

-----------------------------------------------------------------------------
(* What a comment of the repository says, and the code does not do.        *)

\* page.tsx:887-888: "restore the previous leaf so the next send has a real parentMessageId
\* rather than a dangling temp id"; 895: "so the next turn has a valid parent".
NextTurnHasParent ==
  Idle /\ page.conv # NoChat /\ faults = 0 /\ page.shown # <<>> /\ Kept(page.conv) =>
    Holds(page.conv, ParentToSend)
=============================================================================
