--------------------------- MODULE Conversations ---------------------------
(***************************************************************************)
(* The conversations of one user on the server: POST /api/chat, the agent  *)
(* runs that answer into a conversation, the requests that select a        *)
(* branch, archive, delete and share it.  Tabs send them at any time, and  *)
(* the server executes them concurrently.                                  *)
(*                                                                         *)
(* A turn is one request for an answer.  Its first transaction reads the   *)
(* conversation and writes the user's message; its last one, after the     *)
(* provider's stream, writes the answer.  The first is two actions, since  *)
(* other transactions commit between what it reads and what it writes.     *)
(***************************************************************************)
EXTENDS ChatTree, FiniteSets

CONSTANTS MaxChats,  \* conversations in a behaviour
          MaxTurns,  \* turns in a behaviour
          Links      \* requests to share a conversation

ASSUME BoundsAssumption == MaxChats \in Nat /\ MaxTurns \in Nat

VARIABLES chats,  \* the row of each conversation, and the tree of its messages
          turns,  \* the requests for an answer
          links   \* the requests to share, and the rows of conversation_shares

serverVars == <<chats, turns, links>>

-----------------------------------------------------------------------------
Chats == 1..MaxChats

\* The conversation of a request that starts one.
NoChat == 0

Turns == 1..MaxTurns

\* A message is known by the turn that wrote it; a local id is the page's own.
Id(t, role, local) == [turn |-> t, role |-> role, local |-> local]

UserMsg(t) == Id(t, "user", FALSE)

AnswerMsg(t) == Id(t, "assistant", FALSE)

UserIds == {UserMsg(t) : t \in Turns}

AnswerIds == {AnswerMsg(t) : t \in Turns}

MessageIds == UserIds \cup AnswerIds

LocalIds == {Id(t, "user", TRUE) : t \in Turns} \cup {Id(t, "assistant", TRUE) : t \in Turns}

ASSUME NoMsgAssumption == NoMsg \notin MessageIds \cup LocalIds

Kinds == {"new", "edit", "regenerate", "agent"}

\* parentMessageId, editMessageId or the message to regenerate is the target.
Request == [kind : Kinds, chat : Chats \cup {NoChat}, target : MessageIds \cup LocalIds \cup {NoMsg}]

Tree == Seq([id : MessageIds, parent : MessageIds \cup {NoMsg}])

Chat == [state : {"absent", "live", "archived", "deleted"},
         leaf : MessageIds \cup {NoMsg}, tree : Tree]

\* under: the user message the answer hangs under; parent: that of the user message.
Turn == [pc : {"unused", "open", "streaming", "ended", "rejected", "dead"},
         kind : Kinds, chat : Chats \cup {NoChat},
         under : UserIds \cup {NoMsg}, parent : MessageIds \cup {NoMsg}, text : BOOLEAN]

Link == [state : {"unused", "asked", "live", "existing", "revoked", "refused", "gone"},
         chat : Chats \cup {NoChat}, leaf : MessageIds \cup {NoMsg}]

TypeOK ==
  /\ chats \in [Chats -> Chat]
  /\ turns \in [Turns -> Turn]
  /\ links \in [Links -> Link]

NoTurn == [pc |-> "unused", kind |-> "new", chat |-> NoChat, under |-> NoMsg,
           parent |-> NoMsg, text |-> FALSE]

NewChat == [state |-> "absent", leaf |-> NoMsg, tree |-> <<>>]

Init ==
  /\ chats = [c \in Chats |-> NewChat]
  /\ turns = [t \in Turns |-> NoTurn]
  /\ links = [l \in Links |-> [state |-> "unused", chat |-> NoChat, leaf |-> NoMsg]]

-----------------------------------------------------------------------------
(* POST /api/chat and POST /api/agents/{agentId}/runs.                     *)

Holds(c, id) == id \in Ids(chats[c].tree)

\* The conversation is live, and the target one of its messages, of the right role.
Acceptable(r) ==
  /\ r.chat # NoChat => chats[r.chat].state = "live"
  /\ r.kind \in {"edit", "regenerate"} => r.target # NoMsg
  /\ r.kind # "agent" /\ r.target # NoMsg => r.chat # NoChat /\ Holds(r.chat, r.target)
  /\ r.kind = "edit" => r.target.role = "user"
  /\ r.kind = "regenerate" =>
       r.target.role = "user" \/ ParentIn(chats[r.chat].tree, r.target) \in UserIds

Reject(t, r) ==
  /\ turns[t].pc = "unused"
  /\ ~Acceptable(r)
  /\ turns' = [turns EXCEPT ![t].pc = "rejected"]
  /\ UNCHANGED <<chats, links>>

\* The message the answer of an accepted request will hang under.
AnswerParent(t, r) ==
  IF r.kind # "regenerate" THEN UserMsg(t)
  ELSE IF r.target.role = "user" THEN r.target
  ELSE ParentIn(chats[r.chat].tree, r.target)

\* The parent of the user message: an edit becomes a sibling of what it edits.
UserParent(r) ==
  IF r.kind = "regenerate" \/ r.chat = NoChat THEN NoMsg
  ELSE IF r.kind = "edit" THEN ParentIn(chats[r.chat].tree, r.target)
  ELSE IF r.kind = "new" /\ r.target # NoMsg THEN r.target
  ELSE chats[r.chat].leaf

\* The request is accepted: the reads of the first transaction.
OpenTurn(t, r) ==
  /\ turns[t].pc = "unused"
  /\ Acceptable(r)
  /\ turns' = [turns EXCEPT ![t] =
                 [pc |-> "open", kind |-> r.kind, chat |-> r.chat,
                  under |-> AnswerParent(t, r), parent |-> UserParent(r), text |-> FALSE]]
  /\ UNCHANGED <<chats, links>>

Append1(c, id, parent) ==
  [state |-> chats[c].state, leaf |-> id, tree |-> Append(chats[c].tree, Message(id, parent))]

\* The writes of a first transaction that creates its conversation.
StartChat(t, c) ==
  /\ turns[t].pc = "open"
  /\ turns[t].chat = NoChat
  /\ chats[c].state = "absent"
  /\ \A d \in 1..(c-1) : chats[d].state # "absent"
  /\ chats' = [chats EXCEPT ![c] = [state |-> "live", leaf |-> UserMsg(t),
                                    tree |-> <<Message(UserMsg(t), NoMsg)>>]]
  /\ turns' = [turns EXCEPT ![t].pc = "streaming", ![t].chat = c, ![t].parent = NoMsg]
  /\ UNCHANGED links

\* The writes of a first transaction in an existing conversation; a foreign key refuses
\* one that was deleted since, and the request fails.
CommitTurn(t) ==
  LET c == turns[t].chat IN
  /\ turns[t].pc = "open"
  /\ c # NoChat
  /\ IF chats[c].state = "deleted"
     THEN turns' = [turns EXCEPT ![t].pc = "rejected"] /\ UNCHANGED chats
     ELSE /\ turns' = [turns EXCEPT ![t].pc = "streaming", ![t].parent = NoMsg]
          /\ chats' = [chats EXCEPT ![c] =
                         IF turns[t].kind = "regenerate"
                         THEN [chats[c] EXCEPT !.leaf = turns[t].under]
                         ELSE Append1(c, UserMsg(t), turns[t].parent)]
  /\ UNCHANGED links

\* The first piece of text of the answer; an error may follow, and leaves it.
StreamText(t) ==
  /\ turns[t].pc = "streaming"
  /\ ~turns[t].text
  /\ turns' = [turns EXCEPT ![t].text = TRUE]
  /\ UNCHANGED <<chats, links>>

\* A run of an agent always leaves an answer, a failure if it comes to that.
Answers(t) == turns[t].text \/ turns[t].kind = "agent"

\* Mutant of EndTurn: the answer hangs under the leaf of the moment.
EndTurnAtLeaf(t) ==
  LET c == turns[t].chat IN
  /\ turns[t].pc = "streaming"
  /\ turns' = [turns EXCEPT ![t].pc = "ended"]
  /\ chats' = IF chats[c].state # "deleted" /\ Answers(t)
              THEN [chats EXCEPT ![c] = Append1(c, AnswerMsg(t), chats[c].leaf)]
              ELSE chats
  /\ UNCHANGED links

\* The last transaction: the answer, if there is any text, becomes the active leaf, else
\* the user message does, whatever was selected meanwhile.  In a deleted conversation
\* the foreign key refuses the answer, and the stream breaks.
EndTurn(t) ==
  LET c == turns[t].chat IN
  /\ turns[t].pc = "streaming"
  /\ IF chats[c].state = "deleted"
     THEN /\ turns' = [turns EXCEPT ![t].pc = IF Answers(t) THEN "dead" ELSE "ended"]
          /\ UNCHANGED chats
     ELSE /\ turns' = [turns EXCEPT ![t].pc = "ended"]
          /\ chats' = [chats EXCEPT ![c] =
                         IF Answers(t) THEN Append1(c, AnswerMsg(t), turns[t].under)
                         ELSE [chats[c] EXCEPT !.leaf = turns[t].under]]
  /\ UNCHANGED links

\* The web process dies: the first transaction rolls back, or no one ends the turn.
CrashTurn(t) ==
  /\ turns[t].pc \in {"open", "streaming"}
  /\ turns[t].kind # "agent"
  /\ turns' = [turns EXCEPT ![t].pc = IF @ = "open" THEN "rejected" ELSE "dead"]
  /\ UNCHANGED <<chats, links>>

-----------------------------------------------------------------------------
(* PATCH and DELETE /api/conversations/{id}.                               *)

Kept(c) == chats[c].state \in {"live", "archived"}

SelectLeaf(c, id) ==
  /\ Kept(c)
  /\ Holds(c, id)
  /\ chats' = [chats EXCEPT ![c].leaf = id]
  /\ UNCHANGED <<turns, links>>

\* No page sends archived: false, but the route takes it.
SetArchived(c, state) ==
  /\ Kept(c)
  /\ chats' = [chats EXCEPT ![c].state = state]
  /\ UNCHANGED <<turns, links>>

\* Mutant of Delete: the links are left to resolve.
DeleteTreeOnly(c) ==
  /\ Kept(c)
  /\ chats' = [chats EXCEPT ![c] = [state |-> "deleted", leaf |-> NoMsg, tree |-> <<>>]]
  /\ UNCHANGED <<turns, links>>

\* The messages, and by the cascade the links and the runs.
Delete(c) ==
  /\ Kept(c)
  /\ chats' = [chats EXCEPT ![c] = [state |-> "deleted", leaf |-> NoMsg, tree |-> <<>>]]
  /\ links' = [l \in Links |-> IF links[l].chat = c /\ links[l].state \in {"live", "revoked"}
                               THEN [links[l] EXCEPT !.state = "gone"] ELSE links[l]]
  /\ UNCHANGED turns

-----------------------------------------------------------------------------
(* POST and DELETE .../share.                                              *)

\* The select of the active leaf.
AskLink(l, c) ==
  /\ links[l].state = "unused"
  /\ Kept(c)
  /\ links' = [links EXCEPT ![l] = [state |-> "asked", chat |-> c, leaf |-> chats[c].leaf]]
  /\ UNCHANGED <<chats, turns>>

LiveLinks(c) == {l \in Links : links[l].state = "live" /\ links[l].chat = c}

\* The insert, which one live link per conversation turns into a read of that link; the
\* link may be revoked between the two statements, which is the 409.
MakeLink(l) ==
  LET c == links[l].chat IN
  /\ links[l].state = "asked"
  /\ links' = [links EXCEPT ![l].state =
                 IF ~Kept(c) THEN "refused"
                 ELSE IF LiveLinks(c) # {} THEN "existing" ELSE "live"]
  /\ UNCHANGED <<chats, turns>>

RevokeLink(l) ==
  /\ links[l].state = "live"
  /\ links' = [links EXCEPT ![l].state = "revoked"]
  /\ UNCHANGED <<chats, turns>>

-----------------------------------------------------------------------------
Receive(t, r) == OpenTurn(t, r) \/ Reject(t, r)

Serve(t) == CommitTurn(t) \/ EndTurn(t) \/ \E c \in Chats : StartChat(t, c)

\* Tabs send what they know: messages the server has stored.
Requests ==
  \E t \in Turns, kind \in Kinds, c \in Chats \cup {NoChat}, id \in MessageIds \cup {NoMsg} :
    /\ \A u \in 1..(t-1) : turns[u].pc # "unused"
    /\ kind = "agent" => id = NoMsg
    /\ id = NoMsg \/ \E d \in Chats : Holds(d, id)
    /\ Receive(t, [kind |-> kind, chat |-> c, target |-> id])

Owner ==
  \/ \E c \in Chats : Delete(c) \/ \E state \in {"live", "archived"} : SetArchived(c, state)
  \/ \E c \in Chats, id \in MessageIds : SelectLeaf(c, id)

Sharing == \E l \in Links : RevokeLink(l) \/ MakeLink(l) \/ \E c \in Chats : AskLink(l, c)

Next ==
  \/ Requests \/ Owner \/ Sharing
  \/ \E t \in Turns : Serve(t) \/ StreamText(t) \/ CrashTurn(t)

Spec == Init /\ [][Next]_serverVars

\* Nothing tells one request to share from another.
LinkSymmetry == Permutations(Links)

-----------------------------------------------------------------------------
(* Properties.                                                             *)

\* Requests overlap, race with a deletion and die half-way, and still every conversation
\* is a forest that only grows: no message hangs under one of another conversation,
\* answers hang under the user message they answer, and the leaf is in the tree
\* (chat/route.ts:181-423, conversations/[id]/route.ts:31-52, deps.ts:355-408).
Phase(c) == IF chats[c].state = "absent" THEN "none"
            ELSE IF Kept(c) THEN "open" ELSE "deleted"

Forest == INSTANCE MessageForest
            WITH forest <- [c \in Chats |-> Range(chats[c].tree)],
                 selected <- [c \in Chats |-> chats[c].leaf],
                 phase <- [c \in Chats |-> Phase(c)]

IsForest == Forest!ForestSpec

\* What a switch of branches shows holds the message switched to, and below its first
\* message a branch is one line: each message hangs under the one before it
\* (switchBranch and deepestLeaf, page.tsx:212-231 and 966-976; buildActivePath).
BranchesCanBeShown ==
  \A c \in Chats : LET tree == chats[c].tree IN
    \A id \in Ids(tree) :
      LET path == BuildActivePath(tree, DeepestLeaf(tree, id)) IN
      /\ id \in Ids(path)
      /\ \A i \in DOMAIN path : path[i].parent # NoMsg => i > 1 /\ path[i-1].id = path[i].parent

\* The branch a live link recorded reads the same as long as the link is live, and a link
\* to a deleted conversation is dead (share.ts:100-112, 0009_conversation_shares.sql).
BranchOf(l) == WalkToRoot(chats[links[l].chat].tree, links[l].leaf)

SharedBranchStays ==
  [][\A l \in Links : links[l].state = "live" =>
       /\ ~Kept(links[l].chat)' => links'[l].state # "live"
       /\ links'[l].state = "live" /\ links[l].leaf # NoMsg => BranchOf(l)' = BranchOf(l)]_serverVars

-----------------------------------------------------------------------------
(* What a comment of the repository says, and the code does not do.        *)

\* share.ts:105-108: a fall-back "would silently drift a shared link onto newer,
\* unintended content as the owner keeps chatting".
SharedStays ==
  [][\A l \in Links :
       links[l].state = "live" /\ links'[l].state = "live" /\ links[l].leaf # NoMsg =>
         LET c == links[l].chat
         IN  SharedPath(chats'[c].tree, links[l].leaf) = SharedPath(chats[c].tree, links[l].leaf)]_serverVars
=============================================================================
