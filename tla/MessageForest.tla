--------------------------- MODULE MessageForest ---------------------------
(***************************************************************************)
(* What a conversation promises, whoever writes to it and however many     *)
(* requests overlap: a forest of messages that only grows.  A user message *)
(* is a root or continues any message of its own conversation, an answer   *)
(* hangs under a user message of its own conversation, what is written is  *)
(* never moved, and the selected message is one of them.                   *)
(***************************************************************************)
CONSTANTS Chats, UserIds, AnswerIds, NoMsg

VARIABLES forest,    \* the messages of each chat, each with its parent
          selected,  \* the message at which the selected branch ends
          phase      \* "none", then "open" and at last "deleted"

forestVars == <<forest, selected, phase>>

Held(c) == {m.id : m \in forest[c]}

Written == UNION {Held(c) : c \in Chats}

ForestInit ==
  /\ phase \in [Chats -> {"none", "open"}]
  /\ forest \in [Chats -> SUBSET [id : UserIds \cup AnswerIds,
                                  parent : UserIds \cup AnswerIds \cup {NoMsg}]]
  /\ \A c \in Chats : forest[c] # {} => phase[c] = "open"
  /\ \A c \in Chats : \A m \in forest[c] : m.parent \in Held(c) \cup {NoMsg}
  /\ selected \in [Chats -> UserIds \cup AnswerIds \cup {NoMsg}]
  /\ \A c \in Chats : selected[c] \in Held(c) \cup {NoMsg}

\* A new message is the one that is selected.
Grow(c, id, parents) ==
  /\ selected' = [selected EXCEPT ![c] = id]
  /\ phase' = [phase EXCEPT ![c] = "open"]
  /\ id \notin Written
  /\ \E parent \in parents : forest' = [forest EXCEPT ![c] = @ \cup {[id |-> id, parent |-> parent]}]

Say(c, id) ==
  /\ phase[c] # "deleted"
  /\ Grow(c, id, Held(c) \cup {NoMsg})

Answer(c, id) ==
  /\ phase[c] = "open"
  /\ Grow(c, id, Held(c) \cap UserIds)

Select(c, id) ==
  /\ phase[c] = "open"
  /\ selected' = [selected EXCEPT ![c] = id]
  /\ id \in Held(c)
  /\ UNCHANGED <<forest, phase>>

Remove(c) ==
  /\ phase[c] = "open"
  /\ phase' = [phase EXCEPT ![c] = "deleted"]
  /\ forest' = [forest EXCEPT ![c] = {}]
  /\ selected' = [selected EXCEPT ![c] = NoMsg]

\* Each changes what is selected, or removes it all.
ForestNext ==
  /\ selected' # selected \/ phase' # phase
  /\ \E c \in Chats :
       \/ \E id \in UserIds : Say(c, id)
       \/ \E id \in AnswerIds : Answer(c, id)
       \/ \E id \in UserIds \cup AnswerIds : Select(c, id)
       \/ Remove(c)

ForestSpec == ForestInit /\ [][ForestNext]_forestVars
=============================================================================
