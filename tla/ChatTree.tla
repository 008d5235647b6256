------------------------------ MODULE ChatTree ------------------------------
(***************************************************************************)
(* The tree of messages of a conversation, as the export, the public share *)
(* and the chat page read it.  A tree is the sequence of its messages in   *)
(* the order of their creation, each with the id of its parent; a recorded *)
(* leaf says which branch is selected.                                     *)
(***************************************************************************)
EXTENDS Naturals, Sequences, SequencesExt

CONSTANT NoMsg  \* the id of no message

Message(id, parent) == [id |-> id, parent |-> parent]

Ids(tree) == {tree[i].id : i \in DOMAIN tree}

ParentIn(tree, id) ==
  LET m == CHOOSE m \in Range(tree) : m.id = id IN m.parent

\* The messages of a tree that are in a set, in the order of the tree.
Those(tree, S) ==
  LET kept[n \in 0..Len(tree)] ==
        IF n = 0 THEN <<>>
        ELSE IF tree[n] \in S THEN Append(kept[n-1], tree[n]) ELSE kept[n-1]
  IN  kept[Len(tree)]

\* The recorded leaf if it still exists, else the newest message.
FindActiveLeaf(tree, leaf) == IF leaf \in Ids(tree) THEN leaf ELSE Last(tree).id

\* Mutant of Chain: the walk stops at the parent of its start.
ChainOfTwo(tree, start) == ({start} \cup {ParentIn(tree, start)}) \cap Ids(tree)

\* The messages on the walk from one of them to its root.
Chain(tree, start) ==
  LET walked[n \in 0..Len(tree)] ==
        IF n = 0 THEN {start}
        ELSE walked[n-1] \cup ({ParentIn(tree, id) : id \in walked[n-1]} \cap Ids(tree))
  IN  walked[Len(tree)]

\* The walk in root-to-leaf order: a parent is always older than its children.
WalkToRoot(tree, start) ==
  LET chain == Chain(tree, start) IN Those(tree, {m \in Range(tree) : m.id \in chain})

IsFlatThread(tree) == \A m \in Range(tree) : m.parent = NoMsg

\* Roots the selected branch does not reach come first, as if they were older rows.
BuildActivePath(tree, leaf) ==
  IF IsFlatThread(tree) THEN tree
  ELSE LET path == WalkToRoot(tree, FindActiveLeaf(tree, leaf))
       IN  Those(tree, {m \in Range(tree) \ Range(path) : m.parent = NoMsg}) \o path

\* What the public sees: nothing once the recorded leaf is gone.
SharedPath(tree, leaf) ==
  IF leaf # NoMsg /\ leaf \notin Ids(tree) THEN <<>> ELSE BuildActivePath(tree, leaf)

SiblingsOf(tree, id) == Those(tree, {m \in Range(tree) : m.parent = ParentIn(tree, id)})

\* The sibling before (step -1) or after (step 1) a message, NoMsg at either end.
AdjacentSibling(tree, id, step) ==
  LET group == SiblingsOf(tree, id)
      at    == (CHOOSE i \in DOMAIN group : group[i].id = id) + step
  IN  IF at \in DOMAIN group THEN group[at].id ELSE NoMsg

\* A root nothing hangs under; the page shows no branch control on it.
FlatPrefix(tree) ==
  {m.id : m \in {m \in Range(tree) : /\ m.parent = NoMsg
                                     /\ \A n \in Range(tree) : n.parent # m.id}}

\* Mutant of DeepestLeaf: the newest message of the whole tree.
NewestLeaf(tree, start) == Last(tree).id

\* Follows the newest child from a message to the end of its branch.
DeepestLeaf(tree, start) ==
  LET Newest(id) ==
        LET kids == Those(tree, {m \in Range(tree) : m.parent = id})
        IN  IF kids = <<>> THEN id ELSE Last(kids).id
      at[n \in 0..Len(tree)] == IF n = 0 THEN start ELSE Newest(at[n-1])
  IN  at[Len(tree)]
=============================================================================
