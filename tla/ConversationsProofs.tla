------------------------ MODULE ConversationsProofs ------------------------
(***************************************************************************)
(* Theorems about Conversations and ChatPage, for any number of            *)
(* conversations, turns, links and clicks: the server's trees implement    *)
(* MessageForest, every branch of them can be shown, a shared branch does  *)
(* not change, and the page shows what is stored.                          *)
(*                                                                         *)
(* The refinement needs to know what a turn carries between its            *)
(* transactions.  What it read in the first half of its first transaction  *)
(* is still in the tree when it writes (OpenFits), because trees only grow *)
(* until they are deleted; its answer's place is there until the end       *)
(* (StreamingFits); and its messages are in no tree before it writes them  *)
(* (UsersAreWritten, AnswersAreWritten), so that each is written once.     *)
(* Hence trees are Sound: one message of each id, under an older one.      *)
(*                                                                         *)
(* The walks of ChatTree are recursive functions.  That such a function is *)
(* defined follows from Recursion, and what it returns from Climbs, an     *)
(* induction over the numbers up to a bound; both rest on LeastNumber.     *)
(*                                                                         *)
(* The page's invariant (PageInv) says what holds of what is shown while a *)
(* turn and loads are under way, where the properties speak of a page at   *)
(* rest: all but the turn's own messages is stored, and of the page's      *)
(* conversation as long as no load has mixed with the turn.                *)
(***************************************************************************)
EXTENDS ChatPage, WellFoundedInduction, TLAPS

TreeOf(c) == chats[c].tree

\* The leaf and every parent are messages of the conversation itself.
LeavesHeld == \A c \in Chats : chats[c].leaf \in Ids(TreeOf(c)) \cup {NoMsg}

ParentsHeld ==
  \A c \in Chats : \A m \in Range(TreeOf(c)) : m.parent \in Ids(TreeOf(c)) \cup {NoMsg}

AbsentIsEmpty == \A c \in Chats : chats[c].state = "absent" => TreeOf(c) = <<>>

\* A message is in a tree only once its turn has written it.
UsersAreWritten ==
  \A c \in Chats, t \in Turns :
    UserMsg(t) \in Ids(TreeOf(c)) => turns[t].pc \in {"streaming", "ended", "dead"}

AnswersAreWritten ==
  \A c \in Chats, t \in Turns : AnswerMsg(t) \in Ids(TreeOf(c)) => turns[t].pc = "ended"

\* What a turn has read is still there when it writes, until the conversation is deleted;
\* so is the user message its answer will hang under.
OpenFits(t) ==
  /\ turns[t].under \in UserIds
  /\ turns[t].kind # "regenerate" => turns[t].under = UserMsg(t)
  /\ turns[t].chat = NoChat => turns[t].kind # "regenerate"
  /\ turns[t].chat \in Chats =>
       /\ chats[turns[t].chat].state # "absent"
       /\ chats[turns[t].chat].state # "deleted" =>
            /\ turns[t].parent \in Ids(TreeOf(turns[t].chat)) \cup {NoMsg}
            /\ turns[t].kind = "regenerate" => turns[t].under \in Ids(TreeOf(turns[t].chat))

StreamingFits(t) ==
  /\ turns[t].under \in UserIds
  /\ turns[t].chat \in Chats
  /\ chats[turns[t].chat].state # "absent"
  /\ chats[turns[t].chat].state # "deleted" => turns[t].under \in Ids(TreeOf(turns[t].chat))

TurnFits(t) ==
  /\ turns[t].pc = "open" => OpenFits(t)
  /\ turns[t].pc = "streaming" => StreamingFits(t)

TurnsFit == \A t \in Turns : TurnFits(t)

TreeInv ==
  /\ LeavesHeld /\ ParentsHeld /\ AbsentIsEmpty
  /\ UsersAreWritten /\ AnswersAreWritten
  /\ TurnsFit

IInv == TypeOK /\ TreeInv

-----------------------------------------------------------------------------
(* Ids, trees and records.                                                 *)

LEMMA ChatsAreNumbers == NoChat \notin Chats /\ Chats \subseteq Nat
BY BoundsAssumption DEF NoChat, Chats

LEMMA MessagesDiffer ==
  ASSUME NEW t \in Turns, NEW u \in Turns
  PROVE  /\ UserMsg(t) \in UserIds /\ AnswerMsg(t) \in AnswerIds
         /\ UserMsg(t) = UserMsg(u) => t = u
         /\ AnswerMsg(t) = AnswerMsg(u) => t = u
         /\ UserMsg(t) # AnswerMsg(u)
BY DEF UserIds, AnswerIds, UserMsg, AnswerMsg, Id

LEMMA NoMsgIsNone == NoMsg \notin UserIds /\ NoMsg \notin AnswerIds /\ NoMsg \notin MessageIds
BY NoMsgAssumption DEF MessageIds

LEMMA RolesTell ==
  ASSUME NEW id \in MessageIds
  PROVE  id.role = "user" <=> id \in UserIds
<1>1. \A t \in Turns : UserMsg(t).role = "user" /\ AnswerMsg(t).role = "assistant"
  BY DEF UserMsg, AnswerMsg, Id
<1> QED BY <1>1 DEF MessageIds, UserIds, AnswerIds

LEMMA HeldIds == ASSUME NEW tree PROVE Ids(tree) = {m.id : m \in Range(tree)}
BY DEF Ids, Range

LEMMA AppendRange ==
  ASSUME NEW S, NEW tree \in Seq(S), NEW m \in S
  PROVE  Append(tree, m) \in Seq(S) /\ Range(Append(tree, m)) = Range(tree) \cup {m}
<1> DEFINE longer == Append(tree, m)
<1>1. longer \in Seq(S) /\ DOMAIN longer = 1..(Len(tree) + 1) /\ DOMAIN tree = 1..Len(tree)
  OBVIOUS
<1>2. \A i \in 1..Len(tree) : longer[i] = tree[i]
  OBVIOUS
<1>3. longer[Len(tree) + 1] = m /\ Len(tree) \in Nat
  OBVIOUS
<1>4. {longer[i] : i \in DOMAIN longer} = {tree[i] : i \in DOMAIN tree} \cup {m}
  BY <1>1, <1>2, <1>3
<1> QED BY <1>1, <1>4 DEF Range

LEMMA SeqElements ==
  ASSUME NEW S, NEW tree \in Seq(S)
  PROVE  \A i \in DOMAIN tree : tree[i] \in S
OBVIOUS

LEMMA EmptyInSeq == ASSUME NEW S PROVE <<>> \in Seq(S)
OBVIOUS

LEMMA EmptyTree == Range(<<>>) = {} /\ Ids(<<>>) = {}
BY DEF Range, Ids

\* A message's parent is the parent of one of the messages of its id.
LEMMA ParentOfOne ==
  ASSUME NEW tree, NEW id \in Ids(tree)
  PROVE  \E m \in Range(tree) : m.id = id /\ ParentIn(tree, id) = m.parent
<1>1. \E m \in Range(tree) : m.id = id
  BY HeldIds
<1> QED BY <1>1 DEF ParentIn

LEMMA ChatTyped ==
  ASSUME NEW x \in Chat
  PROVE  /\ x.state \in {"absent", "live", "archived", "deleted"}
         /\ x.leaf \in MessageIds \cup {NoMsg} /\ x.tree \in Tree
BY DEF Chat

LEMMA ChatMade ==
  ASSUME NEW state \in {"absent", "live", "archived", "deleted"},
         NEW leaf \in MessageIds \cup {NoMsg}, NEW tree \in Tree
  PROVE  [state |-> state, leaf |-> leaf, tree |-> tree] \in Chat
BY DEF Chat

LEMMA TurnTyped ==
  ASSUME NEW x \in Turn
  PROVE  /\ x.pc \in {"unused", "open", "streaming", "ended", "rejected", "dead"}
         /\ x.kind \in Kinds /\ x.chat \in Chats \cup {NoChat}
         /\ x.under \in UserIds \cup {NoMsg} /\ x.parent \in MessageIds \cup {NoMsg}
BY DEF Turn

LEMMA MessageMade ==
  ASSUME NEW id \in MessageIds, NEW parent \in MessageIds \cup {NoMsg}
  PROVE  /\ Message(id, parent) \in [id : MessageIds, parent : MessageIds \cup {NoMsg}]
         /\ Message(id, parent).id = id /\ Message(id, parent).parent = parent
BY DEF Message

LEMMA TreeTyped ==
  ASSUME NEW tree \in Tree
  PROVE  Ids(tree) \subseteq MessageIds
<1>1. \A i \in DOMAIN tree : tree[i] \in [id : MessageIds, parent : MessageIds \cup {NoMsg}]
  BY SeqElements DEF Tree
<1>2. \A i \in DOMAIN tree : tree[i].id \in MessageIds
  BY <1>1
<1> QED BY <1>2 DEF Ids

\* The trees of the state are trees of messages.
LEMMA IdsTyped ==
  ASSUME TypeOK, NEW c \in Chats
  PROVE  /\ chats[c] \in Chat /\ TreeOf(c) \in Tree /\ Ids(TreeOf(c)) \subseteq MessageIds
         /\ NoMsg \notin Ids(TreeOf(c))
<1>1. chats[c] \in Chat
  BY DEF TypeOK
<1>2. TreeOf(c) \in Tree
  BY <1>1, ChatTyped DEF TreeOf
<1> QED BY <1>1, <1>2, TreeTyped, NoMsgIsNone

-----------------------------------------------------------------------------
(* Induction, and the recursive walks of ChatTree.                         *)

LEMMA LessIsWellFounded == IsWellFoundedOn({p \in Nat \X Nat : p[1] < p[2]}, Nat)
BY NatLessThanWellFounded DEF OpToRel

\* A set of numbers that is not empty has a least one.
LEMMA LeastNumber ==
  ASSUME NEW T \in SUBSET Nat, T # {}
  PROVE  \E n \in T : \A m \in T : n <= m
<1> DEFINE R == {p \in Nat \X Nat : p[1] < p[2]}
<1>1. \E n \in T : \A m \in T : <<m, n>> \notin R
  <2>1. IsWellFoundedOn(R, Nat)
    BY LessIsWellFounded
  <2> HIDE DEF R
  <2> QED BY <2>1, WFMin
<1>2. PICK n \in T : \A m \in T : <<m, n>> \notin R
  BY <1>1
<1>3. ASSUME NEW m \in T PROVE n <= m
  <2>1. m \in Nat /\ n \in Nat
    OBVIOUS
  <2>2. <<m, n>> \in Nat \X Nat /\ <<m, n>>[1] = m /\ <<m, n>>[2] = n
    BY <2>1
  <2>3. ~(m < n)
    BY <1>2, <2>2
  <2> QED BY <2>1, <2>3
<1> QED BY <1>3

\* Induction up to a bound, for the numbers of a set.
LEMMA Climbs ==
  ASSUME NEW L \in Nat, NEW T, 0 \in T, \A n \in 1..L : n - 1 \in T => n \in T
  PROVE  \A n \in 0..L : n \in T
<1> DEFINE F == (0..L) \ T
<1> SUFFICES ASSUME F # {} PROVE FALSE
  OBVIOUS
<1>1. F \in SUBSET Nat
  OBVIOUS
<1>2. PICK n \in F : \A m \in F : n <= m
  BY <1>1, LeastNumber
<1>3. n \in 1..L
  OBVIOUS
<1>4. n - 1 \in 0..L /\ ~(n <= n - 1)
  BY <1>3
<1>5. n - 1 \in T
  BY <1>2, <1>4
<1> QED BY <1>3, <1>5

Runs(L, V, first, step, f) ==
  f \in [0..L -> V] /\ f[0] = first /\ \A n \in 1..L : f[n] = step[n][f[n-1]]

\* A function that is defined by its first value and the step from one value to the next
\* exists.
LEMMA Recursion ==
  ASSUME NEW L \in Nat, NEW V, NEW first \in V, NEW step \in [1..L -> [V -> V]]
  PROVE  \E f : Runs(L, V, first, step, f)
<1> USE DEF Runs
<1> DEFINE Good(k) == \E f \in [0..k -> V] : f[0] = first /\ \A n \in 1..k : f[n] = step[n][f[n-1]]
           T == {k \in 0..L : Good(k)}
<1>1. 0 \in T
  <2> DEFINE g == [n \in 0..0 |-> first]
  <2>1. g \in [0..0 -> V] /\ g[0] = first
    OBVIOUS
  <2>2. \A n \in 1..0 : g[n] = step[n][g[n-1]]
    OBVIOUS
  <2> HIDE DEF g
  <2>3. Good(0)
    BY <2>1, <2>2
  <2> QED BY <2>3
<1>2. ASSUME NEW k \in 1..L, k - 1 \in T PROVE k \in T
  <2>1. PICK f \in [0..(k-1) -> V] : f[0] = first /\ \A n \in 1..(k-1) : f[n] = step[n][f[n-1]]
    BY <1>2
  <2> DEFINE g == [n \in 0..k |-> IF n = k THEN step[k][f[k-1]] ELSE f[n]]
  <2>2. f[k-1] \in V /\ step[k] \in [V -> V]
    OBVIOUS
  <2>3. g \in [0..k -> V]
    <3>1. ASSUME NEW n \in 0..k PROVE (IF n = k THEN step[k][f[k-1]] ELSE f[n]) \in V
      <4>1. n # k => n \in 0..(k-1)
        OBVIOUS
      <4> QED BY <2>2, <4>1
    <3> QED BY <3>1
  <2>4. g[0] = first
    BY <2>1
  <2>5. ASSUME NEW n \in 1..k PROVE g[n] = step[n][g[n-1]]
    <3>1. n - 1 \in 0..k /\ n - 1 # k /\ n \in 0..k
      OBVIOUS
    <3>2. g[n-1] = f[n-1]
      BY <3>1
    <3>3. n # k => n \in 1..(k-1) /\ g[n] = f[n]
      OBVIOUS
    <3>4. n = k => g[n] = step[k][f[k-1]]
      OBVIOUS
    <3> HIDE DEF g
    <3> QED BY <2>1, <3>2, <3>3, <3>4
  <2> HIDE DEF g
  <2>6. Good(k)
    BY <2>3, <2>4, <2>5
  <2> QED BY <2>6
<1>3. \A k \in 0..L : k \in T
  <2> HIDE DEF T
  <2> QED BY <1>1, <1>2, Climbs
<1> QED BY <1>3

-----------------------------------------------------------------------------
(* The messages of a tree that are in a set.                               *)

\* The run of Those over a tree, message by message.
Sifted(M, tree, S, kept) ==
  /\ kept \in [0..Len(tree) -> Seq(M)]
  /\ kept[0] = <<>>
  /\ \A n \in 1..Len(tree) :
       kept[n] = IF tree[n] \in S THEN Append(kept[n-1], tree[n]) ELSE kept[n-1]
  /\ Those(tree, S) = kept[Len(tree)]

LEMMA ThoseSteps ==
  ASSUME NEW M, NEW tree \in Seq(M), NEW S
  PROVE  \E kept : Sifted(M, tree, S, kept)
<1> DEFINE L == Len(tree)
           V == Seq(M)
           Next1(n, q) == IF tree[n] \in S THEN Append(q, tree[n]) ELSE q
           step == [n \in 1..L |-> [q \in V |-> Next1(n, q)]]
           Eq(f) == f = [n \in 0..L |-> IF n = 0 THEN <<>> ELSE Next1(n, f[n-1])]
           f == CHOOSE f : Eq(f)
<1>1. L \in Nat /\ <<>> \in V /\ \A n \in 1..L : tree[n] \in M
  OBVIOUS
<1>2. \A n \in 1..L, q \in V : Next1(n, q) \in V
  BY <1>1
<1>3. step \in [1..L -> [V -> V]]
  <2> HIDE DEF Next1, V, L
  <2> QED BY <1>2
<1>4. PICK g : Runs(L, V, <<>>, step, g)
  <2> HIDE DEF step, V, L
  <2> QED BY <1>1, <1>3, Recursion
<1>5. \A n \in 1..L : g[n] = Next1(n, g[n-1])
  <2> HIDE DEF Next1, V
  <2>1. \A n \in 1..L : n - 1 \in 0..L
    BY <1>1
  <2> QED BY <1>4, <2>1 DEF Runs
<1>6. Eq(g)
  <2> HIDE DEF Next1, V
  <2>1. \A n \in 0..L : n # 0 => n \in 1..L
    BY <1>1
  <2>2. \A n \in 0..L : g[n] = IF n = 0 THEN <<>> ELSE Next1(n, g[n-1])
    BY <1>4, <1>5, <2>1 DEF Runs
  <2>3. g = [n \in 0..L |-> g[n]]
    BY <1>4 DEF Runs
  <2> QED BY <2>2, <2>3
<1>7. Eq(f)
  <2> HIDE DEF Eq
  <2> QED BY <1>6
<1>8. DOMAIN f = 0..L /\ f[0] = <<>> /\ \A n \in 1..L : f[n] = Next1(n, f[n-1])
  <2> DEFINE h == f
  <2> HIDE DEF Next1, h
  <2>1. h = [n \in 0..L |-> IF n = 0 THEN <<>> ELSE Next1(n, h[n-1])]
    BY <1>7 DEF h
  <2>2. \A n \in 1..L : n \in 0..L /\ n # 0
    BY <1>1
  <2>3. 0 \in 0..L
    BY <1>1
  <2>4. DOMAIN h = 0..L /\ h[0] = <<>> /\ \A n \in 1..L : h[n] = Next1(n, h[n-1])
    BY <2>1, <2>2, <2>3
  <2> QED BY <2>4 DEF h
<1>9. \A n \in 0..L : f[n] \in V
  <2> HIDE DEF f, V, Next1
  <2> DEFINE T == {n \in 0..L : f[n] \in V}
  <2>1. 0 \in T
    BY <1>1, <1>8
  <2>2. \A n \in 1..L : n - 1 \in T => n \in T
    BY <1>2, <1>8
  <2>3. \A n \in 0..L : n \in T
    <3> HIDE DEF T
    <3> QED BY <1>1, <2>1, <2>2, Climbs
  <2> QED BY <2>3
<1>10. f \in [0..L -> V]
  <2> HIDE DEF V
  <2> DEFINE h == f
  <2> HIDE DEF Next1, h
  <2>1. h = [n \in 0..L |-> IF n = 0 THEN <<>> ELSE Next1(n, h[n-1])]
    BY <1>7 DEF h
  <2>2. \A n \in 0..L : h[n] \in V
    BY <1>9 DEF h
  <2> DEFINE X(n) == IF n = 0 THEN <<>> ELSE Next1(n, h[n-1])
  <2>3. h = [n \in 0..L |-> h[n]]
    <3>1. h = [n \in 0..L |-> X(n)]
      BY <2>1
    <3> HIDE DEF X
    <3> QED BY <3>1
  <2>4. h \in [0..L -> V]
    BY <2>2, <2>3, Zenon
  <2> QED BY <2>4 DEF h
<1>11. Those(tree, S) = f[L]
  BY DEF Those
<1> HIDE DEF f
<1>12. Sifted(M, tree, S, f)
  BY <1>8, <1>10, <1>11 DEF Sifted
<1> QED BY <1>12

\* Those returns the messages of the tree that are in the set.
LEMMA ThoseElements ==
  ASSUME NEW M, NEW tree \in Seq(M), NEW S
  PROVE  Those(tree, S) \in Seq(M) /\ Range(Those(tree, S)) = Range(tree) \cap S
<1> DEFINE L == Len(tree)
           First(n) == {tree[i] : i \in 1..n} \cap S
<1>1. PICK kept : Sifted(M, tree, S, kept)
  BY ThoseSteps
<1>2. L \in Nat /\ DOMAIN tree = 1..L /\ \A n \in 1..L : tree[n] \in M
  OBVIOUS
<1> DEFINE T == {n \in 0..L : Range(kept[n]) = First(n)}
<1>3. 0 \in T
  BY <1>1, <1>2 DEF Sifted, Range
<1>4. ASSUME NEW n \in 1..L, n - 1 \in T PROVE n \in T
  <2>1. Range(kept[n-1]) = First(n-1) /\ kept[n-1] \in Seq(M) /\ tree[n] \in M
    BY <1>1, <1>2, <1>4 DEF Sifted
  <2>2. {tree[i] : i \in 1..n} = {tree[i] : i \in 1..(n-1)} \cup {tree[n]}
    <3>1. \A i \in 1..n : i = n \/ i \in 1..(n-1)
      BY <1>2
    <3>2. \A i \in 1..(n-1) : i \in 1..n
      BY <1>2
    <3>3. n \in 1..n
      BY <1>2
    <3> QED BY <3>1, <3>2, <3>3
  <2>3. kept[n] = IF tree[n] \in S THEN Append(kept[n-1], tree[n]) ELSE kept[n-1]
    BY <1>1 DEF Sifted
  <2>4. Range(Append(kept[n-1], tree[n])) = Range(kept[n-1]) \cup {tree[n]}
    BY <2>1, AppendRange
  <2>5. Range(kept[n]) = First(n)
    <3>1. CASE tree[n] \in S
      BY <2>1, <2>2, <2>3, <2>4, <3>1
    <3>2. CASE tree[n] \notin S
      BY <2>1, <2>2, <2>3, <3>2
    <3> QED BY <3>1, <3>2
  <2>6. n \in 0..L
    BY <1>2
  <2> QED BY <2>5, <2>6
<1>5. \A n \in 0..L : n \in T
  <2> HIDE DEF T
  <2> QED BY <1>2, <1>3, <1>4, Climbs
<1>6. L \in 0..L
  BY <1>2
<1>7. Range(Those(tree, S)) = First(L) /\ Those(tree, S) \in Seq(M)
  BY <1>1, <1>5, <1>6 DEF Sifted
<1> QED BY <1>2, <1>7 DEF Range

\* The branch of a message ends at a message of the tree.
Newest(tree, id) ==
  LET kids == Those(tree, {m \in Range(tree) : m.parent = id})
  IN  IF kids = <<>> THEN id ELSE Last(kids).id

LEMMA LastIsOne ==
  ASSUME NEW M, NEW tree \in Seq(M), tree # <<>>
  PROVE  Last(tree) \in Range(tree)
<1>1. Len(tree) \in DOMAIN tree
  OBVIOUS
<1> QED BY <1>1 DEF Last, Range

LEMMA NewestHeld ==
  ASSUME NEW M, NEW tree \in Seq(M), NEW id \in Ids(tree)
  PROVE  Newest(tree, id) \in Ids(tree)
<1> DEFINE S == {m \in Range(tree) : m.parent = id}
           kids == Those(tree, S)
<1>1. kids \in Seq(M) /\ Range(kids) \subseteq Range(tree)
  <2> HIDE DEF S
  <2> QED BY ThoseElements
<1>2. kids # <<>> => Last(kids) \in Range(tree)
  <2> HIDE DEF kids
  <2> QED BY <1>1, LastIsOne
<1>3. \A m \in Range(tree) : m.id \in Ids(tree)
  BY HeldIds
<1> HIDE DEF kids
<1>4. (IF kids = <<>> THEN id ELSE Last(kids).id) \in Ids(tree)
  BY <1>2, <1>3
<1> QED BY <1>4 DEF Newest, kids

Descent(tree, start, at) ==
  /\ at \in [0..Len(tree) -> Ids(tree)]
  /\ at[0] = start
  /\ \A n \in 1..Len(tree) : at[n] = Newest(tree, at[n-1])
  /\ DeepestLeaf(tree, start) = at[Len(tree)]

LEMMA DescentSteps ==
  ASSUME NEW M, NEW tree \in Seq(M), NEW start \in Ids(tree)
  PROVE  \E at : Descent(tree, start, at)
<1> DEFINE L == Len(tree)
           V == Ids(tree)
           Next1(id) == Newest(tree, id)
           step == [n \in 1..L |-> [q \in V |-> Next1(q)]]
           Eq(f) == f = [n \in 0..L |-> IF n = 0 THEN start ELSE Next1(f[n-1])]
           f == CHOOSE f : Eq(f)
<1>1. L \in Nat /\ start \in V
  OBVIOUS
<1>2. \A q \in V : Next1(q) \in V
  BY NewestHeld
<1>3. step \in [1..L -> [V -> V]]
  <2> HIDE DEF Next1, V, L
  <2> QED BY <1>2
<1>4. PICK g : Runs(L, V, start, step, g)
  <2> HIDE DEF step, V, L
  <2> QED BY <1>1, <1>3, Recursion
<1>5. \A n \in 1..L : g[n] = Next1(g[n-1])
  <2> HIDE DEF Next1, V
  <2>1. \A n \in 1..L : n - 1 \in 0..L
    BY <1>1
  <2> QED BY <1>4, <2>1 DEF Runs
<1>6. Eq(g)
  <2> HIDE DEF Next1, V
  <2>1. \A n \in 0..L : n # 0 => n \in 1..L
    BY <1>1
  <2>2. \A n \in 0..L : g[n] = IF n = 0 THEN start ELSE Next1(g[n-1])
    BY <1>4, <1>5, <2>1 DEF Runs
  <2>3. g = [n \in 0..L |-> g[n]]
    BY <1>4 DEF Runs
  <2> QED BY <2>2, <2>3
<1>7. Eq(f)
  <2> HIDE DEF Eq
  <2> QED BY <1>6
<1> DEFINE h == f
<1>8. DOMAIN h = 0..L /\ h[0] = start /\ (\A n \in 1..L : h[n] = Next1(h[n-1])) /\ h = [n \in 0..L |-> h[n]]
  <2> DEFINE X(n) == IF n = 0 THEN start ELSE Next1(h[n-1])
  <2> HIDE DEF Next1, h
  <2>1. h = [n \in 0..L |-> X(n)]
    BY <1>7 DEF h
  <2>2. \A n \in 1..L : n \in 0..L /\ n # 0
    BY <1>1
  <2>3. 0 \in 0..L
    BY <1>1
  <2>4. DOMAIN h = 0..L /\ h[0] = start /\ \A n \in 1..L : h[n] = Next1(h[n-1])
    BY <2>1, <2>2, <2>3
  <2>5. h = [n \in 0..L |-> h[n]]
    <3> HIDE DEF X
    <3> QED BY <2>1
  <2> QED BY <2>4, <2>5
<1>9. DeepestLeaf(tree, start) = h[L]
  BY DEF DeepestLeaf, Newest
<1> HIDE DEF h
<1>10. \A n \in 0..L : h[n] \in V
  <2> HIDE DEF V, Next1
  <2> DEFINE T == {n \in 0..L : h[n] \in V}
  <2>1. 0 \in T
    BY <1>1, <1>8
  <2>2. \A n \in 1..L : n - 1 \in T => n \in T
    BY <1>2, <1>8
  <2>3. \A n \in 0..L : n \in T
    <3> HIDE DEF T
    <3> QED BY <1>1, <2>1, <2>2, Climbs
  <2> QED BY <2>3
<1>11. Descent(tree, start, h)
  BY <1>8, <1>9, <1>10 DEF Descent
<1> QED BY <1>11

LEMMA DeepestIsHeld ==
  ASSUME NEW M, NEW tree \in Seq(M), NEW start \in Ids(tree)
  PROVE  DeepestLeaf(tree, start) \in Ids(tree)
<1>1. Len(tree) \in 0..Len(tree)
  OBVIOUS
<1> QED BY <1>1, DescentSteps DEF Descent

-----------------------------------------------------------------------------
(* The initial state of the server.                                        *)

LEMMA InitIInv == Init => IInv
<1> SUFFICES ASSUME Init PROVE IInv
  OBVIOUS
<1>1. TypeOK
  <2>1. NewChat \in Chat
    BY ChatMade, EmptyInSeq DEF NewChat, Tree
  <2>2. NoTurn \in Turn
    BY DEF NoTurn, Turn, Kinds
  <2>3. links \in [Links -> Link]
    BY DEF Init, Link
  <2> QED BY <2>1, <2>2, <2>3 DEF Init, TypeOK
<1>2. \A c \in Chats : TreeOf(c) = <<>> /\ chats[c].leaf = NoMsg
  BY DEF Init, NewChat, TreeOf
<1>3. \A t \in Turns : turns[t].pc = "unused"
  BY DEF Init, NoTurn
<1>4. LeavesHeld /\ ParentsHeld /\ AbsentIsEmpty /\ UsersAreWritten /\ AnswersAreWritten
  BY <1>2, EmptyTree DEF LeavesHeld, ParentsHeld, AbsentIsEmpty, UsersAreWritten, AnswersAreWritten
<1>5. TurnsFit
  BY <1>3 DEF TurnsFit, TurnFits
<1> QED BY <1>1, <1>4, <1>5 DEF IInv, TreeInv

-----------------------------------------------------------------------------
(* What steps do to trees and turns.                                       *)

\* Turn t may move; trees may gain a message or be deleted with their conversation.
OnlyTurn(t) == turns' \in [Turns -> Turn] /\ \A u \in Turns \ {t} : turns'[u] = turns[u]

TreesGrow ==
  \A d \in Chats :
    /\ chats[d].state # "absent" => chats'[d].state # "absent"
    /\ chats'[d].state # "deleted" =>
         chats[d].state # "deleted" /\ Ids(TreeOf(d)) \subseteq Ids(TreeOf(d)')

LEMMA FitsStays ==
  ASSUME IInv, TreesGrow, NEW u \in Turns, turns'[u] = turns[u]
  PROVE  TurnFits(u)'
<1>1. TurnFits(u)
  BY DEF IInv, TreeInv, TurnsFit
<1>2. turns[u].chat \in Chats => /\ chats[turns[u].chat].state # "absent" => chats'[turns[u].chat].state # "absent"
                                 /\ chats'[turns[u].chat].state # "deleted" =>
                                      /\ chats[turns[u].chat].state # "deleted"
                                      /\ Ids(TreeOf(turns[u].chat)) \subseteq Ids(TreeOf(turns[u].chat)')
  BY DEF TreesGrow
<1>3. turns[u].pc = "open" => OpenFits(u)'
  BY <1>1, <1>2 DEF TurnFits, OpenFits, TreeOf
<1>4. turns[u].pc = "streaming" => StreamingFits(u)'
  BY <1>1, <1>2 DEF TurnFits, StreamingFits, TreeOf
<1> QED BY <1>3, <1>4 DEF TurnFits

\* A conversation gets a message, which is selected.
Grows(c, id, parent) ==
  /\ chats' \in [Chats -> Chat]
  /\ \A d \in Chats \ {c} : chats'[d] = chats[d]
  /\ chats'[c].leaf = id
  /\ chats'[c].state \in {"live", "archived"}
  /\ Range(chats'[c].tree) = Range(chats[c].tree) \cup {Message(id, parent)}

LEMMA GrowthIds ==
  ASSUME NEW c \in Chats, NEW id, NEW parent, Grows(c, id, parent)
  PROVE  /\ Ids(chats'[c].tree) = Ids(chats[c].tree) \cup {id}
         /\ \A d \in Chats \ {c} : chats'[d].tree = chats[d].tree
<1>1. \A m \in Range(chats'[c].tree) : m \in Range(chats[c].tree) \/ m = Message(id, parent)
  BY DEF Grows
<1>2. Message(id, parent).id = id
  BY DEF Message
<1>3. {m.id : m \in Range(chats'[c].tree)} = {m.id : m \in Range(chats[c].tree)} \cup {id}
  BY <1>1, <1>2 DEF Grows
<1> QED BY <1>3, HeldIds DEF Grows

LEMMA GrowthKeeps ==
  ASSUME IInv, NEW c \in Chats, NEW id \in MessageIds, NEW parent \in Ids(TreeOf(c)) \cup {NoMsg},
         chats[c].state # "deleted", Grows(c, id, parent)
  PROVE  LeavesHeld' /\ ParentsHeld' /\ AbsentIsEmpty' /\ TreesGrow
<1> USE DEF TreeOf
<1>1. /\ Ids(chats'[c].tree) = Ids(chats[c].tree) \cup {id}
      /\ \A d \in Chats \ {c} : chats'[d].tree = chats[d].tree
  BY GrowthIds
<1>2. \A d \in Chats \ {c} : chats'[d] = chats[d]
  BY DEF Grows
<1>3. chats'[c].leaf = id /\ chats'[c].state \in {"live", "archived"}
  BY DEF Grows
<1>4. LeavesHeld'
  <2>1. \A d \in Chats \ {c} : chats'[d].leaf \in Ids(chats'[d].tree) \cup {NoMsg}
    BY <1>2 DEF IInv, TreeInv, LeavesHeld
  <2> QED BY <1>1, <1>3, <2>1 DEF LeavesHeld
<1>5. ParentsHeld'
  <2>1. \A d \in Chats \ {c} : \A m \in Range(chats'[d].tree) : m.parent \in Ids(chats'[d].tree) \cup {NoMsg}
    BY <1>2 DEF IInv, TreeInv, ParentsHeld
  <2>2. \A m \in Range(chats[c].tree) : m.parent \in Ids(chats[c].tree) \cup {NoMsg}
    BY DEF IInv, TreeInv, ParentsHeld
  <2>3. Message(id, parent).parent = parent
    BY DEF Message
  <2>4. \A m \in Range(chats'[c].tree) : m \in Range(chats[c].tree) \/ m = Message(id, parent)
    BY DEF Grows
  <2>5. \A m \in Range(chats'[c].tree) : m.parent \in Ids(chats'[c].tree) \cup {NoMsg}
    BY <1>1, <2>2, <2>3, <2>4
  <2> QED BY <2>1, <2>5 DEF ParentsHeld
<1>6. AbsentIsEmpty'
  BY <1>2, <1>3 DEF IInv, TreeInv, AbsentIsEmpty
<1>7. TreesGrow
  BY <1>1, <1>2, <1>3 DEF TreesGrow
<1> QED BY <1>4, <1>5, <1>6, <1>7

\* A turn that has written its messages has; no step writes others than those it names.
PcForward ==
  \A u \in Turns :
    /\ turns[u].pc \in {"streaming", "ended", "dead"} => turns'[u].pc \in {"streaming", "ended", "dead"}
    /\ turns[u].pc = "ended" => turns'[u].pc = "ended"

LEMMA WrittenStays ==
  ASSUME IInv, PcForward, \A d \in Chats : Ids(TreeOf(d)') \subseteq Ids(TreeOf(d))
  PROVE  UsersAreWritten' /\ AnswersAreWritten'
BY DEF IInv, TreeInv, PcForward, UsersAreWritten, AnswersAreWritten

\* A step that leaves the conversations alone and moves one turn.
LEMMA TurnStep ==
  ASSUME IInv, NEW t \in Turns, OnlyTurn(t), UNCHANGED <<chats, links>>, PcForward, TurnFits(t)'
  PROVE  IInv'
<1>1. TreesGrow
  BY DEF TreesGrow, TreeOf
<1>2. \A u \in Turns \ {t} : TurnFits(u)'
  BY <1>1, FitsStays DEF OnlyTurn
<1>3. TurnsFit'
  BY <1>2 DEF TurnsFit
<1>4. LeavesHeld' /\ ParentsHeld' /\ AbsentIsEmpty'
  BY DEF IInv, TreeInv, LeavesHeld, ParentsHeld, AbsentIsEmpty, TreeOf
<1>5. UsersAreWritten' /\ AnswersAreWritten'
  BY WrittenStays DEF TreeOf
<1>6. TypeOK'
  BY DEF IInv, TypeOK, OnlyTurn
<1> QED BY <1>3, <1>4, <1>5, <1>6 DEF IInv, TreeInv

-----------------------------------------------------------------------------
(* The steps of a turn.                                                    *)

\* What an accepted request names is in its conversation.
LEMMA RequestFits ==
  ASSUME IInv, NEW t \in Turns, NEW r \in Request, Acceptable(r)
  PROVE  /\ r.kind \in Kinds /\ r.chat \in Chats \cup {NoChat}
         /\ AnswerParent(t, r) \in UserIds /\ UserParent(r) \in MessageIds \cup {NoMsg}
         /\ r.kind # "regenerate" => AnswerParent(t, r) = UserMsg(t)
         /\ r.chat = NoChat => r.kind # "regenerate"
         /\ r.chat \in Chats =>
              /\ chats[r.chat].state = "live"
              /\ UserParent(r) \in Ids(TreeOf(r.chat)) \cup {NoMsg}
              /\ r.kind = "regenerate" => AnswerParent(t, r) \in Ids(TreeOf(r.chat))
<1> DEFINE c == r.chat
           id == r.target
<1>1. /\ r.kind \in {"new", "edit", "regenerate", "agent"} /\ r.kind \in Kinds /\ c \in Chats \cup {NoChat}
      /\ id \in MessageIds \cup LocalIds \cup {NoMsg}
  BY DEF Request, Kinds
<1>2. r.kind \in {"edit", "regenerate"} => id # NoMsg
  BY DEF Acceptable
<1>3. r.kind # "agent" /\ id # NoMsg => c # NoChat /\ id \in Ids(TreeOf(c))
  BY DEF Acceptable, Holds, TreeOf
<1>4. c = NoChat => r.kind \notin {"edit", "regenerate"} /\ (r.kind = "new" => id = NoMsg)
  BY <1>2, <1>3
<1>5. c # NoChat => c \in Chats /\ chats[c].state = "live" /\ Ids(TreeOf(c)) \subseteq MessageIds
  BY <1>1, IdsTyped DEF Acceptable, IInv
<1>6. c # NoChat /\ id \in Ids(TreeOf(c)) =>
        ParentIn(TreeOf(c), id) \in Ids(TreeOf(c)) \cup {NoMsg}
  <2> SUFFICES ASSUME c # NoChat, id \in Ids(TreeOf(c))
               PROVE  ParentIn(TreeOf(c), id) \in Ids(TreeOf(c)) \cup {NoMsg}
    OBVIOUS
  <2>1. PICK m \in Range(TreeOf(c)) : ParentIn(TreeOf(c), id) = m.parent
    BY ParentOfOne
  <2> QED BY <2>1, <1>5 DEF IInv, TreeInv, ParentsHeld
<1>7. r.kind = "regenerate" => AnswerParent(t, r) \in UserIds /\ AnswerParent(t, r) \in Ids(TreeOf(c))
  <2> SUFFICES ASSUME r.kind = "regenerate"
               PROVE  AnswerParent(t, r) \in UserIds /\ AnswerParent(t, r) \in Ids(TreeOf(c))
    OBVIOUS
  <2>1. c # NoChat /\ id \in Ids(TreeOf(c)) /\ id \in MessageIds
    BY <1>2, <1>3, <1>5
  <2>2. id.role = "user" \/ ParentIn(TreeOf(c), id) \in UserIds
    BY DEF Acceptable, TreeOf
  <2>3. CASE id.role = "user"
    BY <2>1, <2>3, RolesTell DEF AnswerParent
  <2>4. CASE id.role # "user"
    BY <2>1, <2>2, <2>4, <1>6, NoMsgIsNone DEF AnswerParent, TreeOf
  <2> QED BY <2>3, <2>4
<1>8. r.kind # "regenerate" => AnswerParent(t, r) = UserMsg(t)
  BY DEF AnswerParent
<1>9. UserParent(r) = NoMsg \/ (c # NoChat /\ UserParent(r) \in Ids(TreeOf(c)) \cup {NoMsg})
  <2>1. c = NoChat => UserParent(r) = NoMsg
    BY DEF UserParent
  <2>2. c # NoChat /\ r.kind = "regenerate" => UserParent(r) = NoMsg
    BY DEF UserParent
  <2>3. c # NoChat /\ r.kind = "edit" => UserParent(r) = ParentIn(TreeOf(c), id) /\ id \in Ids(TreeOf(c))
    BY <1>2, <1>3 DEF UserParent, TreeOf
  <2>4. c # NoChat /\ r.kind = "new" /\ id # NoMsg => UserParent(r) = id /\ id \in Ids(TreeOf(c))
    BY <1>3 DEF UserParent
  <2>5. c # NoChat /\ (r.kind = "agent" \/ (r.kind = "new" /\ id = NoMsg)) => UserParent(r) = chats[c].leaf
    BY DEF UserParent
  <2>6. c # NoChat => chats[c].leaf \in Ids(TreeOf(c)) \cup {NoMsg}
    BY <1>5 DEF IInv, TreeInv, LeavesHeld
  <2> QED BY <1>1, <1>6, <2>1, <2>2, <2>3, <2>4, <2>5, <2>6
<1>10. UserMsg(t) \in UserIds
  BY MessagesDiffer
<1>11. UserParent(r) \in MessageIds \cup {NoMsg}
  BY <1>5, <1>9
<1> QED BY <1>1, <1>4, <1>5, <1>7, <1>8, <1>9, <1>10, <1>11, ChatsAreNumbers

LEMMA OpenTurnStep ==
  ASSUME IInv, NEW t \in Turns, NEW r \in Request, OpenTurn(t, r)
  PROVE  IInv' /\ UNCHANGED chats
<1>1. Acceptable(r) /\ UNCHANGED <<chats, links>> /\ turns[t].pc = "unused"
  BY DEF OpenTurn
<1> DEFINE opened == [pc |-> "open", kind |-> r.kind, chat |-> r.chat,
                      under |-> AnswerParent(t, r), parent |-> UserParent(r), text |-> FALSE]
<1>2. turns' = [turns EXCEPT ![t] = opened]
  BY DEF OpenTurn
<1>3. opened \in Turn
  BY <1>1, RequestFits DEF Turn
<1>4. OnlyTurn(t) /\ turns'[t] = opened
  BY <1>2, <1>3 DEF IInv, TypeOK, OnlyTurn
<1>5. PcForward
  BY <1>1, <1>4 DEF PcForward, OnlyTurn
<1>6. OpenFits(t)'
  <2>1. /\ turns'[t].kind = r.kind /\ turns'[t].chat = r.chat /\ turns'[t].under = AnswerParent(t, r)
        /\ turns'[t].parent = UserParent(r)
    BY <1>4
  <2> QED BY <1>1, <2>1, RequestFits DEF OpenFits, TreeOf
<1>7. TurnFits(t)'
  BY <1>4, <1>6 DEF TurnFits
<1> QED BY <1>1, <1>4, <1>5, <1>7, TurnStep

LEMMA PcEnds ==
  ASSUME IInv, NEW t \in Turns, NEW pc \in {"rejected", "dead", "ended"},
         turns' = [turns EXCEPT ![t].pc = pc], UNCHANGED <<chats, links>>,
         turns[t].pc \in {"unused", "open"} \/ (turns[t].pc = "streaming" /\ pc # "rejected")
  PROVE  IInv'
<1>1. turns \in [Turns -> Turn]
  BY DEF IInv, TypeOK
<1>2. [turns[t] EXCEPT !.pc = pc] \in Turn
  BY <1>1 DEF Turn
<1>3. OnlyTurn(t) /\ turns'[t].pc = pc
  BY <1>1, <1>2, TurnTyped DEF OnlyTurn, Turn
<1>4. PcForward
  BY <1>3 DEF PcForward, OnlyTurn
<1>5. TurnFits(t)'
  BY <1>3 DEF TurnFits
<1> QED BY <1>3, <1>4, <1>5, TurnStep

\* A turn that is refused, dies or hears its first text keeps what fits it.
LEMMA PcStep ==
  ASSUME IInv, NEW t \in Turns, \/ \E r \in Request : Reject(t, r)
                                \/ CrashTurn(t) \/ StreamText(t)
  PROVE  IInv' /\ UNCHANGED chats
<1> SUFFICES IInv'
  BY DEF Reject, CrashTurn, StreamText
<1>1. UNCHANGED <<chats, links>>
  BY DEF Reject, CrashTurn, StreamText
<1>2. turns \in [Turns -> Turn]
  BY DEF IInv, TypeOK
<1>4. CASE StreamText(t)
  <2>1. [turns[t] EXCEPT !.text = TRUE] \in Turn
    BY <1>2 DEF Turn
  <2>2. /\ OnlyTurn(t) /\ turns'[t].pc = turns[t].pc /\ turns'[t].chat = turns[t].chat
        /\ turns'[t].under = turns[t].under /\ turns[t].pc = "streaming"
    BY <1>2, <1>4, <2>1, TurnTyped DEF OnlyTurn, StreamText, Turn
  <2>3. PcForward
    BY <2>2 DEF PcForward, OnlyTurn
  <2>4. StreamingFits(t)
    BY <2>2 DEF IInv, TreeInv, TurnsFit, TurnFits
  <2>5. TurnFits(t)'
    BY <1>1, <2>2, <2>4 DEF TurnFits, StreamingFits, TreeOf
  <2> QED BY <1>1, <2>2, <2>3, <2>5, TurnStep
<1>5. CASE \E r \in Request : Reject(t, r)
  BY <1>1, <1>5, PcEnds DEF Reject
<1>6. CASE CrashTurn(t)
  <2>1. CASE turns[t].pc = "open"
    BY <1>1, <1>6, <2>1, PcEnds DEF CrashTurn
  <2>2. CASE turns[t].pc = "streaming"
    BY <1>1, <1>6, <2>2, PcEnds DEF CrashTurn
  <2> QED BY <1>6, <2>1, <2>2 DEF CrashTurn
<1> QED BY <1>4, <1>5, <1>6

\* The step of a turn that writes its user message.
LEMMA SaidStep ==
  ASSUME IInv, NEW t \in Turns, NEW c \in Chats, NEW parent \in Ids(TreeOf(c)) \cup {NoMsg},
         turns[t].pc = "open", turns[t].under = UserMsg(t), chats[c].state # "deleted",
         Grows(c, UserMsg(t), parent), OnlyTurn(t), UNCHANGED links,
         turns'[t].pc = "streaming", turns'[t].chat = c, turns'[t].under = turns[t].under
  PROVE  IInv'
<1>1. UserMsg(t) \in MessageIds /\ UserMsg(t) \in UserIds
  BY MessagesDiffer DEF MessageIds
<1>2. LeavesHeld' /\ ParentsHeld' /\ AbsentIsEmpty' /\ TreesGrow
  BY <1>1, GrowthKeeps
<1>3. /\ Ids(TreeOf(c)') = Ids(TreeOf(c)) \cup {UserMsg(t)}
      /\ \A d \in Chats \ {c} : Ids(TreeOf(d)') = Ids(TreeOf(d))
  BY GrowthIds DEF TreeOf
<1>4. \A u \in Turns \ {t} : turns'[u] = turns[u]
  BY DEF OnlyTurn
<1>5. UsersAreWritten'
  BY <1>3, <1>4, MessagesDiffer DEF IInv, TreeInv, UsersAreWritten
<1>6. AnswersAreWritten'
  BY <1>3, <1>4, MessagesDiffer DEF IInv, TreeInv, AnswersAreWritten
<1>7. TurnsFit'
  <2>1. \A u \in Turns \ {t} : TurnFits(u)'
    BY <1>2, <1>4, FitsStays
  <2>2. chats'[c].state # "absent"
    BY DEF Grows
  <2>3. TurnFits(t)'
    BY <1>1, <1>3, <2>2 DEF TurnFits, StreamingFits, TreeOf
  <2> QED BY <2>1, <2>3 DEF TurnsFit
<1>8. TypeOK'
  BY DEF IInv, TypeOK, Grows, OnlyTurn
<1> QED BY <1>2, <1>5, <1>6, <1>7, <1>8 DEF IInv, TreeInv

\* The step of a turn that writes its answer.
LEMMA AnsweredStep ==
  ASSUME IInv, NEW t \in Turns, NEW c \in Chats,
         turns[t].pc = "streaming", turns[t].under \in Ids(TreeOf(c)), chats[c].state # "deleted",
         Grows(c, AnswerMsg(t), turns[t].under), OnlyTurn(t), UNCHANGED links,
         turns'[t].pc = "ended"
  PROVE  IInv'
<1>1. AnswerMsg(t) \in MessageIds
  BY MessagesDiffer DEF MessageIds
<1>2. LeavesHeld' /\ ParentsHeld' /\ AbsentIsEmpty' /\ TreesGrow
  BY <1>1, GrowthKeeps
<1>3. /\ Ids(TreeOf(c)') = Ids(TreeOf(c)) \cup {AnswerMsg(t)}
      /\ \A d \in Chats \ {c} : Ids(TreeOf(d)') = Ids(TreeOf(d))
  BY GrowthIds DEF TreeOf
<1>4. \A u \in Turns \ {t} : turns'[u] = turns[u]
  BY DEF OnlyTurn
<1>5. UsersAreWritten'
  BY <1>3, <1>4, MessagesDiffer DEF IInv, TreeInv, UsersAreWritten
<1>6. AnswersAreWritten'
  BY <1>3, <1>4, MessagesDiffer DEF IInv, TreeInv, AnswersAreWritten
<1>7. TurnsFit'
  BY <1>2, <1>4, FitsStays DEF TurnsFit, TurnFits
<1>8. TypeOK'
  BY DEF IInv, TypeOK, Grows, OnlyTurn
<1> QED BY <1>2, <1>5, <1>6, <1>7, <1>8 DEF IInv, TreeInv

\* Trees stay as they are; the leaf of c may move within its tree.
Selects(c, id) ==
  /\ chats' \in [Chats -> Chat]
  /\ \A d \in Chats \ {c} : chats'[d] = chats[d]
  /\ chats'[c].tree = chats[c].tree /\ chats'[c].state = chats[c].state /\ chats'[c].leaf = id

LEMMA SelectKeeps ==
  ASSUME IInv, NEW c \in Chats, NEW id \in Ids(TreeOf(c)), Selects(c, id), PcForward
  PROVE  LeavesHeld' /\ ParentsHeld' /\ AbsentIsEmpty' /\ TreesGrow /\ UsersAreWritten' /\ AnswersAreWritten'
<1>1. \A d \in Chats : TreeOf(d)' = TreeOf(d) /\ chats'[d].state = chats[d].state
  BY DEF Selects, TreeOf
<1>2. \A d \in Chats : chats'[d].leaf = chats[d].leaf \/ chats'[d].leaf \in Ids(TreeOf(d))
  BY DEF Selects
<1>3. LeavesHeld'
  BY <1>1, <1>2 DEF IInv, TreeInv, LeavesHeld
<1>4. ParentsHeld' /\ AbsentIsEmpty'
  BY <1>1 DEF IInv, TreeInv, ParentsHeld, AbsentIsEmpty
<1>5. TreesGrow
  BY <1>1 DEF TreesGrow
<1>6. UsersAreWritten' /\ AnswersAreWritten'
  BY <1>1, WrittenStays
<1> QED BY <1>3, <1>4, <1>5, <1>6

-----------------------------------------------------------------------------
(* What steps do to the abstract forest.                                   *)

LEMMA HeldIsIds ==
  ASSUME NEW c \in Chats
  PROVE  Forest!Held(c) = Ids(TreeOf(c))
BY HeldIds DEF Forest!Held, TreeOf

\* MessageForest's Grow for one parent.
GrowsForest(c, id, parent) ==
  /\ [d \in Chats |-> chats'[d].leaf] = [[d \in Chats |-> chats[d].leaf] EXCEPT ![c] = id]
  /\ [d \in Chats |-> Phase(d)'] = [[d \in Chats |-> Phase(d)] EXCEPT ![c] = "open"]
  /\ id \notin Forest!Written
  /\ [d \in Chats |-> Range(chats'[d].tree)]
       = [[d \in Chats |-> Range(chats[d].tree)] EXCEPT ![c] = @ \cup {[id |-> id, parent |-> parent]}]

LeafMoves == [d \in Chats |-> chats'[d].leaf] # [d \in Chats |-> chats[d].leaf]

LEMMA GrowIsForest ==
  ASSUME IInv, NEW c \in Chats, NEW id \in MessageIds, NEW parent,
         Grows(c, id, parent), \A d \in Chats : id \notin Ids(TreeOf(d))
  PROVE  GrowsForest(c, id, parent) /\ LeafMoves
<1>1. \A d \in Chats \ {c} : chats'[d] = chats[d]
  BY DEF Grows
<1>2. [d \in Chats |-> chats'[d].leaf] = [[d \in Chats |-> chats[d].leaf] EXCEPT ![c] = id]
  BY <1>1 DEF Grows
<1>3. \A d \in Chats : Phase(d)' = IF d = c THEN "open" ELSE Phase(d)
  BY <1>1 DEF Grows, Phase, Kept
<1>4. [d \in Chats |-> Phase(d)'] = [[d \in Chats |-> Phase(d)] EXCEPT ![c] = "open"]
  BY <1>3
<1>5. id \notin Forest!Written
  BY HeldIsIds DEF Forest!Written
<1>6. [id |-> id, parent |-> parent] = Message(id, parent)
  BY DEF Message
<1>7. [d \in Chats |-> Range(chats'[d].tree)]
        = [[d \in Chats |-> Range(chats[d].tree)] EXCEPT ![c] = @ \cup {[id |-> id, parent |-> parent]}]
  BY <1>1, <1>6 DEF Grows
<1>8. chats[c].leaf # id
  BY NoMsgIsNone DEF IInv, TreeInv, LeavesHeld
<1>9. chats'[c].leaf = id
  BY DEF Grows
<1> QED BY <1>2, <1>4, <1>5, <1>7, <1>8, <1>9 DEF GrowsForest, LeafMoves

LEMMA SaidIsForest ==
  ASSUME IInv, NEW t \in Turns, NEW c \in Chats, NEW parent \in Ids(TreeOf(c)) \cup {NoMsg},
         turns[t].pc = "open", chats[c].state # "deleted", Grows(c, UserMsg(t), parent)
  PROVE  Forest!ForestNext
<1>1. UserMsg(t) \in MessageIds /\ UserMsg(t) \in UserIds
  BY MessagesDiffer DEF MessageIds
<1>2. \A d \in Chats : UserMsg(t) \notin Ids(TreeOf(d))
  BY DEF IInv, TreeInv, UsersAreWritten
<1>3. Forest!Grow(c, UserMsg(t), Forest!Held(c) \cup {NoMsg})
  <2>1. parent \in Forest!Held(c) \cup {NoMsg}
    BY HeldIsIds
  <2>2. GrowsForest(c, UserMsg(t), parent)
    BY <1>1, <1>2, GrowIsForest
  <2> QED BY <2>1, <2>2 DEF GrowsForest, Forest!Grow
<1>4. LeafMoves
  BY <1>1, <1>2, GrowIsForest
<1>5. Phase(c) # "deleted"
  BY IdsTyped, ChatTyped DEF Phase, Kept, IInv
<1>6. Forest!Say(c, UserMsg(t))
  BY <1>3, <1>5 DEF Forest!Say
<1> QED BY <1>1, <1>4, <1>6 DEF Forest!ForestNext, LeafMoves

LEMMA AnsweredIsForest ==
  ASSUME IInv, NEW t \in Turns, NEW c \in Chats, NEW under \in Ids(TreeOf(c)), under \in UserIds,
         turns[t].pc = "streaming", Kept(c), Grows(c, AnswerMsg(t), under)
  PROVE  Forest!ForestNext
<1>1. AnswerMsg(t) \in MessageIds /\ AnswerMsg(t) \in AnswerIds
  BY MessagesDiffer DEF MessageIds
<1>2. \A d \in Chats : AnswerMsg(t) \notin Ids(TreeOf(d))
  BY DEF IInv, TreeInv, AnswersAreWritten
<1>3. Forest!Grow(c, AnswerMsg(t), Forest!Held(c) \cap UserIds)
  <2>1. under \in Forest!Held(c) \cap UserIds
    BY HeldIsIds
  <2>2. GrowsForest(c, AnswerMsg(t), under)
    BY <1>1, <1>2, GrowIsForest
  <2> QED BY <2>1, <2>2 DEF GrowsForest, Forest!Grow
<1>4. LeafMoves
  BY <1>1, <1>2, GrowIsForest
<1>5. Phase(c) = "open"
  BY DEF Phase, Kept
<1>6. Forest!Answer(c, AnswerMsg(t))
  BY <1>3, <1>5 DEF Forest!Answer
<1> QED BY <1>1, <1>4, <1>6 DEF Forest!ForestNext, LeafMoves

LEMMA SelectIsForest ==
  ASSUME IInv, NEW c \in Chats, NEW id \in Ids(TreeOf(c)), Kept(c), Selects(c, id)
  PROVE  Forest!ForestNext \/ UNCHANGED Forest!forestVars
<1>1. \A d \in Chats \ {c} : chats'[d] = chats[d]
  BY DEF Selects
<1>2. [d \in Chats |-> chats'[d].leaf] = [[d \in Chats |-> chats[d].leaf] EXCEPT ![c] = id]
  BY <1>1 DEF Selects
<1>3. [d \in Chats |-> Phase(d)'] = [d \in Chats |-> Phase(d)]
  BY <1>1 DEF Selects, Phase, Kept
<1>4. [d \in Chats |-> Range(chats'[d].tree)] = [d \in Chats |-> Range(chats[d].tree)]
  BY <1>1 DEF Selects
<1>5. Phase(c) = "open" /\ id \in UserIds \cup AnswerIds
  BY IdsTyped DEF Phase, Kept, IInv, MessageIds
<1>6. Forest!Select(c, id)
  BY <1>2, <1>3, <1>4, <1>5, HeldIsIds DEF Forest!Select
<1>7. CASE [d \in Chats |-> chats'[d].leaf] = [d \in Chats |-> chats[d].leaf]
  BY <1>3, <1>4, <1>7 DEF Forest!forestVars
<1>8. CASE [d \in Chats |-> chats'[d].leaf] # [d \in Chats |-> chats[d].leaf]
  BY <1>5, <1>6, <1>8 DEF Forest!ForestNext
<1> QED BY <1>7, <1>8

LEMMA SameIsForest ==
  ASSUME UNCHANGED chats
  PROVE  UNCHANGED Forest!forestVars
BY DEF Forest!forestVars, Phase, Kept

-----------------------------------------------------------------------------
(* Every action keeps the invariant and is a step of the forest or none.   *)

ForestStep == Forest!ForestNext \/ UNCHANGED Forest!forestVars

LEMMA StartChatStep ==
  ASSUME IInv, NEW t \in Turns, NEW c \in Chats, StartChat(t, c)
  PROVE  IInv' /\ ForestStep
<1>1. /\ turns[t].pc = "open" /\ turns[t].chat = NoChat /\ chats[c].state = "absent"
      /\ turns' = [turns EXCEPT ![t].pc = "streaming", ![t].chat = c, ![t].parent = NoMsg]
      /\ UNCHANGED links
  BY DEF StartChat
<1> DEFINE tree == <<Message(UserMsg(t), NoMsg)>>
           started == [state |-> "live", leaf |-> UserMsg(t), tree |-> tree]
<1>2. chats' = [chats EXCEPT ![c] = started]
  BY DEF StartChat
<1>3. UserMsg(t) \in MessageIds
  BY MessagesDiffer DEF MessageIds
<1>4. tree \in Tree /\ Range(tree) = {Message(UserMsg(t), NoMsg)}
  <2> DEFINE S == [id : MessageIds, parent : MessageIds \cup {NoMsg}]
             m == Message(UserMsg(t), NoMsg)
  <2>1. m \in S
    BY <1>3, MessageMade
  <2>2. <<m>> \in Seq(S) /\ <<m>> = Append(<<>>, m)
    BY <2>1
  <2>3. Range(Append(<<>>, m)) = Range(<<>>) \cup {m}
    BY <2>1, AppendRange, EmptyInSeq
  <2> QED BY <2>2, <2>3, EmptyTree DEF Tree
<1>5. started \in Chat
  BY <1>3, <1>4, ChatMade
<1>6. chats[c].tree = <<>>
  BY <1>1 DEF IInv, TreeInv, AbsentIsEmpty, TreeOf
<1>7. Grows(c, UserMsg(t), NoMsg)
  <2>1. chats' \in [Chats -> Chat] /\ chats'[c] = started /\ \A d \in Chats \ {c} : chats'[d] = chats[d]
    BY <1>2, <1>5 DEF IInv, TypeOK
  <2> QED BY <1>4, <1>6, <2>1, EmptyTree DEF Grows
<1>8. OpenFits(t)
  BY <1>1 DEF IInv, TreeInv, TurnsFit, TurnFits
<1>9. turns[t].under = UserMsg(t)
  BY <1>1, <1>8 DEF OpenFits
<1>10. OnlyTurn(t) /\ turns'[t].pc = "streaming" /\ turns'[t].chat = c /\ turns'[t].under = turns[t].under
  <2>1. turns \in [Turns -> Turn]
    BY DEF IInv, TypeOK
  <2>2. [turns[t] EXCEPT !.pc = "streaming", !.chat = c, !.parent = NoMsg] \in Turn
    BY <2>1 DEF Turn
  <2> QED BY <1>1, <2>1, <2>2, TurnTyped DEF OnlyTurn, Turn
<1>11. IInv'
  BY <1>1, <1>7, <1>9, <1>10, SaidStep
<1>12. Forest!ForestNext
  BY <1>1, <1>7, SaidIsForest
<1> QED BY <1>11, <1>12 DEF ForestStep

\* The writes of a turn in a conversation that is still there.
LEMMA AppendGrows ==
  ASSUME TypeOK, NEW c \in Chats, NEW id \in MessageIds, NEW parent \in MessageIds \cup {NoMsg},
         Kept(c), chats' = [chats EXCEPT ![c] = Append1(c, id, parent)]
  PROVE  Grows(c, id, parent)
<1>1. chats[c] \in Chat /\ TreeOf(c) \in Tree
  BY IdsTyped
<1> DEFINE longer == Append(TreeOf(c), Message(id, parent))
<1>2. longer \in Tree /\ Range(longer) = Range(TreeOf(c)) \cup {Message(id, parent)}
  <2> DEFINE S == [id : MessageIds, parent : MessageIds \cup {NoMsg}]
             m == Message(id, parent)
  <2>1. m \in S
    BY MessageMade
  <2>2. PICK tree \in Seq(S) : TreeOf(c) = tree
    BY <1>1 DEF Tree
  <2> HIDE DEF S, m
  <2>3. Append(tree, m) \in Seq(S) /\ Range(Append(tree, m)) = Range(tree) \cup {m}
    BY <2>1, AppendRange
  <2> QED BY <2>2, <2>3 DEF Tree, S, m
<1>3. Append1(c, id, parent) = [state |-> chats[c].state, leaf |-> id, tree |-> longer]
  BY DEF Append1, TreeOf
<1>4. Append1(c, id, parent) \in Chat
  <2> HIDE DEF longer
  <2>1. chats[c].state \in {"absent", "live", "archived", "deleted"}
    BY <1>1, ChatTyped
  <2> QED BY <1>2, <1>3, <2>1, ChatMade
<1>5. chats' \in [Chats -> Chat] /\ chats'[c] = Append1(c, id, parent) /\ \A d \in Chats \ {c} : chats'[d] = chats[d]
  BY <1>4 DEF TypeOK
<1>6. chats'[c].leaf = id /\ chats'[c].state = chats[c].state /\ chats'[c].tree = longer
  BY <1>3, <1>5
<1> QED BY <1>2, <1>5, <1>6 DEF Grows, Kept, TreeOf

LEMMA LeafSelects ==
  ASSUME TypeOK, NEW c \in Chats, NEW id \in MessageIds,
         \/ chats' = [chats EXCEPT ![c].leaf = id]
         \/ chats' = [chats EXCEPT ![c] = [chats[c] EXCEPT !.leaf = id]]
  PROVE  Selects(c, id)
<1>1. chats[c] \in Chat /\ chats \in [Chats -> Chat]
  BY DEF TypeOK
<1>2. chats' = [chats EXCEPT ![c] = [chats[c] EXCEPT !.leaf = id]]
  BY <1>1
<1> DEFINE moved == [chats[c] EXCEPT !.leaf = id]
<1>3. moved \in Chat /\ moved.tree = chats[c].tree /\ moved.state = chats[c].state /\ moved.leaf = id
  BY <1>1 DEF Chat
<1> QED BY <1>1, <1>2, <1>3 DEF Selects

\* A step that selects a message of the tree, and perhaps moves a turn.
LEMMA SelectedStep ==
  ASSUME IInv, NEW c \in Chats, NEW id \in Ids(TreeOf(c)), Kept(c), Selects(c, id), PcForward,
         turns' \in [Turns -> Turn], TurnsFit', UNCHANGED links
  PROVE  IInv' /\ ForestStep
<1>1. LeavesHeld' /\ ParentsHeld' /\ AbsentIsEmpty' /\ UsersAreWritten' /\ AnswersAreWritten'
  BY SelectKeeps
<1>2. TypeOK'
  BY DEF IInv, TypeOK, Selects
<1>3. ForestStep
  BY SelectIsForest DEF ForestStep
<1> QED BY <1>1, <1>2, <1>3 DEF IInv, TreeInv

LEMMA Streams ==
  ASSUME TypeOK, NEW t \in Turns,
         turns' = [turns EXCEPT ![t].pc = "streaming", ![t].parent = NoMsg]
  PROVE  /\ OnlyTurn(t) /\ turns'[t].pc = "streaming"
         /\ turns'[t].chat = turns[t].chat /\ turns'[t].under = turns[t].under
<1>1. turns \in [Turns -> Turn]
  BY DEF TypeOK
<1>2. [turns[t] EXCEPT !.pc = "streaming", !.parent = NoMsg] \in Turn
  BY <1>1 DEF Turn
<1> QED BY <1>1, <1>2, TurnTyped DEF OnlyTurn, Turn

LEMMA Ends ==
  ASSUME TypeOK, NEW t \in Turns, turns' = [turns EXCEPT ![t].pc = "ended"]
  PROVE  OnlyTurn(t) /\ turns'[t].pc = "ended"
<1>1. turns \in [Turns -> Turn]
  BY DEF TypeOK
<1>2. [turns[t] EXCEPT !.pc = "ended"] \in Turn
  BY <1>1 DEF Turn
<1> QED BY <1>1, <1>2, TurnTyped DEF OnlyTurn, Turn

LEMMA CommitTurnStep ==
  ASSUME IInv, NEW t \in Turns, CommitTurn(t)
  PROVE  IInv' /\ ForestStep
<1>1. turns[t].pc = "open" /\ turns[t].chat \in Chats /\ UNCHANGED links
  <2>1. turns[t] \in Turn
    BY DEF IInv, TypeOK
  <2> QED BY <2>1, TurnTyped DEF CommitTurn
<1>2. PICK c \in Chats : turns[t].chat = c
  BY <1>1
<1>3. PICK p : turns[t].parent = p
  OBVIOUS
<1>4. PICK u : turns[t].under = u
  OBVIOUS
<1>5. /\ u \in UserIds /\ chats[c].state # "absent"
      /\ turns[t].kind # "regenerate" => u = UserMsg(t)
      /\ chats[c].state # "deleted" =>
           /\ p \in Ids(TreeOf(c)) \cup {NoMsg}
           /\ turns[t].kind = "regenerate" => u \in Ids(TreeOf(c))
  BY <1>1, <1>2, <1>3, <1>4 DEF IInv, TreeInv, TurnsFit, TurnFits, OpenFits
<1>6. chats[c].state # "deleted" => Kept(c)
  BY <1>5, IdsTyped, ChatTyped DEF IInv, Kept
<1>7. CASE chats[c].state = "deleted"
  <2>1. turns' = [turns EXCEPT ![t].pc = "rejected"] /\ UNCHANGED chats
    BY <1>2, <1>7 DEF CommitTurn
  <2>2. IInv'
    BY <1>1, <2>1, PcEnds
  <2> QED BY <2>1, <2>2, SameIsForest DEF ForestStep
<1>8. CASE chats[c].state # "deleted" /\ turns[t].kind = "regenerate"
  <2>1. /\ turns' = [turns EXCEPT ![t].pc = "streaming", ![t].parent = NoMsg]
        /\ chats' = [chats EXCEPT ![c] = [chats[c] EXCEPT !.leaf = u]]
    BY <1>2, <1>4, <1>8 DEF CommitTurn
  <2>2. u \in MessageIds
    BY <1>5 DEF MessageIds
  <2>3. Selects(c, u)
    BY <2>1, <2>2, LeafSelects DEF IInv
  <2>4. /\ OnlyTurn(t) /\ turns'[t].pc = "streaming"
        /\ turns'[t].chat = c /\ turns'[t].under = u
    BY <1>2, <1>4, <2>1, Streams DEF IInv
  <2>5. PcForward
    BY <1>1, <2>4 DEF PcForward, OnlyTurn
  <2>6. TreesGrow
    BY <1>5, <1>8, <2>3, <2>5, SelectKeeps
  <2>7. \A v \in Turns \ {t} : TurnFits(v)'
    BY <2>4, <2>6, FitsStays DEF OnlyTurn
  <2>8. TurnFits(t)'
    BY <1>5, <1>8, <2>3, <2>4 DEF TurnFits, StreamingFits, Selects, TreeOf
  <2>9. TurnsFit'
    BY <2>7, <2>8 DEF TurnsFit
  <2> QED BY <1>1, <1>5, <1>6, <1>8, <2>3, <2>4, <2>5, <2>9, SelectedStep DEF OnlyTurn
<1>9. CASE chats[c].state # "deleted" /\ turns[t].kind # "regenerate"
  <2>1. /\ turns' = [turns EXCEPT ![t].pc = "streaming", ![t].parent = NoMsg]
        /\ chats' = [chats EXCEPT ![c] = Append1(c, UserMsg(t), p)]
    BY <1>2, <1>3, <1>9 DEF CommitTurn
  <2>2. UserMsg(t) \in MessageIds
    BY MessagesDiffer DEF MessageIds
  <2>3. p \in MessageIds \cup {NoMsg}
    BY <1>5, <1>9, IdsTyped DEF IInv
  <2>4. Grows(c, UserMsg(t), p)
    BY <1>6, <1>9, <2>1, <2>2, <2>3, AppendGrows DEF IInv
  <2>5. /\ OnlyTurn(t) /\ turns'[t].pc = "streaming"
        /\ turns'[t].chat = c /\ turns'[t].under = turns[t].under
    BY <1>2, <2>1, Streams DEF IInv
  <2>6. IInv'
    BY <1>1, <1>4, <1>5, <1>9, <2>4, <2>5, SaidStep
  <2>7. Forest!ForestNext
    BY <1>1, <1>5, <1>9, <2>4, SaidIsForest
  <2> QED BY <2>6, <2>7 DEF ForestStep
<1> QED BY <1>7, <1>8, <1>9

LEMMA EndTurnStep ==
  ASSUME IInv, NEW t \in Turns, EndTurn(t)
  PROVE  IInv' /\ ForestStep
<1>1. turns[t].pc = "streaming" /\ UNCHANGED links
  BY DEF EndTurn
<1>2. StreamingFits(t)
  BY <1>1 DEF IInv, TreeInv, TurnsFit, TurnFits
<1>3. PICK c \in Chats : turns[t].chat = c
  BY <1>2 DEF StreamingFits
<1>4. PICK u \in UserIds : turns[t].under = u
  BY <1>2 DEF StreamingFits
<1>5. chats[c].state # "absent" /\ (chats[c].state # "deleted" => u \in Ids(TreeOf(c)))
  BY <1>2, <1>3, <1>4 DEF StreamingFits
<1>6. chats[c].state # "deleted" => Kept(c)
  BY <1>5, IdsTyped, ChatTyped DEF IInv, Kept
<1>7. u \in MessageIds
  BY DEF MessageIds
<1>8. CASE chats[c].state = "deleted"
  <2>1. PICK pc \in {"dead", "ended"} : turns' = [turns EXCEPT ![t].pc = pc] /\ UNCHANGED chats
    BY <1>3, <1>8 DEF EndTurn
  <2>2. IInv'
    BY <1>1, <2>1, PcEnds
  <2> QED BY <2>1, <2>2, SameIsForest DEF ForestStep
<1>9. chats[c].state # "deleted" => OnlyTurn(t) /\ turns'[t].pc = "ended"
  BY <1>3, Ends DEF EndTurn, IInv
<1>10. CASE chats[c].state # "deleted" /\ Answers(t)
  <2>1. chats' = [chats EXCEPT ![c] = Append1(c, AnswerMsg(t), u)]
    BY <1>3, <1>4, <1>10 DEF EndTurn
  <2>2. AnswerMsg(t) \in MessageIds
    BY MessagesDiffer DEF MessageIds
  <2>3. Grows(c, AnswerMsg(t), u)
    BY <1>6, <1>7, <1>10, <2>1, <2>2, AppendGrows DEF IInv
  <2>4. IInv'
    BY <1>1, <1>4, <1>5, <1>9, <1>10, <2>3, AnsweredStep
  <2>5. Forest!ForestNext
    BY <1>1, <1>5, <1>6, <1>10, <2>3, AnsweredIsForest
  <2> QED BY <2>4, <2>5 DEF ForestStep
<1>11. CASE chats[c].state # "deleted" /\ ~Answers(t)
  <2>1. chats' = [chats EXCEPT ![c] = [chats[c] EXCEPT !.leaf = u]]
    BY <1>3, <1>4, <1>11 DEF EndTurn
  <2>2. Selects(c, u)
    BY <1>7, <2>1, LeafSelects DEF IInv
  <2>3. PcForward
    BY <1>1, <1>9, <1>11 DEF PcForward, OnlyTurn
  <2>4. TreesGrow
    BY <1>5, <1>11, <2>2, <2>3, SelectKeeps
  <2>5. \A v \in Turns \ {t} : TurnFits(v)'
    BY <1>9, <1>11, <2>4, FitsStays DEF OnlyTurn
  <2>6. TurnsFit'
    BY <1>9, <1>11, <2>5 DEF TurnsFit, TurnFits
  <2> QED BY <1>1, <1>5, <1>6, <1>9, <1>11, <2>2, <2>3, <2>6, SelectedStep DEF OnlyTurn
<1> QED BY <1>8, <1>10, <1>11

LEMMA SelectLeafStep ==
  ASSUME IInv, NEW c \in Chats, NEW id \in MessageIds, SelectLeaf(c, id)
  PROVE  IInv' /\ ForestStep
<1>1. Kept(c) /\ id \in Ids(TreeOf(c)) /\ UNCHANGED <<turns, links>>
  BY DEF SelectLeaf, Holds, TreeOf
<1>2. Selects(c, id)
  BY LeafSelects DEF SelectLeaf, IInv
<1>3. PcForward
  BY <1>1 DEF PcForward
<1>4. TreesGrow
  BY <1>1, <1>2, <1>3, SelectKeeps
<1>5. TurnsFit'
  BY <1>1, <1>4, FitsStays DEF TurnsFit
<1> QED BY <1>1, <1>2, <1>3, <1>5, SelectedStep DEF IInv, TypeOK

LEMMA SetArchivedStep ==
  ASSUME IInv, NEW c \in Chats, NEW state \in {"live", "archived"}, SetArchived(c, state)
  PROVE  IInv' /\ ForestStep
<1>1. Kept(c) /\ UNCHANGED <<turns, links>> /\ chats \in [Chats -> Chat]
  BY DEF SetArchived, IInv, TypeOK
<1> DEFINE moved == [chats[c] EXCEPT !.state = state]
<1>2. moved \in Chat /\ moved.tree = chats[c].tree /\ moved.leaf = chats[c].leaf /\ moved.state = state
  BY <1>1 DEF Chat
<1>3. chats' = [chats EXCEPT ![c] = moved]
  BY <1>1 DEF SetArchived
<1>4. /\ chats' \in [Chats -> Chat] /\ chats'[c].state = state
      /\ \A d \in Chats : chats'[d].tree = chats[d].tree /\ chats'[d].leaf = chats[d].leaf
      /\ \A d \in Chats \ {c} : chats'[d] = chats[d]
  BY <1>1, <1>2, <1>3
<1>5. TreesGrow
  BY <1>1, <1>4 DEF TreesGrow, TreeOf, Kept
<1>6. TurnsFit'
  BY <1>1, <1>5, FitsStays DEF TurnsFit
<1>7. LeavesHeld' /\ ParentsHeld' /\ AbsentIsEmpty'
  BY <1>4 DEF IInv, TreeInv, LeavesHeld, ParentsHeld, AbsentIsEmpty, TreeOf
<1>8. UsersAreWritten' /\ AnswersAreWritten'
  BY <1>1, <1>4, WrittenStays DEF PcForward, TreeOf
<1>9. TypeOK'
  BY <1>1, <1>4 DEF IInv, TypeOK
<1>10. UNCHANGED Forest!forestVars
  <2>1. \A d \in Chats : Phase(d)' = Phase(d)
    BY <1>1, <1>4 DEF Phase, Kept
  <2> QED BY <1>4, <2>1 DEF Forest!forestVars
<1> QED BY <1>6, <1>7, <1>8, <1>9, <1>10 DEF IInv, TreeInv, ForestStep

LEMMA DeleteStep ==
  ASSUME IInv, NEW c \in Chats, Delete(c)
  PROVE  IInv' /\ ForestStep
<1> DEFINE gone == [state |-> "deleted", leaf |-> NoMsg, tree |-> <<>>]
<1>1. Kept(c) /\ UNCHANGED turns /\ chats' = [chats EXCEPT ![c] = gone]
  BY DEF Delete
<1>2. gone \in Chat
  BY ChatMade, EmptyInSeq DEF Tree
<1>3. /\ chats' \in [Chats -> Chat] /\ \A d \in Chats \ {c} : chats'[d] = chats[d]
      /\ chats'[c].state = "deleted" /\ chats'[c].leaf = NoMsg /\ chats'[c].tree = <<>>
  BY <1>1, <1>2 DEF IInv, TypeOK
<1>4. TreesGrow
  BY <1>3 DEF TreesGrow, TreeOf
<1>5. TurnsFit'
  BY <1>1, <1>4, FitsStays DEF TurnsFit
<1>6. LeavesHeld' /\ ParentsHeld' /\ AbsentIsEmpty'
  BY <1>3, EmptyTree DEF IInv, TreeInv, LeavesHeld, ParentsHeld, AbsentIsEmpty, TreeOf
<1>7. UsersAreWritten' /\ AnswersAreWritten'
  <2>1. \A d \in Chats : Ids(TreeOf(d)') \subseteq Ids(TreeOf(d))
    BY <1>3, EmptyTree DEF TreeOf
  <2> QED BY <1>1, <2>1, WrittenStays DEF PcForward
<1>8. links' \in [Links -> Link]
  <2>1. links \in [Links -> Link]
    BY DEF IInv, TypeOK
  <2>2. \A l \in Links : [links[l] EXCEPT !.state = "gone"] \in Link
    BY <2>1 DEF Link
  <2> QED BY <2>1, <2>2 DEF Delete
<1>9. TypeOK'
  BY <1>1, <1>3, <1>8 DEF IInv, TypeOK
<1>10. Forest!Remove(c)
  <2>1. Phase(c) = "open"
    BY <1>1 DEF Phase, Kept
  <2>2. [d \in Chats |-> Phase(d)'] = [[d \in Chats |-> Phase(d)] EXCEPT ![c] = "deleted"]
    BY <1>3 DEF Phase, Kept
  <2>3. [d \in Chats |-> Range(chats'[d].tree)] = [[d \in Chats |-> Range(chats[d].tree)] EXCEPT ![c] = {}]
    BY <1>3, EmptyTree
  <2>4. [d \in Chats |-> chats'[d].leaf] = [[d \in Chats |-> chats[d].leaf] EXCEPT ![c] = NoMsg]
    BY <1>3
  <2> QED BY <2>1, <2>2, <2>3, <2>4 DEF Forest!Remove
<1>11. [d \in Chats |-> Phase(d)'] # [d \in Chats |-> Phase(d)]
  <2>1. Phase(c) = "open" /\ Phase(c)' = "deleted"
    BY <1>1, <1>3 DEF Phase, Kept
  <2> QED BY <2>1
<1>12. Forest!ForestNext
  BY <1>10, <1>11 DEF Forest!ForestNext
<1> QED BY <1>5, <1>6, <1>7, <1>9, <1>12 DEF IInv, TreeInv, ForestStep

LEMMA SharingStep ==
  ASSUME IInv, Sharing
  PROVE  IInv' /\ ForestStep
<1>1. UNCHANGED <<chats, turns>>
  BY DEF Sharing, AskLink, MakeLink, RevokeLink
<1>2. links \in [Links -> Link]
  BY DEF IInv, TypeOK
<1>3. PICK l \in Links : RevokeLink(l) \/ MakeLink(l) \/ \E c \in Chats : AskLink(l, c)
  BY DEF Sharing
<1>4. RevokeLink(l) \/ MakeLink(l) => links' \in [Links -> Link]
  <2> SUFFICES ASSUME RevokeLink(l) \/ MakeLink(l) PROVE links' \in [Links -> Link]
    OBVIOUS
  <2>1. PICK state \in {"revoked", "refused", "existing", "live"} :
          links' = [links EXCEPT ![l].state = state]
    BY DEF RevokeLink, MakeLink
  <2>2. [links[l] EXCEPT !.state = state] \in Link
    BY <1>2 DEF Link
  <2> QED BY <1>2, <2>1, <2>2
<1>5. (\E c \in Chats : AskLink(l, c)) => links' \in [Links -> Link]
  <2> SUFFICES ASSUME NEW c \in Chats, AskLink(l, c) PROVE links' \in [Links -> Link]
    OBVIOUS
  <2>1. chats[c].leaf \in MessageIds \cup {NoMsg}
    BY IdsTyped, ChatTyped DEF IInv
  <2>2. [state |-> "asked", chat |-> c, leaf |-> chats[c].leaf] \in Link
    BY <2>1 DEF Link
  <2> QED BY <1>2, <2>2 DEF AskLink
<1>6. links' \in [Links -> Link]
  BY <1>3, <1>4, <1>5
<1>7. IInv'
  <2>1. TreesGrow
    BY <1>1 DEF TreesGrow, TreeOf
  <2>2. TurnsFit'
    BY <1>1, <2>1, FitsStays DEF TurnsFit
  <2>3. LeavesHeld' /\ ParentsHeld' /\ AbsentIsEmpty' /\ UsersAreWritten' /\ AnswersAreWritten'
    BY <1>1 DEF IInv, TreeInv, LeavesHeld, ParentsHeld, AbsentIsEmpty, UsersAreWritten,
                AnswersAreWritten, TreeOf
  <2> QED BY <1>1, <1>6, <2>2, <2>3 DEF IInv, TypeOK, TreeInv
<1> QED BY <1>1, <1>7, SameIsForest DEF ForestStep

LEMMA RequestsStep ==
  ASSUME IInv, Requests
  PROVE  IInv' /\ UNCHANGED chats
<1>1. PICK t \in Turns, kind \in Kinds, c \in Chats \cup {NoChat}, id \in MessageIds \cup {NoMsg} :
        Receive(t, [kind |-> kind, chat |-> c, target |-> id])
  BY DEF Requests
<1> DEFINE r == [kind |-> kind, chat |-> c, target |-> id]
<1>2. r \in Request
  BY DEF Request
<1> HIDE DEF r
<1>3. OpenTurn(t, r) \/ Reject(t, r)
  BY <1>1 DEF Receive, r
<1> QED BY <1>2, <1>3, OpenTurnStep, PcStep

LEMMA IInvNext == IInv /\ [Next]_serverVars => IInv' /\ ForestStep
<1> SUFFICES ASSUME IInv, [Next]_serverVars
             PROVE  IInv' /\ ForestStep
  OBVIOUS
<1>1. CASE Requests
  BY <1>1, RequestsStep, SameIsForest DEF ForestStep
<1>2. CASE Owner
  BY <1>2, SelectLeafStep, SetArchivedStep, DeleteStep DEF Owner
<1>3. CASE Sharing
  BY <1>3, SharingStep
<1>4. CASE \E t \in Turns : Serve(t) \/ StreamText(t) \/ CrashTurn(t)
  <2>1. PICK t \in Turns : Serve(t) \/ StreamText(t) \/ CrashTurn(t)
    BY <1>4
  <2>2. CASE Serve(t)
    BY <2>2, CommitTurnStep, EndTurnStep, StartChatStep DEF Serve
  <2>3. CASE StreamText(t) \/ CrashTurn(t)
    BY <2>3, PcStep, SameIsForest DEF ForestStep
  <2> QED BY <2>1, <2>2, <2>3
<1>5. CASE UNCHANGED serverVars
  <2>1. UNCHANGED <<chats, turns, links>>
    BY <1>5 DEF serverVars
  <2>2. IInv'
    BY <2>1 DEF IInv, TypeOK, TreeInv, LeavesHeld, ParentsHeld, AbsentIsEmpty, UsersAreWritten,
                AnswersAreWritten, TurnsFit, TurnFits, OpenFits, StreamingFits, TreeOf
  <2> QED BY <2>1, <2>2, SameIsForest DEF ForestStep
<1> QED BY <1>1, <1>2, <1>3, <1>4, <1>5 DEF Next

LEMMA InitIsForest == Init => Forest!ForestInit
<1> SUFFICES ASSUME Init PROVE Forest!ForestInit
  OBVIOUS
<1>1. \A c \in Chats : chats[c].state = "absent" /\ chats[c].leaf = NoMsg /\ Range(chats[c].tree) = {}
  BY EmptyTree DEF Init, NewChat
<1>2. \A c \in Chats : Phase(c) = "none"
  BY <1>1 DEF Phase
<1> QED BY <1>1, <1>2 DEF Forest!ForestInit

-----------------------------------------------------------------------------
(* The theorems of the trees.                                              *)

LEMMA Invariance == Spec => []IInv
<1>1. IInv /\ [Next]_serverVars => IInv'
  BY IInvNext
<1> QED BY InitIInv, <1>1, PTL DEF Spec

\* Rows, turns and links have their types, whatever overlaps (chat/route.ts:181-423,
\* conversations/[id]/route.ts:31-52, share.ts:100-131).
THEOREM TypeCorrect == Spec => []TypeOK
<1>1. IInv => TypeOK
  BY DEF IInv
<1> QED BY Invariance, <1>1, PTL

\* The server's trees implement the forest of MessageForest: concurrent turns, selections,
\* deletions and crashes never lose or move a message of a conversation that is there, nor
\* hang one under a message of another (chat/route.ts:181-423, deps.ts:355-408).
THEOREM TreesAreForests == Spec => IsForest
<1>1. IInv /\ [Next]_serverVars => [Forest!ForestNext]_(Forest!forestVars)
  BY IInvNext DEF ForestStep
<1> QED BY Invariance, InitIsForest, <1>1, PTL DEF Spec, IsForest, Forest!ForestSpec

-----------------------------------------------------------------------------
(* Sound trees, and the places of their messages.                          *)

\* A tree whose parents are older than their children, with one message of each id.
Sound(tree) ==
  \A i \in DOMAIN tree :
    /\ tree[i].id # NoMsg
    /\ tree[i].parent = NoMsg \/ \E j \in 1..(i-1) : tree[j].id = tree[i].parent
    /\ \A j \in DOMAIN tree : tree[i].id = tree[j].id => i = j

\* The place of a message in its tree.
At(tree, id) == CHOOSE i \in DOMAIN tree : tree[i].id = id

LEMMA AtPlace ==
  ASSUME NEW tree, Sound(tree), NEW id \in Ids(tree)
  PROVE  /\ At(tree, id) \in DOMAIN tree /\ tree[At(tree, id)].id = id
         /\ \A i \in DOMAIN tree : tree[i].id = id => i = At(tree, id)
         /\ ParentIn(tree, id) = tree[At(tree, id)].parent
<1>1. \E i \in DOMAIN tree : tree[i].id = id
  BY DEF Ids
<1>2. At(tree, id) \in DOMAIN tree /\ tree[At(tree, id)].id = id
  BY <1>1 DEF At
<1>3. \A i \in DOMAIN tree : tree[i].id = id => i = At(tree, id)
  BY <1>2 DEF Sound
<1>4. PICK m \in Range(tree) : m.id = id /\ ParentIn(tree, id) = m.parent
  BY ParentOfOne
<1>5. m = tree[At(tree, id)]
  BY <1>3, <1>4 DEF Range
<1> QED BY <1>2, <1>3, <1>4, <1>5

LEMMA ParentIsOlder ==
  ASSUME NEW M, NEW tree \in Seq(M), Sound(tree), NEW id \in Ids(tree)
  PROVE  /\ ParentIn(tree, id) \in Ids(tree) \cup {NoMsg}
         /\ ParentIn(tree, id) \in Ids(tree) => At(tree, ParentIn(tree, id)) < At(tree, id)
         /\ NoMsg \notin Ids(tree)
         /\ At(tree, id) \in 1..Len(tree) /\ At(tree, id) \in Nat
<1> DEFINE i == At(tree, id)
<1>1. /\ i \in DOMAIN tree /\ tree[i].id = id /\ ParentIn(tree, id) = tree[i].parent
  BY AtPlace
<1>2. DOMAIN tree = 1..Len(tree) /\ Len(tree) \in Nat
  OBVIOUS
<1>3. NoMsg \notin Ids(tree)
  BY DEF Sound, Ids
<1> HIDE DEF i
<1>4. CASE tree[i].parent = NoMsg
  BY <1>1, <1>2, <1>3, <1>4 DEF i
<1>5. CASE \E j \in 1..(i-1) : tree[j].id = tree[i].parent
  <2>1. PICK j \in 1..(i-1) : tree[j].id = tree[i].parent
    BY <1>5
  <2>2. j \in DOMAIN tree /\ j < i
    BY <1>1, <1>2, <2>1
  <2>3. tree[i].parent \in Ids(tree)
    BY <2>1, <2>2 DEF Ids
  <2>4. j = At(tree, tree[i].parent)
    BY <2>1, <2>2, <2>3, AtPlace
  <2> QED BY <1>1, <1>2, <1>3, <2>2, <2>3, <2>4 DEF i
<1> QED BY <1>1, <1>4, <1>5 DEF Sound

-----------------------------------------------------------------------------
(* The walk to the root is the least set that holds its start and the      *)
(* parents of its members.                                                 *)

\* The walk is as many steps as the tree has messages, of Up from what it has reached.
Up(tree, ids) == ids \cup ({ParentIn(tree, id) : id \in ids} \cap Ids(tree))

Closed(tree, ids) ==
  \A id \in ids : ParentIn(tree, id) \in Ids(tree) => ParentIn(tree, id) \in ids

Climb(tree, start, walked) ==
  /\ walked \in [0..Len(tree) -> SUBSET (Ids(tree) \cup {start})]
  /\ walked[0] = {start}
  /\ \A n \in 1..Len(tree) : walked[n] = Up(tree, walked[n-1])
  /\ Chain(tree, start) = walked[Len(tree)]

LEMMA ChainSteps ==
  ASSUME NEW M, NEW tree \in Seq(M), NEW start
  PROVE  \E walked : Climb(tree, start, walked)
<1> DEFINE L == Len(tree)
           V == SUBSET (Ids(tree) \cup {start})
           first == {start}
           Next1(W) == Up(tree, W)
           step == [n \in 1..L |-> [q \in V |-> Next1(q)]]
           Eq(f) == f = [n \in 0..L |-> IF n = 0 THEN first ELSE Next1(f[n-1])]
           f == CHOOSE f : Eq(f)
<1>1. L \in Nat /\ first \in V
  OBVIOUS
<1>2. \A q \in V : Next1(q) \in V
  BY DEF Up
<1>3. step \in [1..L -> [V -> V]]
  <2> HIDE DEF Next1, V, L
  <2> QED BY <1>2
<1>4. PICK g : Runs(L, V, first, step, g)
  <2> HIDE DEF step, V, L, first
  <2> QED BY <1>1, <1>3, Recursion
<1> HIDE DEF first
<1>5. \A n \in 1..L : g[n] = Next1(g[n-1])
  <2> HIDE DEF Next1, V
  <2>1. \A n \in 1..L : n - 1 \in 0..L
    BY <1>1
  <2> QED BY <1>4, <2>1 DEF Runs
<1>6. Eq(g)
  <2> HIDE DEF Next1, V
  <2>1. \A n \in 0..L : n # 0 => n \in 1..L
    BY <1>1
  <2>2. \A n \in 0..L : g[n] = IF n = 0 THEN first ELSE Next1(g[n-1])
    BY <1>4, <1>5, <2>1 DEF Runs
  <2>3. g = [n \in 0..L |-> g[n]]
    BY <1>4 DEF Runs
  <2> QED BY <2>2, <2>3
<1>7. Eq(f)
  <2> HIDE DEF Eq
  <2> QED BY <1>6
<1> DEFINE h == f
<1>8. DOMAIN h = 0..L /\ h[0] = first /\ (\A n \in 1..L : h[n] = Next1(h[n-1])) /\ h = [n \in 0..L |-> h[n]]
  <2> DEFINE X(n) == IF n = 0 THEN first ELSE Next1(h[n-1])
  <2> HIDE DEF Next1, h
  <2>1. h = [n \in 0..L |-> X(n)]
    BY <1>7 DEF h
  <2>2. \A n \in 1..L : n \in 0..L /\ n # 0
    BY <1>1
  <2>3. 0 \in 0..L
    BY <1>1
  <2>4. DOMAIN h = 0..L /\ h[0] = first /\ \A n \in 1..L : h[n] = Next1(h[n-1])
    BY <2>1, <2>2, <2>3
  <2>5. h = [n \in 0..L |-> h[n]]
    <3> HIDE DEF X
    <3> QED BY <2>1
  <2> QED BY <2>4, <2>5
<1>9. Chain(tree, start) = h[L]
  BY DEF Chain, Up, first
<1> HIDE DEF h
<1>10. \A n \in 0..L : h[n] \in V
  <2> HIDE DEF V, Next1
  <2> DEFINE T == {n \in 0..L : h[n] \in V}
  <2>1. 0 \in T
    BY <1>1, <1>8
  <2>2. \A n \in 1..L : n - 1 \in T => n \in T
    BY <1>2, <1>8
  <2>3. \A n \in 0..L : n \in T
    <3> HIDE DEF T
    <3> QED BY <1>1, <2>1, <2>2, Climbs
  <2> QED BY <2>3
<1>11. Climb(tree, start, h)
  BY <1>8, <1>9, <1>10 DEF Climb, first
<1> QED BY <1>11

\* Every closed set that holds the start holds the walk.
LEMMA ChainIsLeast ==
  ASSUME NEW M, NEW tree \in Seq(M), NEW start, NEW D, start \in D, Closed(tree, D)
  PROVE  Chain(tree, start) \subseteq D
<1>1. PICK walked : Climb(tree, start, walked)
  BY ChainSteps
<1> DEFINE L == Len(tree)
           T == {n \in 0..L : walked[n] \subseteq D}
<1>2. L \in Nat /\ 0 \in 0..L /\ L \in 0..L
  OBVIOUS
<1>3. 0 \in T
  BY <1>1, <1>2 DEF Climb
<1>4. ASSUME NEW n \in 1..L, n - 1 \in T PROVE n \in T
  <2>1. walked[n-1] \subseteq D /\ walked[n] = Up(tree, walked[n-1])
    BY <1>1, <1>4 DEF Climb
  <2>2. walked[n] \subseteq D
    BY <2>1 DEF Up, Closed
  <2>3. n \in 0..L
    BY <1>2
  <2> QED BY <2>2, <2>3
<1>5. \A n \in 0..L : n \in T
  <2> HIDE DEF T
  <2> QED BY <1>2, <1>3, <1>4, Climbs
<1> QED BY <1>1, <1>2, <1>5 DEF Climb

\* The walk is long enough to reach the root: it is closed itself.
LEMMA ChainIsClosed ==
  ASSUME NEW M, NEW tree \in Seq(M), Sound(tree), NEW start \in Ids(tree)
  PROVE  start \in Chain(tree, start) /\ Chain(tree, start) \subseteq Ids(tree) /\ Closed(tree, Chain(tree, start))
<1>1. PICK walked : Climb(tree, start, walked)
  BY ChainSteps
<1> DEFINE L == Len(tree)
           P(id) == ParentIn(tree, id)
           Done(W, id) == P(id) \in Ids(tree) => P(id) \in W
           T == {n \in 0..L : /\ walked[n] \subseteq Ids(tree) /\ start \in walked[n]
                              /\ \A id \in walked[n] : Done(walked[n], id) \/ At(tree, id) <= L - n}
<1>2. L \in Nat /\ 0 \in 0..L /\ L \in 0..L
  OBVIOUS
<1>3. \A id \in Ids(tree) : At(tree, id) \in 1..L /\ At(tree, id) \in Nat
  BY ParentIsOlder
<1>4. 0 \in T
  <2>1. walked[0] = {start}
    BY <1>1 DEF Climb
  <2>2. At(tree, start) <= L - 0
    BY <1>2, <1>3
  <2> HIDE DEF L, Done
  <2> QED BY <1>2, <2>1, <2>2
<1>5. ASSUME NEW n \in 1..L, n - 1 \in T PROVE n \in T
  <2> DEFINE V == walked[n-1]
             W == walked[n]
  <2>1. /\ W = Up(tree, V) /\ V \subseteq Ids(tree) /\ start \in V
        /\ \A id \in V : Done(V, id) \/ At(tree, id) <= L - (n - 1)
    BY <1>1, <1>5 DEF Climb
  <2> HIDE DEF V, W
  <2>2. W \subseteq Ids(tree) /\ start \in W /\ V \subseteq W
    BY <2>1 DEF Up
  <2>3. \A id \in V : Done(W, id)
    BY <2>1 DEF Up
  <2>4. ASSUME NEW id \in W, id \notin V PROVE At(tree, id) <= L - n
    <3>1. PICK x \in V : id = P(x) /\ id \in Ids(tree)
      BY <2>1, <2>4 DEF Up
    <3>2. At(tree, x) <= L - (n - 1)
      BY <2>1, <2>4, <3>1
    <3>3. At(tree, id) < At(tree, x) /\ At(tree, id) \in Nat /\ At(tree, x) \in Nat
      BY <2>1, <3>1, ParentIsOlder
    <3> QED BY <1>2, <3>2, <3>3
  <2>5. n \in 0..L
    BY <1>2
  <2> HIDE DEF Done
  <2>6. \A id \in W : Done(W, id) \/ At(tree, id) <= L - n
    BY <2>3, <2>4
  <2> QED BY <2>2, <2>5, <2>6 DEF W
<1>6. \A n \in 0..L : n \in T
  <2> HIDE DEF T
  <2> QED BY <1>2, <1>4, <1>5, Climbs
<1> DEFINE C == walked[L]
<1>7. /\ C \subseteq Ids(tree) /\ start \in C
      /\ \A id \in C : Done(C, id) \/ At(tree, id) <= L - L
  BY <1>2, <1>6
<1>8. C = Chain(tree, start)
  BY <1>1 DEF Climb
<1> HIDE DEF C, Done
<1>9. \A id \in C : Done(C, id)
  <2> TAKE id \in C
  <2>1. ~(At(tree, id) <= L - L)
    BY <1>2, <1>3, <1>7
  <2> QED BY <1>7, <2>1
<1> QED BY <1>7, <1>8, <1>9 DEF Closed, Done

LEMMA AppendPlaces ==
  ASSUME NEW M, NEW tree \in Seq(M), NEW m \in M
  PROVE  /\ Append(tree, m) \in Seq(M) /\ Len(Append(tree, m)) = Len(tree) + 1
         /\ DOMAIN tree = 1..Len(tree) /\ DOMAIN Append(tree, m) = 1..(Len(tree) + 1)
         /\ \A i \in 1..Len(tree) : Append(tree, m)[i] = tree[i]
         /\ Append(tree, m)[Len(tree) + 1] = m
         /\ Ids(Append(tree, m)) = Ids(tree) \cup {m.id}
         /\ Range(Append(tree, m)) = Range(tree) \cup {m}
<1>1. /\ Append(tree, m) \in Seq(M) /\ Len(Append(tree, m)) = Len(tree) + 1
      /\ DOMAIN tree = 1..Len(tree) /\ DOMAIN Append(tree, m) = 1..(Len(tree) + 1)
      /\ \A i \in 1..Len(tree) : Append(tree, m)[i] = tree[i]
      /\ Append(tree, m)[Len(tree) + 1] = m
  OBVIOUS
<1>2. Range(Append(tree, m)) = Range(tree) \cup {m}
  BY AppendRange
<1>3. Ids(Append(tree, m)) = Ids(tree) \cup {m.id}
  BY <1>2, HeldIds
<1> QED BY <1>1, <1>2, <1>3

\* A new message under one that is there leaves the tree sound.
LEMMA AppendIsSound ==
  ASSUME NEW M, NEW tree \in Seq(M), Sound(tree), NEW m \in M,
         m.id \notin Ids(tree), m.id # NoMsg, m.parent \in Ids(tree) \cup {NoMsg}
  PROVE  Sound(Append(tree, m))
<1> DEFINE L == Len(tree)
           new == Append(tree, m)
<1>1. /\ L \in Nat /\ DOMAIN tree = 1..L /\ DOMAIN new = 1..(L + 1)
      /\ \A i \in 1..L : new[i] = tree[i]
      /\ new[L + 1] = m
  BY AppendPlaces
<1> HIDE DEF L, new
<1>2. \A i \in 1..(L + 1) : i \in 1..L \/ i = L + 1
  BY <1>1
<1>3. \A i \in 1..L : tree[i].id \in Ids(tree)
  BY <1>1 DEF Ids
<1>4. ASSUME NEW i \in 1..(L + 1)
      PROVE  /\ new[i].id # NoMsg
             /\ new[i].parent = NoMsg \/ \E j \in 1..(i-1) : new[j].id = new[i].parent
             /\ \A j \in 1..(L + 1) : new[i].id = new[j].id => i = j
  <2>1. CASE i \in 1..L
    <3>1. \A j \in 1..(i-1) : j \in 1..L
      BY <1>1, <2>1
    <3>2. /\ tree[i].id # NoMsg
          /\ tree[i].parent = NoMsg \/ \E j \in 1..(i-1) : tree[j].id = tree[i].parent
          /\ \A j \in 1..L : tree[i].id = tree[j].id => i = j
      BY <1>1, <2>1 DEF Sound
    <3>3. \A j \in 1..(L + 1) : new[i].id = new[j].id => i = j
      BY <1>1, <1>2, <1>3, <2>1, <3>2
    <3> QED BY <1>1, <2>1, <3>1, <3>2, <3>3
  <2>2. CASE i = L + 1
    <3>1. m.parent = NoMsg \/ \E j \in 1..L : tree[j].id = m.parent
      BY <1>1 DEF Ids
    <3>2. new[i].parent = NoMsg \/ \E j \in 1..(i-1) : new[j].id = new[i].parent
      <4>1. i - 1 = L
        BY <1>1, <2>2
      <4> QED BY <1>1, <2>2, <3>1, <4>1
    <3>3. \A j \in 1..(L + 1) : new[i].id = new[j].id => i = j
      BY <1>1, <1>2, <1>3, <2>2
    <3> QED BY <1>1, <2>2, <3>2, <3>3
  <2> QED BY <1>2, <2>1, <2>2
<1>5. Sound(new)
  BY <1>1, <1>4 DEF Sound
<1> QED BY <1>5 DEF new

\* A new message does not change what Those returns of the others.
LEMMA ThoseOfLonger ==
  ASSUME NEW M, NEW tree \in Seq(M), NEW m \in M, NEW S, NEW S2, m \notin S2,
         \A x \in Range(tree) : x \in S <=> x \in S2
  PROVE  Those(Append(tree, m), S2) = Those(tree, S)
<1> DEFINE L == Len(tree)
           new == Append(tree, m)
<1>1. /\ L \in Nat /\ DOMAIN tree = 1..L /\ new \in Seq(M) /\ Len(new) = L + 1
      /\ \A i \in 1..L : new[i] = tree[i]
      /\ new[L + 1] = m
  BY AppendPlaces
<1> HIDE DEF new
<1>2. PICK kept : Sifted(M, tree, S, kept)
  BY ThoseSteps
<1>3. PICK longer : Sifted(M, new, S2, longer)
  BY <1>1, ThoseSteps
<1> DEFINE T == {n \in 0..L : longer[n] = kept[n]}
<1>4. 0 \in T
  BY <1>1, <1>2, <1>3 DEF Sifted
<1>5. ASSUME NEW n \in 1..L, n - 1 \in T PROVE n \in T
  <2>1. n \in 1..Len(new) /\ n \in 0..L /\ tree[n] \in Range(tree)
    BY <1>1 DEF Range
  <2>2. longer[n] = IF new[n] \in S2 THEN Append(longer[n-1], new[n]) ELSE longer[n-1]
    BY <1>3, <2>1 DEF Sifted
  <2>3. kept[n] = IF tree[n] \in S THEN Append(kept[n-1], tree[n]) ELSE kept[n-1]
    BY <1>2 DEF Sifted
  <2>4. new[n] = tree[n] /\ (tree[n] \in S <=> tree[n] \in S2) /\ longer[n-1] = kept[n-1]
    BY <1>1, <1>5, <2>1
  <2>5. longer[n] = kept[n]
    BY <2>2, <2>3, <2>4
  <2> QED BY <2>1, <2>5
<1>6. \A n \in 0..L : n \in T
  <2> HIDE DEF T, L
  <2> QED BY <1>1, <1>4, <1>5, Climbs
<1>7. longer[L] = kept[L]
  BY <1>1, <1>6
<1>8. longer[L + 1] = longer[L]
  <2>1. L + 1 \in 1..Len(new) /\ (L + 1) - 1 = L
    BY <1>1
  <2>2. longer[L + 1] = IF new[L + 1] \in S2 THEN Append(longer[(L + 1) - 1], new[L + 1]) ELSE longer[(L + 1) - 1]
    BY <1>3, <2>1 DEF Sifted
  <2> QED BY <1>1, <2>1, <2>2
<1>9. Those(new, S2) = longer[L + 1] /\ Those(tree, S) = kept[L]
  BY <1>1, <1>2, <1>3 DEF Sifted
<1> QED BY <1>7, <1>8, <1>9 DEF new

\* A new message leaves the branch of a message that was there as it was.
LEMMA WalkStays ==
  ASSUME NEW M, NEW tree \in Seq(M), Sound(tree), NEW m \in M,
         m.id \notin Ids(tree), m.id # NoMsg, m.parent \in Ids(tree) \cup {NoMsg},
         NEW start \in Ids(tree)
  PROVE  WalkToRoot(Append(tree, m), start) = WalkToRoot(tree, start)
<1> DEFINE new == Append(tree, m)
           C == Chain(tree, start)
           D == Chain(new, start)
<1>1. /\ new \in Seq(M) /\ Sound(new) /\ Ids(new) = Ids(tree) \cup {m.id} /\ Range(new) = Range(tree) \cup {m}
      /\ DOMAIN tree \subseteq DOMAIN new /\ \A i \in DOMAIN tree : new[i] = tree[i]
  <2>1. DOMAIN tree \subseteq DOMAIN new /\ \A i \in DOMAIN tree : new[i] = tree[i]
    <3>1. Len(tree) \in Nat
      OBVIOUS
    <3>2. DOMAIN tree = 1..Len(tree) /\ DOMAIN new = 1..(Len(tree) + 1)
      BY AppendPlaces
    <3>3. \A i \in 1..Len(tree) : new[i] = tree[i]
      BY AppendPlaces
    <3> HIDE DEF new
    <3> QED BY <3>1, <3>2, <3>3
  <2> QED BY <2>1, AppendPlaces, AppendIsSound
<1> HIDE DEF new
<1>2. ASSUME NEW id \in Ids(tree)
      PROVE  /\ ParentIn(new, id) = ParentIn(tree, id)
             /\ ParentIn(tree, id) \in Ids(new) <=> ParentIn(tree, id) \in Ids(tree)
  <2>1. At(tree, id) \in DOMAIN tree /\ tree[At(tree, id)].id = id /\ ParentIn(tree, id) = tree[At(tree, id)].parent
    BY AtPlace
  <2>2. id \in Ids(new) /\ At(tree, id) \in DOMAIN new /\ new[At(tree, id)] = tree[At(tree, id)]
    BY <1>1, <2>1
  <2>3. At(tree, id) = At(new, id) /\ ParentIn(new, id) = new[At(new, id)].parent
    BY <1>1, <2>1, <2>2, AtPlace
  <2>4. ParentIn(tree, id) \in Ids(tree) \cup {NoMsg}
    BY ParentIsOlder
  <2> QED BY <1>1, <2>1, <2>2, <2>3, <2>4
<1>3. start \in C /\ C \subseteq Ids(tree) /\ Closed(tree, C)
  BY ChainIsClosed
<1>4. start \in D /\ Closed(new, D)
  BY <1>1, ChainIsClosed
<1> HIDE DEF C, D
<1>5. Closed(new, C)
  BY <1>2, <1>3 DEF Closed
<1>6. D \subseteq C
  BY <1>1, <1>3, <1>5, ChainIsLeast DEF D
<1>7. Closed(tree, D)
  BY <1>2, <1>3, <1>4, <1>6 DEF Closed
<1>8. C = D
  BY <1>4, <1>6, <1>7, ChainIsLeast DEF C
<1> DEFINE S == {x \in Range(tree) : x.id \in C}
           S2 == {x \in Range(new) : x.id \in D}
<1>9. m \notin S2
  BY <1>3, <1>8
<1>10. \A x \in Range(tree) : x \in S <=> x \in S2
  BY <1>1, <1>8
<1>11. WalkToRoot(tree, start) = Those(tree, S) /\ WalkToRoot(new, start) = Those(new, S2)
  BY DEF WalkToRoot, C, D
<1> HIDE DEF S, S2
<1> QED BY <1>9, <1>10, <1>11, ThoseOfLonger DEF new

-----------------------------------------------------------------------------
(* A branch is one line.                                                   *)

\* The walk of a message is the message and the walk of its parent.
LEMMA ChainUnfolds ==
  ASSUME NEW M, NEW tree \in Seq(M), Sound(tree), NEW id \in Ids(tree), NEW x \in Chain(tree, id), x # id
  PROVE  ParentIn(tree, id) \in Ids(tree) /\ x \in Chain(tree, ParentIn(tree, id))
<1> DEFINE p == ParentIn(tree, id)
<1>1. CASE p \in Ids(tree)
  <2> DEFINE D == {id} \cup Chain(tree, p)
  <2>1. Closed(tree, D)
    <3>1. p \in Chain(tree, p) /\ Closed(tree, Chain(tree, p))
      BY <1>1, ChainIsClosed
    <3> QED BY <3>1 DEF Closed
  <2>2. Chain(tree, id) \subseteq D
    <3> HIDE DEF D
    <3>1. id \in D
      BY DEF D
    <3> QED BY <2>1, <3>1, ChainIsLeast
  <2> QED BY <1>1, <2>2
<1>2. CASE p \notin Ids(tree)
  <2>1. Closed(tree, {id})
    BY <1>2 DEF Closed
  <2>2. Chain(tree, id) \subseteq {id}
    BY <2>1, ChainIsLeast
  <2> QED BY <2>2
<1> QED BY <1>1, <1>2

LEMMA ChainIsOlder ==
  ASSUME NEW M, NEW tree \in Seq(M), Sound(tree), NEW id \in Ids(tree)
  PROVE  \A x \in Chain(tree, id) : x \in Ids(tree) /\ At(tree, x) <= At(tree, id)
<1> DEFINE D == {x \in Ids(tree) : At(tree, x) <= At(tree, id)}
<1>1. \A x \in Ids(tree) : At(tree, x) \in Nat
  BY ParentIsOlder
<1>2. Closed(tree, D)
  <2> SUFFICES ASSUME NEW x \in D, ParentIn(tree, x) \in Ids(tree) PROVE ParentIn(tree, x) \in D
    BY DEF Closed
  <2>1. At(tree, ParentIn(tree, x)) < At(tree, x)
    BY ParentIsOlder
  <2> QED BY <1>1, <2>1
<1>3. id \in D
  BY <1>1
<1>4. Chain(tree, id) \subseteq D
  <2> HIDE DEF D
  <2> QED BY <1>2, <1>3, ChainIsLeast
<1> QED BY <1>4

\* No message of a walk is between another one of it and its parent.
LEMMA NoneBetween ==
  ASSUME NEW M, NEW tree \in Seq(M), Sound(tree), NEW start \in Ids(tree),
         NEW id \in Chain(tree, start), ParentIn(tree, id) \in Ids(tree),
         NEW x \in Chain(tree, start)
  PROVE  At(tree, x) >= At(tree, id) \/ At(tree, x) <= At(tree, ParentIn(tree, id))
<1> DEFINE C == Chain(tree, start)
           D == {y \in C : id \in Chain(tree, y)} \cup Chain(tree, id)
<1>1. start \in C /\ C \subseteq Ids(tree) /\ Closed(tree, C)
  BY ChainIsClosed
<1>2. id \in Ids(tree) /\ x \in Ids(tree)
  BY <1>1
<1>3. Chain(tree, id) \subseteq Ids(tree) /\ Closed(tree, Chain(tree, id)) /\ id \in Chain(tree, id)
  BY <1>2, ChainIsClosed
<1> HIDE DEF C
<1>4. Closed(tree, D)
  <2> SUFFICES ASSUME NEW y \in D, ParentIn(tree, y) \in Ids(tree) PROVE ParentIn(tree, y) \in D
    BY DEF Closed
  <2>1. CASE y \in Chain(tree, id)
    BY <1>3, <2>1 DEF Closed
  <2>2. CASE y \in C /\ id \in Chain(tree, y) /\ y # id
    <3>1. y \in Ids(tree) /\ ParentIn(tree, y) \in C
      BY <1>1, <2>2 DEF Closed
    <3>2. id \in Chain(tree, ParentIn(tree, y))
      BY <2>2, <3>1, ChainUnfolds
    <3> QED BY <3>1, <3>2
  <2> QED BY <1>3, <2>1, <2>2
<1>5. x \in D
  <2>1. start \in D
    BY <1>1 DEF C
  <2>2. C \subseteq D
    <3> HIDE DEF D
    <3> QED BY <1>4, <2>1, ChainIsLeast DEF C
  <2> QED BY <2>2 DEF C
<1>6. CASE id \in Chain(tree, x)
  <2>1. At(tree, id) <= At(tree, x)
    BY <1>2, <1>6, ChainIsOlder
  <2>2. At(tree, id) \in Nat /\ At(tree, x) \in Nat
    BY <1>2, ParentIsOlder
  <2> QED BY <2>1, <2>2
<1>7. CASE x \in Chain(tree, id) /\ x # id
  <2>1. x \in Chain(tree, ParentIn(tree, id))
    BY <1>2, <1>7, ChainUnfolds
  <2>2. At(tree, x) <= At(tree, ParentIn(tree, id))
    BY <2>1, ChainIsOlder
  <2> QED BY <2>2
<1> QED BY <1>3, <1>5, <1>6, <1>7

\* The messages of a set come in the order of their places in the tree.
LEMMA ThoseInOrder ==
  ASSUME NEW M, NEW tree \in Seq(M), Sound(tree), NEW S
  PROVE  \A k \in 1..Len(Those(tree, S)) : \A j \in 1..(k-1) :
           At(tree, Those(tree, S)[j].id) < At(tree, Those(tree, S)[k].id)
<1> DEFINE L == Len(tree)
           Early(q, n) == \A k \in 1..Len(q) : q[k].id \in Ids(tree) /\ At(tree, q[k].id) <= n
           Sorted(q) == \A k \in 1..Len(q) : \A j \in 1..(k-1) : At(tree, q[j].id) < At(tree, q[k].id)
<1>1. PICK kept : Sifted(M, tree, S, kept)
  BY ThoseSteps
<1>2. L \in Nat /\ DOMAIN tree = 1..L /\ 0 \in 0..L /\ L \in 0..L /\ \A n \in 1..L : tree[n] \in M
  OBVIOUS
<1>3. \A id \in Ids(tree) : At(tree, id) \in 1..L /\ At(tree, id) \in Nat
  BY ParentIsOlder
<1> DEFINE T == {n \in 0..L : Early(kept[n], n) /\ Sorted(kept[n])}
<1>4. 0 \in T
  <2>1. kept[0] = <<>>
    BY <1>1 DEF Sifted
  <2>2. 1..Len(<<>>) = {}
    OBVIOUS
  <2>3. Early(kept[0], 0) /\ Sorted(kept[0])
    BY <2>1, <2>2
  <2> HIDE DEF Early, Sorted
  <2> QED BY <1>2, <2>3
<1>5. ASSUME NEW n \in 1..L, n - 1 \in T PROVE n \in T
  <2> DEFINE q == kept[n-1]
             r == kept[n]
  <2>1. q \in Seq(M) /\ Early(q, n - 1) /\ Sorted(q) /\ n \in 0..L
    <3>1. n - 1 \in 0..L /\ n \in 0..L
      BY <1>2
    <3>2. q \in Seq(M)
      <4> HIDE DEF L, T
      <4> QED BY <1>1, <3>1 DEF Sifted, L
    <3> HIDE DEF Early, Sorted
    <3> QED BY <1>5, <3>1, <3>2
  <2>2. r = IF tree[n] \in S THEN Append(q, tree[n]) ELSE q
    BY <1>1 DEF Sifted
  <2> HIDE DEF q, r
  <2>3. tree[n].id \in Ids(tree) /\ At(tree, tree[n].id) = n
    <3>1. tree[n].id \in Ids(tree)
      BY <1>2 DEF Ids
    <3> QED BY <1>2, <3>1, AtPlace
  <2>4. CASE tree[n] \in S
    <3>1. Len(r) = Len(q) + 1 /\ Len(q) \in Nat /\ r[Len(q) + 1] = tree[n] /\ \A k \in 1..Len(q) : r[k] = q[k]
      BY <1>2, <2>1, <2>2, <2>4
    <3>2. \A k \in 1..Len(r) : k = Len(q) + 1 \/ k \in 1..Len(q)
      BY <3>1
    <3>3. \A k \in 1..Len(q) : At(tree, q[k].id) < n /\ At(tree, q[k].id) <= n /\ q[k].id \in Ids(tree)
      BY <1>2, <1>3, <2>1
    <3>4. Early(r, n)
      BY <1>2, <2>3, <3>1, <3>2, <3>3
    <3>5. Sorted(r)
      <4>1. ASSUME NEW k \in 1..Len(r), NEW j \in 1..(k-1) PROVE At(tree, r[j].id) < At(tree, r[k].id)
        <5>1. j \in 1..Len(q) /\ r[j] = q[j]
          BY <3>1, <3>2
        <5>2. CASE k = Len(q) + 1
          BY <2>3, <3>1, <3>3, <5>1, <5>2
        <5>3. CASE k \in 1..Len(q)
          BY <2>1, <3>1, <5>1, <5>3
        <5> QED BY <3>2, <5>2, <5>3
      <4> QED BY <4>1
    <3> HIDE DEF Early, Sorted
    <3> QED BY <2>1, <3>4, <3>5 DEF r
  <2>5. CASE tree[n] \notin S
    <3>1. r = q
      BY <2>2, <2>5
    <3>2. Early(r, n)
      BY <1>2, <1>3, <2>1, <3>1
    <3> HIDE DEF Early, Sorted
    <3> QED BY <2>1, <3>1, <3>2 DEF r
  <2> QED BY <2>4, <2>5
<1>6. \A n \in 0..L : n \in T
  <2> HIDE DEF T
  <2> QED BY <1>2, <1>4, <1>5, Climbs
<1>7. Sorted(kept[L])
  BY <1>2, <1>6
<1>8. Those(tree, S) = kept[L]
  BY <1>1 DEF Sifted
<1> QED BY <1>7, <1>8

\* Below its first message a branch is one line.
LEMMA BranchIsOneLine ==
  ASSUME NEW M, NEW tree \in Seq(M), Sound(tree), NEW start \in Ids(tree),
         NEW k \in DOMAIN WalkToRoot(tree, start), WalkToRoot(tree, start)[k].parent # NoMsg
  PROVE  k > 1 /\ WalkToRoot(tree, start)[k-1].id = WalkToRoot(tree, start)[k].parent
<1> DEFINE C == Chain(tree, start)
           S == {m \in Range(tree) : m.id \in C}
           W == WalkToRoot(tree, start)
           id == W[k].id
           p == W[k].parent
<1>1. W = Those(tree, S)
  BY DEF WalkToRoot
<1>2. W \in Seq(M) /\ Range(W) = Range(tree) \cap S
  <2> HIDE DEF S, W
  <2> QED BY <1>1, ThoseElements
<1>3. \A n \in 1..Len(W) : \A j \in 1..(n-1) : At(tree, W[j].id) < At(tree, W[n].id)
  <2> HIDE DEF S, W
  <2> QED BY <1>1, ThoseInOrder
<1>4. start \in C /\ C \subseteq Ids(tree) /\ Closed(tree, C)
  BY ChainIsClosed
<1> HIDE DEF W, C
<1>5. DOMAIN W = 1..Len(W) /\ Len(W) \in Nat /\ k \in 1..Len(W) /\ k \in Nat
  <2>1. DOMAIN W = 1..Len(W) /\ Len(W) \in Nat
    BY <1>2
  <2> QED BY <2>1 DEF W
<1>6. \A n \in 1..Len(W) : W[n] \in Range(tree) /\ W[n].id \in C
  BY <1>2, <1>5 DEF Range
<1>7. \A id2 \in C : \E n \in 1..Len(W) : W[n].id = id2
  <2> TAKE id2 \in C
  <2>1. \E m \in Range(tree) : m.id = id2
    BY <1>4, HeldIds
  <2>2. \E m \in Range(W) : m.id = id2
    BY <1>2, <2>1
  <2> QED BY <1>5, <2>2 DEF Range
<1>8. id \in C /\ id \in Ids(tree) /\ W[k] \in Range(tree)
  BY <1>4, <1>5, <1>6
<1>9. p = ParentIn(tree, id)
  <2>1. PICK i \in DOMAIN tree : tree[i] = W[k]
    BY <1>8 DEF Range
  <2>2. i = At(tree, id) /\ ParentIn(tree, id) = tree[At(tree, id)].parent
    BY <1>8, <2>1, AtPlace
  <2> QED BY <2>1, <2>2
<1>10. p \in Ids(tree) /\ At(tree, p) < At(tree, id)
  <2>1. p # NoMsg
    BY DEF W
  <2> QED BY <1>8, <1>9, <2>1, ParentIsOlder
<1>11. p \in C
  BY <1>4, <1>8, <1>9, <1>10 DEF Closed
<1>12. PICK j \in 1..Len(W) : W[j].id = p
  BY <1>7, <1>11
<1>13. \A x \in Ids(tree) : At(tree, x) \in Nat
  BY ParentIsOlder
<1>14. j < k
  <2> SUFFICES ASSUME ~(j < k) PROVE FALSE
    OBVIOUS
  <2>1. j = k \/ k \in 1..(j-1)
    BY <1>5
  <2>2. At(tree, id) <= At(tree, p)
    BY <1>3, <1>5, <1>8, <1>10, <1>12, <1>13, <2>1
  <2> QED BY <1>8, <1>10, <1>13, <2>2
<1>15. j = k - 1
  <2> SUFFICES ASSUME j # k - 1 PROVE FALSE
    OBVIOUS
  <2>1. k - 1 \in 1..Len(W) /\ k - 1 \in 1..(k-1) /\ j \in 1..((k-1)-1)
    BY <1>5, <1>14
  <2> DEFINE x == W[k-1].id
  <2>2. x \in C /\ x \in Ids(tree)
    BY <1>4, <1>6, <2>1
  <2>3. At(tree, p) < At(tree, x)
    BY <1>3, <1>12, <2>1
  <2>4. At(tree, x) < At(tree, id)
    BY <1>3, <1>5, <2>1
  <2> HIDE DEF x
  <2>5. At(tree, x) >= At(tree, id) \/ At(tree, x) <= At(tree, p)
    BY <1>8, <1>9, <1>10, <2>2, NoneBetween DEF C
  <2> QED BY <1>8, <1>10, <1>13, <2>2, <2>3, <2>4, <2>5
<1>16. k > 1
  BY <1>5, <1>14
<1> QED BY <1>12, <1>15, <1>16 DEF W

\* A message is on the branch that ends at its deepest leaf.
LEMMA DeepestIsBelow ==
  ASSUME NEW M, NEW tree \in Seq(M), Sound(tree), NEW id \in Ids(tree)
  PROVE  id \in Chain(tree, DeepestLeaf(tree, id))
<1>1. PICK at : Descent(tree, id, at)
  BY DescentSteps
<1> DEFINE L == Len(tree)
           T == {n \in 0..L : id \in Chain(tree, at[n])}
<1>2. L \in Nat /\ 0 \in 0..L /\ L \in 0..L
  OBVIOUS
<1>3. 0 \in T
  BY <1>1, <1>2, ChainIsClosed DEF Descent
<1>4. ASSUME NEW n \in 1..L, n - 1 \in T PROVE n \in T
  <2>1. n - 1 \in 0..L /\ n \in 0..L
    BY <1>2
  <2>2. PICK x : x = at[n-1]
    OBVIOUS
  <2>3. x \in Ids(tree) /\ id \in Chain(tree, x) /\ at[n] = Newest(tree, x) /\ at[n] \in Ids(tree)
    BY <1>1, <1>4, <2>1, <2>2 DEF Descent
  <2> DEFINE S == {m \in Range(tree) : m.parent = x}
             kids == Those(tree, S)
  <2>4. kids \in Seq(M) /\ Range(kids) = Range(tree) \cap S
    <3> HIDE DEF S
    <3> QED BY ThoseElements
  <2>5. at[n] = IF kids = <<>> THEN x ELSE Last(kids).id
    BY <2>3 DEF Newest
  <2>6. CASE kids = <<>>
    BY <2>1, <2>3, <2>5, <2>6
  <2>7. CASE kids # <<>>
    <3>1. Last(kids) \in Range(kids)
      <4> HIDE DEF kids
      <4> QED BY <2>4, <2>7, LastIsOne
    <3>2. PICK m : m = Last(kids)
      OBVIOUS
    <3>3. m \in Range(tree) /\ m.parent = x /\ at[n] = m.id
      BY <2>4, <2>5, <2>7, <3>1, <3>2
    <3>4. ParentIn(tree, m.id) = x
      <4>1. PICK i \in DOMAIN tree : tree[i] = m
        BY <3>3 DEF Range
      <4> QED BY <2>3, <3>3, <4>1, AtPlace
    <3>5. m.id \in Chain(tree, m.id) /\ Closed(tree, Chain(tree, m.id))
      BY <2>3, <3>3, ChainIsClosed
    <3>6. x \in Chain(tree, m.id)
      BY <2>3, <3>4, <3>5 DEF Closed
    <3>7. Chain(tree, x) \subseteq Chain(tree, m.id)
      BY <3>5, <3>6, ChainIsLeast
    <3> QED BY <2>1, <2>3, <3>3, <3>7
  <2> QED BY <2>6, <2>7
<1>5. \A n \in 0..L : n \in T
  <2> HIDE DEF T
  <2> QED BY <1>2, <1>3, <1>4, Climbs
<1> QED BY <1>1, <1>2, <1>5 DEF Descent

\* A switch to a message of a sound tree shows it, on one line.
LEMMA SwitchShows ==
  ASSUME NEW M, NEW tree \in Seq(M), Sound(tree), NEW id \in Ids(tree)
  PROVE  LET path == BuildActivePath(tree, DeepestLeaf(tree, id)) IN
         /\ id \in Ids(path)
         /\ \A i \in DOMAIN path : path[i].parent # NoMsg => i > 1 /\ path[i-1].id = path[i].parent
<1> DEFINE leaf == DeepestLeaf(tree, id)
           path == BuildActivePath(tree, leaf)
           W == WalkToRoot(tree, leaf)
           R == {m \in Range(tree) \ Range(W) : m.parent = NoMsg}
           roots == Those(tree, R)
<1>1. leaf \in Ids(tree) /\ FindActiveLeaf(tree, leaf) = leaf /\ id \in Chain(tree, leaf)
  BY DeepestIsHeld, DeepestIsBelow DEF FindActiveLeaf
<1> HIDE DEF leaf
<1>2. CASE IsFlatThread(tree)
  <2>1. path = tree
    BY <1>2 DEF BuildActivePath
  <2>2. \A i \in DOMAIN tree : tree[i].parent = NoMsg
    BY <1>2 DEF IsFlatThread, Range
  <2> HIDE DEF path
  <2>3. /\ id \in Ids(path)
        /\ \A i \in DOMAIN path : path[i].parent # NoMsg => i > 1 /\ path[i-1].id = path[i].parent
    BY <2>1, <2>2
  <2> QED BY <2>3 DEF path, leaf
<1>3. CASE ~IsFlatThread(tree)
  <2>1. path = roots \o W
    BY <1>1, <1>3 DEF BuildActivePath
  <2>2. roots \in Seq(M) /\ Range(roots) = Range(tree) \cap R
    <3> HIDE DEF R
    <3> QED BY ThoseElements
  <2>3. W \in Seq(M) /\ Range(W) = Range(tree) \cap {m \in Range(tree) : m.id \in Chain(tree, leaf)}
    <3> DEFINE S == {m \in Range(tree) : m.id \in Chain(tree, leaf)}
    <3>1. W = Those(tree, S)
      BY DEF WalkToRoot
    <3> HIDE DEF S, W
    <3>2. W \in Seq(M) /\ Range(W) = Range(tree) \cap S
      BY <3>1, ThoseElements
    <3> QED BY <3>2 DEF S
  <2>4. \A i \in DOMAIN W : W[i].parent # NoMsg => i > 1 /\ W[i-1].id = W[i].parent
    BY <1>1, BranchIsOneLine
  <2>5. \E m \in Range(W) : m.id = id
    <3>1. \E m \in Range(tree) : m.id = id
      BY HeldIds
    <3> HIDE DEF W
    <3> QED BY <1>1, <2>3, <3>1
  <2>6. \A i \in DOMAIN roots : roots[i].parent = NoMsg
    <3>1. \A i \in DOMAIN roots : roots[i] \in Range(roots)
      BY DEF Range
    <3>2. \A m \in R : m.parent = NoMsg
      OBVIOUS
    <3> HIDE DEF R, roots
    <3> QED BY <2>2, <3>1, <3>2
  <2> HIDE DEF W, roots, path
  <2> DEFINE n == Len(roots)
  <2>7. /\ DOMAIN roots = 1..n /\ n \in Nat /\ DOMAIN W = 1..Len(W) /\ Len(W) \in Nat
        /\ path \in Seq(M) /\ DOMAIN path = 1..(n + Len(W))
        /\ \A i \in 1..n : path[i] = roots[i]
        /\ \A i \in 1..(n + Len(W)) : i > n => path[i] = W[i-n]
    BY <2>1, <2>2, <2>3
  <2> HIDE DEF n
  <2>8. id \in Ids(path)
    <3>1. PICK i \in 1..Len(W) : W[i].id = id
      BY <2>5, <2>7 DEF Range
    <3>2. n + i \in 1..(n + Len(W)) /\ n + i > n /\ (n + i) - n = i
      BY <2>7
    <3>3. path[n+i] = W[i]
      BY <2>7, <3>2
    <3> QED BY <2>7, <3>1, <3>2, <3>3 DEF Ids
  <2>9. ASSUME NEW i \in DOMAIN path, path[i].parent # NoMsg
        PROVE  i > 1 /\ path[i-1].id = path[i].parent
    <3>1. i > n
      <4> SUFFICES ASSUME ~(i > n) PROVE FALSE
        OBVIOUS
      <4>1. i \in 1..n
        BY <2>7
      <4> QED BY <2>6, <2>7, <2>9, <4>1
    <3>2. path[i] = W[i-n] /\ i - n \in 1..Len(W)
      BY <2>7, <3>1
    <3>3. i - n > 1 /\ W[(i-n)-1].id = W[i-n].parent
      BY <2>4, <2>7, <2>9, <3>2
    <3>4. i - 1 \in 1..(n + Len(W)) /\ i - 1 > n /\ (i - 1) - n = (i - n) - 1
      BY <2>7, <3>2, <3>3
    <3>5. path[i-1] = W[(i-n)-1]
      BY <2>7, <3>4
    <3>6. i > 1
      BY <2>7, <3>2, <3>3
    <3> QED BY <3>2, <3>3, <3>5, <3>6
  <2>10. /\ id \in Ids(path)
         /\ \A i \in DOMAIN path : path[i].parent # NoMsg => i > 1 /\ path[i-1].id = path[i].parent
    BY <2>8, <2>9
  <2> QED BY <2>10 DEF path, leaf
<1> QED BY <1>2, <1>3

-----------------------------------------------------------------------------
(* Trees and links under the steps of the server.                          *)

Messages == [id : MessageIds, parent : MessageIds \cup {NoMsg}]

\* A link that is asked for or live has recorded a leaf that is there, and a live one is of
\* a conversation that is.
LinkFits(l) ==
  LET c == links[l].chat IN
  links[l].state \in {"asked", "live"} =>
    /\ c \in Chats /\ chats[c].state # "absent"
    /\ Kept(c) => links[l].leaf \in Ids(TreeOf(c)) \cup {NoMsg}
    /\ links[l].state = "live" => Kept(c)

BranchInv ==
  /\ IInv
  /\ \A c \in Chats : Sound(TreeOf(c))
  /\ \A l \in Links : LinkFits(l)

\* A step hangs a message that is not there yet in a tree, leaves it alone, or deletes it.
Adds(c, m) ==
  /\ m \in Messages /\ m.id \notin Ids(TreeOf(c)) /\ m.id # NoMsg
  /\ m.parent \in Ids(TreeOf(c)) \cup {NoMsg}
  /\ TreeOf(c)' = Append(TreeOf(c), m)
  /\ chats[c].state # "deleted" /\ Kept(c)'

Rests(c) ==
  /\ TreeOf(c)' = TreeOf(c)
  /\ Kept(c)' <=> Kept(c)
  /\ chats'[c].state = "absent" <=> chats[c].state = "absent"

Falls(c) == Kept(c) /\ chats'[c].state = "deleted" /\ TreeOf(c)' = <<>>

ChatMoves(c) == Rests(c) \/ Falls(c) \/ \E m \in Messages : Adds(c, m)

\* A link that stays live stays as it is.
LinkMoves(l) ==
  /\ LinkFits(l)'
  /\ links[l].state = "live" /\ links'[l].state = "live" => links'[l] = links[l]

TreesMove == (\A c \in Chats : ChatMoves(c)) /\ (\A l \in Links : LinkMoves(l))

LEMMA EmptyIsSound == Sound(<<>>)
BY DEF Sound

LEMMA TreesOfMessages ==
  ASSUME TypeOK, NEW c \in Chats
  PROVE  TreeOf(c) \in Seq(Messages)
BY IdsTyped DEF Tree, Messages

LEMMA StateOfChat ==
  ASSUME TypeOK, NEW c \in Chats
  PROVE  Kept(c) \/ chats[c].state \in {"absent", "deleted"}
BY IdsTyped, ChatTyped DEF Kept

LEMMA MovesKeepSound ==
  ASSUME TypeOK, NEW c \in Chats, Sound(TreeOf(c)), ChatMoves(c)
  PROVE  Sound(TreeOf(c)')
<1>1. CASE Rests(c)
  BY <1>1 DEF Rests
<1>2. CASE Falls(c)
  BY <1>2, EmptyIsSound DEF Falls
<1>3. CASE \E m \in Messages : Adds(c, m)
  <2>1. PICK m \in Messages : Adds(c, m)
    BY <1>3
  <2>2. TreeOf(c) \in Seq(Messages)
    BY TreesOfMessages
  <2>3. Sound(Append(TreeOf(c), m))
    BY <2>1, <2>2, AppendIsSound DEF Adds
  <2> QED BY <2>1, <2>3 DEF Adds
<1> QED BY <1>1, <1>2, <1>3 DEF ChatMoves

LEMMA LinkStays ==
  ASSUME BranchInv, \A c \in Chats : ChatMoves(c), NEW l \in Links, links'[l] = links[l],
         links[l].state = "live" => chats'[links[l].chat].state # "deleted"
  PROVE  LinkMoves(l)
<1>1. LinkFits(l)
  BY DEF BranchInv
<1> SUFFICES ASSUME links[l].state \in {"asked", "live"} PROVE LinkFits(l)'
  BY DEF LinkMoves, LinkFits
<1>2. PICK c \in Chats : links[l].chat = c
  BY <1>1 DEF LinkFits
<1>3. /\ chats[c].state # "absent"
      /\ Kept(c) => links[l].leaf \in Ids(TreeOf(c)) \cup {NoMsg}
      /\ links[l].state = "live" => Kept(c) /\ chats'[c].state # "deleted"
  BY <1>1, <1>2 DEF LinkFits
<1>4. /\ chats'[c].state # "absent"
      /\ chats'[c].state \in {"live", "archived"} => links[l].leaf \in Ids(TreeOf(c)') \cup {NoMsg}
      /\ links[l].state = "live" => chats'[c].state \in {"live", "archived"}
  <2>1. CASE Rests(c)
    BY <1>3, <2>1 DEF Rests, Kept
  <2>2. CASE Falls(c)
    BY <1>3, <2>2 DEF Falls
  <2>3. CASE \E m \in Messages : Adds(c, m)
    <3>1. PICK m \in Messages : Adds(c, m)
      BY <2>3
    <3>2. Kept(c)
      BY <1>3, <3>1, StateOfChat DEF Adds, BranchInv, IInv
    <3>3. TreeOf(c) \in Seq(Messages)
      BY TreesOfMessages DEF BranchInv, IInv
    <3>4. Ids(TreeOf(c)') = Ids(TreeOf(c)) \cup {m.id}
      BY <3>1, <3>3, AppendPlaces DEF Adds
    <3>5. chats'[c].state \in {"live", "archived"}
      BY <3>1 DEF Adds, Kept
    <3> QED BY <1>3, <3>2, <3>4, <3>5
  <2> QED BY <2>1, <2>2, <2>3 DEF ChatMoves
<1> QED BY <1>2, <1>3, <1>4 DEF LinkFits, Kept, TreeOf

\* Steps that leave the trees and the links alone.
LEMMA QuietStep ==
  ASSUME BranchInv, \A c \in Chats : Rests(c), UNCHANGED links
  PROVE  TreesMove
<1>1. \A c \in Chats : ChatMoves(c)
  BY DEF ChatMoves
<1>2. ASSUME NEW l \in Links PROVE LinkMoves(l)
  <2>1. links[l].state = "live" => links[l].chat \in Chats /\ Kept(links[l].chat)
    BY DEF BranchInv, LinkFits
  <2>2. links[l].state = "live" => chats'[links[l].chat].state # "deleted"
    BY <2>1 DEF Rests, Kept
  <2> QED BY <1>1, <2>2, LinkStays
<1> QED BY <1>1, <1>2 DEF TreesMove

LEMMA SameTrees ==
  ASSUME BranchInv, UNCHANGED chats, UNCHANGED links
  PROVE  TreesMove
BY QuietStep DEF Rests, TreeOf, Kept

\* Steps that hang a new message in one tree.
LEMMA AddStep ==
  ASSUME BranchInv, NEW c \in Chats, NEW m \in Messages, Adds(c, m),
         \A d \in Chats \ {c} : chats'[d] = chats[d], UNCHANGED links
  PROVE  TreesMove
<1>1. \A d \in Chats \ {c} : Rests(d)
  BY DEF Rests, TreeOf, Kept
<1>2. \A d \in Chats : ChatMoves(d)
  BY <1>1 DEF ChatMoves
<1>3. ASSUME NEW l \in Links PROVE LinkMoves(l)
  <2>1. links[l].state = "live" => links[l].chat \in Chats /\ Kept(links[l].chat)
    BY DEF BranchInv, LinkFits
  <2>2. links[l].state = "live" => chats'[links[l].chat].state # "deleted"
    BY <1>1, <2>1 DEF Rests, Adds, Kept
  <2> QED BY <1>2, <2>2, LinkStays
<1> QED BY <1>2, <1>3 DEF TreesMove

LEMMA StartChatAdds ==
  ASSUME BranchInv, NEW t \in Turns, NEW c \in Chats, StartChat(t, c)
  PROVE  TreesMove
<1> DEFINE m == Message(UserMsg(t), NoMsg)
<1>1. TreeOf(c) = <<>>
  BY DEF BranchInv, IInv, TreeInv, AbsentIsEmpty, StartChat
<1>2. UserMsg(t) \in MessageIds
  BY MessagesDiffer DEF MessageIds
<1>3. m \in Messages /\ m.id = UserMsg(t) /\ m.parent = NoMsg /\ m.id # NoMsg
  BY <1>2, MessageMade, NoMsgIsNone DEF Messages
<1>4. chats \in [Chats -> Chat]
  BY DEF BranchInv, IInv, TypeOK
<1> HIDE DEF m
<1>5. /\ chats'[c].state = "live" /\ chats'[c].tree = <<m>> /\ UNCHANGED links
      /\ \A d \in Chats \ {c} : chats'[d] = chats[d]
  BY <1>4 DEF StartChat, m
<1>6. Append(<<>>, m) = <<m>>
  BY <1>3
<1>7. Adds(c, m)
  <2>1. chats[c].state = "absent"
    BY DEF StartChat
  <2>2. TreeOf(c)' = Append(TreeOf(c), m)
    BY <1>1, <1>5, <1>6 DEF TreeOf
  <2> QED BY <1>1, <1>3, <1>5, <2>1, <2>2, EmptyTree DEF Adds, Kept
<1> QED BY <1>3, <1>5, <1>7, AddStep

LEMMA Append1Adds ==
  ASSUME BranchInv, NEW c \in Chats, NEW id \in MessageIds, NEW parent \in Ids(TreeOf(c)) \cup {NoMsg},
         id \notin Ids(TreeOf(c)), Kept(c), chats' = [chats EXCEPT ![c] = Append1(c, id, parent)],
         UNCHANGED links
  PROVE  TreesMove
<1> DEFINE m == Message(id, parent)
<1>1. parent \in MessageIds \cup {NoMsg}
  BY IdsTyped DEF BranchInv, IInv
<1>2. m \in Messages /\ m.id = id /\ m.parent = parent /\ m.id # NoMsg
  BY <1>1, MessageMade, NoMsgIsNone DEF Messages
<1>3. chats \in [Chats -> Chat]
  BY DEF BranchInv, IInv, TypeOK
<1> HIDE DEF m
<1>4. chats'[c] = Append1(c, id, parent) /\ \A d \in Chats \ {c} : chats'[d] = chats[d]
  BY <1>3
<1>5. chats'[c].state = chats[c].state /\ chats'[c].tree = Append(chats[c].tree, m)
  BY <1>4 DEF Append1, m
<1>6. Adds(c, m)
  BY <1>2, <1>5 DEF Adds, Kept, TreeOf
<1> QED BY <1>2, <1>4, <1>6, AddStep

\* Selecting a message, or the state of the row, leaves the trees alone.
LEMMA LeafRests ==
  ASSUME BranchInv, NEW c \in Chats, NEW id \in MessageIds, Kept(c), UNCHANGED links,
         chats' = [chats EXCEPT ![c] = [chats[c] EXCEPT !.leaf = id]]
  PROVE  TreesMove
<1>1. Selects(c, id)
  BY LeafSelects DEF BranchInv, IInv
<1>2. \A d \in Chats : Rests(d)
  BY <1>1 DEF Selects, Rests, TreeOf, Kept
<1> QED BY <1>2, QuietStep

LEMMA CommitTurnAdds ==
  ASSUME BranchInv, NEW t \in Turns, CommitTurn(t)
  PROVE  TreesMove
<1>0. IInv
  BY DEF BranchInv
<1>1. turns[t].pc = "open" /\ turns[t].chat \in Chats /\ UNCHANGED links
  <2>1. turns[t] \in Turn
    BY <1>0 DEF IInv, TypeOK
  <2> QED BY <2>1, TurnTyped DEF CommitTurn
<1>2. PICK c \in Chats : turns[t].chat = c
  BY <1>1
<1>3. PICK p : turns[t].parent = p
  OBVIOUS
<1>4. PICK u : turns[t].under = u
  OBVIOUS
<1>5. /\ u \in UserIds /\ chats[c].state # "absent"
      /\ chats[c].state # "deleted" => p \in Ids(TreeOf(c)) \cup {NoMsg}
  BY <1>0, <1>1, <1>2, <1>3, <1>4 DEF IInv, TreeInv, TurnsFit, TurnFits, OpenFits
<1>6. chats[c].state # "deleted" => Kept(c)
  BY <1>0, <1>5, StateOfChat DEF IInv
<1>7. CASE chats[c].state = "deleted"
  <2>1. UNCHANGED chats
    BY <1>2, <1>7 DEF CommitTurn
  <2> QED BY <1>1, <2>1, SameTrees
<1>8. CASE chats[c].state # "deleted" /\ turns[t].kind = "regenerate"
  <2>1. chats' = [chats EXCEPT ![c] = [chats[c] EXCEPT !.leaf = u]]
    BY <1>2, <1>4, <1>8 DEF CommitTurn
  <2>2. u \in MessageIds
    BY <1>5 DEF MessageIds
  <2> QED BY <1>1, <1>6, <1>8, <2>1, <2>2, LeafRests
<1>9. CASE chats[c].state # "deleted" /\ turns[t].kind # "regenerate"
  <2>1. chats' = [chats EXCEPT ![c] = Append1(c, UserMsg(t), p)]
    BY <1>2, <1>3, <1>9 DEF CommitTurn
  <2>2. UserMsg(t) \in MessageIds
    BY MessagesDiffer DEF MessageIds
  <2>3. UserMsg(t) \notin Ids(TreeOf(c))
    BY <1>0, <1>1 DEF IInv, TreeInv, UsersAreWritten
  <2> QED BY <1>1, <1>5, <1>6, <1>9, <2>1, <2>2, <2>3, Append1Adds
<1> QED BY <1>7, <1>8, <1>9

LEMMA EndTurnAdds ==
  ASSUME BranchInv, NEW t \in Turns, EndTurn(t)
  PROVE  TreesMove
<1>0. IInv
  BY DEF BranchInv
<1>1. turns[t].pc = "streaming" /\ UNCHANGED links
  BY DEF EndTurn
<1>2. StreamingFits(t)
  BY <1>0, <1>1 DEF IInv, TreeInv, TurnsFit, TurnFits
<1>3. PICK c \in Chats : turns[t].chat = c
  BY <1>2 DEF StreamingFits
<1>4. PICK u \in UserIds : turns[t].under = u
  BY <1>2 DEF StreamingFits
<1>5. chats[c].state # "absent" /\ (chats[c].state # "deleted" => u \in Ids(TreeOf(c)))
  BY <1>2, <1>3, <1>4 DEF StreamingFits
<1>6. chats[c].state # "deleted" => Kept(c)
  BY <1>0, <1>5, StateOfChat DEF IInv
<1>7. u \in MessageIds
  BY DEF MessageIds
<1>8. CASE chats[c].state = "deleted"
  <2>1. UNCHANGED chats
    BY <1>3, <1>8 DEF EndTurn
  <2> QED BY <1>1, <2>1, SameTrees
<1>9. CASE chats[c].state # "deleted" /\ Answers(t)
  <2>1. chats' = [chats EXCEPT ![c] = Append1(c, AnswerMsg(t), u)]
    BY <1>3, <1>4, <1>9 DEF EndTurn
  <2>2. AnswerMsg(t) \in MessageIds
    BY MessagesDiffer DEF MessageIds
  <2>3. AnswerMsg(t) \notin Ids(TreeOf(c))
    BY <1>0, <1>1 DEF IInv, TreeInv, AnswersAreWritten
  <2> QED BY <1>1, <1>5, <1>6, <1>9, <2>1, <2>2, <2>3, Append1Adds
<1>10. CASE chats[c].state # "deleted" /\ ~Answers(t)
  <2>1. chats' = [chats EXCEPT ![c] = [chats[c] EXCEPT !.leaf = u]]
    BY <1>3, <1>4, <1>10 DEF EndTurn
  <2> QED BY <1>1, <1>6, <1>7, <1>10, <2>1, LeafRests
<1> QED BY <1>8, <1>9, <1>10

LEMMA OwnerMoves ==
  ASSUME BranchInv, NEW c \in Chats,
         \/ \E id \in MessageIds : SelectLeaf(c, id)
         \/ \E state \in {"live", "archived"} : SetArchived(c, state)
  PROVE  TreesMove
<1>1. Kept(c) /\ UNCHANGED links
  BY DEF SelectLeaf, SetArchived
<1>2. CASE \E id \in MessageIds : SelectLeaf(c, id)
  <2>1. PICK id \in MessageIds : SelectLeaf(c, id)
    BY <1>2
  <2>2. chats' = [chats EXCEPT ![c] = [chats[c] EXCEPT !.leaf = id]]
    BY <2>1 DEF SelectLeaf
  <2> QED BY <1>1, <2>2, LeafRests
<1>3. CASE \E state \in {"live", "archived"} : SetArchived(c, state)
  <2>1. PICK state \in {"live", "archived"} : SetArchived(c, state)
    BY <1>3
  <2>2. chats \in [Chats -> Chat]
    BY DEF BranchInv, IInv, TypeOK
  <2> DEFINE moved == [chats[c] EXCEPT !.state = state]
  <2>3. moved.tree = chats[c].tree /\ moved.state = state
    BY <2>2 DEF Chat
  <2>4. chats' = [chats EXCEPT ![c] = moved]
    BY <2>1 DEF SetArchived
  <2> HIDE DEF moved
  <2>5. \A d \in Chats : chats'[d] = IF d = c THEN moved ELSE chats[d]
    BY <2>2, <2>4
  <2>6. \A d \in Chats : Rests(d)
    BY <1>1, <2>3, <2>5 DEF Rests, TreeOf, Kept
  <2> QED BY <1>1, <2>6, QuietStep
<1> QED BY <1>2, <1>3

LEMMA DeleteMoves ==
  ASSUME BranchInv, NEW c \in Chats, Delete(c)
  PROVE  TreesMove
<1>1. chats \in [Chats -> Chat] /\ links \in [Links -> Link] /\ Kept(c)
  BY DEF BranchInv, IInv, TypeOK, Delete
<1>2. /\ chats'[c].state = "deleted" /\ chats'[c].tree = <<>>
      /\ \A d \in Chats \ {c} : chats'[d] = chats[d]
  BY <1>1 DEF Delete
<1>3. \A d \in Chats : ChatMoves(d)
  <2>1. Falls(c)
    BY <1>1, <1>2 DEF Falls, TreeOf
  <2>2. \A d \in Chats \ {c} : Rests(d)
    BY <1>2 DEF Rests, TreeOf, Kept
  <2> QED BY <2>1, <2>2 DEF ChatMoves
<1>4. ASSUME NEW l \in Links PROVE LinkMoves(l)
  <2>1. links'[l] = IF links[l].chat = c /\ links[l].state \in {"live", "revoked"}
                    THEN [links[l] EXCEPT !.state = "gone"] ELSE links[l]
    BY DEF Delete
  <2>2. CASE links[l].chat = c /\ links[l].state \in {"live", "revoked"}
    <3>1. links'[l].state = "gone"
      BY <1>1, <2>1, <2>2 DEF Link
    <3> QED BY <3>1 DEF LinkMoves, LinkFits
  <2>3. CASE ~(links[l].chat = c /\ links[l].state \in {"live", "revoked"})
    <3>1. links'[l] = links[l]
      BY <2>1, <2>3
    <3>2. links[l].state = "live" => links[l].chat \in Chats /\ Kept(links[l].chat) /\ links[l].chat # c
      BY <2>3 DEF BranchInv, LinkFits
    <3>3. links[l].state = "live" => chats'[links[l].chat].state # "deleted"
      BY <1>2, <3>2 DEF Kept
    <3> QED BY <1>3, <3>1, <3>3, LinkStays
  <2> QED BY <2>2, <2>3
<1> QED BY <1>3, <1>4 DEF TreesMove

LEMMA SharingMoves ==
  ASSUME BranchInv, Sharing
  PROVE  TreesMove
<1>1. UNCHANGED chats
  BY DEF Sharing, AskLink, MakeLink, RevokeLink
<1>2. links \in [Links -> Link]
  BY DEF BranchInv, IInv, TypeOK
<1>3. \A c \in Chats : Rests(c)
  BY <1>1 DEF Rests, TreeOf, Kept
<1>4. \A c \in Chats : ChatMoves(c)
  BY <1>3 DEF ChatMoves
<1>5. PICK l \in Links : RevokeLink(l) \/ MakeLink(l) \/ \E c \in Chats : AskLink(l, c)
  BY DEF Sharing
<1>6. \A k \in Links \ {l} : links'[k] = links[k]
  BY <1>2, <1>5 DEF RevokeLink, MakeLink, AskLink
<1>7. \A k \in Links \ {l} : LinkMoves(k)
  <2> TAKE k \in Links \ {l}
  <2>1. links[k].state = "live" => links[k].chat \in Chats /\ Kept(links[k].chat)
    BY DEF BranchInv, LinkFits
  <2>2. links[k].state = "live" => chats'[links[k].chat].state # "deleted"
    BY <1>1, <2>1 DEF Kept
  <2> QED BY <1>4, <1>6, <2>2, LinkStays
<1>8. LinkMoves(l)
  <2>1. CASE RevokeLink(l)
    <3>1. links'[l].state = "revoked"
      BY <1>2, <2>1 DEF RevokeLink, Link
    <3> QED BY <3>1 DEF LinkMoves, LinkFits
  <2>2. CASE MakeLink(l)
    <3>1. PICK c : c = links[l].chat
      OBVIOUS
    <3>2. PICK state : state = IF ~Kept(c) THEN "refused" ELSE IF LiveLinks(c) # {} THEN "existing" ELSE "live"
      OBVIOUS
    <3>3. links' = [links EXCEPT ![l].state = state]
      BY <2>2, <3>1, <3>2 DEF MakeLink
    <3>4. links'[l].state = state /\ links'[l].chat = c /\ links'[l].leaf = links[l].leaf
      BY <1>2, <3>1, <3>3 DEF Link
    <3>5. state \in {"refused", "existing"} \/ (state = "live" /\ Kept(c))
      BY <3>2
    <3>6. links[l].state = "asked" /\ LinkFits(l)
      BY <2>2 DEF MakeLink, BranchInv
    <3>7. c \in Chats /\ chats[c].state # "absent" /\ (Kept(c) => links[l].leaf \in Ids(TreeOf(c)) \cup {NoMsg})
      BY <3>1, <3>6 DEF LinkFits
    <3>8. LinkFits(l)'
      BY <1>1, <3>4, <3>5, <3>7 DEF LinkFits, Kept, TreeOf
    <3> QED BY <3>6, <3>8 DEF LinkMoves
  <2>3. CASE \E c \in Chats : AskLink(l, c)
    <3>1. PICK c \in Chats : AskLink(l, c)
      BY <2>3
    <3>2. links'[l] = [state |-> "asked", chat |-> c, leaf |-> chats[c].leaf] /\ Kept(c)
      BY <1>2, <3>1 DEF AskLink
    <3>3. links'[l].state = "asked" /\ links'[l].chat = c /\ links'[l].leaf = chats[c].leaf
      BY <3>2
    <3>4. chats[c].leaf \in Ids(TreeOf(c)) \cup {NoMsg}
      BY DEF BranchInv, IInv, TreeInv, LeavesHeld
    <3>5. LinkFits(l)'
      BY <1>1, <3>2, <3>3, <3>4 DEF LinkFits, Kept, TreeOf
    <3> QED BY <3>3, <3>5 DEF LinkMoves
  <2> QED BY <1>5, <2>1, <2>2, <2>3
<1> QED BY <1>4, <1>7, <1>8 DEF TreesMove

LEMMA BranchInvNext == BranchInv /\ [Next]_serverVars => BranchInv' /\ TreesMove
<1> SUFFICES ASSUME BranchInv, [Next]_serverVars
             PROVE  BranchInv' /\ TreesMove
  OBVIOUS
<1>0. IInv /\ IInv'
  BY IInvNext DEF BranchInv
<1>1. TreesMove
  <2>1. CASE Requests
    <3>1. UNCHANGED chats
      BY <1>0, <2>1, RequestsStep
    <3>2. UNCHANGED links
      BY <2>1 DEF Requests, Receive, OpenTurn, Reject
    <3> QED BY <3>1, <3>2, SameTrees
  <2>2. CASE Owner
    <3>1. PICK c \in Chats : \/ Delete(c)
                             \/ \E state \in {"live", "archived"} : SetArchived(c, state)
                             \/ \E id \in MessageIds : SelectLeaf(c, id)
      BY <2>2 DEF Owner
    <3> QED BY <3>1, OwnerMoves, DeleteMoves
  <2>3. CASE Sharing
    BY <2>3, SharingMoves
  <2>4. CASE \E t \in Turns : Serve(t) \/ StreamText(t) \/ CrashTurn(t)
    <3>1. PICK t \in Turns : Serve(t) \/ StreamText(t) \/ CrashTurn(t)
      BY <2>4
    <3>2. CASE Serve(t)
      BY <3>2, CommitTurnAdds, EndTurnAdds, StartChatAdds DEF Serve
    <3>3. CASE StreamText(t) \/ CrashTurn(t)
      <4>1. UNCHANGED chats /\ UNCHANGED links
        BY <3>3 DEF StreamText, CrashTurn
      <4> QED BY <4>1, SameTrees
    <3> QED BY <3>1, <3>2, <3>3
  <2>5. CASE UNCHANGED serverVars
    <3>1. UNCHANGED chats /\ UNCHANGED links
      BY <2>5 DEF serverVars
    <3> QED BY <3>1, SameTrees
  <2> QED BY <2>1, <2>2, <2>3, <2>4, <2>5 DEF Next
<1>2. ASSUME NEW c \in Chats PROVE Sound(TreeOf(c))'
  <2>1. Sound(TreeOf(c)')
    BY <1>0, <1>1, MovesKeepSound DEF TreesMove, BranchInv, IInv
  <2> QED BY <2>1
<1>3. ASSUME NEW l \in Links PROVE LinkFits(l)'
  BY <1>1 DEF TreesMove, LinkMoves
<1> QED BY <1>0, <1>1, <1>2, <1>3 DEF BranchInv

LEMMA InitBranchInv == Init => BranchInv
<1> SUFFICES ASSUME Init PROVE BranchInv
  OBVIOUS
<1>1. IInv
  BY InitIInv
<1>2. \A c \in Chats : TreeOf(c) = <<>>
  BY DEF Init, NewChat, TreeOf
<1>3. \A l \in Links : links[l].state = "unused"
  BY DEF Init
<1> QED BY <1>1, <1>2, <1>3, EmptyIsSound DEF BranchInv, LinkFits

LEMMA BranchInvariance == Spec => []BranchInv
<1>1. BranchInv /\ [Next]_serverVars => BranchInv'
  BY BranchInvNext
<1> QED BY InitBranchInv, <1>1, PTL DEF Spec

\* Whatever requests overlap, race with a deletion and die, a switch to any stored message
\* shows it, and below its first message what is shown is one line, each message under the
\* one before it (switchBranch and deepestLeaf, page.tsx:212-231 and 966-976;
\* buildActivePath, chat-tree.ts:88-123).
THEOREM SwitchesCanBeShown == Spec => []BranchesCanBeShown
<1>1. BranchInv => BranchesCanBeShown
  <2> SUFFICES ASSUME BranchInv, NEW c \in Chats, NEW id \in Ids(TreeOf(c))
               PROVE  LET path == BuildActivePath(TreeOf(c), DeepestLeaf(TreeOf(c), id)) IN
                      /\ id \in Ids(path)
                      /\ \A i \in DOMAIN path : path[i].parent # NoMsg => i > 1 /\ path[i-1].id = path[i].parent
    BY DEF BranchesCanBeShown, TreeOf
  <2>1. TreeOf(c) \in Seq(Messages) /\ Sound(TreeOf(c))
    BY TreesOfMessages DEF BranchInv, IInv
  <2> QED BY <2>1, SwitchShows
<1> QED BY BranchInvariance, <1>1, PTL

\* The branch a live link recorded reads the same as long as the link is live, however the
\* tree grows around it, and no link to a deleted conversation is live (share.ts:100-112,
\* 0009_conversation_shares.sql).
THEOREM SharedBranchesStay == Spec => SharedBranchStays
<1> DEFINE Stays ==
      \A l \in Links : links[l].state = "live" =>
        /\ ~Kept(links[l].chat)' => links'[l].state # "live"
        /\ links'[l].state = "live" /\ links[l].leaf # NoMsg => BranchOf(l)' = BranchOf(l)
<1>1. BranchInv /\ [Next]_serverVars => Stays
  <2> SUFFICES ASSUME BranchInv, [Next]_serverVars, NEW l \in Links,
                      links[l].state = "live", links'[l].state = "live"
               PROVE  Kept(links[l].chat)' /\ (links[l].leaf # NoMsg => BranchOf(l)' = BranchOf(l))
    OBVIOUS
  <2>1. TreesMove
    BY BranchInvNext
  <2>2. LinkFits(l) /\ LinkFits(l)' /\ links'[l] = links[l]
    BY <2>1 DEF BranchInv, TreesMove, LinkMoves
  <2>3. Kept(links[l].chat)'
    BY <2>2 DEF LinkFits
  <2>4. ASSUME links[l].leaf # NoMsg PROVE BranchOf(l)' = BranchOf(l)
    <3>1. PICK c \in Chats : links[l].chat = c
      BY <2>2 DEF LinkFits
    <3>2. PICK leaf : links[l].leaf = leaf
      OBVIOUS
    <3>3. leaf \in Ids(TreeOf(c)) /\ Kept(c)
      BY <2>2, <2>4, <3>1, <3>2 DEF LinkFits
    <3>4. BranchOf(l) = WalkToRoot(TreeOf(c), leaf) /\ BranchOf(l)' = WalkToRoot(TreeOf(c)', leaf)
      BY <2>2, <3>1, <3>2 DEF BranchOf, TreeOf
    <3>5. CASE Rests(c)
      BY <3>4, <3>5 DEF Rests
    <3>6. CASE Falls(c)
      <4>1. Kept(c)'
        BY <2>2, <2>3, <3>1 DEF Kept
      <4> QED BY <3>6, <4>1 DEF Falls, Kept
    <3>7. CASE \E m \in Messages : Adds(c, m)
      <4>1. PICK m \in Messages : Adds(c, m)
        BY <3>7
      <4>2. TreeOf(c) \in Seq(Messages) /\ Sound(TreeOf(c))
        BY TreesOfMessages DEF BranchInv, IInv
      <4>3. WalkToRoot(Append(TreeOf(c), m), leaf) = WalkToRoot(TreeOf(c), leaf)
        BY <3>3, <4>1, <4>2, WalkStays DEF Adds
      <4> QED BY <3>4, <4>1, <4>3 DEF Adds
    <3> QED BY <2>1, <3>5, <3>6, <3>7 DEF TreesMove, ChatMoves
  <2> QED BY <2>3, <2>4
<1> QED BY BranchInvariance, <1>1, PTL DEF Spec, SharedBranchStays

-----------------------------------------------------------------------------
(* The page over the server.                                               *)

\* The slots of the loads, with that of the turn.
AllSlots == Slots \cup {"turn"}

Written == {"streaming", "ended", "dead"}

\* A turn that has written its message is in a conversation, and knows where its answer goes.
WrittenFits ==
  \A t \in Turns : turns[t].pc \in Written =>
    /\ turns[t].under \in UserIds
    /\ turns[t].chat \in Chats
    /\ chats[turns[t].chat].state # "absent"

Exists(c) == c \in Chats /\ chats[c].state # "absent"

\* What a load has read is in the conversation it loads, until that is deleted.
LoadFits(x) ==
  x.step # "none" =>
    /\ Exists(x.chat)
    /\ chats[x.chat].state # "deleted" =>
         /\ x.leaf \in Ids(TreeOf(x.chat)) \cup {NoMsg}
         /\ Ids(x.tree) \subseteq Ids(TreeOf(x.chat))

Loads(ls) == ls \in [AllSlots -> Load] /\ \A s \in AllSlots : LoadFits(ls[s])

\* The stages of the page, and the conversations that its requests name.
StageFits ==
  /\ page.stage = "idle" <=> page.turn = 0
  /\ page.stage = "reload" <=> loads["turn"].step # "none"
  /\ page.stage = "reload" => loads["turn"].chat = page.on

WhereFits(p) ==
  /\ p.url # NoChat => Exists(p.url)
  /\ p.stage \in {"opened", "reload"} => Exists(p.on)

PostedFit == posted \in [Turns -> Request \cup {Nothing}] /\ LocalIdsStayHome

PatchFits ==
  /\ patch \in [chat : Chats \cup {NoChat}, leaf : ShownIds \cup {NoMsg}]
  /\ patch # NoPatch => patch.chat \in Chats

Mine(t) == {LocalUser(t), LocalAnswer(t)}

IsStored(id) == \E c \in Chats : Holds(c, id)

Intact == faults = 0 /\ \A c \in Chats : chats[c].state # "deleted"

\* While a turn is sent, all that is shown but its own messages is stored, and the leaf it
\* would go back to is none of the page's own.
StoredAt(p) ==
  /\ p.stage = "idle" => p.leaf \notin LocalIds /\ \A id \in Ids(p.shown) : IsStored(id)
  /\ p.stage = "sent" =>
       p.prev \notin LocalIds /\ \A id \in Ids(p.shown) \ Mine(p.turn) : IsStored(id)

\* Messages and a leaf of the conversation c.
AtHome(c, ids, leaf) ==
  \/ c = NoChat /\ ids = {} /\ leaf = NoMsg
  \/ /\ c # NoChat
     /\ ids \cup ({leaf} \ {NoMsg}) \subseteq Ids(TreeOf(c)) \/ chats[c].state = "deleted"

HomeAt(p) ==
  /\ p.stage = "idle" => AtHome(p.conv, Ids(p.shown), p.leaf)
  /\ p.stage = "sent" => AtHome(p.conv, Ids(p.shown) \ Mine(p.turn), p.prev)
  /\ p.stage \in {"opened", "reload"} => p.conv = p.on

\* No conversation is loading while a turn that nothing has mixed with runs.
Apart == ~Idle /\ ~page.mixed => OpenLoads(loads) = {}

PageInv ==
  /\ IInv /\ WrittenFits
  /\ page \in Page /\ StageFits /\ WhereFits(page) /\ Loads(loads) /\ PostedFit /\ PatchFits
  /\ moves \in 0..MaxMoves /\ faults \in 0..MaxFaults
  /\ Intact => StoredAt(page)
  /\ ~page.mixed /\ faults = 0 => HomeAt(page)
  /\ Apart

-----------------------------------------------------------------------------
(* What the server does under the page.                                    *)

\* The steps of the server that the page's specification has, or none.
ServerStep ==
  \/ \E t \in Turns : Serve(t) \/ StreamText(t) \/ CrashTurn(t)
  \/ \E t \in Turns, r \in Request : Receive(t, r)
  \/ \E c \in Chats : Delete(c) \/ \E id \in MessageIds : SelectLeaf(c, id)
  \/ UNCHANGED serverVars

LEMMA ForestGrows ==
  ASSUME IInv, IInv', ForestStep
  PROVE  TreesGrow
<1> SUFFICES ASSUME NEW d \in Chats
             PROVE  /\ chats[d].state # "absent" => chats'[d].state # "absent"
                    /\ chats'[d].state # "deleted" =>
                         chats[d].state # "deleted" /\ Ids(TreeOf(d)) \subseteq Ids(TreeOf(d)')
  BY DEF TreesGrow
<1> DEFINE was == [c \in Chats |-> Range(chats[c].tree)]
           is == [c \in Chats |-> Range(chats'[c].tree)]
           phase == [c \in Chats |-> Phase(c)]
           phased == [c \in Chats |-> Phase(c)']
           states == {"absent", "live", "archived", "deleted"}
<1>1. chats[d].state \in states /\ chats'[d].state \in states
  BY ChatTyped DEF IInv, TypeOK
<1>2. /\ Phase(d) = "none" <=> chats[d].state = "absent"
      /\ Phase(d) = "deleted" <=> chats[d].state = "deleted"
      /\ Phase(d)' = "none" <=> chats'[d].state = "absent"
      /\ Phase(d)' = "deleted" <=> chats'[d].state = "deleted"
  BY <1>1 DEF Phase, Kept
<1>3. /\ was[d] = Range(chats[d].tree) /\ is[d] = Range(chats'[d].tree)
      /\ phase[d] = Phase(d) /\ phased[d] = Phase(d)'
  OBVIOUS
<1> HIDE DEF was, is, phase, phased
<1>4. /\ phase[d] # "none" => phased[d] # "none"
      /\ phased[d] # "deleted" => phase[d] # "deleted" /\ was[d] \subseteq is[d]
  <2>1. CASE UNCHANGED Forest!forestVars
    <3>1. was = is /\ phase = phased
      BY <2>1 DEF Forest!forestVars, was, is, phase, phased
    <3> QED BY <3>1
  <2>2. CASE Forest!ForestNext
    <3>1. PICK c \in Chats : \/ \E id \in UserIds : Forest!Say(c, id)
                             \/ \E id \in AnswerIds : Forest!Answer(c, id)
                             \/ \E id \in UserIds \cup AnswerIds : Forest!Select(c, id)
                             \/ Forest!Remove(c)
      BY <2>2 DEF Forest!ForestNext
    <3>2. DOMAIN was = Chats /\ DOMAIN phase = Chats
      BY DEF was, phase
    <3>3. ASSUME NEW m, phased = [phase EXCEPT ![c] = "open"], is = [was EXCEPT ![c] = @ \cup {m}],
                 phase[c] # "deleted"
          PROVE  /\ phase[d] # "none" => phased[d] # "none"
                 /\ phased[d] # "deleted" => phase[d] # "deleted" /\ was[d] \subseteq is[d]
      BY <3>2, <3>3
    <3>4. CASE \E id \in UserIds : Forest!Say(c, id)
      <4>1. /\ phased = [phase EXCEPT ![c] = "open"] /\ phase[c] # "deleted"
            /\ \E m : is = [was EXCEPT ![c] = @ \cup {m}]
        BY <3>4 DEF Forest!Say, Forest!Grow, phase, phased, was, is
      <4> QED BY <3>3, <4>1
    <3>5. CASE \E id \in AnswerIds : Forest!Answer(c, id)
      <4>1. /\ phased = [phase EXCEPT ![c] = "open"] /\ phase[c] = "open"
            /\ \E m : is = [was EXCEPT ![c] = @ \cup {m}]
        BY <3>5 DEF Forest!Answer, Forest!Grow, phase, phased, was, is
      <4> QED BY <3>3, <4>1
    <3>6. CASE \E id \in UserIds \cup AnswerIds : Forest!Select(c, id)
      <4>1. was = is /\ phase = phased
        BY <3>6 DEF Forest!Select, was, is, phase, phased
      <4> QED BY <4>1
    <3>7. CASE Forest!Remove(c)
      <4>1. phased = [phase EXCEPT ![c] = "deleted"] /\ is = [was EXCEPT ![c] = {}]
            /\ phase[c] = "open"
        BY <3>7 DEF Forest!Remove, was, is, phase, phased
      <4> QED BY <3>2, <4>1
    <3> QED BY <3>1, <3>4, <3>5, <3>6, <3>7
  <2> QED BY <2>1, <2>2 DEF ForestStep
<1>5. was[d] \subseteq is[d] => Ids(TreeOf(d)) \subseteq Ids(TreeOf(d)')
  BY <1>3, HeldIds DEF TreeOf
<1> QED BY <1>2, <1>3, <1>4, <1>5

\* A turn keeps what it has written under, and what conversation it is of.
WrittenKept ==
  \A u \in Turns : turns'[u].pc \in Written =>
    \/ turns'[u].pc = "streaming"
    \/ turns[u].pc \in Written /\ turns'[u].under = turns[u].under /\ turns'[u].chat = turns[u].chat

LEMMA WrittenIsKept ==
  ASSUME IInv, ServerStep
  PROVE  WrittenKept
<1> USE DEF WrittenKept, Written
<1>1. turns \in [Turns -> Turn]
  BY DEF IInv, TypeOK
<1>2. ASSUME NEW t \in Turns, NEW x, turns' = [turns EXCEPT ![t] = x],
             x.pc \in Written => \/ x.pc = "streaming"
                                 \/ turns[t].pc \in Written /\ x.under = turns[t].under /\ x.chat = turns[t].chat
      PROVE  WrittenKept
  BY <1>1, <1>2
<1>3. CASE UNCHANGED turns
  BY <1>3
<1>4. ASSUME NEW t \in Turns, \E r \in Request : Receive(t, r) PROVE WrittenKept
  <2>1. PICK r \in Request : OpenTurn(t, r) \/ Reject(t, r)
    BY <1>4 DEF Receive
  <2>2. CASE OpenTurn(t, r)
    BY <1>2, <2>2 DEF OpenTurn
  <2>3. CASE Reject(t, r)
    BY <1>1, <2>3 DEF Reject, Turn
  <2> QED BY <2>1, <2>2, <2>3
<1>5. ASSUME NEW t \in Turns, CommitTurn(t) PROVE WrittenKept
  BY <1>1, <1>5 DEF CommitTurn, Turn
<1>6. ASSUME NEW t \in Turns, NEW c \in Chats, StartChat(t, c) PROVE WrittenKept
  BY <1>1, <1>6 DEF StartChat, Turn
<1>7. ASSUME NEW t \in Turns, EndTurn(t) PROVE WrittenKept
  BY <1>1, <1>7 DEF EndTurn, Turn
<1>8. ASSUME NEW t \in Turns, StreamText(t) \/ CrashTurn(t) PROVE WrittenKept
  BY <1>1, <1>8 DEF StreamText, CrashTurn, Turn
<1>9. CASE \E c \in Chats : Delete(c) \/ \E id \in MessageIds : SelectLeaf(c, id)
  BY <1>3, <1>9 DEF Delete, SelectLeaf
<1> QED BY <1>3, <1>4, <1>5, <1>6, <1>7, <1>8, <1>9 DEF ServerStep, Serve, serverVars

LEMMA ServerKeeps ==
  ASSUME IInv, WrittenFits, ServerStep
  PROVE  IInv' /\ TreesGrow /\ WrittenFits'
<1>1. IInv' /\ TreesGrow
  <2>1. CASE \E t \in Turns, r \in Request : Receive(t, r)
    <3>1. IInv' /\ UNCHANGED chats
      BY <2>1, OpenTurnStep, PcStep DEF Receive
    <3> QED BY <3>1 DEF TreesGrow, TreeOf
  <2>2. CASE ~(\E t \in Turns, r \in Request : Receive(t, r))
    <3>1. [Next]_serverVars
      BY <2>2 DEF ServerStep, Next, Owner
    <3> QED BY <3>1, IInvNext, ForestGrows
  <2> QED BY <2>1, <2>2
<1>2. WrittenFits'
  <2> SUFFICES ASSUME NEW u \in Turns, turns'[u].pc \in Written
               PROVE  turns'[u].under \in UserIds /\ turns'[u].chat \in Chats
                      /\ chats'[turns'[u].chat].state # "absent"
    BY DEF WrittenFits
  <2>1. CASE turns'[u].pc = "streaming"
    BY <1>1, <2>1 DEF IInv, TreeInv, TurnsFit, TurnFits, StreamingFits
  <2>2. CASE turns[u].pc \in Written /\ turns'[u].under = turns[u].under /\ turns'[u].chat = turns[u].chat
    BY <1>1, <2>2 DEF WrittenFits, TreesGrow
  <2> QED BY <2>1, <2>2, WrittenIsKept DEF WrittenKept
<1> QED BY <1>1, <1>2

-----------------------------------------------------------------------------
(* What the page shows.                                                    *)

ShownMessage == [id : ShownIds, parent : ShownIds \cup {NoMsg}]

Shown == Seq(ShownMessage)

LEMMA LocalsApart ==
  /\ \A id \in MessageIds \cup {NoMsg} : id \notin LocalIds
  /\ NoMsg \notin ShownIds
  /\ \A t \in Turns : LocalUser(t) \in LocalIds /\ LocalAnswer(t) \in LocalIds
<1>1. \A id \in MessageIds : id.local = FALSE
  BY DEF MessageIds, UserIds, AnswerIds, UserMsg, AnswerMsg, Id
<1>2. \A id \in LocalIds : id.local = TRUE
  BY DEF LocalIds, Id
<1>3. \A t \in Turns : LocalUser(t) \in LocalIds /\ LocalAnswer(t) \in LocalIds
  BY DEF LocalUser, LocalAnswer, LocalIds
<1>4. NoMsg \notin MessageIds /\ NoMsg \notin LocalIds
  BY NoMsgAssumption
<1>5. \A id \in MessageIds : id \notin LocalIds
  BY <1>1, <1>2
<1> QED BY <1>3, <1>4, <1>5 DEF ShownIds

LEMMA SeqWidens ==
  ASSUME NEW A, NEW B, A \subseteq B, NEW q \in Seq(A)
  PROVE  q \in Seq(B)
<1>1. Len(q) \in Nat /\ DOMAIN q = 1..Len(q) /\ q = [i \in 1..Len(q) |-> q[i]]
  OBVIOUS
<1>2. \A i \in 1..Len(q) : q[i] \in B
  OBVIOUS
<1>3. q \in [1..Len(q) -> B]
  BY <1>1, <1>2
<1> QED BY <1>1, <1>3

LEMMA TreeIsShown == ASSUME NEW tree \in Tree PROVE tree \in Shown
<1>1. [id : MessageIds, parent : MessageIds \cup {NoMsg}] \subseteq ShownMessage
  BY DEF ShownMessage, ShownIds
<1> QED BY <1>1, SeqWidens DEF Tree, Shown

LEMMA Joined ==
  ASSUME NEW M, NEW a \in Seq(M), NEW b \in Seq(M)
  PROVE  /\ a \o b \in Seq(M) /\ Range(a \o b) = Range(a) \cup Range(b)
         /\ Ids(a \o b) = Ids(a) \cup Ids(b)
<1> DEFINE n == Len(a)
           k == Len(b)
           c == a \o b
<1>1. c \in Seq(M) /\ n \in Nat /\ k \in Nat /\ DOMAIN a = 1..n /\ DOMAIN b = 1..k /\ DOMAIN c = 1..(n + k)
  OBVIOUS
<1>2. \A i \in 1..n : c[i] = a[i]
  OBVIOUS
<1>3. \A i \in 1..k : c[n + i] = b[i]
  OBVIOUS
<1> HIDE DEF c, n, k
<1>4. Range(c) = Range(a) \cup Range(b)
  <2>1. ASSUME NEW i \in 1..(n + k) PROVE c[i] \in Range(a) \cup Range(b)
    <3>1. CASE i \in 1..n
      BY <1>1, <1>2, <3>1 DEF Range
    <3>2. CASE i \notin 1..n
      <4>1. i - n \in 1..k /\ i = n + (i - n)
        BY <1>1, <3>2
      <4> QED BY <1>1, <1>3, <4>1 DEF Range
    <3> QED BY <3>1, <3>2
  <2>2. ASSUME NEW i \in 1..n PROVE a[i] \in Range(c)
    BY <1>1, <1>2 DEF Range
  <2>3. ASSUME NEW i \in 1..k PROVE b[i] \in Range(c)
    <3>1. n + i \in 1..(n + k)
      BY <1>1
    <3> QED BY <1>1, <1>3, <3>1 DEF Range
  <2> QED BY <1>1, <2>1, <2>2, <2>3 DEF Range
<1>5. Ids(c) = Ids(a) \cup Ids(b)
  BY <1>4, HeldIds
<1> QED BY <1>1, <1>4, <1>5 DEF c

LEMMA WalkElements ==
  ASSUME NEW M, NEW tree \in Seq(M), NEW start
  PROVE  WalkToRoot(tree, start) \in Seq(M) /\ Range(WalkToRoot(tree, start)) \subseteq Range(tree)
<1> DEFINE S == {m \in Range(tree) : m.id \in Chain(tree, start)}
<1>1. WalkToRoot(tree, start) = Those(tree, S)
  BY DEF WalkToRoot
<1> HIDE DEF S
<1> QED BY <1>1, ThoseElements

\* The branch shown is made of the tree's own messages.
LEMMA PathElements ==
  ASSUME NEW M, NEW tree \in Seq(M), NEW leaf
  PROVE  BuildActivePath(tree, leaf) \in Seq(M) /\ Range(BuildActivePath(tree, leaf)) \subseteq Range(tree)
<1> DEFINE path == WalkToRoot(tree, FindActiveLeaf(tree, leaf))
           S == {m \in Range(tree) \ Range(path) : m.parent = NoMsg}
<1>1. path \in Seq(M) /\ Range(path) \subseteq Range(tree)
  BY WalkElements
<1>2. BuildActivePath(tree, leaf) = IF IsFlatThread(tree) THEN tree ELSE Those(tree, S) \o path
  BY DEF BuildActivePath
<1> HIDE DEF S, path
<1>3. Those(tree, S) \in Seq(M) /\ Range(Those(tree, S)) \subseteq Range(tree)
  BY ThoseElements
<1> QED BY <1>1, <1>2, <1>3, Joined

LEMMA AdjacentIsHeld ==
  ASSUME NEW M, NEW tree \in Seq(M), NEW id, NEW step
  PROVE  AdjacentSibling(tree, id, step) \in Ids(tree) \cup {NoMsg}
<1> DEFINE S == {m \in Range(tree) : m.parent = ParentIn(tree, id)}
           group == SiblingsOf(tree, id)
           at == (CHOOSE i \in DOMAIN group : group[i].id = id) + step
<1>1. Range(group) \subseteq Range(tree)
  <2>1. group = Those(tree, S)
    BY DEF SiblingsOf
  <2> HIDE DEF S, group
  <2> QED BY <2>1, ThoseElements
<1>2. AdjacentSibling(tree, id, step) = IF at \in DOMAIN group THEN group[at].id ELSE NoMsg
  BY DEF AdjacentSibling
<1> HIDE DEF group, at
<1>3. at \in DOMAIN group => group[at] \in Range(tree)
  BY <1>1 DEF Range
<1> QED BY <1>2, <1>3, HeldIds

-----------------------------------------------------------------------------
(* Records, and what the page does when it renders.                        *)

LEMMA PageTyped ==
  ASSUME NEW p \in Page
  PROVE  /\ p.url \in Chats \cup {NoChat} /\ p.conv \in Chats \cup {NoChat} /\ p.shown \in Shown
         /\ p.leaf \in ShownIds \cup {NoMsg} /\ p.agent \in BOOLEAN
         /\ p.stage \in {"idle", "sent", "opened", "reload"} /\ p.turn \in 0..MaxTurns
         /\ p.on \in Chats \cup {NoChat} /\ p.prev \in ShownIds \cup {NoMsg} /\ p.mixed \in BOOLEAN
BY DEF Page, Shown, ShownMessage

LEMMA LoadTyped ==
  ASSUME NEW x \in Load
  PROVE  /\ x.step \in {"none", "asked", "leaf", "rows"} /\ x.chat \in Chats \cup {NoChat}
         /\ x.leaf \in MessageIds \cup {NoMsg} /\ x.tree \in Tree
BY DEF Load

LEMMA AskedFits ==
  ASSUME NEW c, Exists(c)
  PROVE  Asked(c) \in Load /\ LoadFits(Asked(c)) /\ Asked(c).step = "asked" /\ Asked(c).chat = c
<1>1. <<>> \in Tree
  BY EmptyInSeq DEF Tree
<1>2. Asked(c).leaf = NoMsg /\ Asked(c).tree = <<>> /\ Asked(c).step = "asked" /\ Asked(c).chat = c
  BY DEF Asked
<1> QED BY <1>1, <1>2, EmptyTree DEF Exists, LoadFits, Asked, Load

LEMMA NoLoadFits == NoLoad \in Load /\ LoadFits(NoLoad) /\ NoLoad.step = "none"
<1>1. <<>> \in Tree
  BY EmptyInSeq DEF Tree
<1> QED BY <1>1 DEF NoLoad, Load, LoadFits

\* The page has become p, but for what the effect has loaded and mixed.
Becomes(p) ==
  /\ page' \in Page
  /\ page'.url = p.url /\ page'.conv = p.conv /\ page'.shown = p.shown /\ page'.leaf = p.leaf
  /\ page'.agent = p.agent /\ page'.stage = p.stage /\ page'.turn = p.turn /\ page'.on = p.on
  /\ page'.prev = p.prev
  /\ ~page'.mixed => ~p.mixed /\ (p.stage = "idle" \/ OpenLoads(loads') = {})

LEMMA Rendered ==
  ASSUME NEW p \in Page, NEW ls, Loads(ls), p.url # NoChat => Exists(p.url), Render(p, ls)
  PROVE  Becomes(p) /\ Loads(loads') /\ loads'["turn"] = ls["turn"]
<1> DEFINE free == Slots \ OpenLoads(ls)
           s0 == CHOOSE f \in free : TRUE
           Taken(s) == free # {} /\ s = s0
           q == [p EXCEPT !.mixed = @ \/ (p.stage # "idle" /\ OpenLoads(loads') # {})]
<1>1. Loads(loads') /\ loads'["turn"] = ls["turn"]
  <2>1. CASE loads' = ls
    BY <2>1 DEF Loads
  <2>2. CASE loads' # ls
    <3>1. /\ loads' = [s \in DOMAIN ls |-> IF Taken(s) THEN Asked(p.url) ELSE ls[s]]
          /\ p.url # NoChat
      BY <2>2 DEF Render, Follow
    <3>2. free # {} => s0 \in Slots
      OBVIOUS
    <3>3. Asked(p.url) \in Load /\ LoadFits(Asked(p.url))
      BY <3>1, AskedFits
    <3>4. ~Taken("turn") /\ "turn" \in AllSlots
      BY <3>2, SlotsAssumption DEF AllSlots
    <3> HIDE DEF Taken
    <3>5. DOMAIN ls = AllSlots /\ \A s \in AllSlots : ls[s] \in Load /\ LoadFits(ls[s])
      BY DEF Loads
    <3>6. \A s \in AllSlots : loads'[s] = IF Taken(s) THEN Asked(p.url) ELSE ls[s]
      BY <3>1, <3>5
    <3>7. loads' \in [AllSlots -> Load]
      BY <3>1, <3>3, <3>5
    <3> QED BY <3>3, <3>4, <3>5, <3>6, <3>7 DEF Loads
  <2> QED BY <2>1, <2>2
<1>2. page' = q
  BY DEF Render
<1>3. /\ q.url = p.url /\ q.conv = p.conv /\ q.shown = p.shown /\ q.leaf = p.leaf
      /\ q.agent = p.agent /\ q.stage = p.stage /\ q.turn = p.turn /\ q.on = p.on
      /\ q.prev = p.prev /\ q \in Page
  BY DEF Page
<1>4. q.mixed = (p.mixed \/ (p.stage # "idle" /\ OpenLoads(loads') # {}))
  BY DEF Page
<1> HIDE DEF q
<1> QED BY <1>1, <1>2, <1>3, <1>4 DEF Becomes

-----------------------------------------------------------------------------
(* Steps in general.                                                       *)

LEMMA StoredStays ==
  ASSUME TreesGrow, \A c \in Chats : chats'[c].state # "deleted", NEW id, IsStored(id)
  PROVE  IsStored(id)'
BY DEF TreesGrow, IsStored, Holds, TreeOf

\* The server moves while the page waits; a request may arrive.
LEMMA UnderPage ==
  ASSUME PageInv, ServerStep, UNCHANGED <<page, loads, moves, faults>>, PostedFit', PatchFits'
  PROVE  PageInv'
<1>1. IInv' /\ TreesGrow /\ WrittenFits'
  BY ServerKeeps DEF PageInv
<1>2. page \in Page /\ page' = page /\ loads' = loads /\ faults' = faults /\ moves' = moves
  BY DEF PageInv
<1>3. Loads(loads)'
  <2>1. \A s \in AllSlots : LoadFits(loads[s])
    BY DEF PageInv, Loads
  <2> DEFINE Fits(x) == x.step # "none" =>
                          /\ x.chat \in Chats /\ chats'[x.chat].state # "absent"
                          /\ chats'[x.chat].state # "deleted" =>
                               /\ x.leaf \in Ids(chats'[x.chat].tree) \cup {NoMsg}
                               /\ Ids(x.tree) \subseteq Ids(chats'[x.chat].tree)
  <2>2. \A x : LoadFits(x) => Fits(x)
    BY <1>1 DEF TreesGrow, LoadFits, Exists, TreeOf
  <2>3. \A s \in AllSlots : Fits(loads[s])
    BY <2>1, <2>2
  <2> QED BY <1>2, <2>3 DEF PageInv, Loads, LoadFits, Exists, TreeOf
<1>4. StageFits' /\ WhereFits(page)'
  <2>1. \A c : Exists(c) => Exists(c)'
    BY <1>1 DEF TreesGrow, Exists
  <2> QED BY <1>2, <2>1 DEF PageInv, StageFits, WhereFits
<1>5. Intact' => StoredAt(page)'
  <2> SUFFICES ASSUME Intact' PROVE StoredAt(page)'
    OBVIOUS
  <2>1. \A id : IsStored(id) => IsStored(id)'
    BY <1>1, StoredStays DEF Intact
  <2>2. Intact
    BY <1>1, <1>2 DEF Intact, TreesGrow
  <2> QED BY <1>2, <2>1, <2>2 DEF PageInv, StoredAt
<1>6. ~page'.mixed /\ faults' = 0 => HomeAt(page)'
  <2> SUFFICES ASSUME ~page'.mixed, faults' = 0 PROVE HomeAt(page)'
    OBVIOUS
  <2>1. HomeAt(page) /\ page.conv \in Chats \cup {NoChat}
    BY <1>2, PageTyped DEF PageInv
  <2>2. \A ids, leaf : AtHome(page.conv, ids, leaf) => AtHome(page.conv, ids, leaf)'
    BY <1>1, <1>2, <2>1 DEF TreesGrow, AtHome, TreeOf
  <2> QED BY <1>2, <2>1, <2>2 DEF HomeAt
<1>7. Apart'
  BY <1>2 DEF PageInv, Apart, Idle, OpenLoads
<1> QED BY <1>1, <1>2, <1>3, <1>4, <1>5, <1>6, <1>7 DEF PageInv

\* The page moves, or its requests do, while the server waits.
LEMMA PageMoves ==
  ASSUME PageInv, UNCHANGED serverVars, NEW p \in Page, Becomes(p), Loads(loads'),
         p.stage = "idle" <=> p.turn = 0,
         p.stage = "reload" <=> loads'["turn"].step # "none",
         p.stage = "reload" => loads'["turn"].chat = p.on,
         WhereFits(p), PostedFit', PatchFits', moves' \in 0..MaxMoves, faults' \in 0..MaxFaults,
         Intact' => StoredAt(p),
         ~p.mixed /\ faults' = 0 => HomeAt(p)
  PROVE  PageInv'
<1>1. IInv' /\ WrittenFits'
  BY ServerKeeps DEF PageInv, ServerStep
<1>2. chats' = chats /\ page' \in Page
  BY DEF serverVars, Becomes
<1>3. /\ page'.url = p.url /\ page'.conv = p.conv /\ page'.shown = p.shown /\ page'.leaf = p.leaf
      /\ page'.stage = p.stage /\ page'.turn = p.turn /\ page'.on = p.on /\ page'.prev = p.prev
      /\ ~page'.mixed => ~p.mixed /\ (p.stage = "idle" \/ OpenLoads(loads') = {})
  BY DEF Becomes
<1>4. StageFits'
  BY <1>3 DEF StageFits
<1>5. WhereFits(page)'
  BY <1>2, <1>3 DEF WhereFits, Exists
<1>6. Loads(loads)'
  BY <1>2 DEF Loads, LoadFits, Exists, TreeOf
<1>7. Intact' => StoredAt(page)'
  BY <1>2, <1>3 DEF StoredAt, IsStored, Holds
<1>8. ~page'.mixed /\ faults' = 0 => HomeAt(page)'
  BY <1>2, <1>3 DEF HomeAt, AtHome, TreeOf
<1>9. Apart'
  BY <1>3 DEF Apart, Idle, OpenLoads
<1> QED BY <1>1, <1>2, <1>4, <1>5, <1>6, <1>7, <1>8, <1>9 DEF PageInv

-----------------------------------------------------------------------------
(* The address and the loads.                                              *)

\* Nothing that the turn has to do with changes in the page.
SameTurn(p) ==
  /\ p.conv = page.conv /\ p.shown = page.shown /\ p.leaf = page.leaf /\ p.stage = page.stage
  /\ p.turn = page.turn /\ p.on = page.on /\ p.prev = page.prev
  /\ ~p.mixed => ~page.mixed

LEMMA SameTurnStays ==
  ASSUME PageInv, NEW p, SameTurn(p), UNCHANGED serverVars, faults' = 0 => faults = 0
  PROVE  /\ p.stage = "idle" <=> p.turn = 0
         /\ Intact' => StoredAt(p)
         /\ ~p.mixed /\ faults' = 0 => HomeAt(p)
         /\ p.stage \in {"opened", "reload"} => Exists(p.on)
<1>1. Intact' => Intact
  BY DEF Intact, serverVars
<1>2. Intact => StoredAt(p)
  BY DEF PageInv, SameTurn, StoredAt
<1>3. ~p.mixed /\ faults = 0 => HomeAt(p)
  BY DEF PageInv, SameTurn, HomeAt
<1> QED BY <1>1, <1>2, <1>3 DEF PageInv, SameTurn, StageFits, WhereFits

LEMMA NavigateStep ==
  ASSUME PageInv, NEW c \in Chats \cup {NoChat}, Navigate(c)
  PROVE  PageInv'
<1> DEFINE p == [page EXCEPT !.url = c]
<1>1. /\ moves < MaxMoves /\ moves' = moves + 1 /\ Render(p, loads)
      /\ c # NoChat => Exists(c)
      /\ UNCHANGED <<serverVars, posted, patch, faults>>
  BY DEF Navigate, Exists
<1>2. page \in Page /\ Loads(loads) /\ WhereFits(page)
  BY DEF PageInv
<1>3. p \in Page /\ SameTurn(p) /\ p.url = c
  BY <1>2 DEF Page, SameTurn
<1> HIDE DEF p
<1>4. Becomes(p) /\ Loads(loads') /\ loads'["turn"] = loads["turn"]
  BY <1>1, <1>2, <1>3, Rendered
<1>5. WhereFits(p)
  BY <1>1, <1>3, SameTurnStays DEF WhereFits
<1>6. moves' \in 0..MaxMoves
  BY <1>1, MovesAssumption DEF PageInv
<1>7. PostedFit' /\ PatchFits' /\ faults' \in 0..MaxFaults
  BY <1>1 DEF PageInv, PostedFit, LocalIdsStayHome, PatchFits
<1>8. /\ p.stage = "reload" <=> loads'["turn"].step # "none"
      /\ p.stage = "reload" => loads'["turn"].chat = p.on
  BY <1>3, <1>4 DEF PageInv, StageFits, SameTurn
<1> QED BY <1>1, <1>3, <1>4, <1>5, <1>6, <1>7, <1>8, SameTurnStays, PageMoves

LEMMA LoadsSet ==
  ASSUME NEW ls, Loads(ls), NEW s \in AllSlots, NEW x \in Load, LoadFits(x)
  PROVE  /\ Loads([ls EXCEPT ![s] = x])
         /\ [ls EXCEPT ![s] = x]["turn"] = IF s = "turn" THEN x ELSE ls["turn"]
<1>1. "turn" \in AllSlots /\ DOMAIN ls = AllSlots
  BY DEF AllSlots, Loads
<1> QED BY <1>1 DEF Loads

\* A load that goes on, and is out until then and afterwards.
LEMMA LoadGoesOn ==
  ASSUME PageInv, NEW s \in AllSlots, NEW x \in Load, LoadFits(x), x.step # "none",
         x.chat = loads[s].chat, loads[s].step # "none", loads' = [loads EXCEPT ![s] = x],
         UNCHANGED <<serverVars, page, posted, patch, moves, faults>>
  PROVE  PageInv'
<1>1. Loads(loads) /\ page \in Page /\ page' = page
  BY DEF PageInv
<1>2. Loads(loads') /\ loads'["turn"] = IF s = "turn" THEN x ELSE loads["turn"]
  BY <1>1, LoadsSet
<1>3. OpenLoads(loads') = OpenLoads(loads)
  BY <1>1 DEF Loads, OpenLoads, AllSlots
<1>4. Becomes(page)
  BY <1>1, <1>3 DEF Becomes, PageInv, Apart, Idle
<1>5. SameTurn(page)
  BY DEF SameTurn
<1>6. PostedFit' /\ PatchFits' /\ faults' \in 0..MaxFaults /\ moves' \in 0..MaxMoves
  BY DEF PageInv, PostedFit, LocalIdsStayHome, PatchFits
<1>7. /\ page.stage = "reload" <=> loads'["turn"].step # "none"
      /\ page.stage = "reload" => loads'["turn"].chat = page.on
  BY <1>2 DEF PageInv, StageFits
<1>8. WhereFits(page)
  BY DEF PageInv
<1> QED BY <1>1, <1>2, <1>4, <1>5, <1>6, <1>7, <1>8, SameTurnStays, PageMoves

LEMMA LoadIsThere ==
  ASSUME PageInv, NEW s \in AllSlots, loads[s].step # "none"
  PROVE  LoadFits(loads[s]) /\ loads[s] \in Load /\ Exists(loads[s].chat)
BY DEF PageInv, Loads, LoadFits

LEMMA ReadLeafStep ==
  ASSUME PageInv, NEW s \in AllSlots, ReadLeaf(s)
  PROVE  PageInv'
<1> DEFINE c == loads[s].chat
           x == [step |-> "leaf", chat |-> c, leaf |-> chats[c].leaf, tree |-> <<>>]
<1>1. loads[s].step = "asked" /\ loads' = [loads EXCEPT ![s] = x]
      /\ UNCHANGED <<serverVars, page, posted, patch, moves, faults>>
  BY DEF ReadLeaf
<1>2. Exists(c) /\ c \in Chats
  BY <1>1, LoadIsThere DEF Exists
<1>3. chats[c].leaf \in Ids(TreeOf(c)) \cup {NoMsg} /\ chats[c].leaf \in MessageIds \cup {NoMsg}
  BY <1>2, IdsTyped, ChatTyped DEF PageInv, IInv, TreeInv, LeavesHeld
<1>4. <<>> \in Tree /\ Ids(<<>>) = {}
  BY EmptyInSeq, EmptyTree DEF Tree
<1>5. x \in Load
  BY <1>2, <1>3, <1>4 DEF Load
<1>6. x.step = "leaf" /\ x.chat = c /\ x.leaf = chats[c].leaf /\ x.tree = <<>>
  OBVIOUS
<1> HIDE DEF x
<1>7. LoadFits(x)
  BY <1>2, <1>3, <1>4, <1>6 DEF LoadFits
<1> QED BY <1>1, <1>5, <1>6, <1>7, LoadGoesOn

LEMMA ReadRowsStep ==
  ASSUME PageInv, NEW s \in AllSlots, ReadRows(s)
  PROVE  PageInv'
<1> DEFINE c == loads[s].chat
           x == [loads[s] EXCEPT !.step = "rows", !.tree = chats[c].tree]
<1>1. loads[s].step = "leaf" /\ UNCHANGED <<serverVars, page, posted, patch, moves, faults>>
  BY DEF ReadRows
<1>2. Exists(c) /\ c \in Chats /\ loads[s] \in Load /\ LoadFits(loads[s])
  BY <1>1, LoadIsThere DEF Exists
<1>3. loads \in [AllSlots -> Load]
  BY DEF PageInv, Loads
<1>4. loads' = [loads EXCEPT ![s] = x]
  BY <1>3 DEF ReadRows
<1>5. TreeOf(c) \in Tree
  BY <1>2, IdsTyped DEF PageInv, IInv
<1>6. x \in Load /\ x.step = "rows" /\ x.chat = c /\ x.leaf = loads[s].leaf /\ x.tree = TreeOf(c)
  BY <1>2, <1>5 DEF Load, TreeOf
<1> HIDE DEF x
<1>7. LoadFits(x)
  BY <1>1, <1>2, <1>6 DEF LoadFits
<1> QED BY <1>1, <1>4, <1>6, <1>7, LoadGoesOn

\* A tree that a load has read, as the page shows it.
LEMMA LoadedIsStored ==
  ASSUME PageInv, NEW s \in AllSlots, loads[s].step = "rows"
  PROVE  /\ loads[s].chat \in Chats /\ loads[s].tree \in Shown /\ loads[s].leaf \in ShownIds \cup {NoMsg}
         /\ loads[s].leaf \notin LocalIds
         /\ AtHome(loads[s].chat, Ids(loads[s].tree), loads[s].leaf)
         /\ Intact => \A id \in Ids(loads[s].tree) : IsStored(id)
<1> DEFINE x == loads[s]
<1>1. LoadFits(x) /\ x \in Load /\ Exists(x.chat) /\ x.step # "none"
  BY LoadIsThere
<1>2. x.leaf \in MessageIds \cup {NoMsg} /\ x.tree \in Tree
  BY <1>1, LoadTyped
<1>3. x.leaf \notin LocalIds /\ x.tree \in Shown /\ x.leaf \in ShownIds \cup {NoMsg}
  BY <1>2, LocalsApart, TreeIsShown DEF ShownIds
<1>4. x.chat \in Chats /\ x.chat # NoChat
  BY <1>1, ChatsAreNumbers DEF Exists
<1>5. chats[x.chat].state # "deleted" =>
        Ids(x.tree) \subseteq Ids(TreeOf(x.chat)) /\ x.leaf \in Ids(TreeOf(x.chat)) \cup {NoMsg}
  BY <1>1 DEF LoadFits
<1>6. AtHome(x.chat, Ids(x.tree), x.leaf)
  BY <1>4, <1>5 DEF AtHome
<1>7. Intact => \A id \in Ids(x.tree) : IsStored(id)
  BY <1>4, <1>5 DEF Intact, IsStored, Holds, TreeOf
<1> QED BY <1>3, <1>4, <1>6, <1>7

LEMMA ShowConversationStep ==
  ASSUME PageInv, NEW s \in Slots, ShowConversation(s)
  PROVE  PageInv'
<1> DEFINE x == loads[s]
           p == [page EXCEPT !.conv = x.chat, !.shown = x.tree, !.leaf = x.leaf,
                             !.agent = IsAgentChat(x.tree), !.mixed = @ /\ ~Idle]
           ls == [loads EXCEPT ![s] = NoLoad]
<1>1. x.step = "rows" /\ Render(p, ls) /\ UNCHANGED <<serverVars, posted, patch, moves, faults>>
  BY DEF ShowConversation
<1>2. s \in AllSlots /\ s # "turn" /\ page \in Page /\ Loads(loads)
  BY SlotsAssumption DEF AllSlots, PageInv
<1>3. /\ x.chat \in Chats /\ x.tree \in Shown /\ x.leaf \in ShownIds \cup {NoMsg} /\ x.leaf \notin LocalIds
      /\ AtHome(x.chat, Ids(x.tree), x.leaf)
      /\ Intact => \A id \in Ids(x.tree) : IsStored(id)
  BY <1>1, <1>2, LoadedIsStored
<1>4. IsAgentChat(x.tree) \in BOOLEAN
  BY DEF IsAgentChat
<1>5. p \in Page
  BY <1>2, <1>3, <1>4 DEF Page, Shown, ShownMessage
<1>6. /\ p.url = page.url /\ p.conv = x.chat /\ p.shown = x.tree /\ p.leaf = x.leaf /\ p.stage = page.stage
      /\ p.turn = page.turn /\ p.on = page.on /\ p.prev = page.prev
      /\ ~p.mixed => Idle \/ ~page.mixed
  BY <1>2 DEF Page
<1>7. Loads(ls) /\ ls["turn"] = loads["turn"]
  BY <1>2, NoLoadFits, LoadsSet
<1> HIDE DEF p, ls
<1>8. WhereFits(p)
  BY <1>6 DEF PageInv, WhereFits
<1>9. Becomes(p) /\ Loads(loads') /\ loads'["turn"] = loads["turn"]
  BY <1>1, <1>5, <1>7, <1>8, Rendered DEF WhereFits
<1>10. ~p.mixed => Idle
  <2>1. s \in OpenLoads(loads)
    BY <1>1 DEF OpenLoads
  <2> QED BY <1>6, <2>1 DEF PageInv, Apart
<1>11. Intact' => StoredAt(p)
  <2> SUFFICES ASSUME Intact' PROVE StoredAt(p)
    OBVIOUS
  <2>1. Intact /\ StoredAt(page)
    BY <1>1 DEF Intact, serverVars, PageInv
  <2>2. p.stage = "idle" => p.leaf \notin LocalIds /\ \A id \in Ids(p.shown) : IsStored(id)
    BY <1>3, <1>6, <2>1
  <2>3. p.stage = "sent" => p.prev \notin LocalIds /\ \A id \in Ids(p.shown) \ Mine(p.turn) : IsStored(id)
    BY <1>3, <1>6, <2>1 DEF StoredAt
  <2> QED BY <2>2, <2>3 DEF StoredAt
<1>12. ~p.mixed /\ faults' = 0 => HomeAt(p)
  BY <1>3, <1>6, <1>10 DEF HomeAt, Idle
<1>13. /\ p.stage = "idle" <=> p.turn = 0
       /\ p.stage = "reload" <=> loads'["turn"].step # "none"
       /\ p.stage = "reload" => loads'["turn"].chat = p.on
  BY <1>6, <1>9 DEF PageInv, StageFits
<1>14. PostedFit' /\ PatchFits' /\ faults' \in 0..MaxFaults /\ moves' \in 0..MaxMoves
  BY <1>1 DEF PageInv, PostedFit, LocalIdsStayHome, PatchFits
<1> QED BY <1>1, <1>5, <1>8, <1>9, <1>11, <1>12, <1>13, <1>14, PageMoves

LEMMA RestTyped ==
  ASSUME NEW p \in Page
  PROVE  /\ Rest(p) \in Page
         /\ Rest(p).url = p.url /\ Rest(p).conv = p.conv /\ Rest(p).shown = p.shown /\ Rest(p).leaf = p.leaf
         /\ Rest(p).stage = "idle" /\ Rest(p).turn = 0 /\ Rest(p).mixed = p.mixed
<1>1. 0 \in 0..MaxTurns
  BY BoundsAssumption
<1>2. Rest(p) \in Page
  BY <1>1 DEF Rest, Page
<1>3. /\ Rest(p).url = p.url /\ Rest(p).conv = p.conv /\ Rest(p).shown = p.shown /\ Rest(p).leaf = p.leaf
      /\ Rest(p).stage = "idle" /\ Rest(p).turn = 0 /\ Rest(p).mixed = p.mixed
  BY DEF Rest, Page
<1> QED BY <1>2, <1>3

LEMMA LoadFailsStep ==
  ASSUME PageInv, NEW s \in AllSlots, LoadFails(s)
  PROVE  PageInv'
<1> DEFINE x == loads[s]
           p == IF s = "turn" THEN Rest(page) ELSE page
<1>1. /\ x.step # "none" /\ loads' = [loads EXCEPT ![s] = NoLoad] /\ page' = p
      /\ UNCHANGED <<serverVars, posted, patch, moves>>
      /\ (~Kept(x.chat) /\ UNCHANGED faults) \/ (faults < MaxFaults /\ faults' = faults + 1)
  BY DEF LoadFails
<1>2. page \in Page /\ Loads(loads) /\ faults \in 0..MaxFaults
  BY DEF PageInv
<1>3. faults' \in 0..MaxFaults /\ (faults' = 0 => faults = 0 /\ ~Kept(x.chat))
  BY <1>1, <1>2, FaultsAssumption
<1>4. Loads(loads') /\ loads'["turn"] = IF s = "turn" THEN NoLoad ELSE loads["turn"]
  BY <1>1, <1>2, NoLoadFits, LoadsSet
<1>5. OpenLoads(loads') \subseteq OpenLoads(loads)
  <2>1. DOMAIN loads = AllSlots
    BY <1>2 DEF Loads
  <2> QED BY <1>1, <2>1, NoLoadFits DEF OpenLoads, AllSlots
<1>6. PostedFit' /\ PatchFits' /\ moves' \in 0..MaxMoves
  BY <1>1 DEF PageInv, PostedFit, LocalIdsStayHome, PatchFits
<1>7. CASE s # "turn"
  <2>1. page' = page
    BY <1>1, <1>7
  <2>2. SameTurn(page)
    BY DEF SameTurn
  <2>3. Becomes(page)
    BY <1>2, <1>5, <2>1 DEF Becomes, PageInv, Apart, Idle
  <2>4. /\ page.stage = "reload" <=> loads'["turn"].step # "none"
        /\ page.stage = "reload" => loads'["turn"].chat = page.on
    BY <1>4, <1>7 DEF PageInv, StageFits
  <2>5. WhereFits(page)
    BY DEF PageInv
  <2> QED BY <1>1, <1>2, <1>3, <1>4, <1>6, <2>2, <2>3, <2>4, <2>5, SameTurnStays, PageMoves
<1>8. CASE s = "turn"
  <2> DEFINE q == Rest(page)
  <2>1. page' = q
    BY <1>1, <1>8
  <2>2. /\ q \in Page /\ q.url = page.url /\ q.conv = page.conv /\ q.shown = page.shown /\ q.leaf = page.leaf
        /\ q.stage = "idle" /\ q.turn = 0 /\ q.mixed = page.mixed
    BY <1>2, RestTyped
  <2> HIDE DEF q
  <2>3. page.stage = "reload" /\ x.chat = page.on
    BY <1>1, <1>8 DEF PageInv, StageFits
  <2>4. Exists(x.chat)
    BY <1>1, LoadIsThere
  <2>5. faults' = 0 => chats[x.chat].state = "deleted" /\ x.chat \in Chats
    <3>1. chats[x.chat] \in Chat
      BY <2>4 DEF Exists, PageInv, IInv, TypeOK
    <3> QED BY <1>3, <2>4, <3>1, ChatTyped DEF Kept, Exists
  <2>6. Becomes(q)
    BY <2>1, <2>2 DEF Becomes
  <2>7. Intact' => StoredAt(q)
    BY <1>1, <2>5 DEF Intact, serverVars
  <2>8. ~q.mixed /\ faults' = 0 => HomeAt(q)
    <3> SUFFICES ASSUME ~q.mixed, faults' = 0 PROVE HomeAt(q)
      OBVIOUS
    <3>1. page.conv = page.on
      BY <1>3, <2>2, <2>3 DEF PageInv, HomeAt
    <3>2. q.conv # NoChat /\ chats[q.conv].state = "deleted"
      BY <2>2, <2>3, <2>5, <3>1, ChatsAreNumbers
    <3> QED BY <2>2, <3>2 DEF HomeAt, AtHome
  <2>9. WhereFits(q)
    BY <2>2 DEF PageInv, WhereFits
  <2>10. loads'["turn"].step = "none"
    BY <1>4, <1>8, NoLoadFits
  <2> QED BY <1>1, <1>3, <1>4, <1>6, <2>2, <2>6, <2>7, <2>8, <2>9, <2>10, PageMoves
<1> QED BY <1>7, <1>8

-----------------------------------------------------------------------------
(* The turn begins.                                                        *)

LEMMA StoredTyped ==
  ASSUME NEW id \in ShownIds \cup {NoMsg}
  PROVE  Stored(id) \in MessageIds \cup {NoMsg} /\ (id \notin LocalIds => Stored(id) = id)
BY DEF Stored, ShownIds

\* What is shown of the active branch.
LEMMA ActiveTyped ==
  ASSUME page \in Page
  PROVE  /\ ActivePath \in Shown
         /\ \A m \in Range(ActivePath) : m \in Range(page.shown) /\ m \in ShownMessage
         /\ \A m \in Range(page.shown) : m \in ShownMessage
<1>1. page.shown \in Seq(ShownMessage)
  BY PageTyped DEF Shown
<1>2. ActivePath \in Seq(ShownMessage) /\ Range(ActivePath) \subseteq Range(page.shown)
  BY <1>1, PathElements DEF ActivePath
<1>3. \A m \in Range(page.shown) : m \in ShownMessage
  BY <1>1, SeqElements DEF Range
<1> QED BY <1>2, <1>3 DEF Shown

LEMMA ParentTyped == page \in Page => ParentToSend \in MessageIds \cup {NoMsg}
<1> SUFFICES ASSUME page \in Page PROVE ParentToSend \in MessageIds \cup {NoMsg}
  OBVIOUS
<1> DEFINE S == {m \in Range(ActivePath) : m.id \notin LocalIds}
           known == Those(ActivePath, S)
<1>1. ParentToSend = IF Stored(page.leaf) # NoMsg THEN page.leaf
                     ELSE IF known = <<>> THEN NoMsg ELSE Last(known).id
  BY DEF ParentToSend
<1>2. Stored(page.leaf) # NoMsg => page.leaf \in MessageIds
  BY PageTyped DEF Stored, ShownIds
<1>3. known \in Shown /\ Range(known) = Range(ActivePath) \cap S
  <2> HIDE DEF S
  <2> QED BY ActiveTyped, ThoseElements DEF Shown
<1>4. known # <<>> => Last(known).id \in MessageIds
  <2> SUFFICES ASSUME known # <<>> PROVE Last(known).id \in MessageIds
    OBVIOUS
  <2>1. Last(known) \in Range(known)
    <3> HIDE DEF known
    <3> QED BY <1>3, LastIsOne DEF Shown
  <2>2. Last(known) \in S /\ Last(known) \in Range(ActivePath)
    BY <1>3, <2>1
  <2>3. Last(known).id \notin LocalIds /\ Last(known) \in ShownMessage
    BY <2>2, ActiveTyped
  <2> HIDE DEF known
  <2> QED BY <2>3 DEF ShownMessage, ShownIds
<1> HIDE DEF known
<1> QED BY <1>1, <1>2, <1>4

LEMMA RunTurnStep ==
  ASSUME PageInv, NEW t \in Turns, Idle, NEW kind \in Kinds, NEW target \in MessageIds \cup {NoMsg},
         NEW optimistic \in Shown, Ids(optimistic) \subseteq Mine(t),
         RunTurn(t, kind, target, optimistic)
  PROVE  PageInv'
<1> DEFINE p == [page EXCEPT !.shown = @ \o optimistic, !.prev = page.leaf, !.leaf = LocalAnswer(t),
                             !.stage = "sent", !.turn = t, !.on = page.conv]
           r == [kind |-> IF page.agent THEN "agent" ELSE kind, chat |-> page.conv,
                 target |-> IF page.agent THEN NoMsg ELSE target]
<1>1. Render(p, loads) /\ posted' = [posted EXCEPT ![t] = r] /\ UNCHANGED <<serverVars, patch, moves, faults>>
  BY DEF RunTurn
<1>2. page \in Page /\ Loads(loads) /\ page.stage = "idle"
  BY DEF PageInv, Idle
<1>3. page.shown \o optimistic \in Shown /\ Ids(page.shown \o optimistic) = Ids(page.shown) \cup Ids(optimistic)
  BY <1>2, PageTyped, Joined DEF Shown
<1>4. LocalAnswer(t) \in ShownIds /\ t \in 0..MaxTurns /\ t # 0
  BY LocalsApart, BoundsAssumption DEF ShownIds, Turns
<1>5. p \in Page
  BY <1>2, <1>3, <1>4, PageTyped DEF Page, Shown, ShownMessage
<1>6. /\ p.url = page.url /\ p.conv = page.conv /\ p.shown = page.shown \o optimistic /\ p.stage = "sent"
      /\ p.turn = t /\ p.prev = page.leaf /\ p.mixed = page.mixed
  BY <1>2 DEF Page
<1>7. r \in Request /\ r.target \notin LocalIds
  BY <1>2, PageTyped, LocalsApart DEF Request, Kinds
<1>8. PostedFit'
  <2>1. \A u \in Turns : posted'[u] = IF u = t THEN r ELSE posted[u]
    BY <1>1 DEF PageInv, PostedFit
  <2>2. posted' \in [Turns -> Request \cup {Nothing}]
    BY <1>1, <1>7 DEF PageInv, PostedFit
  <2> HIDE DEF r
  <2> QED BY <1>7, <2>1, <2>2 DEF PageInv, PostedFit, LocalIdsStayHome
<1> HIDE DEF p, r
<1>9. WhereFits(p)
  BY <1>6 DEF PageInv, WhereFits
<1>10. Becomes(p) /\ Loads(loads') /\ loads'["turn"] = loads["turn"]
  BY <1>1, <1>2, <1>5, <1>9, Rendered DEF WhereFits
<1>11. \A id \in Ids(p.shown) \ Mine(t) : id \in Ids(page.shown)
  BY <1>3, <1>6
<1>12. Intact' => StoredAt(p)
  <2>1. Intact' => Intact
    BY <1>1 DEF Intact, serverVars
  <2> QED BY <1>2, <1>6, <1>11, <2>1 DEF PageInv, StoredAt
<1>13. ~p.mixed /\ faults' = 0 => HomeAt(p)
  <2> SUFFICES ASSUME ~p.mixed, faults' = 0 PROVE HomeAt(p)
    OBVIOUS
  <2>1. AtHome(page.conv, Ids(page.shown), page.leaf)
    BY <1>1, <1>2, <1>6 DEF PageInv, HomeAt
  <2>2. AtHome(p.conv, Ids(p.shown) \ Mine(t), p.prev)
    BY <1>6, <1>11, <2>1 DEF AtHome
  <2> QED BY <1>6, <2>2 DEF HomeAt
<1>14. p.stage # "idle" /\ p.turn # 0 /\ p.stage # "reload" /\ loads'["turn"].step = "none"
  BY <1>2, <1>4, <1>6, <1>10, LoadTyped DEF PageInv, StageFits, Loads
<1>15. PatchFits' /\ faults' \in 0..MaxFaults /\ moves' \in 0..MaxMoves
  BY <1>1 DEF PageInv, PatchFits
<1> QED BY <1>1, <1>5, <1>8, <1>9, <1>10, <1>12, <1>13, <1>14, <1>15, PageMoves

LEMMA ShownMade ==
  ASSUME NEW id \in ShownIds, NEW parent \in ShownIds \cup {NoMsg}
  PROVE  Message(id, parent) \in ShownMessage /\ Message(id, parent).id = id
BY DEF Message, ShownMessage

LEMMA OneShown ==
  ASSUME NEW m \in ShownMessage
  PROVE  <<m>> \in Shown /\ Ids(<<m>>) = {m.id}
<1>1. <<m>> \in Seq(ShownMessage) /\ DOMAIN <<m>> = {1} /\ <<m>>[1] = m
  OBVIOUS
<1> QED BY <1>1 DEF Ids, Shown

LEMMA WithUserTyped ==
  ASSUME NEW t \in Turns, NEW parent \in ShownIds \cup {NoMsg}
  PROVE  WithUser(t, parent) \in Shown /\ Ids(WithUser(t, parent)) \subseteq Mine(t)
<1> DEFINE a == Message(LocalUser(t), parent)
           b == Message(LocalAnswer(t), LocalUser(t))
<1>1. LocalUser(t) \in ShownIds /\ LocalAnswer(t) \in ShownIds
  BY LocalsApart DEF ShownIds
<1>2. a \in ShownMessage /\ b \in ShownMessage /\ a.id = LocalUser(t) /\ b.id = LocalAnswer(t)
  BY <1>1, ShownMade
<1> HIDE DEF a, b
<1>3. <<a, b>> \in Seq(ShownMessage) /\ DOMAIN <<a, b>> = {1, 2} /\ <<a, b>>[1] = a /\ <<a, b>>[2] = b
  BY <1>2
<1>4. WithUser(t, parent) = <<a, b>>
  BY DEF WithUser, a, b
<1> QED BY <1>2, <1>3, <1>4 DEF Ids, Shown, Mine

LEMMA SendMessageStep ==
  ASSUME PageInv, NEW t \in Turns, SendMessage(t)
  PROVE  PageInv'
<1>1. Idle /\ RunTurn(t, "new", ParentToSend, WithUser(t, ParentToSend))
  BY DEF SendMessage, CanRun
<1>2. ParentToSend \in MessageIds \cup {NoMsg} /\ ParentToSend \in ShownIds \cup {NoMsg}
  BY ParentTyped DEF PageInv, ShownIds
<1>3. WithUser(t, ParentToSend) \in Shown /\ Ids(WithUser(t, ParentToSend)) \subseteq Mine(t)
  BY <1>2, WithUserTyped
<1>4. "new" \in Kinds
  BY DEF Kinds
<1> QED BY <1>1, <1>2, <1>3, <1>4, RunTurnStep

LEMMA SubmitUserEditStep ==
  ASSUME PageInv, NEW t \in Turns, SubmitUserEdit(t)
  PROVE  PageInv'
<1>1. PICK m \in Range(ActivePath) :
        Idle /\ m.id \notin LocalIds /\ RunTurn(t, "edit", m.id, WithUser(t, Stored(m.parent)))
  BY DEF SubmitUserEdit, CanRun
<1>2. m.id \in ShownIds /\ m.parent \in ShownIds \cup {NoMsg}
  <2>1. m \in ShownMessage
    BY ActiveTyped DEF PageInv
  <2> QED BY <2>1 DEF ShownMessage
<1>3. m.id \in MessageIds \cup {NoMsg} /\ Stored(m.parent) \in ShownIds \cup {NoMsg}
  BY <1>1, <1>2, StoredTyped DEF ShownIds
<1>4. WithUser(t, Stored(m.parent)) \in Shown /\ Ids(WithUser(t, Stored(m.parent))) \subseteq Mine(t)
  BY <1>3, WithUserTyped
<1>5. "edit" \in Kinds
  BY DEF Kinds
<1> QED BY <1>1, <1>3, <1>4, <1>5, RunTurnStep

LEMMA SubmitRegenerateStep ==
  ASSUME PageInv, NEW t \in Turns, SubmitRegenerate(t)
  PROVE  PageInv'
<1> DEFINE S == {m \in Range(ActivePath) : m.id.role = "assistant"}
           answers == Those(ActivePath, S)
           m == Last(answers)
<1>1. /\ Idle /\ answers # <<>>
      /\ RunTurn(t, "regenerate", Stored(m.id), <<Message(LocalAnswer(t), Stored(m.parent))>>)
  BY DEF SubmitRegenerate, CanRun
<1>2. m \in ShownMessage
  <2>1. ActivePath \in Seq(ShownMessage)
    BY ActiveTyped DEF PageInv, Shown
  <2>2. answers \in Seq(ShownMessage) /\ Range(answers) \subseteq Range(ActivePath)
    <3> HIDE DEF S
    <3> QED BY <2>1, ThoseElements
  <2>3. m \in Range(answers)
    <3> HIDE DEF answers
    <3> QED BY <1>1, <2>2, LastIsOne
  <2> QED BY <2>2, <2>3, ActiveTyped DEF PageInv
<1> HIDE DEF m
<1>3. Stored(m.id) \in MessageIds \cup {NoMsg} /\ Stored(m.parent) \in ShownIds \cup {NoMsg}
  <2>1. m.id \in ShownIds \cup {NoMsg} /\ m.parent \in ShownIds \cup {NoMsg}
    BY <1>2 DEF ShownMessage
  <2> QED BY <2>1, StoredTyped DEF ShownIds
<1> DEFINE a == Message(LocalAnswer(t), Stored(m.parent))
<1>4. a \in ShownMessage /\ a.id = LocalAnswer(t)
  <2>1. LocalAnswer(t) \in ShownIds
    BY LocalsApart DEF ShownIds
  <2> QED BY <1>3, <2>1, ShownMade
<1>5. <<a>> \in Shown /\ Ids(<<a>>) \subseteq Mine(t)
  <2> HIDE DEF a
  <2> QED BY <1>4, OneShown DEF Mine
<1>6. "regenerate" \in Kinds
  BY DEF Kinds
<1> QED BY <1>1, <1>3, <1>5, <1>6, RunTurnStep

-----------------------------------------------------------------------------
(* The turn ends.                                                          *)

LEMMA OthersTyped ==
  ASSUME NEW p \in Page
  PROVE  Others(p) \in Shown /\ Ids(Others(p)) = Ids(p.shown) \ Mine(p.turn)
<1> DEFINE S == {m \in Range(p.shown) : m.id \notin {LocalUser(p.turn), LocalAnswer(p.turn)}}
<1>1. p.shown \in Seq(ShownMessage)
  BY PageTyped DEF Shown
<1>2. Others(p) = Those(p.shown, S)
  BY DEF Others
<1>3. Range(p.shown) \cap S = S
  OBVIOUS
<1>4. Others(p) \in Seq(ShownMessage) /\ Range(Others(p)) = S
  <2>1. PICK those : those = S
    OBVIOUS
  <2>2. PICK list \in Seq(ShownMessage) : list = p.shown
    BY <1>1
  <2>3. Those(list, those) \in Seq(ShownMessage) /\ Range(Those(list, those)) = Range(list) \cap those
    BY ONLY ThoseElements, list \in Seq(ShownMessage)
  <2> QED BY <1>2, <1>3, <2>1, <2>2, <2>3
<1>5. Ids(Others(p)) = {m.id : m \in S}
  BY <1>4, HeldIds
<1> QED BY <1>4, <1>5, HeldIds DEF Mine, Shown

\* The turn is given up before its stream opened.
LEMMA DiscardStep ==
  ASSUME PageInv, page.stage = "sent", Render(Discard(page), loads),
         UNCHANGED <<serverVars, posted, patch, moves>>,
         faults' \in 0..MaxFaults, faults' = 0 => faults = 0
  PROVE  PageInv'
<1> DEFINE q == [page EXCEPT !.shown = Others(page), !.leaf = page.prev]
           p == Discard(page)
<1>1. page \in Page /\ Loads(loads)
  BY DEF PageInv
<1>2. Others(page) \in Shown /\ Ids(Others(page)) = Ids(page.shown) \ Mine(page.turn)
  BY <1>1, OthersTyped
<1>3. q \in Page
  BY <1>1, <1>2, PageTyped DEF Page, Shown, ShownMessage
<1>4. q.url = page.url /\ q.conv = page.conv /\ q.shown = Others(page) /\ q.leaf = page.prev /\ q.mixed = page.mixed
  BY <1>1 DEF Page
<1>5. p = Rest(q)
  BY DEF Discard
<1> HIDE DEF q, p
<1>6. /\ p \in Page /\ p.url = page.url /\ p.conv = page.conv /\ p.shown = Others(page) /\ p.leaf = page.prev
      /\ p.stage = "idle" /\ p.turn = 0 /\ p.mixed = page.mixed
  BY <1>3, <1>4, <1>5, RestTyped
<1>7. WhereFits(p)
  BY <1>6 DEF PageInv, WhereFits
<1>8. Becomes(p) /\ Loads(loads') /\ loads'["turn"] = loads["turn"]
  BY <1>1, <1>6, <1>7, Rendered DEF WhereFits, p
<1>9. Intact' => StoredAt(p)
  <2>1. Intact' => Intact
    BY DEF Intact, serverVars
  <2> QED BY <1>2, <1>6, <2>1 DEF PageInv, StoredAt
<1>10. ~p.mixed /\ faults' = 0 => HomeAt(p)
  BY <1>2, <1>6 DEF PageInv, HomeAt
<1>11. loads'["turn"].step = "none"
  BY <1>8, LoadTyped DEF PageInv, StageFits, Loads
<1>12. PostedFit' /\ PatchFits' /\ moves' \in 0..MaxMoves
  BY DEF PageInv, PostedFit, LocalIdsStayHome, PatchFits
<1> QED BY <1>6, <1>7, <1>8, <1>9, <1>10, <1>11, <1>12, PageMoves

LEMMA TurnRefusedStep ==
  ASSUME PageInv, TurnRefused
  PROVE  PageInv'
<1>1. /\ page.stage = "sent" /\ Render(Discard(page), loads) /\ UNCHANGED <<serverVars, posted, patch, moves>>
      /\ UNCHANGED faults \/ (faults < MaxFaults /\ faults' = faults + 1)
  BY DEF TurnRefused
<1>2. faults' \in 0..MaxFaults /\ (faults' = 0 => faults = 0)
  BY <1>1, FaultsAssumption DEF PageInv
<1> QED BY <1>1, <1>2, DiscardStep

\* The turn is over but for the tree, which the page asks for again.
LEMMA ReloadStep ==
  ASSUME PageInv, NEW p \in Page, Reload(p), UNCHANGED <<serverVars, posted, patch, moves, faults>>,
         p.turn = page.turn, page.turn # 0, p.url # NoChat => Exists(p.url), Exists(p.on),
         ~p.mixed /\ faults = 0 => p.conv = p.on
  PROVE  PageInv'
<1> DEFINE q == [p EXCEPT !.prev = NoMsg, !.stage = "reload"]
           ls == [loads EXCEPT !["turn"] = Asked(p.on)]
<1>1. Render(q, ls) /\ page \in Page /\ Loads(loads)
  BY DEF Reload, PageInv
<1>2. /\ q \in Page /\ q.url = p.url /\ q.conv = p.conv /\ q.stage = "reload" /\ q.turn = p.turn /\ q.on = p.on
      /\ q.mixed = p.mixed
  BY DEF Page
<1>3. Asked(p.on) \in Load /\ LoadFits(Asked(p.on)) /\ Asked(p.on).step = "asked" /\ Asked(p.on).chat = p.on
  BY AskedFits
<1>4. Loads(ls) /\ ls["turn"] = Asked(p.on)
  BY <1>1, <1>3, LoadsSet DEF AllSlots
<1> HIDE DEF q, ls
<1>5. WhereFits(q)
  BY <1>2 DEF WhereFits
<1>6. Becomes(q) /\ Loads(loads') /\ loads'["turn"] = ls["turn"]
  BY <1>1, <1>2, <1>4, <1>5, Rendered DEF WhereFits
<1>7. (Intact' => StoredAt(q)) /\ (~q.mixed /\ faults' = 0 => HomeAt(q))
  BY <1>2 DEF StoredAt, HomeAt
<1>8. q.stage # "idle" /\ q.turn # 0 /\ loads'["turn"].step # "none" /\ loads'["turn"].chat = q.on
  BY <1>2, <1>3, <1>4, <1>6
<1>9. PostedFit' /\ PatchFits' /\ moves' \in 0..MaxMoves /\ faults' \in 0..MaxFaults
  BY DEF PageInv, PostedFit, LocalIdsStayHome, PatchFits
<1> QED BY <1>2, <1>5, <1>6, <1>7, <1>8, <1>9, PageMoves

\* A turn that runs, and where it has opened.
LEMMA RunningTurn ==
  ASSUME PageInv, page.stage \in {"sent", "opened"}
  PROVE  /\ page \in Page /\ page.turn # 0 /\ page.turn \in Turns
         /\ page.url # NoChat => Exists(page.url)
         /\ page.stage = "opened" =>
              Exists(page.on) /\ (~page.mixed /\ faults = 0 => page.conv = page.on)
         /\ turns[page.turn].pc \in Written =>
              /\ Exists(turns[page.turn].chat) /\ turns[page.turn].chat # NoChat
              /\ turns[page.turn].under \in MessageIds /\ turns[page.turn].under \in ShownIds
<1>1. page \in Page /\ page.turn # 0
  BY DEF PageInv, StageFits
<1>2. page.turn \in Turns
  BY <1>1, PageTyped, BoundsAssumption DEF Turns
<1>3. turns[page.turn].pc \in Written => Exists(turns[page.turn].chat) /\ turns[page.turn].under \in UserIds
  BY <1>2 DEF PageInv, WrittenFits, Exists
<1> QED BY <1>1, <1>2, <1>3, ChatsAreNumbers DEF PageInv, WhereFits, HomeAt, Exists, MessageIds, ShownIds

LEMMA StopStreamingStep ==
  ASSUME PageInv, StopStreaming
  PROVE  PageInv'
<1>1. page.stage \in {"sent", "opened"} /\ UNCHANGED <<serverVars, posted, patch, moves, faults>>
  BY DEF StopStreaming
<1>2. CASE page.stage = "sent"
  <2>1. Render(Discard(page), loads)
    BY <1>2 DEF StopStreaming
  <2>2. faults' \in 0..MaxFaults /\ (faults' = 0 => faults = 0)
    BY <1>1 DEF PageInv
  <2> QED BY <1>1, <1>2, <2>1, <2>2, DiscardStep
<1>3. CASE page.stage = "opened"
  <2>1. Reload(page)
    BY <1>3 DEF StopStreaming
  <2> QED BY <1>1, <1>3, <2>1, RunningTurn, ReloadStep
<1> QED BY <1>1, <1>2, <1>3

LEMMA StreamErrsStep ==
  ASSUME PageInv, StreamErrs
  PROVE  PageInv'
BY RunningTurn, ReloadStep DEF StreamErrs

LEMMA StreamEndsStep ==
  ASSUME PageInv, StreamEnds
  PROVE  PageInv'
<1> DEFINE t == page.turn
           leaf == IF Answers(t) THEN AnswerMsg(t) ELSE turns[t].under
           p == [page EXCEPT !.leaf = leaf]
<1>1. page.stage = "opened" /\ turns[t].pc = "ended" /\ Reload(p)
      /\ UNCHANGED <<serverVars, posted, patch, moves, faults>>
  BY DEF StreamEnds
<1>2. leaf \in ShownIds \cup {NoMsg}
  <2>1. t \in Turns /\ turns[t].under \in ShownIds
    BY <1>1, RunningTurn DEF Written
  <2> QED BY <2>1, MessagesDiffer DEF ShownIds, MessageIds
<1> HIDE DEF leaf
<1>3. page \in Page
  BY DEF PageInv
<1>4. p \in Page /\ p.url = page.url /\ p.conv = page.conv /\ p.turn = page.turn /\ p.on = page.on /\ p.mixed = page.mixed
  BY <1>2, <1>3 DEF Page
<1> HIDE DEF p
<1> QED BY <1>1, <1>4, RunningTurn, ReloadStep

LEMMA OnTyped ==
  ASSUME NEW p \in Page, NEW c \in Chats
  PROVE  /\ On(p, c) \in Page /\ On(p, c).url = c /\ On(p, c).conv = c /\ On(p, c).on = c
         /\ On(p, c).turn = p.turn /\ On(p, c).mixed = p.mixed /\ On(p, c).shown = p.shown
         /\ On(p, c).leaf = p.leaf
<1>1. On(p, c) \in Page
  BY DEF On, Page
<1> QED BY <1>1 DEF On, Page

LEMMA AgentAnswersStep ==
  ASSUME PageInv, AgentAnswers
  PROVE  PageInv'
<1> DEFINE c == turns[page.turn].chat
           p == On(page, c)
<1>1. page.stage = "sent" /\ turns[page.turn].pc \in Written /\ Reload(p)
      /\ UNCHANGED <<serverVars, posted, patch, moves, faults>>
  BY DEF AgentAnswers, Written
<1>2. Exists(c) /\ c \in Chats /\ page \in Page /\ page.turn # 0
  BY <1>1, RunningTurn DEF Exists
<1>3. p \in Page /\ p.url = c /\ p.conv = c /\ p.on = c /\ p.turn = page.turn
  BY <1>2, OnTyped
<1> HIDE DEF p
<1> QED BY <1>1, <1>2, <1>3, ReloadStep

LEMMA RenamedTyped ==
  ASSUME NEW t \in Turns, turns[t].under \in ShownIds, NEW id \in ShownIds \cup {NoMsg}
  PROVE  Renamed(t, id) \in ShownIds \cup {NoMsg} /\ (id # NoMsg => Renamed(t, id) \in ShownIds)
<1>1. AnswerMsg(t) \in ShownIds
  BY MessagesDiffer DEF ShownIds, MessageIds
<1> QED BY <1>1 DEF Renamed

LEMMA StreamOpensStep ==
  ASSUME PageInv, StreamOpens
  PROVE  PageInv'
<1> DEFINE t == page.turn
           c == turns[t].chat
           o == On(page, c)
           shown == [i \in DOMAIN page.shown |->
                       Message(Renamed(t, page.shown[i].id), Renamed(t, page.shown[i].parent))]
           p == [o EXCEPT !.shown = shown, !.leaf = Renamed(t, @), !.prev = NoMsg, !.stage = "opened"]
<1>1. page.stage = "sent" /\ turns[t].pc \in Written /\ Render(p, loads)
      /\ UNCHANGED <<serverVars, posted, patch, moves, faults>>
  BY DEF StreamOpens, Written
<1>2. /\ Exists(c) /\ c \in Chats /\ page \in Page /\ page.turn # 0 /\ t \in Turns
      /\ turns[t].under \in ShownIds
  BY <1>1, RunningTurn DEF Exists
<1>3. /\ o \in Page /\ o.url = c /\ o.conv = c /\ o.on = c /\ o.turn = t /\ o.leaf = page.leaf
  BY <1>2, OnTyped
<1>4. page.leaf \in ShownIds \cup {NoMsg} /\ page.shown \in Seq(ShownMessage) /\ page.stage # "idle"
  BY <1>1, <1>2, PageTyped DEF Shown
<1>5. shown \in Shown
  <2>1. \A i \in DOMAIN page.shown : Message(Renamed(t, page.shown[i].id), Renamed(t, page.shown[i].parent)) \in ShownMessage
    <3> TAKE i \in DOMAIN page.shown
    <3>1. page.shown[i] \in ShownMessage
      BY <1>4, SeqElements
    <3>2. page.shown[i].id \in ShownIds /\ page.shown[i].parent \in ShownIds \cup {NoMsg}
      BY <3>1 DEF ShownMessage
    <3>3. page.shown[i].id # NoMsg
      BY <3>2, LocalsApart
    <3> QED BY <1>2, <3>2, <3>3, RenamedTyped, ShownMade
  <2> DEFINE F(i) == Message(Renamed(t, page.shown[i].id), Renamed(t, page.shown[i].parent))
             n == Len(page.shown)
  <2>2. n \in Nat /\ DOMAIN page.shown = 1..n
    BY <1>4
  <2> HIDE DEF F, n
  <2>3. [i \in 1..n |-> F(i)] \in Seq(ShownMessage)
    <3>1. \A i \in 1..n : F(i) \in ShownMessage
      BY <2>1, <2>2 DEF F
    <3>2. [i \in 1..n |-> F(i)] \in [1..n -> ShownMessage]
      BY <3>1
    <3> QED BY <2>2, <3>2
  <2> QED BY <2>2, <2>3 DEF F, Shown
<1>6. Renamed(t, o.leaf) \in ShownIds \cup {NoMsg}
  BY <1>2, <1>3, <1>4, RenamedTyped
<1> HIDE DEF shown, o
<1>7. p \in Page
  BY <1>3, <1>5, <1>6 DEF Page, Shown, ShownMessage
<1>8. p.url = c /\ p.conv = c /\ p.on = c /\ p.turn = t /\ p.stage = "opened"
  BY <1>3 DEF Page
<1> HIDE DEF p
<1>9. WhereFits(p) /\ Loads(loads)
  BY <1>2, <1>8 DEF WhereFits, PageInv
<1>10. Becomes(p) /\ Loads(loads') /\ loads'["turn"] = loads["turn"]
  BY <1>1, <1>7, <1>9, Rendered DEF WhereFits
<1>11. StoredAt(p) /\ HomeAt(p)
  BY <1>8 DEF StoredAt, HomeAt
<1>12. p.stage # "idle" /\ p.turn # 0 /\ p.stage # "reload" /\ loads'["turn"].step = "none"
  BY <1>1, <1>2, <1>8, <1>10 DEF PageInv, StageFits
<1>13. PostedFit' /\ PatchFits' /\ moves' \in 0..MaxMoves /\ faults' \in 0..MaxFaults
  BY <1>1 DEF PageInv, PostedFit, LocalIdsStayHome, PatchFits
<1> QED BY <1>1, <1>7, <1>9, <1>10, <1>11, <1>12, <1>13, PageMoves

LEMMA ShowTreeStep ==
  ASSUME PageInv, ShowTree
  PROVE  PageInv'
<1> DEFINE x == loads["turn"]
           q == [page EXCEPT !.shown = x.tree, !.leaf = x.leaf]
           p == Rest(q)
           ls == [loads EXCEPT !["turn"] = NoLoad]
<1>1. x.step = "rows" /\ Render(p, ls) /\ UNCHANGED <<serverVars, posted, patch, moves, faults>>
  BY DEF ShowTree
<1>2. page \in Page /\ Loads(loads) /\ "turn" \in AllSlots
  BY DEF PageInv, AllSlots
<1>3. /\ x.chat \in Chats /\ x.tree \in Shown /\ x.leaf \in ShownIds \cup {NoMsg} /\ x.leaf \notin LocalIds
      /\ AtHome(x.chat, Ids(x.tree), x.leaf)
      /\ Intact => \A id \in Ids(x.tree) : IsStored(id)
  BY <1>1, <1>2, LoadedIsStored
<1>4. q \in Page
  BY <1>2, <1>3 DEF Page, Shown, ShownMessage
<1>5. q.url = page.url /\ q.conv = page.conv /\ q.shown = x.tree /\ q.leaf = x.leaf /\ q.mixed = page.mixed
  BY <1>2 DEF Page
<1> HIDE DEF q
<1>6. /\ p \in Page /\ p.url = page.url /\ p.conv = page.conv /\ p.shown = x.tree /\ p.leaf = x.leaf
      /\ p.stage = "idle" /\ p.turn = 0 /\ p.mixed = page.mixed
  BY <1>4, <1>5, RestTyped
<1>7. Loads(ls) /\ ls["turn"] = NoLoad
  BY <1>2, NoLoadFits, LoadsSet
<1> HIDE DEF p, ls
<1>8. WhereFits(p)
  BY <1>6 DEF PageInv, WhereFits
<1>9. Becomes(p) /\ Loads(loads') /\ loads'["turn"] = NoLoad
  BY <1>1, <1>6, <1>7, <1>8, Rendered DEF WhereFits
<1>10. Intact' => StoredAt(p)
  <2>1. Intact' => Intact
    BY <1>1 DEF Intact, serverVars
  <2> QED BY <1>3, <1>6, <2>1 DEF StoredAt
<1>11. ~p.mixed /\ faults' = 0 => HomeAt(p)
  <2> SUFFICES ASSUME ~p.mixed, faults' = 0 PROVE HomeAt(p)
    OBVIOUS
  <2>1. page.stage = "reload" /\ x.chat = page.on
    BY <1>1 DEF PageInv, StageFits
  <2>2. page.conv = page.on
    BY <1>1, <1>6, <2>1 DEF PageInv, HomeAt
  <2> QED BY <1>3, <1>6, <2>1, <2>2 DEF HomeAt
<1>12. loads'["turn"].step = "none"
  BY <1>9, NoLoadFits
<1>13. PostedFit' /\ PatchFits' /\ moves' \in 0..MaxMoves /\ faults' \in 0..MaxFaults
  BY <1>1 DEF PageInv, PostedFit, LocalIdsStayHome, PatchFits
<1> QED BY <1>1, <1>6, <1>8, <1>9, <1>10, <1>11, <1>12, <1>13, PageMoves

-----------------------------------------------------------------------------
(* The other steps.                                                        *)

LEMMA SwitchBranchStep ==
  ASSUME PageInv, SwitchBranch
  PROVE  PageInv'
<1>1. PICK m \in Range(page.shown), step \in {-1, 1} :
        LET target == AdjacentSibling(page.shown, m.id, step)
            leaf   == DeepestLeaf(page.shown, target)
        IN  /\ target # NoMsg
            /\ page' = [page EXCEPT !.leaf = leaf]
            /\ patch' = [chat |-> page.conv, leaf |-> leaf]
  <2>1. Range(ActivePath) \subseteq Range(page.shown)
    BY ActiveTyped DEF PageInv
  <2> QED BY <2>1 DEF SwitchBranch
<1> DEFINE target == AdjacentSibling(page.shown, m.id, step)
           leaf == DeepestLeaf(page.shown, target)
           p == [page EXCEPT !.leaf = leaf]
<1>2. /\ page.stage = "idle" /\ page.conv # NoChat /\ UNCHANGED <<serverVars, posted, loads, moves, faults>>
  BY DEF SwitchBranch, Idle
<1>3. page \in Page /\ Loads(loads) /\ page.shown \in Seq(ShownMessage)
  BY PageTyped DEF PageInv, Shown
<1>4. target \in Ids(page.shown)
  BY <1>1, <1>3, AdjacentIsHeld
<1>5. leaf \in Ids(page.shown)
  <2> HIDE DEF target
  <2> QED BY <1>3, <1>4, DeepestIsHeld
<1>6. page' = p /\ patch' = [chat |-> page.conv, leaf |-> leaf]
  BY <1>1
<1> HIDE DEF leaf
<1>7. leaf \in ShownIds
  <2>1. \A n \in Range(page.shown) : n.id \in ShownIds
    BY <1>3, ActiveTyped DEF ShownMessage
  <2> QED BY <1>5, <2>1, HeldIds
<1>8. /\ p \in Page /\ p.url = page.url /\ p.conv = page.conv /\ p.shown = page.shown /\ p.leaf = leaf
      /\ p.stage = "idle" /\ p.turn = page.turn /\ p.mixed = page.mixed
  BY <1>2, <1>3, <1>7 DEF Page
<1> HIDE DEF p
<1>9. Becomes(p) /\ Loads(loads') /\ loads' = loads
  BY <1>2, <1>3, <1>6, <1>8 DEF Becomes
<1>10. PatchFits'
  BY <1>2, <1>3, <1>6, <1>7, PageTyped DEF PatchFits
<1>11. Intact' => StoredAt(p)
  <2> SUFFICES ASSUME Intact' PROVE StoredAt(p)
    OBVIOUS
  <2>1. Intact
    BY <1>2 DEF Intact, serverVars
  <2>2. \A id \in Ids(page.shown) : IsStored(id)
    BY <1>2, <2>1 DEF PageInv, StoredAt
  <2>3. leaf \in MessageIds
    <3>1. PICK c \in Chats : leaf \in Ids(TreeOf(c))
      BY <1>5, <2>2 DEF IsStored, Holds, TreeOf
    <3> QED BY <3>1, IdsTyped DEF PageInv, IInv
  <2> QED BY <1>8, <2>2, <2>3, LocalsApart DEF StoredAt
<1>12. ~p.mixed /\ faults' = 0 => HomeAt(p)
  <2> SUFFICES ASSUME ~p.mixed, faults' = 0 PROVE HomeAt(p)
    OBVIOUS
  <2>1. AtHome(page.conv, Ids(page.shown), page.leaf)
    BY <1>2, <1>8 DEF PageInv, HomeAt
  <2> QED BY <1>2, <1>5, <1>8, <2>1 DEF HomeAt, AtHome
<1>13. WhereFits(p) /\ p.turn = 0 /\ loads'["turn"].step = "none"
  BY <1>2, <1>8, <1>9, LoadTyped DEF PageInv, WhereFits, StageFits
<1>14. PostedFit' /\ moves' \in 0..MaxMoves /\ faults' \in 0..MaxFaults
  BY <1>2 DEF PageInv, PostedFit, LocalIdsStayHome
<1> QED BY <1>2, <1>8, <1>9, <1>10, <1>11, <1>12, <1>13, <1>14, PageMoves

LEMMA LeaveAgentStep ==
  ASSUME PageInv, LeaveAgent
  PROVE  PageInv'
<1> DEFINE p == [page EXCEPT !.agent = FALSE]
<1>1. page.stage = "idle" /\ page' = p /\ UNCHANGED <<serverVars, posted, loads, patch, moves, faults>>
  BY DEF LeaveAgent, Idle, client
<1>2. page \in Page /\ Loads(loads)
  BY DEF PageInv
<1>3. p \in Page /\ SameTurn(p) /\ p.url = page.url
  BY <1>2 DEF Page, SameTurn
<1> HIDE DEF p
<1>4. Becomes(p) /\ Loads(loads')
  BY <1>1, <1>2, <1>3 DEF Becomes, SameTurn
<1>5. WhereFits(p)
  BY <1>1, <1>3 DEF WhereFits, SameTurn, PageInv
<1>6. /\ p.stage = "reload" <=> loads'["turn"].step # "none"
      /\ p.stage = "reload" => loads'["turn"].chat = p.on
  BY <1>1, <1>3 DEF SameTurn, PageInv, StageFits
<1>7. PostedFit' /\ PatchFits' /\ faults' \in 0..MaxFaults /\ moves' \in 0..MaxMoves
  BY <1>1 DEF PageInv, PostedFit, LocalIdsStayHome, PatchFits
<1> QED BY <1>1, <1>3, <1>4, <1>5, <1>6, <1>7, SameTurnStays, PageMoves

LEMMA PostArrivesStep ==
  ASSUME PageInv, NEW t \in Turns, PostArrives(t)
  PROVE  PageInv'
<1>1. /\ posted[t] # Nothing /\ Receive(t, posted[t]) /\ posted' = [posted EXCEPT ![t] = Nothing]
      /\ UNCHANGED <<page, loads, patch, moves, faults>>
  BY DEF PostArrives
<1>2. posted \in [Turns -> Request \cup {Nothing}] /\ LocalIdsStayHome
  BY DEF PageInv, PostedFit
<1>3. ServerStep
  BY <1>1, <1>2 DEF ServerStep
<1>4. Nothing.target \notin LocalIds
  BY LocalsApart DEF Nothing
<1>5. PostedFit' /\ PatchFits'
  BY <1>1, <1>2, <1>4 DEF PageInv, PostedFit, LocalIdsStayHome, PatchFits
<1> QED BY <1>1, <1>3, <1>5, UnderPage

LEMMA PatchArrivesStep ==
  ASSUME PageInv, PatchArrives
  PROVE  PageInv'
<1>1. /\ patch # NoPatch /\ patch' = NoPatch /\ UNCHANGED <<page, posted, loads, moves, faults>>
      /\ SelectLeaf(patch.chat, patch.leaf) \/ UNCHANGED serverVars
  BY DEF PatchArrives
<1>2. patch.chat \in Chats
  BY <1>1 DEF PageInv, PatchFits
<1>3. ServerStep
  <2>1. CASE SelectLeaf(patch.chat, patch.leaf)
    <3>1. patch.leaf \in MessageIds
      BY <1>2, <2>1, IdsTyped DEF SelectLeaf, Holds, TreeOf, PageInv, IInv
    <3> QED BY <1>2, <2>1, <3>1 DEF ServerStep
  <2>2. CASE UNCHANGED serverVars
    BY <2>2 DEF ServerStep
  <2> QED BY <1>1, <2>1, <2>2
<1>4. PostedFit' /\ PatchFits'
  BY <1>1 DEF PageInv, PostedFit, LocalIdsStayHome, PatchFits, NoPatch
<1> QED BY <1>1, <1>3, <1>4, UnderPage

LEMMA ServerUnderPage ==
  ASSUME PageInv, Server \/ OtherTab
  PROVE  PageInv'
<1>1. UNCHANGED <<page, posted, loads, patch, moves, faults>>
  BY DEF Server, OtherTab, client
<1>2. ServerStep
  <2>1. CASE Server
    BY <2>1 DEF Server, ServerStep
  <2>2. CASE OtherTab
    <3>1. CASE \E c \in Chats : Delete(c)
      BY <3>1 DEF ServerStep
    <3>2. ASSUME NEW t \in Turns, NEW c \in Chats,
                 Receive(t, [kind |-> "new", chat |-> c, target |-> chats[c].leaf])
          PROVE  ServerStep
      <4>1. chats[c].leaf \in MessageIds \cup {NoMsg}
        BY ChatTyped DEF PageInv, IInv, TypeOK
      <4>2. [kind |-> "new", chat |-> c, target |-> chats[c].leaf] \in Request
        BY <4>1 DEF Request, Kinds
      <4> QED BY <3>2, <4>2 DEF ServerStep
    <3> QED BY <2>2, <3>1, <3>2 DEF OtherTab
  <2> QED BY <2>1, <2>2
<1>3. PostedFit' /\ PatchFits'
  BY <1>1 DEF PageInv, PostedFit, LocalIdsStayHome, PatchFits
<1> QED BY <1>1, <1>2, <1>3, UnderPage

LEMMA PageInvNext == PageInv /\ [PageNext]_vars => PageInv'
<1> SUFFICES ASSUME PageInv, [PageNext]_vars PROVE PageInv'
  OBVIOUS
<1>1. CASE User
  BY <1>1, NavigateStep, SendMessageStep, SubmitUserEditStep, SubmitRegenerateStep, StopStreamingStep,
     SwitchBranchStep, LeaveAgentStep DEF User
<1>2. CASE Loading
  BY <1>2, ReadLeafStep, ReadRowsStep, LoadFailsStep DEF Loading, AllSlots
<1>3. CASE Turning
  BY <1>3, TurnRefusedStep, StreamOpensStep, StreamEndsStep, StreamErrsStep, AgentAnswersStep,
     ShowTreeStep DEF Turning
<1>4. CASE Server \/ OtherTab \/ PatchArrives
  BY <1>4, ServerUnderPage, PatchArrivesStep
<1>5. CASE (\E s \in Slots : ShowConversation(s)) \/ (\E t \in Turns : PostArrives(t))
  BY <1>5, ShowConversationStep, PostArrivesStep
<1>6. CASE UNCHANGED vars
  <2>1. UNCHANGED <<serverVars, page, posted, loads, patch, moves, faults>>
    BY <1>6 DEF vars
  <2>2. PostedFit' /\ PatchFits'
    BY <2>1 DEF PageInv, PostedFit, LocalIdsStayHome, PatchFits
  <2> QED BY <2>1, <2>2, UnderPage DEF ServerStep
<1> QED BY <1>1, <1>2, <1>3, <1>4, <1>5, <1>6 DEF PageNext

-----------------------------------------------------------------------------
(* What is stored when the page opens.                                     *)

\* A finished turn, or two, of one conversation.
PastFits(tree) ==
  /\ tree \in Tree /\ tree # <<>>
  /\ \A m \in Range(tree) : m.parent \in Ids(tree) \cup {NoMsg}
  /\ \A t \in Turns : AnswerMsg(t) \in Ids(tree) => UserMsg(t) \in Ids(tree)

LEMMA ExchangeTyped ==
  ASSUME NEW t \in Turns, NEW parent \in MessageIds \cup {NoMsg}
  PROVE  LET tree == Exchange(t, parent) IN
         /\ tree \in Tree /\ tree # <<>> /\ Ids(tree) = {UserMsg(t), AnswerMsg(t)}
         /\ \A m \in Range(tree) : m.parent \in {UserMsg(t), parent}
<1> DEFINE a == Message(UserMsg(t), parent)
           b == Message(AnswerMsg(t), UserMsg(t))
           S == [id : MessageIds, parent : MessageIds \cup {NoMsg}]
<1>1. UserMsg(t) \in MessageIds /\ AnswerMsg(t) \in MessageIds
  BY MessagesDiffer DEF MessageIds
<1>2. /\ a \in S /\ a.id = UserMsg(t) /\ a.parent = parent
      /\ b \in S /\ b.id = AnswerMsg(t) /\ b.parent = UserMsg(t)
  BY <1>1, MessageMade
<1>3. Exchange(t, parent) = <<a, b>>
  BY DEF Exchange
<1> HIDE DEF a, b, S
<1>4. /\ <<a, b>> \in Seq(S) /\ <<a, b>> # <<>> /\ DOMAIN <<a, b>> = {1, 2}
      /\ <<a, b>>[1] = a /\ <<a, b>>[2] = b
  BY <1>2
<1>5. Ids(<<a, b>>) = {UserMsg(t), AnswerMsg(t)} /\ Range(<<a, b>>) = {a, b}
  BY <1>2, <1>4 DEF Ids, Range
<1> QED BY <1>2, <1>3, <1>4, <1>5 DEF Tree, S

LEMMA ExchangeFits == ASSUME NEW t \in Turns PROVE PastFits(Exchange(t, NoMsg))
<1> DEFINE tree == Exchange(t, NoMsg)
<1>1. /\ tree \in Tree /\ tree # <<>> /\ Ids(tree) = {UserMsg(t), AnswerMsg(t)}
      /\ \A m \in Range(tree) : m.parent \in {UserMsg(t), NoMsg}
  BY ExchangeTyped
<1> HIDE DEF tree
<1>2. \A u \in Turns : AnswerMsg(u) \in Ids(tree) => u = t
  BY <1>1, MessagesDiffer
<1>3. PastFits(tree)
  BY <1>1, <1>2 DEF PastFits
<1> QED BY <1>3 DEF tree

LEMMA TwoExchangesFit ==
  ASSUME 1 \in Turns, 2 \in Turns, NEW parent \in {AnswerMsg(1), NoMsg}
  PROVE  PastFits(Exchange(1, NoMsg) \o Exchange(2, parent))
<1> DEFINE a == Exchange(1, NoMsg)
           b == Exchange(2, parent)
           tree == a \o b
<1>1. parent \in MessageIds \cup {NoMsg}
  BY MessagesDiffer DEF MessageIds
<1>2. /\ a \in Tree /\ a # <<>> /\ Ids(a) = {UserMsg(1), AnswerMsg(1)}
      /\ \A m \in Range(a) : m.parent \in {UserMsg(1), NoMsg}
  BY ExchangeTyped
<1>3. /\ b \in Tree /\ b # <<>> /\ Ids(b) = {UserMsg(2), AnswerMsg(2)}
      /\ \A m \in Range(b) : m.parent \in {UserMsg(2), parent}
  BY <1>1, ExchangeTyped
<1> HIDE DEF a, b
<1>4. tree \in Tree /\ Ids(tree) = Ids(a) \cup Ids(b) /\ Range(tree) = Range(a) \cup Range(b)
  BY <1>2, <1>3, Joined DEF Tree
<1>5. tree # <<>>
  <2>1. Ids(tree) # {}
    BY <1>2, <1>4
  <2> QED BY <2>1, EmptyTree
<1> HIDE DEF tree
<1>6. \A u \in Turns : AnswerMsg(u) \in Ids(tree) => u \in {1, 2}
  BY <1>2, <1>3, <1>4, MessagesDiffer
<1>7. \A m \in Range(tree) : m.parent \in Ids(tree) \cup {NoMsg}
  BY <1>2, <1>3, <1>4
<1>8. PastFits(tree)
  BY <1>2, <1>3, <1>4, <1>5, <1>6, <1>7 DEF PastFits
<1> QED BY <1>8 DEF tree, a, b

LEMMA PastsFit ==
  ASSUME NEW past \in Pasts
  PROVE  DOMAIN past \subseteq {1, 2} /\ \A d \in DOMAIN past : PastFits(past[d])
<1>1. 1 \in Turns /\ 2 \in Turns
  BY PastAssumption, BoundsAssumption DEF Turns
<1>2. /\ PastFits(Line) /\ PastFits(Fork)
      /\ PastFits(Exchange(1, NoMsg)) /\ PastFits(Exchange(2, NoMsg))
  BY <1>1, ExchangeFits, TwoExchangesFit DEF Line, Fork
<1>3. \/ past = <<>> \/ past = <<Line>> \/ past = <<Fork>>
      \/ past = <<Exchange(1, NoMsg), Exchange(2, NoMsg)>>
  BY DEF Pasts
<1>4. ASSUME NEW x, PastFits(x), past = <<x>>
      PROVE  DOMAIN past \subseteq {1, 2} /\ \A d \in DOMAIN past : PastFits(past[d])
  BY <1>4
<1>5. ASSUME NEW x, NEW y, PastFits(x), PastFits(y), past = <<x, y>>
      PROVE  DOMAIN past \subseteq {1, 2} /\ \A d \in DOMAIN past : PastFits(past[d])
  BY <1>5
<1> QED BY <1>2, <1>3, <1>4, <1>5

LEMMA InitPageInv == PageInit => PageInv
<1> SUFFICES ASSUME PageInit PROVE PageInv
  OBVIOUS
<1>1. PICK past \in Pasts, kind \in {"new", "agent"}, c \in {NoChat, 1} :
        LET Home(t) == {d \in DOMAIN past : UserMsg(t) \in Ids(past[d])} IN
        /\ c \in DOMAIN past \cup {NoChat} /\ (Len(past) = 1 => c = 1)
        /\ kind = "agent" => past \in {<<>>, <<Line>>}
        /\ chats = [d \in Chats |-> IF d \notin DOMAIN past THEN NewChat
                                    ELSE [state |-> "live", leaf |-> Last(past[d]).id, tree |-> past[d]]]
        /\ turns = [t \in Turns |->
                      IF Home(t) # {}
                      THEN [NoTurn EXCEPT !.pc = "ended", !.kind = kind, !.under = UserMsg(t),
                                          !.chat = CHOOSE d \in Home(t) : TRUE, !.text = TRUE]
                      ELSE IF t = 1 THEN [NoTurn EXCEPT !.pc = "rejected"] ELSE NoTurn]
        /\ page = [AtRest EXCEPT !.url = c, !.conv = c, !.agent = kind = "agent",
                                 !.shown = IF c = NoChat THEN <<>> ELSE past[c],
                                 !.leaf = IF c = NoChat THEN NoMsg ELSE Last(past[c]).id]
  BY DEF PageInit
<1>2. DOMAIN past \subseteq Chats /\ \A d \in DOMAIN past : PastFits(past[d])
  BY PastsFit, PastAssumption, BoundsAssumption DEF Chats
<1>3. \A d \in DOMAIN past : Last(past[d]).id \in Ids(past[d]) /\ Ids(past[d]) \subseteq MessageIds
  <2> TAKE d \in DOMAIN past
  <2>1. past[d] \in Tree /\ past[d] # <<>>
    BY <1>2 DEF PastFits
  <2>2. Last(past[d]) \in Range(past[d])
    BY <2>1, LastIsOne DEF Tree
  <2> QED BY <2>1, <2>2, HeldIds, TreeTyped
<1> DEFINE Home(t) == {d \in DOMAIN past : UserMsg(t) \in Ids(past[d])}
           Kept1(d) == d \in DOMAIN past
<1>4. ASSUME NEW d \in Chats
      PROVE  /\ chats[d] \in Chat /\ chats[d].state \in {"absent", "live"}
             /\ d \notin DOMAIN past => chats[d].state = "absent" /\ TreeOf(d) = <<>> /\ chats[d].leaf = NoMsg
             /\ d \in DOMAIN past => /\ chats[d].state = "live" /\ TreeOf(d) = past[d]
                                     /\ chats[d].leaf = Last(past[d]).id
  <2>1. CASE d \notin DOMAIN past
    <3>1. chats[d] = NewChat
      BY <1>1, <2>1
    <3>2. NewChat \in Chat
      BY ChatMade, EmptyInSeq DEF NewChat, Tree
    <3> QED BY <2>1, <3>1, <3>2 DEF NewChat, TreeOf
  <2>2. CASE d \in DOMAIN past
    <3>1. chats[d] = [state |-> "live", leaf |-> Last(past[d]).id, tree |-> past[d]]
      BY <1>1, <2>2
    <3>2. past[d] \in Tree /\ Last(past[d]).id \in MessageIds \cup {NoMsg}
      BY <1>2, <1>3, <2>2 DEF PastFits
    <3>3. chats[d] \in Chat
      BY <3>1, <3>2, ChatMade
    <3> QED BY <2>2, <3>1, <3>3 DEF TreeOf
  <2> QED BY <2>1, <2>2
<1>5. ASSUME NEW t \in Turns
      PROVE  /\ turns[t] \in Turn /\ turns[t].pc \in {"ended", "rejected", "unused"}
             /\ Home(t) # {} <=> turns[t].pc = "ended"
             /\ Home(t) # {} => turns[t].under = UserMsg(t) /\ turns[t].chat \in Home(t)
  <2>1. NoTurn \in Turn /\ NoTurn.pc = "unused"
    BY DEF NoTurn, Turn, Kinds
  <2>2. CASE Home(t) # {}
    <3> DEFINE d == CHOOSE d \in Home(t) : TRUE
               x == [NoTurn EXCEPT !.pc = "ended", !.kind = kind, !.under = UserMsg(t), !.chat = d, !.text = TRUE]
    <3>1. turns[t] = x
      BY <1>1, <2>2
    <3>2. d \in Home(t) /\ d \in Chats
      BY <1>2, <2>2
    <3> HIDE DEF d
    <3>3. UserMsg(t) \in UserIds
      BY MessagesDiffer
    <3>4. x \in Turn /\ x.pc = "ended" /\ x.under = UserMsg(t) /\ x.chat = d
      BY <3>2, <3>3 DEF NoTurn, Turn, Kinds
    <3> HIDE DEF x
    <3> QED BY <2>2, <3>1, <3>2, <3>4
  <2>3. CASE Home(t) = {}
    <3>1. turns[t] = IF t = 1 THEN [NoTurn EXCEPT !.pc = "rejected"] ELSE NoTurn
      BY <1>1, <2>3
    <3>2. [NoTurn EXCEPT !.pc = "rejected"] \in Turn /\ [NoTurn EXCEPT !.pc = "rejected"].pc = "rejected"
      BY DEF NoTurn, Turn, Kinds
    <3>3. turns[t] \in Turn /\ turns[t].pc \in {"rejected", "unused"}
      BY <2>1, <3>1, <3>2
    <3> QED BY <2>3, <3>3
  <2> QED BY <2>2, <2>3
<1>6. TypeOK
  <2>1. chats \in [Chats -> Chat] /\ turns \in [Turns -> Turn]
    BY <1>1, <1>4, <1>5
  <2>2. links \in [Links -> Link]
    BY DEF PageInit, Link
  <2> QED BY <2>1, <2>2 DEF TypeOK
<1>7. TreeInv
  <2>1. LeavesHeld
    BY <1>3, <1>4 DEF LeavesHeld
  <2>2. ParentsHeld
    <3>1. \A d \in Chats : d \notin DOMAIN past => Range(TreeOf(d)) = {}
      BY <1>4, EmptyTree
    <3> QED BY <1>2, <1>4, <3>1 DEF ParentsHeld, PastFits
  <2>3. AbsentIsEmpty
    BY <1>4 DEF AbsentIsEmpty
  <2>4. \A d \in Chats : d \notin DOMAIN past => Ids(TreeOf(d)) = {}
    BY <1>4, EmptyTree
  <2>5. \A d \in Chats, t \in Turns : UserMsg(t) \in Ids(TreeOf(d)) => d \in Home(t)
    BY <1>4, <2>4
  <2>6. \A d \in Chats, t \in Turns : AnswerMsg(t) \in Ids(TreeOf(d)) => UserMsg(t) \in Ids(TreeOf(d))
    BY <1>2, <1>4, <2>4 DEF PastFits
  <2>7. UsersAreWritten /\ AnswersAreWritten
    BY <1>5, <2>5, <2>6 DEF UsersAreWritten, AnswersAreWritten
  <2>8. TurnsFit
    BY <1>5 DEF TurnsFit, TurnFits
  <2> QED BY <2>1, <2>2, <2>3, <2>7, <2>8 DEF TreeInv
<1>8. WrittenFits
  BY <1>2, <1>4, <1>5, MessagesDiffer DEF WrittenFits, Written
<1>9. Loads(loads) /\ OpenLoads(loads) = {} /\ loads["turn"].step = "none"
  <2>1. loads = [s \in AllSlots |-> NoLoad]
    BY DEF PageInit, AllSlots
  <2> QED BY <2>1, NoLoadFits DEF Loads, OpenLoads, AllSlots
<1>10. PostedFit /\ PatchFits
  <2>1. posted = [t \in Turns |-> Nothing] /\ patch = NoPatch
    BY DEF PageInit
  <2> QED BY <2>1, LocalsApart DEF PostedFit, LocalIdsStayHome, PatchFits, Nothing, NoPatch
<1>11. moves \in 0..MaxMoves /\ faults \in 0..MaxFaults
  <2>1. moves = 0 /\ faults = 0
    BY DEF PageInit
  <2> QED BY <2>1, MovesAssumption, FaultsAssumption
<1> DEFINE shown == IF c = NoChat THEN <<>> ELSE past[c]
           leaf == IF c = NoChat THEN NoMsg ELSE Last(past[c]).id
<1>12. c \in Chats \cup {NoChat} /\ (c # NoChat => c \in DOMAIN past)
  BY <1>1, <1>2
<1>13. shown \in Shown /\ leaf \in ShownIds \cup {NoMsg} /\ leaf \notin LocalIds
  <2>1. <<>> \in Shown
    BY EmptyInSeq DEF Shown
  <2>2. c # NoChat => past[c] \in Shown /\ Last(past[c]).id \in MessageIds
    BY <1>2, <1>3, <1>12, TreeIsShown DEF PastFits
  <2> QED BY <2>1, <2>2, LocalsApart DEF ShownIds
<1>14. page = [AtRest EXCEPT !.url = c, !.conv = c, !.agent = kind = "agent", !.shown = shown, !.leaf = leaf]
  BY <1>1
<1>15. AtHome(c, Ids(shown), leaf) /\ \A id \in Ids(shown) : IsStored(id)
  <2>1. CASE c = NoChat
    BY <2>1, EmptyTree DEF AtHome
  <2>2. CASE c # NoChat
    <3>1. shown = TreeOf(c) /\ leaf \in Ids(TreeOf(c)) /\ c \in Chats
      BY <1>2, <1>3, <1>4, <1>12, <2>2
    <3> HIDE DEF shown, leaf
    <3> QED BY <2>2, <3>1 DEF AtHome, IsStored, Holds, TreeOf
  <2> QED BY <2>1, <2>2
<1> HIDE DEF shown, leaf
<1>16. page \in Page /\ page.url = c /\ page.conv = c /\ page.shown = shown /\ page.leaf = leaf
       /\ page.stage = "idle" /\ page.turn = 0
  <2>1. 0 \in 0..MaxTurns
    BY BoundsAssumption
  <2>2. page \in Page
    BY <1>12, <1>13, <1>14, <2>1 DEF AtRest, Page, Shown, ShownMessage
  <2> QED BY <1>14, <2>2 DEF AtRest
<1>17. StageFits
  BY <1>9, <1>16 DEF StageFits
<1>18. WhereFits(page)
  BY <1>4, <1>2, <1>12, <1>16 DEF WhereFits, Exists
<1>19. StoredAt(page) /\ HomeAt(page) /\ Apart
  BY <1>13, <1>15, <1>16 DEF StoredAt, HomeAt, Apart, Idle
<1> QED BY <1>6, <1>7, <1>8, <1>9, <1>10, <1>11, <1>16, <1>17, <1>18, <1>19 DEF PageInv, IInv

-----------------------------------------------------------------------------
(* The theorems of the page.                                               *)

LEMMA PageInvariance == PageSpec => []PageInv
BY InitPageInv, PageInvNext, PTL DEF PageSpec

\* The page, its loads and its requests have their types, and it waits for a tree exactly when
\* the request for it is out, whatever overlaps (page.tsx:421-458, 671-904).
THEOREM PageTypeCorrect == PageSpec => []PageTypeOK
<1>1. PageInv => PageTypeOK
  <2> SUFFICES ASSUME PageInv PROVE PageTypeOK
    OBVIOUS
  <2>1. patch \in [chat : Chats \cup {NoChat}, leaf : ShownIds \cup {NoMsg}]
    BY DEF PageInv, PatchFits
  <2> QED BY <2>1 DEF PageInv, IInv, PageTypeOK, StageFits, Loads, AllSlots, PostedFit
<1> QED BY PageInvariance, <1>1, PTL

\* No request for an answer names one of the page's own ids (page.tsx:188-194, 693, 702-708).
THEOREM NoLocalIdIsSent == PageSpec => []LocalIdsStayHome
<1>1. PageInv => LocalIdsStayHome
  BY DEF PageInv, PostedFit
<1> QED BY PageInvariance, <1>1, PTL

\* A page at rest shows stored messages only, unless a conversation was deleted or a response
\* lost (page.tsx:873-901).
THEOREM WhatIsShownIsStored == PageSpec => []ShownIsStored
<1>1. PageInv => ShownIsStored
  <2> SUFFICES ASSUME PageInv, Idle, faults = 0, \A c \in Chats : chats[c].state # "deleted"
               PROVE  /\ page.leaf \notin LocalIds
                      /\ \A m \in Range(page.shown) : \E c \in Chats : Holds(c, m.id)
    BY DEF ShownIsStored
  <2>1. StoredAt(page)
    BY DEF PageInv, Intact
  <2>2. page.leaf \notin LocalIds /\ \A id \in Ids(page.shown) : IsStored(id)
    BY <2>1 DEF StoredAt, Idle
  <2> QED BY <2>2, HeldIds DEF IsStored
<1> QED BY PageInvariance, <1>1, PTL

\* A page at rest shows messages, and a leaf, of the conversation it is on, if no other one was
\* loading while a turn ran (page.tsx:421-458, 873-901).
THEOREM PageShowsItsConversation == PageSpec => []ShowsItsConversation
<1>1. PageInv => ShowsItsConversation
  <2> SUFFICES ASSUME PageInv PROVE ShowsItsConversation
    OBVIOUS
  <2>1. Idle /\ ~page.mixed /\ faults = 0 => AtHome(page.conv, Ids(page.shown), page.leaf)
    BY DEF PageInv, HomeAt, Idle
  <2>2. Ids(page.shown) = {} => page.shown = <<>>
    <3>1. page.shown \in Seq(ShownMessage)
      BY PageTyped DEF PageInv, Shown
    <3>2. Ids(page.shown) = {} => ~(1 \in DOMAIN page.shown)
      BY DEF Ids
    <3> QED BY <3>1, <3>2
  <2> QED BY <2>1, <2>2 DEF AtHome, ShowsItsConversation, TreeOf
<1> QED BY PageInvariance, <1>1, PTL
=============================================================================
