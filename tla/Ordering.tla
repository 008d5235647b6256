------------------------------ MODULE Ordering ------------------------------
(***************************************************************************)
(* Lists made from sets and from other lists, as sort and filter make them *)
(* in the code.                                                            *)
(***************************************************************************)
EXTENDS Naturals, Sequences, FiniteSets

\* The elements of a finite set, each once, ordered by their keys.
InOrder(S, key) ==
  CHOOSE s \in [1..Cardinality(S) -> S] :
    /\ \A i, j \in DOMAIN s : s[i] = s[j] => i = j
    /\ \A i, j \in DOMAIN s : i < j => key[s[i]] <= key[s[j]]

\* What a sequence has at some of its places, in its order.
Picked(s, places) == LET at == InOrder(places, [i \in places |-> i]) IN [k \in DOMAIN at |-> s[at[k]]]
=============================================================================
