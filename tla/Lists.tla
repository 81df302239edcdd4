------------------------------- MODULE Lists --------------------------------
(***************************************************************************)
(* Doubly linked lists (rt_list_t) as sequences.  Every object has one     *)
(* node for the lists it can be in, so it is in a list at most once.       *)
(***************************************************************************)
EXTENDS Integers, SequencesExt

\* The list s, of elements of T, links the members of S, each once.
Links(s, T, S) == s \in Seq(T) /\ IsInjective(s) /\ ToSet(s) = S

\* rt_list_remove: s without its node t, or s if t is not in it.
Unlinked(s, t) ==
    IF t \in ToSet(s) THEN RemoveAt(s, CHOOSE i \in DOMAIN s : s[i] = t) ELSE s

\* t inserted before the first of the positions I of s, at the end if I is empty.
InsertBeforeFirst(s, I, t) ==
    InsertAt(s, IF I = {} THEN Len(s) + 1 ELSE Min(I), t)

\* The elements of s stand in the order of their keys.
Sorted(s, key) == \A i, j \in DOMAIN s : i < j => key[s[i]] <= key[s[j]]

=============================================================================
