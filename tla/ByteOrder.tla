------------------------------ MODULE ByteOrder ------------------------------
(***************************************************************************)
(* The order of byte strings, by which keys and texts are sorted.          *)
(***************************************************************************)
EXTENDS Integers, SequencesExt, FiniteSets

\* Ord of [u8] and str.
LexLess(s, t) ==
    \/ IsStrictPrefix(s, t)
    \/ \E i \in 1..Min({Len(s), Len(t)}) :
        s[i] < t[i] /\ \A j \in 1..(i - 1) : s[j] = t[j]

\* The elements of a finite set in ascending order.
InOrder(S, less(_, _)) ==
    [i \in 1..Cardinality(S) |-> CHOOSE x \in S : Cardinality({y \in S : less(y, x)}) = i - 1]
=============================================================================
