-------------------------------- MODULE Lists --------------------------------
(***************************************************************************)
(* Sequences as the code makes them from sets and sequences: sorted(...),  *)
(* and comprehensions that leave something out.  Written with ranks rather *)
(* than with SortSeq and SelectSeq, which the provers cannot expand.       *)
(***************************************************************************)
EXTENDS Integers, FiniteSets, Sequences

\* The elements of S in the order of a set of pairs, which is total on S.
SortedBy(S, before) ==
    [n \in 1..Cardinality(S) |-> CHOOSE x \in S : Cardinality({y \in S : <<y, x>> \in before}) = n - 1]

\* A sequence without the elements of a set.
Without(s, out) ==
    LET left == {i \in DOMAIN s : s[i] \notin out}
        at == SortedBy(left, {p \in left \X left : p[1] < p[2]})
    IN [n \in DOMAIN at |-> s[at[n]]]

=============================================================================
