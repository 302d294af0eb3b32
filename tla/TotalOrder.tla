---------------------------- MODULE TotalOrder ----------------------------
(***************************************************************************)
(* Sorting by a key, as list.sort and ORDER BY do; choosing and adding.    *)
(***************************************************************************)
EXTENDS Integers, Sequences, FiniteSets

\* compare two tuples of numbers
Exceeds(a, b) == \E i \in DOMAIN a : a[i] > b[i] /\ \A j \in 1..(i - 1) : a[j] = b[j]

\* The elements of a finite set, each at its rank in a strict total order of it
Ranked(S, order) ==
    LET rank == [x \in S |-> Cardinality({y \in S : <<y, x>> \in order})]
    IN  [i \in 1..Cardinality(S) |-> CHOOSE x \in S : rank[x] = i - 1]

Ordered(S, Before(_, _)) == Ranked(S, {p \in S \X S : Before(p[1], p[2])})

Mapped(seq, f(_)) == [i \in DOMAIN seq |-> f(seq[i])]

\* The elements of a sequence at some of its places
Picked(seq, at) == Mapped(Ordered(at, LAMBDA i, j : i < j), LAMBDA i : seq[i])

\* The elements of a sequence, each with its key, the larger keys first; they
\* keep their order if their keys are equal.
InOrder(seq, keys) ==
    Mapped(Ordered(DOMAIN seq, LAMBDA i, j : Exceeds(keys[i], keys[j]) \/ (keys[i] = keys[j] /\ i < j)),
           LAMBDA i : seq[i])

Descending(seq, key(_)) == InOrder(seq, Mapped(seq, key))

Total(seq) ==
    LET sum[i \in 0..Len(seq)] == IF i = 0 THEN 0 ELSE sum[i - 1] + seq[i]
    IN  sum[Len(seq)]
=============================================================================
