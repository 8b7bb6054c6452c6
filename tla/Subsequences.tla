---------------------------- MODULE Subsequences -----------------------------
(* What Python's comprehensions and SQL's WHERE and ORDER BY make of a list.  *)
(* The standard modules have SelectSeq and SortSeq for it; these have no      *)
(* definition a proof can expand, and SortSeq none at all for a sequence that *)
(* holds two elements that neither comes before the other.                    *)
EXTENDS Naturals, Sequences, FiniteSets

Contents(seq) == {seq[i] : i \in 1..Len(seq)}

(* The elements of seq that are in S, in their order.                         *)
Filtered(seq, S) ==
    LET upTo[i \in 0..Len(seq)] ==
            IF i = 0 THEN <<>>
            ELSE upTo[i - 1] \o IF seq[i] \in S THEN <<seq[i]>> ELSE <<>>
    IN  upTo[Len(seq)]

(* The i-th element comes before the j-th in the order of the keys; elements  *)
(* with equal keys stay in the order they are in.                             *)
Before(key, i, j) == key[i] < key[j] \/ (key[i] = key[j] /\ i < j)

(* The elements of seq in the order of their keys: key[i] is that of seq[i].  *)
OrderedBy(seq, key) ==
    LET n == Len(seq)
        nth(k) == CHOOSE i \in 1..n : Cardinality({j \in 1..n : Before(key, j, i)}) = k - 1
        upTo[k \in 0..n] == IF k = 0 THEN <<>> ELSE upTo[k - 1] \o <<seq[nth(k)]>>
    IN  upTo[n]
==============================================================================
