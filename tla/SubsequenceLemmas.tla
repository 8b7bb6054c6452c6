-------------------------- MODULE SubsequenceLemmas --------------------------
(* What the proofs of the components need to know of sequences of any length: *)
(* induction over numbers and sequences, what a recursive function adds up    *)
(* to, and what the operators of Subsequences return and keep. The library's  *)
(* induction theorems take an operator as a parameter; here it is a set.      *)
EXTENDS Subsequences, SequencesExt, SequenceTheorems, FiniteSetTheorems,
        WellFoundedInduction, TLAPS

------------------------------------------------------------------------------
(* Numbers: a set of them has a least element, and what holds for 0 and for   *)
(* the next one holds for all.                                                *)

LEMMA LeastElement ==
    ASSUME NEW T \in SUBSET Nat, T # {}
    PROVE  \E m \in T : \A k \in T : m <= k
<1> DEFINE R == {ss \in Nat \X Nat : ss[1] < ss[2]}
<1>1. IsWellFoundedOn(R, Nat)
    <2>1. OpToRel(<, Nat) = R
        BY DEF OpToRel
    <2> QED
        BY <2>1, NatLessThanWellFounded
<1>2. PICK m \in T : \A k \in T : <<k, m>> \notin R
    <2> HIDE DEF R
    <2> QED
        BY <1>1, WFMin
<1>3. \A k \in T : k \in Nat /\ m \in Nat /\ ~(k < m)
    BY <1>2
<1> QED
    BY <1>3

LEMMA ForAllNumbers ==
    ASSUME NEW T, 0 \in T, \A n \in Nat : n \in T => n + 1 \in T
    PROVE  Nat \subseteq T
<1> SUFFICES ASSUME Nat \ T # {} PROVE FALSE
    OBVIOUS
<1>1. PICK m \in Nat \ T : \A k \in Nat \ T : m <= k
    BY LeastElement
<1>2. m - 1 \in Nat /\ m - 1 \in T
    BY <1>1
<1> QED
    BY <1>1, <1>2

(* What holds for the empty sequence, and for a sequence with one more        *)
(* element, holds for all.                                                    *)
LEMMA ForAllSequences ==
    ASSUME NEW E, NEW T, <<>> \in T,
           \A s \in Seq(E) : \A e \in E : s \in T => Append(s, e) \in T
    PROVE  Seq(E) \subseteq T
<1> DEFINE U == {n \in Nat : \A s \in Seq(E) : Len(s) = n => s \in T}
<1>1. 0 \in U
    <2>1. \A s \in Seq(E) : Len(s) = 0 => s = <<>>
        BY EmptySeq
    <2> QED
        BY <2>1
<1>2. ASSUME NEW n \in Nat, n \in U
      PROVE  n + 1 \in U
    <2> SUFFICES ASSUME NEW s \in Seq(E), Len(s) = n + 1
                 PROVE  s \in T
        OBVIOUS
    <2> DEFINE front == [i \in 1..n |-> s[i]]
    <2>1. front \in Seq(E) /\ Len(front) = n /\ s[n + 1] \in E
        OBVIOUS
    <2>2. s = Append(front, s[n + 1])
        <3>1. Append(front, s[n + 1]) \in Seq(E) /\ Len(Append(front, s[n + 1])) = n + 1
            BY <2>1
        <3>2. \A i \in 1 .. n + 1 : Append(front, s[n + 1])[i] = s[i]
            BY <2>1
        <3> HIDE DEF front
        <3> QED
            BY <3>1, <3>2, SeqEqual
    <2>3. front \in T
        BY <1>2, <2>1
    <2> HIDE DEF front
    <2> QED
        BY <2>1, <2>2, <2>3
<1>3. Nat \subseteq U
    <2> HIDE DEF U
    <2> QED
        BY <1>1, <1>2, ForAllNumbers
<1> QED
    BY <1>3

------------------------------------------------------------------------------
(* What is in a sequence.                                                     *)

LEMMA ContentsMembers ==
    ASSUME NEW seq, NEW x
    PROVE  x \in Contents(seq) <=> \E i \in 1..Len(seq) : x = seq[i]
BY DEF Contents

LEMMA ContentsConcat ==
    ASSUME NEW S, NEW s \in Seq(S), NEW t \in Seq(S)
    PROVE  Contents(s \o t) = Contents(s) \cup Contents(t)
<1> DEFINE u == s \o t
<1>1. /\ Len(s) \in Nat /\ Len(t) \in Nat /\ Len(u) = Len(s) + Len(t)
      /\ \A i \in 1..Len(s) : u[i] = s[i]
      /\ \A i \in 1..Len(t) : u[Len(s) + i] = t[i]
    OBVIOUS
<1> HIDE DEF u
<1>2. ASSUME NEW x \in Contents(u) PROVE x \in Contents(s) \cup Contents(t)
    <2>1. PICK i \in 1..Len(u) : x = u[i]
        BY <1>2, ContentsMembers
    <2>2. CASE i \in 1..Len(s)
        BY <1>1, <2>1, <2>2, ContentsMembers
    <2>3. CASE i \notin 1..Len(s)
        <3>1. i - Len(s) \in 1..Len(t) /\ i = Len(s) + (i - Len(s))
            BY <1>1, <2>3
        <3>2. x = t[i - Len(s)]
            BY <1>1, <2>1, <3>1
        <3> QED
            BY <3>1, <3>2, ContentsMembers
    <2> QED
        BY <2>2, <2>3
<1>3. ASSUME NEW x \in Contents(s) PROVE x \in Contents(u)
    <2>1. PICK i \in 1..Len(s) : x = s[i]
        BY <1>3, ContentsMembers
    <2>2. i \in 1..Len(u) /\ x = u[i]
        BY <1>1, <2>1
    <2> QED
        BY <2>2, ContentsMembers
<1>4. ASSUME NEW x \in Contents(t) PROVE x \in Contents(u)
    <2>1. PICK i \in 1..Len(t) : x = t[i]
        BY <1>4, ContentsMembers
    <2>2. Len(s) + i \in 1..Len(u) /\ x = u[Len(s) + i]
        BY <1>1, <2>1
    <2> QED
        BY <2>2, ContentsMembers
<1> QED
    BY <1>2, <1>3, <1>4 DEF u

LEMMA ContentsAppend ==
    ASSUME NEW S, NEW s \in Seq(S), NEW e \in S
    PROVE  Contents(Append(s, e)) = Contents(s) \cup {e}
<1> DEFINE one == <<e>>
<1>1. Append(s, e) = s \o one
    BY AppendIsConcat
<1>2. one \in Seq(S) /\ Len(one) = 1 /\ one[1] = e
    OBVIOUS
<1> HIDE DEF one
<1>3. Contents(one) = {e}
    BY <1>2 DEF Contents
<1> QED
    BY <1>1, <1>2, <1>3, ContentsConcat

LEMMA NumbersAppend ==
    ASSUME NEW s \in Seq(Nat), NEW e \in Nat
    PROVE  Contents(Append(s, e)) = Contents(s) \cup {e}
<1>1. PICK S : S = Nat
    OBVIOUS
<1>2. s \in Seq(S) /\ e \in S
    BY <1>1
<1> QED
    BY <1>2, ContentsAppend

LEMMA ContentsEmpty == Contents(<< >>) = {}
BY DEF Contents

------------------------------------------------------------------------------
(* Recursive functions that put sequences one behind the other.               *)

(* f[i] is what h[1], ..., h[i] are together.                                 *)
Joins(f, h, m) == f = [i \in 0..m |-> IF i = 0 THEN <<>> ELSE f[i - 1] \o h[i]]

LEMMA JoinsUnfolded ==
    ASSUME NEW f, NEW h, NEW m \in Nat, Joins(f, h, m)
    PROVE  /\ f[0] = <<>>
           /\ \A i \in 1..m : f[i] = f[i - 1] \o h[i]
<1> DEFINE g == [i \in 0..m |-> IF i = 0 THEN <<>> ELSE f[i - 1] \o h[i]]
<1>1. f = g
    BY DEF Joins
<1>2. g[0] = <<>>
    OBVIOUS
<1>3. ASSUME NEW i \in 1..m
      PROVE  g[i] = f[i - 1] \o h[i]
    <2>1. i \in 0..m /\ i # 0
        OBVIOUS
    <2> QED
        BY <2>1
<1> HIDE DEF g
<1> QED
    BY <1>1, <1>2, <1>3

LEMMA JoinsExists ==
    ASSUME NEW h, NEW m \in Nat
    PROVE  \E f : Joins(f, h, m)
<1> DEFINE T == {n \in Nat : \E f : Joins(f, h, n)}
<1>1. 0 \in T
    <2> DEFINE f == [i \in 0..0 |-> <<>>]
    <2>1. Joins(f, h, 0)
        BY DEF Joins
    <2> QED
        BY <2>1
<1>2. ASSUME NEW n \in Nat, n \in T
      PROVE  n + 1 \in T
    <2>1. PICK f : Joins(f, h, n)
        BY <1>2
    <2>2. f[0] = <<>> /\ \A i \in 1..n : f[i] = f[i - 1] \o h[i]
        BY <2>1, JoinsUnfolded
    <2> DEFINE g == [i \in 0 .. n + 1 |-> IF i <= n THEN f[i] ELSE f[n] \o h[n + 1]]
    <2>3. ASSUME NEW i \in 0 .. n + 1
          PROVE  g[i] = IF i = 0 THEN <<>> ELSE g[i - 1] \o h[i]
        <3>1. CASE i = 0
            BY <2>2, <3>1
        <3>2. CASE i \in 1..n
            <4>1. g[i] = f[i] /\ g[i - 1] = f[i - 1] /\ i # 0
                BY <3>2
            <4> HIDE DEF g
            <4> QED
                BY <2>2, <3>2, <4>1
        <3>3. CASE i = n + 1
            BY <3>3
        <3> QED
            BY <3>1, <3>2, <3>3
    <2>4. Joins(g, h, n + 1)
        BY <2>3 DEF Joins
    <2> HIDE DEF g
    <2> QED
        BY <2>4
<1>3. m \in T
    <2> HIDE DEF T
    <2> QED
        BY <1>1, <1>2, ForAllNumbers
<1> QED
    BY <1>3

(* As far as the parts are the same, so is what they are together.            *)
LEMMA JoinsSame ==
    ASSUME NEW f, NEW h, NEW m \in Nat, Joins(f, h, m),
           NEW g, NEW k, NEW n \in Nat, Joins(g, k, n),
           NEW l \in Nat, l <= m, l <= n, \A i \in 1..l : h[i] = k[i]
    PROVE  f[l] = g[l]
<1> DEFINE T == {i \in Nat : i <= l => f[i] = g[i]}
<1>1. /\ f[0] = <<>> /\ \A i \in 1..m : f[i] = f[i - 1] \o h[i]
      /\ g[0] = <<>> /\ \A i \in 1..n : g[i] = g[i - 1] \o k[i]
    BY JoinsUnfolded
<1>2. 0 \in T
    BY <1>1
<1>3. ASSUME NEW i \in Nat, i \in T
      PROVE  i + 1 \in T
    <2> SUFFICES ASSUME i + 1 <= l PROVE f[i + 1] = g[i + 1]
        OBVIOUS
    <2>1. PICK j \in 1..l : j = i + 1 /\ j - 1 = i /\ j \in 1..m /\ j \in 1..n
        OBVIOUS
    <2>2. f[j - 1] = g[j - 1] /\ h[j] = k[j]
        BY <1>3, <2>1
    <2>3. f[j] = f[j - 1] \o h[j] /\ g[j] = g[j - 1] \o k[j]
        BY <1>1, <2>1
    <2> QED
        BY <2>1, <2>2, <2>3
<1>4. l \in T
    <2> HIDE DEF T
    <2> QED
        BY <1>2, <1>3, ForAllNumbers
<1> QED
    BY <1>4

------------------------------------------------------------------------------
(* What FlattenSeq does.                                                      *)

LEMMA FlattenJoins ==
    ASSUME NEW E, NEW ss \in Seq(Seq(E))
    PROVE  \E f : Joins(f, ss, Len(ss)) /\ FlattenSeq(ss) = f[Len(ss)]
<1> DEFINE m == Len(ss)
           P(g) == g = [i \in 1..m |-> IF i = 1 THEN ss[i] ELSE g[i - 1] \o ss[i]]
           g0 == CHOOSE g : P(g)
<1>1. m \in Nat /\ \A i \in 1..m : ss[i] \in Seq(E)
    BY ElementOfSeq
<1>2. PICK f : Joins(f, ss, m)
    BY <1>1, JoinsExists
<1>3. f[0] = <<>> /\ \A i \in 1..m : f[i] = f[i - 1] \o ss[i]
    BY <1>1, <1>2, JoinsUnfolded
<1>4. CASE m = 0
    <2>1. FlattenSeq(ss) = ss /\ ss = <<>>
        BY <1>4, EmptySeq DEF FlattenSeq
    <2> QED
        BY <1>2, <1>3, <1>4, <2>1
<1>5. CASE m # 0
    <2>1. f[1] = ss[1]
        <3>1. PICK j \in 1..m : j = 1 /\ j - 1 = 0
            BY <1>1, <1>5
        <3>2. f[j] = f[j - 1] \o ss[j] /\ ss[j] \in Seq(E)
            BY <1>1, <1>3
        <3>3. f[1] = <<>> \o ss[1] /\ ss[1] \in Seq(E)
            BY <1>3, <3>1, <3>2
        <3> QED
            BY <3>3, ConcatEmptySeq
    <2>2. P([i \in 1..m |-> f[i]])
        <3> DEFINE g == [i \in 1..m |-> f[i]]
        <3>1. ASSUME NEW i \in 1..m, i # 1
              PROVE  f[i] = g[i - 1] \o ss[i]
            <4>1. i - 1 \in 1..m
                BY <1>1, <3>1
            <4> QED
                BY <1>3, <4>1
        <3>2. \A i \in 1..m : f[i] = IF i = 1 THEN ss[i] ELSE g[i - 1] \o ss[i]
            BY <2>1, <3>1
        <3>3. g = [i \in 1..m |-> IF i = 1 THEN ss[i] ELSE g[i - 1] \o ss[i]]
            BY <3>2
        <3> HIDE DEF g
        <3>4. P(g)
            BY <3>3
        <3> QED
            BY <3>4 DEF g
    <2>3. P(g0)
        <3> HIDE DEF P
        <3> QED
            BY <2>2
    <2>4. FlattenSeq(ss) = g0[m]
        BY <1>5 DEF FlattenSeq
    <2>5. \A i \in 1..m : g0[i] = IF i = 1 THEN ss[i] ELSE g0[i - 1] \o ss[i]
        <3> DEFINE h == [i \in 1..m |-> IF i = 1 THEN ss[i] ELSE g0[i - 1] \o ss[i]]
        <3>1. g0 = h
            <4> HIDE DEF g0
            <4> QED
                BY <2>3
        <3>2. \A i \in 1..m : h[i] = IF i = 1 THEN ss[i] ELSE g0[i - 1] \o ss[i]
            OBVIOUS
        <3> HIDE DEF g0, h
        <3> QED
            BY <3>1, <3>2
    <2> HIDE DEF g0
    <2> DEFINE T == {i \in Nat : i \in 1..m => g0[i] = f[i]}
    <2>6. 0 \in T
        OBVIOUS
    <2>7. ASSUME NEW i \in Nat, i \in T
          PROVE  i + 1 \in T
        <3> SUFFICES ASSUME i + 1 \in 1..m PROVE g0[i + 1] = f[i + 1]
            OBVIOUS
        <3>1. CASE i = 0
            BY <2>1, <2>5, <3>1
        <3>2. CASE i # 0
            <4>1. i \in 1..m /\ g0[i] = f[i]
                BY <2>7, <3>2
            <4>2. PICK j \in 1..m : j = i + 1 /\ j - 1 = i /\ j # 1
                BY <3>2
            <4>3. g0[j] = g0[j - 1] \o ss[j] /\ f[j] = f[j - 1] \o ss[j]
                BY <1>3, <2>5, <4>2
            <4> QED
                BY <4>1, <4>2, <4>3
        <3> QED
            BY <3>1, <3>2
    <2>8. m \in T
        <3> HIDE DEF T
        <3> QED
            BY <1>1, <2>6, <2>7, ForAllNumbers
    <2>9. g0[m] = f[m]
        BY <1>1, <1>5, <2>8
    <2> QED
        BY <1>2, <2>4, <2>9
<1> QED
    BY <1>4, <1>5

LEMMA FlattenAppend ==
    ASSUME NEW E, NEW ss \in Seq(Seq(E)), NEW s \in Seq(E)
    PROVE  /\ FlattenSeq(ss) \in Seq(E)
           /\ FlattenSeq(Append(ss, s)) = FlattenSeq(ss) \o s
<1> DEFINE more == Append(ss, s)
           m == Len(ss)
<1>1. /\ more \in Seq(Seq(E)) /\ Len(more) = m + 1 /\ m \in Nat /\ more[m + 1] = s
      /\ \A i \in 1..m : more[i] = ss[i] /\ ss[i] \in Seq(E)
    BY ElementOfSeq
<1>2. PICK f : Joins(f, ss, m) /\ FlattenSeq(ss) = f[m]
    BY FlattenJoins
<1> HIDE DEF more, m
<1>3. PICK g : Joins(g, more, m + 1) /\ FlattenSeq(more) = g[m + 1]
    <2>1. \E g : Joins(g, more, Len(more)) /\ FlattenSeq(more) = g[Len(more)]
        BY <1>1, FlattenJoins
    <2> QED
        BY <1>1, <2>1
<1>4. f[0] = <<>> /\ \A i \in 1..m : f[i] = f[i - 1] \o ss[i]
    BY <1>1, <1>2, JoinsUnfolded
<1>5. g[m + 1] = g[m] \o s
    <2>1. \A i \in 1..m + 1 : g[i] = g[i - 1] \o more[i]
        <3>1. m + 1 \in Nat
            BY <1>1
        <3> QED
            BY <1>3, <3>1, JoinsUnfolded
    <2>2. PICK j \in 1..m + 1 : j = m + 1 /\ j - 1 = m
        BY <1>1
    <2> QED
        BY <1>1, <2>1, <2>2
<1>6. f[m] = g[m]
    <2>1. m <= m /\ m <= m + 1 /\ m + 1 \in Nat /\ \A i \in 1..m : ss[i] = more[i]
        BY <1>1
    <2> QED
        BY <1>1, <1>2, <1>3, <2>1, JoinsSame
<1> DEFINE T == {i \in Nat : i <= m => f[i] \in Seq(E)}
<1>7. 0 \in T
    <2>1. f[0] \in Seq(E)
        BY <1>4
    <2> QED
        BY <2>1
<1>8. ASSUME NEW i \in Nat, i \in T
      PROVE  i + 1 \in T
    <2> SUFFICES ASSUME i + 1 <= m PROVE f[i + 1] \in Seq(E)
        OBVIOUS
    <2>1. PICK j \in 1..m : j = i + 1 /\ j - 1 = i
        BY <1>1
    <2>2. ss[j] \in Seq(E) /\ f[j] = f[j - 1] \o ss[j]
        BY <1>1, <1>4
    <2>3. i <= m
        BY <1>1
    <2>4. f[j - 1] \in Seq(E)
        BY <1>8, <2>1, <2>3
    <2> QED
        BY <2>1, <2>2, <2>4, ConcatProperties
<1>9. m \in T
    <2> HIDE DEF T
    <2> QED
        BY <1>1, <1>7, <1>8, ForAllNumbers
<1>10. FlattenSeq(ss) \in Seq(E)
    BY <1>1, <1>2, <1>9
<1>11. FlattenSeq(more) = FlattenSeq(ss) \o s
    BY <1>1, <1>2, <1>3, <1>5, <1>6
<1> QED
    BY <1>10, <1>11 DEF more, m

LEMMA FlattenEmpty == FlattenSeq(<< >>) = << >>
BY DEF FlattenSeq

------------------------------------------------------------------------------
(* Filtered.                                                                  *)

Part(e, S) == IF e \in S THEN <<e>> ELSE <<>>

Parts(seq, S) == [i \in 1..Len(seq) |-> Part(seq[i], S)]

LEMMA FilteredJoins ==
    ASSUME NEW seq, Len(seq) \in Nat, NEW S
    PROVE  \E f : Joins(f, Parts(seq, S), Len(seq)) /\ Filtered(seq, S) = f[Len(seq)]
<1> DEFINE m == Len(seq)
           P(f) == f = [i \in 0..m |-> IF i = 0 THEN <<>>
                                       ELSE f[i - 1] \o IF seq[i] \in S THEN <<seq[i]>> ELSE <<>>]
           f0 == CHOOSE f : P(f)
<1>1. Filtered(seq, S) = f0[m]
    BY DEF Filtered
<1>2. ASSUME NEW f
      PROVE  P(f) <=> Joins(f, Parts(seq, S), m)
    <2>1. \A i \in 1..m : Parts(seq, S)[i] = IF seq[i] \in S THEN <<seq[i]>> ELSE <<>>
        BY DEF Parts, Part
    <2>2. [i \in 0..m |-> IF i = 0 THEN <<>>
                          ELSE f[i - 1] \o IF seq[i] \in S THEN <<seq[i]>> ELSE <<>>]
          = [i \in 0..m |-> IF i = 0 THEN <<>> ELSE f[i - 1] \o Parts(seq, S)[i]]
        <3> SUFFICES ASSUME NEW i \in 0..m, i # 0
                     PROVE  Parts(seq, S)[i] = IF seq[i] \in S THEN <<seq[i]>> ELSE <<>>
            OBVIOUS
        <3>1. i \in 1..m
            OBVIOUS
        <3> QED
            BY <2>1, <3>1
    <2> QED
        BY <2>2 DEF Joins
<1>3. \E f : P(f)
    <2> HIDE DEF P
    <2> QED
        BY <1>2, JoinsExists
<1>4. P(f0)
    <2> HIDE DEF P
    <2> QED
        BY <1>3
<1> HIDE DEF P, f0
<1> QED
    BY <1>1, <1>2, <1>4

LEMMA FilteredEmpty ==
    ASSUME NEW S
    PROVE  Filtered(<<>>, S) = <<>>
<1>1. Len(<<>>) = 0
    OBVIOUS
<1>2. PICK f : Joins(f, Parts(<<>>, S), 0) /\ Filtered(<<>>, S) = f[0]
    BY <1>1, FilteredJoins
<1> QED
    BY <1>2, JoinsUnfolded

LEMMA FilteredAppend ==
    ASSUME NEW E, NEW seq \in Seq(E), NEW e \in E, NEW S
    PROVE  Filtered(Append(seq, e), S) = Filtered(seq, S) \o Part(e, S)
<1> DEFINE longer == Append(seq, e)
           m == Len(seq)
<1>1. /\ m \in Nat /\ Len(longer) = m + 1 /\ longer[m + 1] = e
      /\ \A i \in 1..m : longer[i] = seq[i]
    OBVIOUS
<1> HIDE DEF longer, m
<1>2. PICK f : Joins(f, Parts(seq, S), m) /\ Filtered(seq, S) = f[m]
    BY <1>1, FilteredJoins DEF m
<1>3. PICK g : Joins(g, Parts(longer, S), m + 1) /\ Filtered(longer, S) = g[m + 1]
    BY <1>1, FilteredJoins
<1>4. \A i \in 1..m : Parts(seq, S)[i] = Parts(longer, S)[i]
    BY <1>1 DEF Parts, m
<1>5. f[m] = g[m]
    BY <1>1, <1>2, <1>3, <1>4, JoinsSame
<1>6. Parts(longer, S)[m + 1] = Part(e, S)
    BY <1>1 DEF Parts
<1>7. PICK n \in Nat : n = m + 1 /\ n - 1 = m /\ n \in 1..n
    BY <1>1
<1>8. g[n] = g[n - 1] \o Parts(longer, S)[n]
    BY <1>3, <1>7, JoinsUnfolded
<1> QED
    BY <1>2, <1>3, <1>5, <1>6, <1>7, <1>8 DEF longer

LEMMA FilteredType ==
    ASSUME NEW E, NEW seq \in Seq(E), NEW S
    PROVE  /\ Filtered(seq, S) \in Seq(E)
           /\ Contents(Filtered(seq, S)) = Contents(seq) \cap S
<1> DEFINE T == {s \in Seq(E) : /\ Filtered(s, S) \in Seq(E)
                                /\ Contents(Filtered(s, S)) = Contents(s) \cap S}
<1>1. <<>> \in T
    <2>1. <<>> \in Seq(E) /\ Filtered(<<>>, S) = <<>> /\ Contents(<<>>) = {}
        BY FilteredEmpty, ContentsEmpty
    <2> DEFINE none == <<>>
    <2> HIDE DEF none
    <2>2. none \in Seq(E) /\ Filtered(none, S) = none /\ Contents(none) = {}
        BY <2>1 DEF none
    <2>3. none \in T
        BY <2>2
    <2> QED
        BY <2>3 DEF none
<1>2. ASSUME NEW s \in Seq(E), NEW e \in E, s \in T
      PROVE  Append(s, e) \in T
    <2>1. Part(e, S) \in Seq(E) /\ Contents(Part(e, S)) = {e} \cap S
        BY DEF Part, Contents
    <2>2. Filtered(s, S) \in Seq(E) /\ Contents(Filtered(s, S)) = Contents(s) \cap S
        BY <1>2
    <2>3. Filtered(Append(s, e), S) = Filtered(s, S) \o Part(e, S)
        BY FilteredAppend
    <2>4. Filtered(s, S) \o Part(e, S) \in Seq(E)
        BY <2>1, <2>2
    <2>5. Contents(Filtered(s, S) \o Part(e, S)) = Contents(Filtered(s, S)) \cup ({e} \cap S)
        BY <2>1, <2>2, ContentsConcat
    <2>6. Contents(Append(s, e)) = Contents(s) \cup {e}
        BY ContentsAppend
    <2>7. Append(s, e) \in Seq(E)
        OBVIOUS
    <2> QED
        BY <2>2, <2>3, <2>4, <2>5, <2>6, <2>7
<1>3. Seq(E) \subseteq T
    <2> HIDE DEF T
    <2> QED
        BY <1>1, <1>2, ForAllSequences
<1> QED
    BY <1>3

LEMMA FilteredConcat ==
    ASSUME NEW E, NEW r \in Seq(E), NEW t \in Seq(E), NEW S
    PROVE  Filtered(r \o t, S) = Filtered(r, S) \o Filtered(t, S)
<1> DEFINE T == {s \in Seq(E) : Filtered(r \o s, S) = Filtered(r, S) \o Filtered(s, S)}
<1>1. <<>> \in T
    <2>1. r \o <<>> = r /\ Filtered(r, S) \o <<>> = Filtered(r, S)
        BY FilteredType, ConcatEmptySeq
    <2>2. <<>> \in Seq(E) /\ Filtered(<<>>, S) = <<>>
        BY FilteredEmpty
    <2> DEFINE none == <<>>
    <2> HIDE DEF none
    <2>3. none \in Seq(E) /\ Filtered(r \o none, S) = Filtered(r, S) \o Filtered(none, S)
        BY <2>1, <2>2 DEF none
    <2>4. none \in T
        BY <2>3
    <2> QED
        BY <2>4 DEF none
<1>2. ASSUME NEW s \in Seq(E), NEW e \in E, s \in T
      PROVE  Append(s, e) \in T
    <2>1. r \o Append(s, e) = Append(r \o s, e) /\ r \o s \in Seq(E)
        OBVIOUS
    <2>2. Filtered(Append(r \o s, e), S) = Filtered(r \o s, S) \o Part(e, S)
        BY <2>1, FilteredAppend
    <2>3. Filtered(r \o s, S) = Filtered(r, S) \o Filtered(s, S)
        BY <1>2
    <2>4. Filtered(Append(s, e), S) = Filtered(s, S) \o Part(e, S)
        BY FilteredAppend
    <2>5. /\ Filtered(r, S) \in Seq(E) /\ Filtered(s, S) \in Seq(E)
          /\ Part(e, S) \in Seq(E)
        BY FilteredType DEF Part
    <2>6. (Filtered(r, S) \o Filtered(s, S)) \o Part(e, S)
          = Filtered(r, S) \o (Filtered(s, S) \o Part(e, S))
        BY <2>5, ConcatAssociative, SMTT(30)
    <2>7. Filtered(r \o Append(s, e), S) = Filtered(r, S) \o Filtered(Append(s, e), S)
        BY <2>1, <2>2, <2>3, <2>4, <2>6
    <2>8. Append(s, e) \in Seq(E)
        OBVIOUS
    <2> QED
        BY <2>7, <2>8
<1>3. Seq(E) \subseteq T
    <2> HIDE DEF T
    <2> QED
        BY <1>1, <1>2, ForAllSequences
<1> QED
    BY <1>3

(* What is filtered out is all that counts of S.                              *)
LEMMA FilteredSame ==
    ASSUME NEW E, NEW seq \in Seq(E), NEW S, NEW U,
           \A e \in Contents(seq) : e \in S <=> e \in U
    PROVE  Filtered(seq, S) = Filtered(seq, U)
<1> DEFINE T == {s \in Seq(E) : (\A e \in Contents(s) : e \in S <=> e \in U)
                                    => Filtered(s, S) = Filtered(s, U)}
<1>1. <<>> \in T
    BY FilteredEmpty
<1>2. ASSUME NEW s \in Seq(E), NEW e \in E, s \in T
      PROVE  Append(s, e) \in T
    <2>1. Contents(Append(s, e)) = Contents(s) \cup {e} /\ Append(s, e) \in Seq(E)
        BY ContentsAppend
    <2>2. /\ Filtered(Append(s, e), S) = Filtered(s, S) \o Part(e, S)
          /\ Filtered(Append(s, e), U) = Filtered(s, U) \o Part(e, U)
        BY FilteredAppend
    <2> SUFFICES ASSUME \A x \in Contents(s) \cup {e} : x \in S <=> x \in U
                 PROVE  Filtered(Append(s, e), S) = Filtered(Append(s, e), U)
        BY <2>1
    <2>3. Filtered(s, S) = Filtered(s, U)
        BY <1>2
    <2>4. Part(e, S) = Part(e, U)
        BY DEF Part
    <2> QED
        BY <2>2, <2>3, <2>4
<1>3. Seq(E) \subseteq T
    <2> HIDE DEF T
    <2> QED
        BY <1>1, <1>2, ForAllSequences
<1> QED
    BY <1>3

------------------------------------------------------------------------------
(* Rising sequences of numbers, and the positions of what is filtered out.    *)

Rising(p) == \A i, j \in 1..Len(p) : i < j => p[i] < p[j]

LEMMA RisingAppend ==
    ASSUME NEW p \in Seq(Nat), NEW n \in Nat
    PROVE  Rising(Append(p, n)) <=> Rising(p) /\ \A i \in 1..Len(p) : p[i] < n
<1> DEFINE q == Append(p, n)
<1>1. /\ Len(p) \in Nat /\ Len(q) = Len(p) + 1 /\ q[Len(p) + 1] = n
      /\ \A i \in 1..Len(p) : q[i] = p[i] /\ p[i] \in Nat
    OBVIOUS
<1> HIDE DEF q
<1>2. ASSUME Rising(q)
      PROVE  Rising(p) /\ \A i \in 1..Len(p) : p[i] < n
    <2>1. \A i \in 1..Len(p) : i \in 1..Len(q) /\ i < Len(p) + 1 /\ Len(p) + 1 \in 1..Len(q)
        BY <1>1
    <2> QED
        BY <1>1, <1>2, <2>1 DEF Rising
<1>3. ASSUME Rising(p), \A i \in 1..Len(p) : p[i] < n
      PROVE  Rising(q)
    <2> SUFFICES ASSUME NEW i \in 1..Len(q), NEW j \in 1..Len(q), i < j
                 PROVE  q[i] < q[j]
        BY DEF Rising
    <2>1. i \in 1..Len(p)
        BY <1>1
    <2>2. CASE j \in 1..Len(p)
        BY <1>1, <1>3, <2>1, <2>2 DEF Rising
    <2>3. CASE j = Len(p) + 1
        BY <1>1, <1>3, <2>1, <2>3
    <2> QED
        BY <1>1, <2>2, <2>3
<1> QED
    BY <1>2, <1>3 DEF q

(* The same numbers, in the order of their size, are the same sequence.       *)
LEMMA RisingUnique ==
    ASSUME NEW p \in Seq(Nat), NEW q \in Seq(Nat), Rising(p), Rising(q),
           Contents(p) = Contents(q)
    PROVE  p = q
<1> DEFINE T == {s \in Seq(Nat) : Rising(s) => \A t \in Seq(Nat) :
                    Rising(t) /\ Contents(t) = Contents(s) => t = s}
<1>1. <<>> \in T
    <2> DEFINE none == <<>>
    <2>1. none \in Seq(Nat) /\ Contents(none) = {}
        BY ContentsEmpty
    <2>2. ASSUME NEW t \in Seq(Nat), Contents(t) = {}
          PROVE  t = none
        <3>1. ASSUME Len(t) # 0 PROVE FALSE
            <4>1. 1 \in 1..Len(t)
                BY <3>1
            <4>2. t[1] \in Contents(t)
                BY <4>1, ContentsMembers
            <4> QED
                BY <2>2, <4>2
        <3> QED
            BY <3>1, EmptySeq
    <2> HIDE DEF none
    <2>3. none \in T
        BY <2>1, <2>2
    <2> QED
        BY <2>3 DEF none
<1>2. ASSUME NEW s \in Seq(Nat), NEW e \in Nat, s \in T
      PROVE  Append(s, e) \in T
    <2> SUFFICES ASSUME Rising(Append(s, e)),
                        NEW t \in Seq(Nat), Rising(t),
                        Contents(t) = Contents(Append(s, e))
                 PROVE  t = Append(s, e)
        OBVIOUS
    <2>1. Rising(s) /\ \A i \in 1..Len(s) : s[i] < e
        BY RisingAppend
    <2>2. Contents(t) = Contents(s) \cup {e}
        <3>1. Contents(Append(s, e)) = Contents(s) \cup {e}
            BY NumbersAppend
        <3> QED
            BY <3>1
    <2>3. PICK u \in Seq(Nat), d \in Nat : t = Append(u, d)
        <3>1. e \in Contents(t)
            BY <2>2
        <3>2. t # <<>>
            BY <3>1, ContentsEmpty
        <3> QED
            BY <3>2, SequenceEmptyOrAppend
    <2>4. Rising(u) /\ \A i \in 1..Len(u) : u[i] < d
        BY <2>3, RisingAppend
    <2>5. Contents(t) = Contents(u) \cup {d}
        <3>1. Contents(Append(u, d)) = Contents(u) \cup {d}
            BY NumbersAppend
        <3> QED
            BY <2>3, <3>1
    <2>6. /\ \A x \in Contents(s) : x \in Nat /\ x < e
          /\ \A x \in Contents(u) : x \in Nat /\ x < d
        BY <2>1, <2>4 DEF Contents
    <2>7. d = e
        <3>1. d \in Contents(s) \cup {e} /\ e \in Contents(u) \cup {d}
            BY <2>2, <2>5
        <3>2. d <= e /\ e <= d
            BY <2>6, <3>1
        <3> QED
            BY <3>2
    <2>8. Contents(u) = Contents(s)
        <3>1. d \notin Contents(u) /\ e \notin Contents(s)
            BY <2>6
        <3>2. Contents(u) \cup {d} = Contents(s) \cup {d}
            BY <2>2, <2>5, <2>7
        <3>3. ASSUME NEW x
              PROVE  x \in Contents(u) <=> x \in Contents(s)
            <4>1. x \in Contents(u) \/ x = d <=> x \in Contents(s) \/ x = d
                BY <3>2
            <4> QED
                BY <2>7, <3>1, <4>1
        <3> QED
            BY <3>3
    <2>9. u = s
        BY <1>2, <2>1, <2>4, <2>8
    <2> QED
        BY <2>3, <2>7, <2>9
<1>3. Seq(Nat) \subseteq T
    <2> HIDE DEF T
    <2> QED
        BY <1>1, <1>2, ForAllSequences
<1> QED
    BY <1>3

(* What is filtered out is at the positions where seq is in S, in their order. *)
IsPositions(p, seq, S) ==
    /\ p \in Seq(Nat) /\ Rising(p)
    /\ Contents(p) = {i \in 1..Len(seq) : seq[i] \in S}
    /\ Len(p) = Len(Filtered(seq, S))
    /\ \A k \in 1..Len(p) : Filtered(seq, S)[k] = seq[p[k]]

LEMMA FilteredPositions ==
    ASSUME NEW E, NEW seq \in Seq(E), NEW S
    PROVE  \E p : IsPositions(p, seq, S)
<1> DEFINE T == {s \in Seq(E) : \E p : IsPositions(p, s, S)}
<1>1. <<>> \in T
    <2> DEFINE none == <<>>
    <2>1. /\ none \in Seq(E) /\ none \in Seq(Nat) /\ Rising(none) /\ Len(none) = 0
          /\ Filtered(none, S) = none /\ Contents(none) = {}
        BY FilteredEmpty, ContentsEmpty DEF Rising
    <2> HIDE DEF none
    <2>2. IsPositions(none, none, S)
        BY <2>1 DEF IsPositions
    <2>3. none \in T
        BY <2>1, <2>2
    <2> QED
        BY <2>3 DEF none
<1>2. ASSUME NEW s \in Seq(E), NEW e \in E, s \in T
      PROVE  Append(s, e) \in T
    <2>1. PICK p : IsPositions(p, s, S)
        BY <1>2
    <2> DEFINE l == Append(s, e)
               m == Len(s)
    <2>2. /\ m \in Nat /\ l \in Seq(E) /\ Len(l) = m + 1 /\ l[m + 1] = e
          /\ \A i \in 1..m : l[i] = s[i]
        OBVIOUS
    <2>3. Filtered(l, S) = Filtered(s, S) \o Part(e, S) /\ Filtered(s, S) \in Seq(E)
        BY FilteredAppend, FilteredType
    <2>4. /\ p \in Seq(Nat) /\ Rising(p)
          /\ Contents(p) = {i \in 1..m : s[i] \in S}
          /\ Len(p) = Len(Filtered(s, S))
          /\ \A k \in 1..Len(p) : Filtered(s, S)[k] = s[p[k]]
        BY <2>1 DEF IsPositions
    <2>5. \A k \in 1..Len(p) : p[k] \in 1..m
        BY <2>4 DEF Contents
    <2> HIDE DEF l, m
    <2>6. CASE e \notin S
        <3>1. Filtered(l, S) = Filtered(s, S)
            BY <2>3, <2>6, ConcatEmptySeq DEF Part
        <3>2. {i \in 1..Len(l) : l[i] \in S} = {i \in 1..m : s[i] \in S}
            BY <2>2, <2>6
        <3>3. \A k \in 1..Len(p) : l[p[k]] = s[p[k]]
            BY <2>2, <2>5
        <3>4. IsPositions(p, l, S)
            BY <2>4, <3>1, <3>2, <3>3 DEF IsPositions
        <3> QED
            BY <2>2, <3>4 DEF l
    <2>7. CASE e \in S
        <3> DEFINE q == Append(p, m + 1)
        <3>1. /\ q \in Seq(Nat) /\ Len(q) = Len(p) + 1 /\ q[Len(p) + 1] = m + 1
              /\ \A k \in 1..Len(p) : q[k] = p[k]
            BY <2>2, <2>4
        <3>2. Filtered(l, S) = Append(Filtered(s, S), e)
            BY <2>3, <2>7, AppendIsConcat DEF Part
        <3>3. Rising(q)
            <4>1. \A k \in 1..Len(p) : p[k] < m + 1
                BY <2>2, <2>5
            <4> QED
                BY <2>2, <2>4, <4>1, RisingAppend
        <3>4. Contents(q) = {i \in 1..m : s[i] \in S} \cup {m + 1}
            <4>1. Contents(q) = Contents(p) \cup {m + 1}
                BY <2>2, <2>4, NumbersAppend
            <4> QED
                BY <2>4, <4>1
        <3>5. {i \in 1..Len(l) : l[i] \in S} = {i \in 1..m : s[i] \in S} \cup {m + 1}
            BY <2>2, <2>7
        <3> HIDE DEF q
        <3>6. /\ Len(Filtered(l, S)) = Len(q)
              /\ \A k \in 1..Len(p) : Filtered(l, S)[k] = s[p[k]]
              /\ Filtered(l, S)[Len(p) + 1] = e
            BY <2>3, <2>4, <3>1, <3>2
        <3>7. \A k \in 1..Len(q) : Filtered(l, S)[k] = l[q[k]]
            <4>1. ASSUME NEW k \in 1..Len(q)
                  PROVE  Filtered(l, S)[k] = l[q[k]]
                <5>1. CASE k \in 1..Len(p)
                    BY <2>2, <2>5, <3>1, <3>6, <5>1
                <5>2. CASE k = Len(p) + 1
                    BY <2>2, <3>1, <3>6, <5>2
                <5> QED
                    BY <2>4, <3>1, <5>1, <5>2
            <4> QED
                BY <4>1
        <3>8. IsPositions(q, l, S)
            BY <3>1, <3>3, <3>4, <3>5, <3>6, <3>7 DEF IsPositions
        <3> QED
            BY <2>2, <3>8 DEF l
    <2> QED
        BY <2>6, <2>7
<1>3. Seq(E) \subseteq T
    <2> HIDE DEF T
    <2> QED
        BY <1>1, <1>2, ForAllSequences
<1> QED
    BY <1>3

(* A part of a list that has all of it, or nothing.                           *)
LEMMA FilteredAll ==
    ASSUME NEW E, NEW seq \in Seq(E), NEW S, Contents(seq) \subseteq S
    PROVE  Filtered(seq, S) = seq
<1> DEFINE T == {s \in Seq(E) : Contents(s) \subseteq S => Filtered(s, S) = s}
<1>1. <<>> \in T
    BY FilteredEmpty
<1>2. ASSUME NEW s \in Seq(E), NEW e \in E, s \in T
      PROVE  Append(s, e) \in T
    <2>1. Contents(Append(s, e)) = Contents(s) \cup {e} /\ Append(s, e) \in Seq(E)
        BY ContentsAppend
    <2>2. Filtered(Append(s, e), S) = Filtered(s, S) \o Part(e, S)
        BY FilteredAppend
    <2> SUFFICES ASSUME Contents(s) \cup {e} \subseteq S
                 PROVE  Filtered(Append(s, e), S) = Append(s, e)
        BY <2>1
    <2>3. Filtered(s, S) = s /\ Part(e, S) = <<e>>
        BY <1>2 DEF Part
    <2> QED
        BY <2>2, <2>3, AppendIsConcat
<1>3. Seq(E) \subseteq T
    <2> HIDE DEF T
    <2> QED
        BY <1>1, <1>2, ForAllSequences
<1> QED
    BY <1>3

LEMMA FilteredNone ==
    ASSUME NEW E, NEW seq \in Seq(E), NEW S, Contents(seq) \cap S = {}
    PROVE  Filtered(seq, S) = <<>>
<1>1. \A e \in Contents(seq) : e \in S <=> e \in {}
    OBVIOUS
<1>2. Filtered(seq, S) = Filtered(seq, {})
    BY <1>1, FilteredSame
<1> DEFINE T == {s \in Seq(E) : Filtered(s, {}) = <<>>}
<1>3. <<>> \in T
    BY FilteredEmpty
<1>4. ASSUME NEW s \in Seq(E), NEW e \in E, s \in T
      PROVE  Append(s, e) \in T
    <2>1. Filtered(Append(s, e), {}) = Filtered(s, {}) \o Part(e, {})
        BY FilteredAppend
    <2>2. Filtered(s, {}) = <<>> /\ Part(e, {}) = <<>>
        BY <1>4 DEF Part
    <2>3. Append(s, e) \in Seq(E)
        OBVIOUS
    <2> QED
        BY <2>1, <2>2, <2>3
<1>5. Seq(E) \subseteq T
    <2> HIDE DEF T
    <2> QED
        BY <1>3, <1>4, ForAllSequences
<1> QED
    BY <1>2, <1>5

(* Selecting from what is made of each element is making it of the selected.  *)
Mapped(f, s) == [i \in 1..Len(s) |-> f[s[i]]]

ImageOf(f, E) == {f[e] : e \in E}

LEMMA MappedAppend ==
    ASSUME NEW E, NEW f, NEW s \in Seq(E), NEW e \in E
    PROVE  /\ f[e] \in ImageOf(f, E)
           /\ Mapped(f, s) \in Seq(ImageOf(f, E))
           /\ Mapped(f, Append(s, e)) = Append(Mapped(f, s), f[e])
<1> DEFINE n == Len(s)
           more == Append(s, e)
           g == Mapped(f, s)
<1>1. /\ n \in Nat /\ Len(more) = n + 1 /\ more[n + 1] = e
      /\ \A i \in 1..n : more[i] = s[i] /\ s[i] \in E
    BY ElementOfSeq
<1>2. g = [i \in 1..n |-> f[s[i]]]
    BY DEF Mapped
<1>3. g \in Seq(ImageOf(f, E)) /\ Len(g) = n /\ \A i \in 1..n : g[i] = f[s[i]]
    BY <1>1, <1>2 DEF ImageOf
<1> HIDE DEF more, g, n
<1>4. Mapped(f, more) = [i \in 1..n + 1 |-> f[more[i]]]
    BY <1>1 DEF Mapped
<1>5. Append(g, f[e]) = [i \in 1..n + 1 |-> IF i = n + 1 THEN f[e] ELSE g[i]]
    BY <1>1, <1>3
<1>6. ASSUME NEW i \in 1..n + 1
      PROVE  f[more[i]] = IF i = n + 1 THEN f[e] ELSE g[i]
    BY <1>1, <1>3
<1>7. f[e] \in ImageOf(f, E)
    BY DEF ImageOf
<1> QED
    BY <1>3, <1>4, <1>5, <1>6, <1>7 DEF more, g

AppendMaps(f, s, e) == Mapped(f, Append(s, e)) = Append(Mapped(f, s), f[e])

LEMMA MappedOneMore ==
    ASSUME NEW E, NEW f, NEW s \in Seq(E), NEW e \in E
    PROVE  AppendMaps(f, s, e)
<1> DEFINE v == s
<1>1. v \in Seq(E)
    OBVIOUS
<1> HIDE DEF v
<1>2. /\ Mapped(f, v) \in Seq(ImageOf(f, E)) /\ f[e] \in ImageOf(f, E)
      /\ Mapped(f, Append(v, e)) = Append(Mapped(f, v), f[e])
    BY <1>1, MappedAppend
<1> QED
    BY <1>2 DEF v, AppendMaps

LEMMA FilteredMapped ==
    ASSUME NEW E, NEW f, NEW seq \in Seq(E), NEW S, NEW U,
           \A e \in E : f[e] \in S <=> e \in U
    PROVE  Filtered(Mapped(f, seq), S) = Mapped(f, Filtered(seq, U))
<1> DEFINE T == {s \in Seq(E) : Filtered(Mapped(f, s), S) = Mapped(f, Filtered(s, U))}
<1>1. <<>> \in T
    <2> DEFINE none == <<>>
    <2>1. none \in Seq(E) /\ Mapped(f, none) = none
        BY DEF Mapped
    <2>2. Filtered(none, S) = none /\ Filtered(none, U) = none
        BY FilteredEmpty
    <2> HIDE DEF none
    <2>3. none \in T
        BY <2>1, <2>2
    <2> QED
        BY <2>3 DEF none
<1>2. ASSUME NEW s \in Seq(E), NEW e \in E, s \in T
      PROVE  Append(s, e) \in T
    <2>1. /\ Mapped(f, s) \in Seq(ImageOf(f, E)) /\ f[e] \in ImageOf(f, E)
          /\ Mapped(f, Append(s, e)) = Append(Mapped(f, s), f[e])
        <3> DEFINE v == s
        <3>1. v \in Seq(E)
            OBVIOUS
        <3> HIDE DEF v
        <3>2. /\ Mapped(f, v) \in Seq(ImageOf(f, E)) /\ f[e] \in ImageOf(f, E)
              /\ Mapped(f, Append(v, e)) = Append(Mapped(f, v), f[e])
            BY <3>1, MappedAppend, SMTT(30)
        <3> QED
            BY <3>2 DEF v
    <2>2. Filtered(Append(Mapped(f, s), f[e]), S) = Filtered(Mapped(f, s), S) \o Part(f[e], S)
        BY <2>1, FilteredAppend
    <2>3. Filtered(Append(s, e), U) = Filtered(s, U) \o Part(e, U) /\ Filtered(s, U) \in Seq(E)
        BY FilteredAppend, FilteredType
    <2>4. Filtered(Mapped(f, s), S) = Mapped(f, Filtered(s, U)) /\ Append(s, e) \in Seq(E)
        BY <1>2
    <2> DEFINE u == Filtered(s, U)
    <2> HIDE DEF u
    <2>5. u \in Seq(E) /\ Mapped(f, u) \in Seq(ImageOf(f, E)) /\ Mapped(f, Append(u, e)) = Append(Mapped(f, u), f[e])
        BY <2>3, MappedAppend DEF u
    <2>6. CASE e \in U
        <3>1. Part(e, U) = <<e>> /\ Part(f[e], S) = <<f[e]>>
            BY <2>6 DEF Part
        <3>2. u \o <<e>> = Append(u, e) /\ Mapped(f, u) \o <<f[e]>> = Append(Mapped(f, u), f[e])
            BY <2>1, <2>5, AppendIsConcat
        <3> QED
            BY <2>1, <2>2, <2>3, <2>4, <2>5, <3>1, <3>2 DEF u
    <2>7. CASE e \notin U
        <3>1. Part(e, U) = <<>> /\ Part(f[e], S) = <<>>
            BY <2>7 DEF Part
        <3>2. u \o <<>> = u /\ Mapped(f, u) \o <<>> = Mapped(f, u)
            BY <2>5, ConcatEmptySeq
        <3> QED
            BY <2>1, <2>2, <2>3, <2>4, <3>1, <3>2 DEF u
    <2> QED
        BY <2>6, <2>7
<1>3. Seq(E) \subseteq T
    <2> HIDE DEF T
    <2> QED
        BY <1>1, <1>2, ForAllSequences
<1> QED
    BY <1>3

(* What comes before what in some came before it in all.                      *)
InOrderOf(some, all) ==
    \A k, l \in 1..Len(some) : k < l =>
        \E i, j \in 1..Len(all) : i < j /\ some[k] = all[i] /\ some[l] = all[j]

LEMMA FilteredOrder ==
    ASSUME NEW E, NEW seq \in Seq(E), NEW S
    PROVE  InOrderOf(Filtered(seq, S), seq)
<1> USE DEF InOrderOf
<1> TAKE k, l \in 1..Len(Filtered(seq, S))
<1> HAVE k < l
<1>1. PICK p : IsPositions(p, seq, S)
    BY FilteredPositions
<1>2. /\ Rising(p) /\ Len(p) = Len(Filtered(seq, S))
      /\ Contents(p) = {i \in 1..Len(seq) : seq[i] \in S}
      /\ \A m \in 1..Len(p) : Filtered(seq, S)[m] = seq[p[m]]
    BY <1>1 DEF IsPositions
<1>3. p[k] \in Contents(p) /\ p[l] \in Contents(p)
    BY <1>2, ContentsMembers
<1>4. p[k] \in 1..Len(seq) /\ p[l] \in 1..Len(seq) /\ p[k] < p[l]
    BY <1>2, <1>3 DEF Rising
<1> QED
    BY <1>2, <1>4

------------------------------------------------------------------------------
(* OrderedBy. An element's place is the number of those that come before it.  *)

Rank(key, n, i) == Cardinality({j \in 1..n : Before(key, j, i)})

LEMMA RankRange ==
    ASSUME NEW n \in Nat, NEW key \in [1..n -> Nat], NEW i \in 1..n
    PROVE  Rank(key, n, i) \in 0 .. n - 1
<1> DEFINE earlier == {j \in 1..n : Before(key, j, i)}
<1>1. IsFiniteSet(1..n) /\ Cardinality(1..n) = n
    BY FS_Interval
<1>2. i \notin earlier
    BY DEF Before
<1>3. earlier \in SUBSET (1..n) /\ earlier # 1..n
    BY <1>2
<1> HIDE DEF earlier
<1>4. IsFiniteSet(earlier) /\ Cardinality(earlier) <= n /\ Cardinality(earlier) # n
    <2>1. PICK S : S = 1..n
        OBVIOUS
    <2>2. IsFiniteSet(S) /\ Cardinality(S) = n /\ earlier \in SUBSET S /\ earlier # S
        BY <1>1, <1>3, <2>1
    <2> QED
        BY <2>2, FS_Subset
<1>5. Cardinality(earlier) \in Nat
    BY <1>4, FS_CardinalityType
<1> QED
    BY <1>4, <1>5 DEF Rank, earlier

LEMMA RankGrows ==
    ASSUME NEW n \in Nat, NEW key \in [1..n -> Nat], NEW i \in 1..n, NEW k \in 1..n,
           Before(key, i, k)
    PROVE  Rank(key, n, i) < Rank(key, n, k)
<1> DEFINE less(x) == {j \in 1..n : Before(key, j, x)}
<1>1. IsFiniteSet(1..n)
    BY FS_Interval
<1>2. less(k) \in SUBSET (1..n)
    OBVIOUS
<1>3. IsFiniteSet(less(k))
    BY <1>1, <1>2, FS_Subset
<1>4. \A j \in 1..n : Before(key, j, i) => Before(key, j, k)
    BY DEF Before
<1>5. less(i) \in SUBSET less(k)
    BY <1>4
<1>6. i \in less(k) /\ i \notin less(i)
    BY DEF Before
<1> HIDE DEF less
<1>7. IsFiniteSet(less(i)) /\ Cardinality(less(i)) <= Cardinality(less(k))
      /\ Cardinality(less(i)) # Cardinality(less(k))
    BY <1>3, <1>5, <1>6, FS_Subset
<1>8. Cardinality(less(i)) \in Nat /\ Cardinality(less(k)) \in Nat
    BY <1>3, <1>7, FS_CardinalityType
<1> QED
    BY <1>7, <1>8 DEF Rank, less

LEMMA BeforeTotal ==
    ASSUME NEW n \in Nat, NEW key \in [1..n -> Nat], NEW i \in 1..n, NEW k \in 1..n, i # k
    PROVE  Before(key, i, k) \/ Before(key, k, i)
BY DEF Before

LEMMA RankOnto ==
    ASSUME NEW n \in Nat, NEW key \in [1..n -> Nat], NEW k \in 1..n
    PROVE  \E i \in 1..n : Rank(key, n, i) = k - 1
<1> DEFINE f == [i \in 1..n |-> Rank(key, n, i) + 1]
<1>1. \A i \in 1..n : Rank(key, n, i) + 1 \in 1..n
    BY RankRange
<1>2. f \in [1..n -> 1..n]
    BY <1>1
<1>3. ASSUME NEW i \in 1..n, NEW j \in 1..n, i # j
      PROVE  f[i] # f[j]
    <2>1. Rank(key, n, i) < Rank(key, n, j) \/ Rank(key, n, j) < Rank(key, n, i)
        BY <1>3, BeforeTotal, RankGrows
    <2>2. Rank(key, n, i) \in Nat /\ Rank(key, n, j) \in Nat
        BY RankRange
    <2>3. f[i] = Rank(key, n, i) + 1 /\ f[j] = Rank(key, n, j) + 1
        OBVIOUS
    <2> HIDE DEF f
    <2> QED
        BY <2>1, <2>2, <2>3
<1>4. f \in Injection(1..n, 1..n)
    <2> HIDE DEF f
    <2> QED
        BY <1>2, <1>3 DEF Injection, IsInjective
<1>5. f \in Surjection(1..n, 1..n)
    <2>1. IsFiniteSet(1..n)
        BY FS_Interval
    <2> HIDE DEF f
    <2> QED
        BY <1>4, <2>1, FS_Injection
<1>6. PICK i \in 1..n : f[i] = k
    <2> HIDE DEF f
    <2> QED
        BY <1>5 DEF Surjection
<1>7. Rank(key, n, i) + 1 = k /\ Rank(key, n, i) \in Nat
    BY <1>6, RankRange
<1> QED
    BY <1>7

(* One element at a time, the whole sequence is put together.                 *)
LEMMA JoinsSingles ==
    ASSUME NEW E, NEW s \in Seq(E), NEW f, NEW h, Joins(f, h, Len(s)),
           \A k \in 1..Len(s) : h[k] = <<s[k]>>
    PROVE  f[Len(s)] = s
<1> DEFINE m == Len(s)
           T == {i \in Nat : i <= m => /\ f[i] \in Seq(E) /\ Len(f[i]) = i
                                       /\ \A j \in 1..i : f[i][j] = s[j]}
<1>1. m \in Nat /\ \A k \in 1..m : s[k] \in E
    BY ElementOfSeq
<1>2. f[0] = <<>> /\ \A i \in 1..m : f[i] = f[i - 1] \o h[i]
    BY <1>1, JoinsUnfolded
<1> HIDE DEF m
<1>3. 0 \in T
    <2> DEFINE none == <<>>
    <2>1. none \in Seq(E) /\ Len(none) = 0 /\ 1..0 = {}
        OBVIOUS
    <2>2. f[0] = none
        BY <1>2
    <2> HIDE DEF none
    <2> QED
        BY <2>1, <2>2
<1>4. ASSUME NEW i \in Nat, i \in T
      PROVE  i + 1 \in T
    <2> SUFFICES ASSUME i + 1 <= m
                 PROVE  /\ f[i + 1] \in Seq(E) /\ Len(f[i + 1]) = i + 1
                        /\ \A j \in 1 .. i + 1 : f[i + 1][j] = s[j]
        OBVIOUS
    <2>1. f[i] \in Seq(E) /\ Len(f[i]) = i /\ \A j \in 1..i : f[i][j] = s[j]
        BY <1>1, <1>4
    <2>2. PICK k \in 1..m : k = i + 1 /\ k - 1 = i
        BY <1>1
    <2>3. f[k] = f[i] \o <<s[k]>> /\ s[k] \in E
        BY <1>1, <1>2, <2>2 DEF m
    <2>4. f[k] = Append(f[i], s[k])
        BY <2>1, <2>3, AppendIsConcat
    <2>5. f[k] \in Seq(E) /\ Len(f[k]) = i + 1 /\ f[k][i + 1] = s[k]
          /\ \A j \in 1..i : f[k][j] = f[i][j]
        <3> DEFINE u == f[i]
                   e == s[k]
                   v == f[k]
        <3>1. u \in Seq(E) /\ Len(u) = i /\ e \in E /\ v = Append(u, e)
            BY <2>1, <2>3, <2>4
        <3> HIDE DEF u, e, v
        <3>2. v \in Seq(E) /\ Len(v) = i + 1 /\ v[i + 1] = e /\ \A j \in 1..i : v[j] = u[j]
            BY <3>1, AppendProperties
        <3> QED
            BY <3>2 DEF u, e, v
    <2> QED
        BY <2>1, <2>2, <2>5
<1>5. m \in T
    <2>1. Nat \subseteq T
        <3> HIDE DEF T
        <3> QED
            BY <1>3, <1>4, ForAllNumbers
    <2> QED
        BY <1>1, <2>1
<1>6. f[m] \in Seq(E) /\ Len(f[m]) = m /\ \A j \in 1..m : f[m][j] = s[j]
    BY <1>1, <1>5
<1> QED
    BY <1>6, SeqEqual DEF m

(* The elements of seq, each once, in the order of p.                         *)
IsOrder(p, seq, key) ==
    /\ p \in [1..Len(seq) -> 1..Len(seq)]
    /\ \A i \in 1..Len(seq) : \E k \in 1..Len(seq) : p[k] = i
    /\ \A k, l \in 1..Len(seq) : k < l => Before(key, p[k], p[l])

LEMMA OrderedIs ==
    ASSUME NEW E, NEW seq \in Seq(E), NEW key \in [1..Len(seq) -> Nat]
    PROVE  \E p : /\ IsOrder(p, seq, key)
                  /\ OrderedBy(seq, key) = [k \in 1..Len(seq) |-> seq[p[k]]]
<1> DEFINE n == Len(seq)
           nth(k) == CHOOSE i \in 1..n : Cardinality({j \in 1..n : Before(key, j, i)}) = k - 1
           p == [k \in 1..n |-> nth(k)]
           s == [k \in 1..n |-> seq[p[k]]]
           h == [k \in 1..n |-> <<seq[nth(k)]>>]
           P(f) == f = [k \in 0..n |-> IF k = 0 THEN <<>> ELSE f[k - 1] \o <<seq[nth(k)]>>]
           f0 == CHOOSE f : P(f)
<1>1. n \in Nat
    OBVIOUS
<1>2. ASSUME NEW k \in 1..n
      PROVE  nth(k) \in 1..n /\ Rank(key, n, nth(k)) = k - 1
    <2>1. \E i \in 1..n : Cardinality({j \in 1..n : Before(key, j, i)}) = k - 1
        <3> HIDE DEF n
        <3> QED
            BY <1>1, RankOnto DEF Rank, n
    <2> QED
        BY <2>1 DEF Rank
<1> HIDE DEF nth
<1>3. p \in [1..n -> 1..n] /\ \A k \in 1..n : p[k] = nth(k)
    BY <1>2
<1>4. s \in Seq(E) /\ Len(s) = n
    <2>1. \A k \in 1..n : seq[p[k]] \in E
        BY <1>3, ElementOfSeq
    <2> HIDE DEF p
    <2> QED
        BY <1>1, <2>1
<1>5. OrderedBy(seq, key) = f0[n]
    BY DEF OrderedBy, nth
<1>6. ASSUME NEW f
      PROVE  P(f) <=> Joins(f, h, n)
    <2>1. [k \in 0..n |-> IF k = 0 THEN <<>> ELSE f[k - 1] \o <<seq[nth(k)]>>]
          = [k \in 0..n |-> IF k = 0 THEN <<>> ELSE f[k - 1] \o h[k]]
        <3> SUFFICES ASSUME NEW k \in 0..n, k # 0
                     PROVE  h[k] = <<seq[nth(k)]>>
            OBVIOUS
        <3>1. k \in 1..n
            OBVIOUS
        <3> QED
            BY <3>1
    <2> QED
        BY <2>1 DEF Joins
<1>7. P(f0)
    <2>1. \E f : P(f)
        <3> HIDE DEF P
        <3> QED
            BY <1>1, <1>6, JoinsExists
    <2> HIDE DEF P
    <2> QED
        BY <2>1
<1>8. Joins(f0, h, n)
    <2> HIDE DEF P, f0
    <2> QED
        BY <1>6, <1>7
<1>9. \A k \in 1..n : h[k] = <<s[k]>>
    BY <1>3
<1>10. OrderedBy(seq, key) = s
    <2> HIDE DEF f0, h, s, P, p, n
    <2> QED
        BY <1>4, <1>5, <1>8, <1>9, JoinsSingles
<1>11. IsOrder(p, seq, key)
    <2>1. \A k \in 1..n : p[k] \in 1..n /\ Rank(key, n, p[k]) = k - 1
        BY <1>2, <1>3
    <2>2. p \in [1..n -> 1..n]
        BY <1>3
    <2> HIDE DEF p
    <2>3. ASSUME NEW i \in 1..n
          PROVE  \E k \in 1..n : p[k] = i
        <3>1. PICK k \in 1..n : Rank(key, n, i) = k - 1
            <4>1. Rank(key, n, i) \in 0 .. n - 1
                BY <1>1, RankRange
            <4>2. Rank(key, n, i) + 1 \in 1..n /\ Rank(key, n, i) = (Rank(key, n, i) + 1) - 1
                BY <1>1, <4>1
            <4> QED
                BY <4>2
        <3>2. ~Before(key, i, p[k]) /\ ~Before(key, p[k], i)
            <4>1. Rank(key, n, p[k]) = Rank(key, n, i) /\ p[k] \in 1..n
                BY <2>1, <3>1
            <4>2. Rank(key, n, i) \in Nat
                BY <1>1, RankRange
            <4> QED
                BY <1>1, <4>1, <4>2, RankGrows
        <3>3. p[k] = i
            BY <1>1, <2>1, <3>2, BeforeTotal
        <3> QED
            BY <3>3
    <2>4. ASSUME NEW k \in 1..n, NEW l \in 1..n, k < l
          PROVE  Before(key, p[k], p[l])
        <3>1. Rank(key, n, p[k]) < Rank(key, n, p[l]) /\ p[k] # p[l]
            BY <1>1, <2>1, <2>4
        <3>2. ~Before(key, p[l], p[k])
            <4>1. ASSUME Before(key, p[l], p[k]) PROVE FALSE
                <5>1. Rank(key, n, p[l]) < Rank(key, n, p[k])
                    BY <1>1, <2>1, <4>1, RankGrows
                <5>2. Rank(key, n, p[l]) \in Nat /\ Rank(key, n, p[k]) \in Nat
                    BY <1>1, <2>1, RankRange
                <5> QED
                    BY <3>1, <5>1, <5>2
            <4> QED
                BY <4>1
        <3> QED
            BY <1>1, <2>1, <3>1, <3>2, BeforeTotal
    <2> QED
        BY <2>2, <2>3, <2>4 DEF IsOrder
<1> QED
    BY <1>10, <1>11

(* Sorting keeps the type and what is in the list.                            *)
LEMMA OrderedType ==
    ASSUME NEW E, NEW seq \in Seq(E), NEW key \in [1..Len(seq) -> Nat]
    PROVE  /\ OrderedBy(seq, key) \in Seq(E)
           /\ Len(OrderedBy(seq, key)) = Len(seq)
           /\ Contents(OrderedBy(seq, key)) = Contents(seq)
<1> DEFINE n == Len(seq)
           o == OrderedBy(seq, key)
<1>1. PICK p : IsOrder(p, seq, key) /\ o = [k \in 1..n |-> seq[p[k]]]
    BY OrderedIs
<1>2. n \in Nat /\ \A i \in 1..n : seq[i] \in E
    BY ElementOfSeq
<1>3. /\ \A k \in 1..n : p[k] \in 1..n
      /\ \A i \in 1..n : \E k \in 1..n : p[k] = i
    BY <1>1 DEF IsOrder
<1> HIDE DEF n, o
<1>4. o \in Seq(E) /\ Len(o) = n /\ \A k \in 1..n : o[k] = seq[p[k]]
    BY <1>1, <1>2, <1>3
<1>5. ASSUME NEW x
      PROVE  x \in Contents(o) <=> x \in Contents(seq)
    <2>1. x \in Contents(o) <=> \E k \in 1..n : x = seq[p[k]]
        BY <1>4, ContentsMembers
    <2>2. x \in Contents(seq) <=> \E i \in 1..n : x = seq[i]
        BY ContentsMembers DEF n
    <2> QED
        BY <1>3, <2>1, <2>2
<1> QED
    BY <1>4, <1>5 DEF n, o

(* What comes before what in it has an earlier key, or had an earlier place.  *)
SortedFrom(o, seq, key) ==
    \A k, l \in 1..Len(seq) : k < l =>
        \E i, j \in 1..Len(seq) : Before(key, i, j) /\ o[k] = seq[i] /\ o[l] = seq[j]

LEMMA OrderedOrder ==
    ASSUME NEW E, NEW seq \in Seq(E), NEW key \in [1..Len(seq) -> Nat]
    PROVE  SortedFrom(OrderedBy(seq, key), seq, key)
<1> USE DEF SortedFrom
<1> TAKE k, l \in 1..Len(seq)
<1> HAVE k < l
<1> DEFINE o == OrderedBy(seq, key)
<1>1. PICK p : IsOrder(p, seq, key) /\ o = [x \in 1..Len(seq) |-> seq[p[x]]]
    BY OrderedIs
<1>2. p[k] \in 1..Len(seq) /\ p[l] \in 1..Len(seq) /\ Before(key, p[k], p[l])
    BY <1>1 DEF IsOrder
<1>3. o[k] = seq[p[k]] /\ o[l] = seq[p[l]]
    BY <1>1
<1> QED
    BY <1>2, <1>3

------------------------------------------------------------------------------
(* Lists in the order of a number every element has, which then names it.     *)

RisingBy(seq, num) == \A i, j \in 1..Len(seq) : i < j => num[seq[i]] < num[seq[j]]

LEMMA RisingByUnique ==
    ASSUME NEW E, NEW num \in [E -> Nat], NEW s \in Seq(E), NEW t \in Seq(E),
           RisingBy(s, num), RisingBy(t, num), Contents(s) = Contents(t)
    PROVE  s = t
<1> DEFINE p == [i \in 1..Len(s) |-> num[s[i]]]
           q == [i \in 1..Len(t) |-> num[t[i]]]
<1>1. /\ Len(s) \in Nat /\ \A i \in 1..Len(s) : s[i] \in E /\ num[s[i]] \in Nat
      /\ Len(t) \in Nat /\ \A i \in 1..Len(t) : t[i] \in E /\ num[t[i]] \in Nat
    BY ElementOfSeq
<1>2. /\ p \in Seq(Nat) /\ Len(p) = Len(s) /\ \A i \in 1..Len(s) : p[i] = num[s[i]]
      /\ q \in Seq(Nat) /\ Len(q) = Len(t) /\ \A i \in 1..Len(t) : q[i] = num[t[i]]
    BY <1>1
<1> HIDE DEF p, q
<1>3. Rising(p) /\ Rising(q)
    <2>1. \A i, j \in 1..Len(p) : i < j => p[i] < p[j]
        BY <1>2 DEF RisingBy
    <2>2. \A i, j \in 1..Len(q) : i < j => q[i] < q[j]
        BY <1>2 DEF RisingBy
    <2> QED
        BY <2>1, <2>2 DEF Rising
<1>4. /\ \A i \in 1..Len(s) : \E j \in 1..Len(t) : s[i] = t[j]
      /\ \A j \in 1..Len(t) : \E i \in 1..Len(s) : t[j] = s[i]
    BY ContentsMembers
<1>5. ASSUME NEW x
      PROVE  x \in Contents(p) <=> x \in Contents(q)
    <2>1. x \in Contents(p) <=> \E i \in 1..Len(s) : x = num[s[i]]
        <3>1. x \in Contents(p) <=> \E i \in 1..Len(p) : x = p[i]
            BY ContentsMembers
        <3> QED
            BY <1>2, <3>1
    <2>2. x \in Contents(q) <=> \E j \in 1..Len(t) : x = num[t[j]]
        <3>1. x \in Contents(q) <=> \E i \in 1..Len(q) : x = q[i]
            BY ContentsMembers
        <3> QED
            BY <1>2, <3>1
    <2> QED
        BY <1>4, <2>1, <2>2
<1>6. p = q
    <2>1. Contents(p) = Contents(q)
        BY <1>5
    <2> QED
        BY <1>2, <1>3, <2>1, RisingUnique
<1>7. ASSUME NEW i \in 1..Len(s)
      PROVE  i \in 1..Len(t) /\ s[i] = t[i]
    <2>1. i \in 1..Len(t) /\ num[s[i]] = num[t[i]]
        BY <1>2, <1>6
    <2>2. PICK j \in 1..Len(t) : s[i] = t[j]
        BY <1>4
    <2>3. j = i
        <3>1. num[t[j]] = num[t[i]] /\ num[t[i]] \in Nat
            BY <1>1, <2>1, <2>2
        <3>2. ~(j < i) /\ ~(i < j)
            BY <2>1, <3>1 DEF RisingBy
        <3> QED
            BY <2>1, <3>2, <1>1
    <2> QED
        BY <2>1, <2>2, <2>3
<1>8. Len(s) = Len(t)
    BY <1>2, <1>6
<1> QED
    BY <1>1, <1>7, <1>8, SeqEqual

LEMMA RisingByFiltered ==
    ASSUME NEW E, NEW num \in [E -> Nat], NEW s \in Seq(E), RisingBy(s, num), NEW S
    PROVE  RisingBy(Filtered(s, S), num)
<1> SUFFICES ASSUME NEW k \in 1..Len(Filtered(s, S)), NEW l \in 1..Len(Filtered(s, S)), k < l
             PROVE  num[Filtered(s, S)[k]] < num[Filtered(s, S)[l]]
    BY DEF RisingBy
<1>1. PICK i \in 1..Len(s), j \in 1..Len(s) :
          i < j /\ Filtered(s, S)[k] = s[i] /\ Filtered(s, S)[l] = s[j]
    <2>1. InOrderOf(Filtered(s, S), s)
        BY FilteredOrder
    <2> QED
        BY <2>1 DEF InOrderOf
<1> QED
    BY <1>1 DEF RisingBy

(* Lists without repetition that have the same elements have as many.         *)
NoRepeats(seq) == \A i, j \in 1..Len(seq) : i # j => seq[i] # seq[j]

LEMMA CountsElements ==
    ASSUME NEW E, NEW s \in Seq(E), NoRepeats(s)
    PROVE  IsFiniteSet(Contents(s)) /\ Cardinality(Contents(s)) = Len(s)
<1> DEFINE n == Len(s)
           C == Contents(s)
<1>1. IsFiniteSet(1..n) /\ Cardinality(1..n) = n
    <2>1. n \in Nat /\ 1 \in Int /\ n \in Int
        OBVIOUS
    <2> HIDE DEF n
    <2> QED
        BY <2>1, FS_Interval
<1>2. /\ DOMAIN s = 1..n /\ s \in [1..n -> E]
      /\ \A i \in 1..n : s[i] \in C
      /\ \A c \in C : \E j \in 1..n : s[j] = c
    BY ContentsMembers
<1> HIDE DEF n, C
<1>3. s \in [1..n -> C]
    BY <1>2
<1>4. s \in Injection(1..n, C) /\ s \in Surjection(1..n, C)
    <2>1. \A i, j \in DOMAIN s : s[i] = s[j] => i = j
        BY <1>2 DEF NoRepeats, n
    <2>2. s \in Injection(1..n, C)
        BY <1>3, <2>1 DEF Injection, IsInjective
    <2>3. s \in Surjection(1..n, C)
        BY <1>2, <1>3, Zenon DEF Surjection
    <2> QED
        BY <2>2, <2>3
<1>5. ExistsBijection(1..n, C)
    BY <1>4 DEF ExistsBijection, Bijection
<1>6. IsFiniteSet(C) /\ Cardinality(C) = Cardinality(1..n)
    BY <1>1, <1>5, FS_Bijection
<1> QED
    BY <1>1, <1>6 DEF n, C

LEMMA NoRepeatsFiltered ==
    ASSUME NEW E, NEW s \in Seq(E), NoRepeats(s), NEW S
    PROVE  NoRepeats(Filtered(s, S))
<1> DEFINE f == Filtered(s, S)
<1>1. f \in Seq(E)
    BY FilteredType
<1>2. ASSUME NEW k \in 1..Len(f), NEW l \in 1..Len(f), k < l
      PROVE  f[k] # f[l]
    <2>1. PICK i \in 1..Len(s), j \in 1..Len(s) : i < j /\ f[k] = s[i] /\ f[l] = s[j]
        <3>1. InOrderOf(f, s)
            BY FilteredOrder
        <3> HIDE DEF f
        <3> QED
            BY <1>2, <3>1 DEF InOrderOf
    <2> QED
        BY <2>1 DEF NoRepeats
<1> HIDE DEF f
<1>3. \A k, l \in 1..Len(f) : k # l => k < l \/ l < k
    BY <1>1
<1>4. NoRepeats(f)
    BY <1>2, <1>3 DEF NoRepeats
<1> QED
    BY <1>4 DEF f

LEMMA NoRepeatsOrdered ==
    ASSUME NEW E, NEW s \in Seq(E), NoRepeats(s), NEW key \in [1..Len(s) -> Nat]
    PROVE  NoRepeats(OrderedBy(s, key))
<1> DEFINE o == OrderedBy(s, key)
<1>1. o \in Seq(E) /\ Len(o) = Len(s) /\ Len(s) \in Nat
    BY OrderedType
<1>2. ASSUME NEW k \in 1..Len(s), NEW l \in 1..Len(s), k < l
      PROVE  o[k] # o[l]
    <2>1. PICK i \in 1..Len(s), j \in 1..Len(s) :
              Before(key, i, j) /\ o[k] = s[i] /\ o[l] = s[j]
        BY <1>2, OrderedOrder DEF SortedFrom
    <2>2. i # j
        BY <2>1 DEF Before
    <2> QED
        BY <2>1, <2>2 DEF NoRepeats
<1> HIDE DEF o
<1>3. \A k, l \in 1..Len(s) : k # l => k < l \/ l < k
    BY <1>1
<1>4. NoRepeats(o)
    BY <1>1, <1>2, <1>3 DEF NoRepeats
<1> QED
    BY <1>4 DEF o
==============================================================================
