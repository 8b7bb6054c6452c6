--------------------------- MODULE RedactionProofs ----------------------------
(* What is proved of redact_text for any texts, hashes and number of passes:  *)
(* that no detector ever cuts through a token, whatever it looks like to it,  *)
(* so that the audit log and the text tell of the same redactions.            *)
EXTENDS Redaction, SubsequenceLemmas

------------------------------------------------------------------------------
(* The patterns.                                                              *)

LEMMA AtIn ==
    ASSUME NEW t, NEW i \in 1..Len(t)
    PROVE  At(t, i) = t[i]
BY DEF At

LEMMA AtOut ==
    ASSUME NEW t \in Seq(Char), NEW i, At(t, i) # ""
    PROVE  i \in 1..Len(t) /\ At(t, i) = t[i] /\ At(t, i) \in Char
BY ElementOfSeq DEF At

LEMMA NoChar == "" \notin Char
BY DEF Char, Word, Kinds, PhoneChars

(* RunEnd finds where a run ends, also where none begins.                     *)
IsRun(t, i, S, e) ==
    /\ e \in i - 1 .. Len(t)
    /\ \A k \in i..e : t[k] \in S
    /\ At(t, e + 1) \notin S

LEMMA RunEndIs ==
    ASSUME NEW t \in Seq(Char), NEW S \in SUBSET Char, NEW i \in 1 .. Len(t) + 1
    PROVE  IsRun(t, i, S, RunEnd(t, i, S))
<1> DEFINE n == Len(t)
           T == {e \in Nat : i - 1 <= e /\ At(t, e + 1) \notin S}
<1>1. n \in Nat /\ i \in 1 .. n + 1
    OBVIOUS
<1> HIDE DEF n
<1>2. n \in T
    <2>1. n + 1 \notin 1..n
        BY <1>1
    <2>2. At(t, n + 1) = ""
        BY <2>1 DEF At, n
    <2>3. "" \notin S
        BY NoChar
    <2>4. At(t, n + 1) \notin S
        BY <2>2, <2>3
    <2>5. n \in Nat /\ i - 1 <= n
        BY <1>1
    <2> QED
        BY <2>4, <2>5
<1>3. PICK m \in T : \A e \in T : m <= e
    BY <1>2, LeastElement
<1>4. m \in i - 1 .. n /\ At(t, m + 1) \notin S
    BY <1>1, <1>2, <1>3
<1>5. ASSUME NEW k \in i..m
      PROVE  t[k] \in S
    <2>1. k - 1 \in Nat /\ k - 1 < m /\ i - 1 <= k - 1 /\ k \in 1..n /\ (k - 1) + 1 = k
        BY <1>1, <1>4
    <2>2. k - 1 \notin T
        BY <1>3, <1>4, <2>1
    <2>3. At(t, k) \in S
        BY <2>1, <2>2
    <2> QED
        BY <2>1, <2>3, AtIn DEF n
<1>6. \E e \in i - 1 .. Len(t) : (\A k \in i..e : t[k] \in S) /\ At(t, e + 1) \notin S
    BY <1>4, <1>5 DEF n
<1> QED
    BY <1>6 DEF RunEnd, IsRun

LEMMA MinIs ==
    ASSUME NEW T \in SUBSET Nat, T # {}
    PROVE  Min(T) \in T
<1>1. \E m \in T : \A k \in T : m <= k
    BY LeastElement
<1> QED
    BY <1>1 DEF Min

LEMMA MaxIs ==
    ASSUME NEW n \in Nat, NEW T \in SUBSET (0..n), T # {}
    PROVE  Max(T) \in T /\ \A k \in T : k <= Max(T)
<1> DEFINE U == {n - k : k \in T}
<1>1. U \in SUBSET Nat /\ U # {}
    <2>1. \A k \in T : n - k \in Nat
        OBVIOUS
    <2> QED
        BY <2>1
<1>2. PICK m \in U : \A k \in U : m <= k
    BY <1>1, LeastElement
<1>3. PICK x \in T : m = n - x
    BY <1>2
<1>6. ASSUME NEW k \in T
      PROVE  x >= k
    <2>1. n - k \in U /\ k \in Int /\ x \in Int
        OBVIOUS
    <2>2. n - x <= n - k
        BY <1>2, <1>3, <2>1
    <2> QED
        BY <2>1, <2>2
<1>4. \E z \in T : \A y \in T : z >= y
    BY <1>6
<1>5. Max(T) \in T /\ \A y \in T : Max(T) >= y
    BY <1>4 DEF Max
<1> QED
    BY <1>5

------------------------------------------------------------------------------
(* What surrounds a label. A token's hash may have been redacted again, and   *)
(* then a token stands in its place.                                          *)

Followed(t, i) ==
    \/ At(t, i + 1) = "<"
    \/ At(t, i + 1) = "a" /\ At(t, i + 2) = ">"
    \/ (\A k \in 1..8 : At(t, i + k) = "1") /\ At(t, i + 9) = ">"

Labelled(t) ==
    \A i \in 1..Len(t) :
        /\ t[i] \in Kinds => At(t, i - 1) = "<" /\ Followed(t, i)
        /\ t[i] = "<" => At(t, i + 1) \in Kinds

Bracket == {"<", ">"} \cup Kinds

(* What a match is made of.                                                   *)
Matched(t, i, e) ==
    /\ e \in i..Len(t)
    /\ \A k \in i..e : t[k] \in Char \ Bracket
    /\ e >= i + 7 \/ \E k \in i..e : t[k] = "@"

LocalPart == Word \cup {".", "+", "-"}

(* The parts of an address: its at-sign, the dot after it, and its end.       *)
IsEmail(t, i, at, dot, end) ==
    /\ at \in i..Len(t) /\ dot \in at + 1 .. Len(t) /\ end \in dot .. Len(t)
    /\ t[at] = "@" /\ t[dot] = "."
    /\ \A k \in i .. at - 1 : t[k] \in LocalPart
    /\ \A k \in at + 1 .. dot - 1 : t[k] \in Word \cup {"-"}
    /\ \A k \in dot + 1 .. end : t[k] \in Word \cup {".", "-"}

LEMMA EmailEndIs ==
    ASSUME NEW t \in Seq(Char), NEW i \in 1..Len(t), EmailEnd(t, i) # 0
    PROVE  \E at, dot \in 1..Len(t) : IsEmail(t, i, at, dot, EmailEnd(t, i))
<1> DEFINE n == Len(t)
           L == LocalPart
           H == Word \cup {"-"}
           D == Word \cup {".", "-"}
           l == RunEnd(t, i, L)
           at == l + 1
           h == RunEnd(t, at + 1, H)
           dot == h + 1
           end == RunEnd(t, dot + 1, D)
<1>1. /\ i < at /\ At(t, at) = "@" /\ at + 1 < dot /\ At(t, dot) = "." /\ dot < end
      /\ EmailEnd(t, i) = end
    BY DEF EmailEnd, LocalPart
<1>2. L \in SUBSET Char /\ H \in SUBSET Char /\ D \in SUBSET Char
    BY DEF Char, PhoneChars, LocalPart
<1>3. n \in Nat /\ i \in 1 .. n /\ i \in 1 .. n + 1
    OBVIOUS
<1> HIDE DEF L, H, D
<1>4. IsRun(t, i, L, l)
    BY <1>2, <1>3, RunEndIs
<1> HIDE DEF l
<1>5. at \in 1..n /\ t[at] = "@"
    BY <1>1, AtOut
<1>6. at + 1 \in 1 .. n + 1 /\ (at + 1) - 1 = at
    BY <1>3, <1>5
<1> HIDE DEF at
<1>7. IsRun(t, at + 1, H, h)
    BY <1>2, <1>6, RunEndIs
<1> HIDE DEF h
<1>8. dot \in 1..n /\ t[dot] = "."
    BY <1>1, AtOut
<1>9. dot + 1 \in 1 .. n + 1 /\ (dot + 1) - 1 = dot
    BY <1>3, <1>8
<1> HIDE DEF dot
<1>10. IsRun(t, dot + 1, D, end)
    BY <1>2, <1>9, RunEndIs
<1> HIDE DEF end
<1>11. end \in dot .. n /\ \A k \in dot + 1 .. end : t[k] \in D
    BY <1>9, <1>10 DEF IsRun
<1>12. \A k \in i .. at - 1 : t[k] \in L
    BY <1>3, <1>4, <1>5 DEF IsRun, at
<1>13. \A k \in at + 1 .. dot - 1 : t[k] \in H
    BY <1>5, <1>7, <1>8 DEF IsRun, dot
<1>14. at \in i..n /\ dot \in at + 1 .. n
    BY <1>1, <1>3, <1>5, <1>8
<1> QED
    BY <1>1, <1>5, <1>8, <1>11, <1>12, <1>13, <1>14 DEF IsEmail, L, H, D

LEMMA EmailMatched ==
    ASSUME NEW t \in Seq(Char), Labelled(t), NEW i \in 1..Len(t), EmailEnd(t, i) # 0
    PROVE  Matched(t, i, EmailEnd(t, i))
<1> DEFINE end == EmailEnd(t, i)
           n == Len(t)
<1>1. PICK at, dot \in 1..n : IsEmail(t, i, at, dot, end)
    BY EmailEndIs
<1>2. /\ n \in Nat /\ i \in 1..n
      /\ at \in i..n /\ dot \in at + 1 .. n /\ end \in dot..n
      /\ at \in i..end /\ end \in i..n
    BY <1>1 DEF IsEmail
<1> HIDE DEF end, n
<1>3. ASSUME NEW k \in i..end
      PROVE  t[k] \in Word \cup {".", "+", "-", "@"}
    <2>1. CASE k \in i .. at - 1
        BY <1>1, <2>1 DEF IsEmail, LocalPart
    <2>2. CASE k = at
        BY <1>1, <2>2 DEF IsEmail
    <2>3. CASE k \in at + 1 .. dot - 1
        BY <1>1, <2>3 DEF IsEmail
    <2>4. CASE k = dot
        BY <1>1, <2>4 DEF IsEmail
    <2>5. CASE k \in dot + 1 .. end
        BY <1>1, <2>5 DEF IsEmail
    <2>6. k \in i .. at - 1 \/ k = at \/ k \in at + 1 .. dot - 1 \/ k = dot
          \/ k \in dot + 1 .. end
        BY <1>2
    <2> QED
        BY <2>1, <2>2, <2>3, <2>4, <2>5, <2>6
<1>4. "<" \notin Word \cup {".", "+", "-", "@"} /\ ">" \notin Word \cup {".", "+", "-", "@"}
    BY DEF Word, Kinds
<1>5. ASSUME NEW k \in i..end, t[k] \in Kinds
      PROVE  FALSE
    <2>1. At(t, k - 1) = "<" /\ Followed(t, k)
        BY <1>2, <1>5 DEF Labelled, n
    <2>2. CASE k # i
        <3>1. k - 1 \in i..end /\ k - 1 \in 1..n
            BY <1>2, <2>2
        <3>2. t[k - 1] = "<"
            BY <2>1, <3>1, AtIn DEF n
        <3> QED
            BY <1>3, <1>4, <3>1, <3>2
    <2>3. CASE k = i
        <3>1. at # i /\ t[at] = "@"
            BY <1>1, <1>5, <2>3 DEF IsEmail, Kinds
        <3>2. ASSUME NEW j \in 1..9, At(t, i + j) \in {"<", ">"},
                     \A l \in 1..9 : l < j => At(t, i + l) # "@"
              PROVE  FALSE
            <4>1. At(t, at) = "@"
                BY <1>2, <3>1, AtIn DEF n
            <4>2. at - i \in Int /\ at - i >= 1 /\ i + (at - i) = at
                BY <1>2, <3>1
            <4>3. ~(at - i < j)
                BY <3>2, <4>1, <4>2, SMTT(30)
            <4>4. i + j \in i..at /\ i + j \in i..end
                BY <1>2, <4>2, <4>3
            <4>5. At(t, i + j) = t[i + j]
                BY <1>2, <4>4, AtIn DEF n
            <4> QED
                BY <1>3, <1>4, <3>2, <4>4, <4>5
        <3>3. CASE At(t, i + 1) = "<"
            BY <3>2, <3>3
        <3>4. CASE At(t, i + 1) = "a" /\ At(t, i + 2) = ">"
            <4>1. \A l \in 1..9 : l < 2 => l = 1
                OBVIOUS
            <4> QED
                BY <3>2, <3>4, <4>1
        <3>5. CASE (\A l \in 1..8 : At(t, i + l) = "1") /\ At(t, i + 9) = ">"
            <4>1. \A l \in 1..9 : l < 9 => l \in 1..8
                OBVIOUS
            <4> QED
                BY <3>2, <3>5, <4>1
        <3> QED
            BY <2>1, <2>3, <3>3, <3>4, <3>5 DEF Followed
    <2> QED
        BY <2>2, <2>3
<1>6. \A k \in i..end : t[k] \in Char \ Bracket
    BY <1>3, <1>4, <1>5 DEF Bracket, Char, PhoneChars
<1>7. t[at] = "@"
    BY <1>1 DEF IsEmail
<1> QED
    BY <1>2, <1>6, <1>7 DEF Matched, end, n

LEMMA CardMatched ==
    ASSUME NEW t \in Seq(Char), NEW i \in 1..Len(t), CardEnd(t, i) # 0
    PROVE  Matched(t, i, CardEnd(t, i))
<1> DEFINE n == Len(t)
           S == {"1", " ", "-"}
           r == RunEnd(t, i, S)
           ends == {e \in i..r : /\ t[e] = "1"
                                 /\ DigitsIn(t, i, e) \in 13..16
                                 /\ At(t, e + 1) \notin Word}
           end == CardEnd(t, i)
<1>1. ends # {} /\ end = Min(ends)
    BY DEF CardEnd
<1>2. n \in Nat /\ i \in 1..n /\ i \in 1 .. n + 1
    OBVIOUS
<1>3. S \in SUBSET Char
    BY DEF Char, Word, PhoneChars
<1> HIDE DEF S
<1>4. IsRun(t, i, S, r)
    BY <1>2, <1>3, RunEndIs
<1> HIDE DEF r
<1>5. r \in Int /\ r <= n /\ \A k \in i..r : t[k] \in S
    BY <1>2, <1>4 DEF IsRun
<1>6. ends \in SUBSET Nat
    BY <1>2, <1>5
<1>7. end \in ends
    BY <1>1, <1>6, MinIs
<1> HIDE DEF end
<1>8. end \in i..r /\ DigitsIn(t, i, end) \in 13..16
    BY <1>7
<1>9. end \in i..n /\ \A k \in i..end : t[k] \in S
    BY <1>2, <1>5, <1>8
<1>10. end >= i + 7
    <2> DEFINE D == {k \in i..end : At(t, k) = "1"}
    <2>1. IsFiniteSet(i..end) /\ Cardinality(i..end) = end - i + 1
        BY <1>2, <1>9, FS_Interval
    <2>2. D \subseteq i..end
        OBVIOUS
    <2>3. Cardinality(D) <= Cardinality(i..end)
        BY <2>1, <2>2, FS_Subset
    <2>4. DigitsIn(t, i, end) = Cardinality(D)
        BY DEF DigitsIn
    <2> HIDE DEF D
    <2> QED
        BY <1>2, <1>8, <1>9, <2>1, <2>3, <2>4
<1>11. \A c \in S : c \in Char \ Bracket
    BY <1>3 DEF S, Bracket, Kinds
<1> QED
    BY <1>9, <1>10, <1>11 DEF Matched, end, n

LEMMA PhoneMatched ==
    ASSUME NEW t \in Seq(Char), NEW i \in 1..Len(t), PhoneEnd(t, i) # 0
    PROVE  Matched(t, i, PhoneEnd(t, i))
<1> DEFINE n == Len(t)
           first == IF At(t, i) = "+" THEN i + 1 ELSE i
           r == RunEnd(t, first, PhoneChars)
           ends == {e \in first + 7 .. r : t[e] = "1"}
           end == PhoneEnd(t, i)
<1>1. At(t, first) = "1" /\ ends # {} /\ end = Max(ends)
    BY DEF PhoneEnd
<1>2. n \in Nat /\ i \in 1..n
    OBVIOUS
<1>3. /\ first \in {i, i + 1}
      /\ first # i => t[i] = "+"
    BY <1>2, AtIn
<1> HIDE DEF first
<1>4. first \in 1..n
    BY <1>1, AtOut
<1>5. IsRun(t, first, PhoneChars, r)
    <2>1. PhoneChars \in SUBSET Char
        BY DEF Char
    <2>2. first \in 1 .. n + 1
        BY <1>2, <1>4
    <2> QED
        BY <2>1, <2>2, RunEndIs
<1> HIDE DEF r
<1>6. r \in Int /\ r <= n /\ \A k \in first..r : t[k] \in PhoneChars
    BY <1>2, <1>4, <1>5 DEF IsRun
<1>7. ends \in SUBSET (0..n)
    BY <1>2, <1>4, <1>6
<1>8. end \in ends
    BY <1>1, <1>2, <1>7, MaxIs
<1> HIDE DEF end
<1>9. end \in first + 7 .. r
    BY <1>8
<1>10. end \in i..n /\ end >= i + 7
    BY <1>2, <1>3, <1>4, <1>6, <1>9
<1>11. ASSUME NEW k \in i..end
       PROVE  t[k] \in PhoneChars \cup {"+"}
    <2>1. k \in first..r \/ (k = i /\ first # i)
        BY <1>2, <1>3, <1>4, <1>6, <1>9
    <2> QED
        BY <1>3, <1>6, <2>1
<1>12. \A c \in PhoneChars \cup {"+"} : c \in Char \ Bracket
    BY DEF PhoneChars, Char, Bracket, Kinds
<1> QED
    BY <1>10, <1>11, <1>12 DEF Matched, end, n

LEMMA EndMatched ==
    ASSUME NEW kind \in Kinds, NEW t \in Seq(Char), Labelled(t),
           NEW i \in 1..Len(t), MatchEnd(kind, t, i) # 0
    PROVE  Matched(t, i, MatchEnd(kind, t, i))
<1>1. CASE kind = "EMAIL_"
    <2>1. MatchEnd(kind, t, i) = EmailEnd(t, i)
        BY <1>1 DEF MatchEnd
    <2> QED
        BY <2>1, EmailMatched
<1>2. CASE kind = "CREDIT_CARD_"
    <2>1. MatchEnd(kind, t, i) = CardEnd(t, i)
        BY <1>2 DEF MatchEnd
    <2> QED
        BY <2>1, CardMatched
<1>3. CASE kind = "PHONE_"
    <2>1. MatchEnd(kind, t, i) = PhoneEnd(t, i)
        BY <1>3 DEF MatchEnd
    <2> QED
        BY <2>1, PhoneMatched
<1> QED
    BY <1>1, <1>2, <1>3 DEF Kinds

------------------------------------------------------------------------------
(* Scanning from the left: what starts at i or after it, if last[i] is the    *)
(* end of what starts at i, or 0.                                             *)

Scanned(f, last, i, n) ==
    IF i > n THEN {}
    ELSE IF last[i] = 0 THEN f[i + 1]
                        ELSE {[first |-> i, last |-> last[i]]} \cup f[last[i] + 1]

Ends(last, n) == \A i \in 1..n : last[i] = 0 \/ last[i] \in i..n

Scans(f, last, b, n) == f = [i \in b .. n + 1 |-> Scanned(f, last, i, n)]

LEMMA ScansUnfolded ==
    ASSUME NEW n \in Nat, NEW b \in 1 .. n + 1, NEW last, NEW f, Scans(f, last, b, n)
    PROVE  \A i \in b .. n + 1 : f[i] = Scanned(f, last, i, n)
<1> DEFINE g == [i \in b .. n + 1 |-> Scanned(f, last, i, n)]
<1>1. f = g
    BY DEF Scans
<1>2. \A i \in b .. n + 1 : g[i] = Scanned(f, last, i, n)
    OBVIOUS
<1> HIDE DEF g
<1> QED
    BY <1>1, <1>2

LEMMA ScansExists ==
    ASSUME NEW n \in Nat, NEW last, Ends(last, n)
    PROVE  \E f : Scans(f, last, 1, n)
<1> DEFINE T == {k \in Nat : k <= n => \E f : Scans(f, last, n + 1 - k, n)}
<1>1. 0 \in T
    <2> DEFINE f == [i \in n + 1 .. n + 1 |-> {}]
    <2>1. \A i \in n + 1 .. n + 1 : Scanned(f, last, i, n) = {}
        BY DEF Scanned
    <2>2. f = [i \in n + 1 .. n + 1 |-> Scanned(f, last, i, n)]
        BY <2>1
    <2> HIDE DEF f
    <2>3. Scans(f, last, n + 1 - 0, n)
        BY <2>2 DEF Scans
    <2> QED
        BY <2>3
<1>2. ASSUME NEW k \in Nat, k \in T
      PROVE  k + 1 \in T
    <2> SUFFICES ASSUME k + 1 <= n PROVE \E f : Scans(f, last, n + 1 - (k + 1), n)
        OBVIOUS
    <2> DEFINE b == n - k
    <2>1. b \in 1..n /\ n + 1 - (k + 1) = b /\ n + 1 - k = b + 1 /\ b + 1 \in 1 .. n + 1
        OBVIOUS
    <2> HIDE DEF b
    <2>2. PICK f : Scans(f, last, b + 1, n)
        BY <1>2, <2>1
    <2>3. \A i \in b + 1 .. n + 1 : f[i] = Scanned(f, last, i, n)
        BY <2>1, <2>2, ScansUnfolded
    <2> DEFINE g == [i \in b .. n + 1 |-> IF i = b THEN Scanned(f, last, b, n) ELSE f[i]]
    <2>4. \A i \in b + 1 .. n + 1 : g[i] = f[i]
        BY <2>1
    <2>5. g[b] = Scanned(f, last, b, n)
        BY <2>1
    <2> HIDE DEF g
    <2>6. ASSUME NEW i \in b .. n + 1
          PROVE  Scanned(f, last, i, n) = Scanned(g, last, i, n)
        <3>1. CASE i > n
            BY <3>1 DEF Scanned
        <3>2. CASE i <= n
            <4>1. i \in 1..n /\ i + 1 \in b + 1 .. n + 1
                BY <2>1, <3>2
            <4>2. last[i] # 0 => last[i] + 1 \in b + 1 .. n + 1
                BY <2>1, <4>1 DEF Ends
            <4> QED
                BY <2>4, <3>2, <4>1, <4>2 DEF Scanned
        <3> QED
            BY <2>1, <3>1, <3>2
    <2>7. ASSUME NEW i \in b .. n + 1
          PROVE  g[i] = Scanned(g, last, i, n)
        <3>1. i = b \/ i \in b + 1 .. n + 1
            BY <2>1
        <3> QED
            BY <2>3, <2>4, <2>5, <2>6, <3>1
    <2>8. DOMAIN g = b .. n + 1 /\ g = [i \in DOMAIN g |-> g[i]]
        BY DEF g
    <2>9. g = [i \in b .. n + 1 |-> Scanned(g, last, i, n)]
        BY <2>7, <2>8
    <2> QED
        BY <2>1, <2>9 DEF Scans
<1>3. n \in T
    <2> HIDE DEF T
    <2> QED
        BY <1>1, <1>2, ForAllNumbers
<1>4. n + 1 - n = 1
    OBVIOUS
<1> QED
    BY <1>3, <1>4

(* Stretches of a text, none of which begins before i, and no two of which    *)
(* overlap.                                                                   *)
Stretch(n) == [first : 1..n, last : 1..n]

Apart(ms) ==
    \A m, q \in ms : m # q => m.last < q.first \/ q.last < m.first

From(ms, last, i, n) ==
    /\ IsFiniteSet(ms) /\ Apart(ms)
    /\ \A m \in ms : /\ m \in Stretch(n) /\ m.first \in i..n
                     /\ m.last = last[m.first] /\ m.last \in m.first .. n

LEMMA ScannedFrom ==
    ASSUME NEW n \in Nat, NEW last, Ends(last, n), NEW f, Scans(f, last, 1, n)
    PROVE  \A i \in 1 .. n + 1 : From(f[i], last, i, n)
<1> DEFINE T == {k \in Nat : \A i \in 1 .. n + 1 : n + 1 - k <= i => From(f[i], last, i, n)}
<1>1. \A i \in 1 .. n + 1 : f[i] = Scanned(f, last, i, n)
    <2>1. 1 \in 1 .. n + 1
        OBVIOUS
    <2> QED
        BY <2>1, ScansUnfolded
<1>2. 0 \in T
    <2> SUFFICES ASSUME NEW i \in 1 .. n + 1, n + 1 - 0 <= i
                 PROVE  From(f[i], last, i, n)
        OBVIOUS
    <2>1. i > n
        OBVIOUS
    <2>2. f[i] = {}
        BY <1>1, <2>1 DEF Scanned
    <2> QED
        BY <2>2, FS_EmptySet DEF From, Apart
<1>3. ASSUME NEW k \in Nat, k \in T
      PROVE  k + 1 \in T
    <2> SUFFICES ASSUME NEW i \in 1 .. n + 1, n + 1 - (k + 1) <= i
                 PROVE  From(f[i], last, i, n)
        OBVIOUS
    <2>1. CASE n + 1 - k <= i
        BY <1>3, <2>1
    <2>2. CASE ~(n + 1 - k <= i)
        <3>1. i \in 1..n /\ i + 1 \in 1 .. n + 1 /\ n + 1 - k <= i + 1 /\ ~(i > n)
            BY <2>2
        <3>2. \A j \in 1 .. n + 1 : i + 1 <= j => From(f[j], last, j, n)
            <4>1. \A j \in 1 .. n + 1 : i + 1 <= j => n + 1 - k <= j
                BY <3>1
            <4> QED
                BY <1>3, <4>1
        <3>3. CASE last[i] = 0
            <4>1. f[i] = f[i + 1]
                BY <1>1, <3>1, <3>3 DEF Scanned
            <4>2. From(f[i + 1], last, i + 1, n)
                BY <3>1, <3>2
            <4>3. \A x \in i + 1 .. n : x \in i..n
                BY <3>1
            <4> QED
                BY <4>1, <4>2, <4>3 DEF From
        <3>4. CASE last[i] # 0
            <4> DEFINE e == last[i]
                       m == [first |-> i, last |-> e]
                       rest == f[e + 1]
            <4>1. e \in i..n /\ e + 1 \in 1 .. n + 1 /\ i + 1 <= e + 1
                BY <3>1, <3>4 DEF Ends
            <4>2. f[i] = {m} \cup rest
                BY <1>1, <3>1, <3>4 DEF Scanned
            <4> HIDE DEF e
            <4>3. From(rest, last, e + 1, n)
                BY <3>2, <4>1
            <4> HIDE DEF rest
            <4>4. m \in Stretch(n) /\ m.first = i /\ m.last = e
                BY <3>1, <4>1 DEF Stretch
            <4> HIDE DEF m
            <4>5. IsFiniteSet({m} \cup rest)
                BY <4>3, FS_Singleton, FS_Union DEF From
            <4>6. \A q \in rest : m.last < q.first
                <5>1. \A q \in rest : q.first \in e + 1 .. n
                    BY <4>3 DEF From
                <5> QED
                    BY <3>1, <4>1, <4>4, <5>1
            <4>7. Apart({m} \cup rest)
                BY <4>3, <4>6 DEF From, Apart
            <4>8. \A q \in {m} \cup rest :
                      /\ q \in Stretch(n) /\ q.first \in i..n
                      /\ q.last = last[q.first] /\ q.last \in q.first .. n
                <5>1. \A x \in e + 1 .. n : x \in i..n
                    BY <3>1, <4>1
                <5>2. m.first \in i..n /\ m.last = last[m.first] /\ m.last \in m.first .. n
                    BY <3>1, <4>1, <4>4 DEF e
                <5> QED
                    BY <4>3, <4>4, <5>1, <5>2 DEF From
            <4> QED
                BY <4>2, <4>5, <4>7, <4>8 DEF From
        <3> QED
            BY <3>3, <3>4
    <2> QED
        BY <2>1, <2>2
<1>4. n + 1 \in T
    <2> HIDE DEF T
    <2> QED
        BY <1>2, <1>3, ForAllNumbers
<1> QED
    BY <1>4

(* What re.sub replaces.                                                      *)
IsMatches(ms, t) ==
    /\ IsFiniteSet(ms) /\ Apart(ms)
    /\ \A m \in ms : m \in Stretch(Len(t)) /\ Matched(t, m.first, m.last)

LEMMA MatchesAre ==
    ASSUME NEW kind \in Kinds, NEW t \in Seq(Char), Labelled(t)
    PROVE  IsMatches(Matches(kind, t), t)
<1> DEFINE n == Len(t)
           last == [i \in 1..n |-> MatchEnd(kind, t, i)]
           P(f) == f = [i \in 1 .. n + 1 |->
                           IF i > n THEN {}
                           ELSE LET end == MatchEnd(kind, t, i)
                                IN  IF end = 0 THEN f[i + 1]
                                    ELSE {[first |-> i, last |-> end]} \cup f[end + 1]]
           f0 == CHOOSE f : P(f)
<1>1. Matches(kind, t) = f0[1]
    BY DEF Matches
<1>2. n \in Nat
    OBVIOUS
<1>3. \A i \in 1..n : last[i] = MatchEnd(kind, t, i)
    OBVIOUS
<1>4. \A i \in 1..n : last[i] # 0 => Matched(t, i, last[i])
    BY <1>3, EndMatched
<1>5. Ends(last, n)
    BY <1>4 DEF Ends, Matched
<1>6. ASSUME NEW f
      PROVE  P(f) <=> Scans(f, last, 1, n)
    <2> DEFINE body(i) == IF i > n THEN {}
                          ELSE LET end == MatchEnd(kind, t, i)
                               IN  IF end = 0 THEN f[i + 1]
                                   ELSE {[first |-> i, last |-> end]} \cup f[end + 1]
    <2>1. ASSUME NEW i \in 1 .. n + 1
          PROVE  body(i) = Scanned(f, last, i, n)
        <3>1. CASE i > n
            BY <3>1 DEF Scanned
        <3>2. CASE ~(i > n)
            <4>1. last[i] = MatchEnd(kind, t, i)
                BY <1>2, <1>3, <3>2
            <4> HIDE DEF last
            <4> QED
                BY <3>2, <4>1 DEF Scanned
        <3> QED
            BY <3>1, <3>2
    <2>2. [i \in 1 .. n + 1 |-> body(i)] = [i \in 1 .. n + 1 |-> Scanned(f, last, i, n)]
        <3> HIDE DEF body, last
        <3> QED
            BY <2>1
    <2> HIDE DEF last
    <2> QED
        BY <2>2 DEF Scans
<1> HIDE DEF last
<1>7. \E f : P(f)
    <2> HIDE DEF P
    <2> QED
        BY <1>2, <1>5, <1>6, ScansExists
<1>8. Scans(f0, last, 1, n)
    <2>1. P(f0)
        <3> HIDE DEF P
        <3> QED
            BY <1>7
    <2> HIDE DEF P, f0
    <2> QED
        BY <1>6, <2>1
<1> HIDE DEF f0
<1>9. From(f0[1], last, 1, n)
    <2>1. 1 \in 1 .. n + 1
        BY <1>2
    <2> QED
        BY <1>2, <1>5, <1>8, <2>1, ScannedFrom
<1>10. ASSUME NEW m \in f0[1]
       PROVE  m \in Stretch(n) /\ Matched(t, m.first, m.last)
    <2>1. m \in Stretch(n) /\ m.first \in 1..n /\ m.last = last[m.first] /\ m.last \in m.first .. n
        BY <1>9 DEF From
    <2>2. m.last # 0
        BY <1>2, <2>1
    <2> QED
        BY <1>4, <2>1, <2>2
<1> QED
    BY <1>1, <1>9, <1>10 DEF IsMatches, From, n

------------------------------------------------------------------------------
(* A token in the place of a match.                                           *)

LabelledAt(t) ==
    \A i \in Int :
        /\ At(t, i) \in Kinds => At(t, i - 1) = "<" /\ Followed(t, i)
        /\ At(t, i) = "<" => At(t, i + 1) \in Kinds

LEMMA LabelledEverywhere ==
    ASSUME NEW t \in Seq(Char)
    PROVE  Labelled(t) <=> LabelledAt(t)
<1>1. ASSUME Labelled(t), NEW i \in Int, At(t, i) \in Kinds \cup {"<"}
      PROVE  /\ At(t, i) \in Kinds => At(t, i - 1) = "<" /\ Followed(t, i)
             /\ At(t, i) = "<" => At(t, i + 1) \in Kinds
    <2>1. At(t, i) # ""
        BY <1>1 DEF Kinds
    <2>2. i \in 1..Len(t) /\ At(t, i) = t[i]
        BY <2>1, AtOut
    <2> QED
        BY <1>1, <2>2 DEF Labelled
<1>2. Labelled(t) => LabelledAt(t)
    BY <1>1 DEF LabelledAt
<1>3. ASSUME LabelledAt(t), NEW i \in 1..Len(t)
      PROVE  /\ t[i] \in Kinds => At(t, i - 1) = "<" /\ Followed(t, i)
             /\ t[i] = "<" => At(t, i + 1) \in Kinds
    <2>1. At(t, i) = t[i] /\ i \in Int
        BY AtIn
    <2> QED
        BY <1>3, <2>1 DEF LabelledAt
<1> QED
    BY <1>2, <1>3 DEF Labelled

(* A token begins at a + 1 and is l characters long.                          *)
TokenStands(t, a, l) ==
    /\ l >= 4
    /\ At(t, a + 1) = "<" /\ At(t, a + 2) \in Kinds /\ Followed(t, a + 2)
    /\ \A k \in a + 3 .. a + l : At(t, k) \notin Kinds \cup {"<"}

(* y is x but for the m characters after the first a, in whose place y has l. *)
SameBut(x, y, a, m, l) ==
    /\ \A k \in Int : k <= a => At(y, k) = At(x, k)
    /\ \A k \in Int : k > a + m => At(y, k + l - m) = At(x, k)

LEMMA FollowedStill ==
    ASSUME NEW x, NEW y, NEW a \in Nat, NEW m \in Nat \ {0}, NEW l \in Nat,
           SameBut(x, y, a, m, l), At(y, a + 1) = "<",
           \A k \in a + 1 .. a + m : At(x, k) \notin {"<", ">"},
           m >= 8 \/ \E k \in a + 1 .. a + m : At(x, k) = "@",
           NEW i \in Int, i <= a, Followed(x, i)
    PROVE  Followed(y, i)
<1>1. \A k \in Int : k <= a => At(y, k) = At(x, k)
    BY DEF SameBut
<1>2. CASE At(x, i + 1) = "<"
    <2>1. i + 1 \notin a + 1 .. a + m
        BY <1>2
    <2>2. i + 1 <= a
        BY <2>1
    <2> QED
        BY <1>1, <1>2, <2>2 DEF Followed
<1>3. CASE At(x, i + 1) = "a" /\ At(x, i + 2) = ">"
    <2>1. i + 2 \notin a + 1 .. a + m
        BY <1>3
    <2>2. CASE i + 2 <= a
        BY <1>1, <1>3, <2>2 DEF Followed
    <2>3. CASE i + 2 > a
        <3>1. i + 2 > a + m
            BY <2>1, <2>3
        <3>2. i = a /\ m = 1
            BY <3>1
        <3>3. At(x, a + 1) = "@"
            <4>1. ~(m >= 8)
                BY <3>2
            <4>2. PICK k \in a + 1 .. a + m : At(x, k) = "@"
                BY <4>1
            <4>3. k = a + 1
                BY <3>2
            <4> QED
                BY <4>2, <4>3
        <3> QED
            BY <1>3, <3>2, <3>3
    <2> QED
        BY <2>2, <2>3
<1>4. CASE (\A k \in 1..8 : At(x, i + k) = "1") /\ At(x, i + 9) = ">"
    <2>1. i + 9 \notin a + 1 .. a + m
        BY <1>4
    <2>2. CASE i + 9 <= a
        <3>1. \A k \in 1..8 : i + k <= a /\ i + k \in Int
            BY <2>2
        <3> QED
            BY <1>1, <1>4, <2>2, <3>1 DEF Followed
    <2>3. CASE i + 9 > a
        <3>1. a + m < i + 9
            BY <2>1, <2>3
        <3>2. \A k \in a + 1 .. a + m : k - i \in 1..8 /\ i + (k - i) = k
            BY <3>1
        <3>3. \A k \in a + 1 .. a + m : At(x, k) = "1"
            BY <1>4, <3>2
        <3>4. m >= 8
            BY <3>3
        <3>5. i = a
            BY <3>1, <3>4
        <3> QED
            BY <3>5 DEF Followed
    <2> QED
        BY <2>2, <2>3
<1> QED
    BY <1>2, <1>3, <1>4 DEF Followed

LEMMA LabelledStill ==
    ASSUME NEW x, NEW y, NEW a \in Nat, NEW m \in Nat \ {0}, NEW l \in Nat,
           SameBut(x, y, a, m, l), TokenStands(y, a, l),
           \A k \in a + 1 .. a + m : At(x, k) \notin Bracket,
           m >= 8 \/ \E k \in a + 1 .. a + m : At(x, k) = "@",
           LabelledAt(x)
    PROVE  LabelledAt(y)
<1>1. /\ \A k \in Int : k <= a => At(y, k) = At(x, k)
      /\ \A k \in Int : k > a + m => At(y, k + l - m) = At(x, k)
    BY DEF SameBut
<1>2. \A k \in a + 1 .. a + m : At(x, k) \notin {"<", ">"} /\ At(x, k) \notin Kinds
    BY DEF Bracket
<1>3. l >= 4 /\ At(y, a + 1) = "<" /\ At(y, a + 2) \in Kinds /\ Followed(y, a + 2)
    BY DEF TokenStands
<1>4. "<" \notin Kinds
    BY DEF Kinds
<1> SUFFICES ASSUME NEW i \in Int
             PROVE  /\ At(y, i) \in Kinds => At(y, i - 1) = "<" /\ Followed(y, i)
                    /\ At(y, i) = "<" => At(y, i + 1) \in Kinds
    BY DEF LabelledAt
<1>5. CASE i <= a
    <2>1. At(y, i) = At(x, i) /\ At(y, i - 1) = At(x, i - 1)
        BY <1>1, <1>5
    <2>2. ASSUME At(y, i) \in Kinds
          PROVE  At(y, i - 1) = "<" /\ Followed(y, i)
        <3>1. At(x, i - 1) = "<" /\ Followed(x, i)
            BY <2>1, <2>2 DEF LabelledAt
        <3> QED
            BY <1>2, <1>3, <1>5, <2>1, <3>1, FollowedStill
    <2>3. ASSUME At(y, i) = "<"
          PROVE  At(y, i + 1) \in Kinds
        <3>1. At(x, i + 1) \in Kinds
            BY <2>1, <2>3 DEF LabelledAt
        <3>2. i + 1 \notin a + 1 .. a + m
            BY <1>2, <3>1
        <3>3. i + 1 <= a
            BY <1>5, <3>2
        <3> QED
            BY <1>1, <3>1, <3>3
    <2> QED
        BY <2>2, <2>3
<1>6. CASE i > a /\ i <= a + l
    <2>1. i = a + 1 \/ i = a + 2 \/ i \in a + 3 .. a + l
        BY <1>6
    <2>2. CASE i = a + 1
        BY <1>3, <1>4, <2>2
    <2>3. CASE i = a + 2
        BY <1>3, <1>4, <2>3
    <2>4. CASE i \in a + 3 .. a + l
        BY <2>4 DEF TokenStands
    <2> QED
        BY <2>1, <2>2, <2>3, <2>4
<1>7. CASE i > a + l
    <2> DEFINE j == i - l + m
    <2>1. j \in Int /\ j > a + m /\ j + l - m = i
        BY <1>7
    <2>2. \A d \in 0..9 : At(y, i + d) = At(x, j + d)
        <3> SUFFICES ASSUME NEW d \in 0..9 PROVE At(y, i + d) = At(x, j + d)
            OBVIOUS
        <3>1. j + d \in Int /\ j + d > a + m /\ (j + d) + l - m = i + d
            BY <1>7
        <3> QED
            BY <1>1, <3>1
    <2>3. At(y, i) = At(x, j)
        BY <1>1, <2>1
    <2> HIDE DEF j
    <2>4. ASSUME At(y, i) \in Kinds
          PROVE  At(y, i - 1) = "<" /\ Followed(y, i)
        <3>1. At(x, j - 1) = "<" /\ Followed(x, j)
            BY <2>1, <2>3, <2>4 DEF LabelledAt
        <3>2. j - 1 \notin a + 1 .. a + m
            BY <1>2, <3>1
        <3>3. j - 1 \in Int /\ j - 1 > a + m /\ (j - 1) + l - m = i - 1
            BY <2>1, <3>2
        <3>4. At(y, i - 1) = At(x, j - 1)
            BY <1>1, <3>3
        <3>5. Followed(y, i)
            <4>1. /\ At(y, i + 1) = At(x, j + 1) /\ At(y, i + 2) = At(x, j + 2)
                  /\ At(y, i + 9) = At(x, j + 9)
                BY <2>2
            <4>2. \A d \in 1..8 : At(y, i + d) = At(x, j + d)
                <5>1. \A d \in 1..8 : d \in 0..9
                    OBVIOUS
                <5> QED
                    BY <2>2, <5>1
            <4> QED
                BY <3>1, <4>1, <4>2 DEF Followed
        <3> QED
            BY <3>1, <3>4, <3>5
    <2>5. ASSUME At(y, i) = "<"
          PROVE  At(y, i + 1) \in Kinds
        <3>1. At(x, j + 1) \in Kinds
            BY <2>1, <2>3, <2>5 DEF LabelledAt
        <3> QED
            BY <2>2, <3>1
    <2> QED
        BY <2>4, <2>5
<1> QED
    BY <1>5, <1>6, <1>7

------------------------------------------------------------------------------
(* How many tokens of a kind a text has.                                      *)

Labels(t, kind) == Len(Filtered(t, {kind}))

LEMMA LabelsConcat ==
    ASSUME NEW s \in Seq(Char), NEW t \in Seq(Char), NEW kind
    PROVE  /\ Labels(s, kind) \in Nat
           /\ Labels(s \o t, kind) = Labels(s, kind) + Labels(t, kind)
<1> DEFINE f == Filtered(s, {kind})
           g == Filtered(t, {kind})
<1>0. Filtered(s \o t, {kind}) = f \o g
    BY FilteredConcat
<1>1. f \in Seq(Char) /\ g \in Seq(Char)
    <2>1. f \in Seq(Char)
        BY FilteredType
    <2>2. g \in Seq(Char)
        BY FilteredType
    <2> QED
        BY <2>1, <2>2
<1> HIDE DEF f, g
<1>2. Len(f \o g) = Len(f) + Len(g) /\ Len(f) \in Nat
    BY <1>1
<1> QED
    BY <1>0, <1>2 DEF Labels, f, g

LEMMA LabelsNone ==
    ASSUME NEW t \in Seq(Char), NEW kind, \A i \in 1..Len(t) : t[i] # kind
    PROVE  Labels(t, kind) = 0
<1>1. Contents(t) \cap {kind} = {}
    BY ContentsMembers
<1>2. Filtered(t, {kind}) = <<>>
    BY <1>1, FilteredNone
<1> QED
    BY <1>2 DEF Labels

LEMMA LabelsOne ==
    ASSUME NEW c \in Char, NEW kind
    PROVE  Labels(<<c>>, kind) = IF c = kind THEN 1 ELSE 0
<1> DEFINE one == <<c>>
<1>0. one \in Seq(Char) /\ Len(one) = 1 /\ one[1] = c
    OBVIOUS
<1> HIDE DEF one
<1>1. CASE c = kind
    <2>1. Contents(one) \subseteq {kind}
        BY <1>0, <1>1, ContentsMembers
    <2>2. Filtered(one, {kind}) = one
        BY <1>0, <2>1, FilteredAll
    <2>3. Labels(one, kind) = 1
        BY <1>0, <2>2 DEF Labels
    <2> QED
        BY <1>1, <2>3 DEF one
<1>2. CASE c # kind
    <2>1. \A i \in 1..Len(one) : one[i] # kind
        BY <1>0, <1>2
    <2>2. Labels(one, kind) = 0
        BY <1>0, <2>1, LabelsNone
    <2> QED
        BY <1>2, <2>2 DEF one
<1> QED
    BY <1>1, <1>2

LEMMA CharsAre ==
    /\ Kinds \in SUBSET Char /\ {"<", ">", "a", "1"} \in SUBSET Char
    /\ {"<", ">", "a", "1"} \cap Kinds = {}
BY DEF Char, Word, Kinds

(* The token of a kind: its label, and what follows it.                       *)
IsToken(tok, kind) ==
    /\ tok \in Seq(Char) /\ Len(tok) \in Nat /\ Len(tok) >= 4
    /\ tok[1] = "<" /\ tok[2] = kind
    /\ \A k \in 3..Len(tok) : tok[k] \in {">", "a", "1"}
    /\ \/ tok[3] = "a" /\ tok[4] = ">"
       \/ Len(tok) = 11 /\ (\A k \in 3..10 : tok[k] = "1") /\ tok[11] = ">"

LEMMA ConcatAt ==
    ASSUME NEW s \in Seq(Char), NEW t \in Seq(Char)
    PROVE  /\ s \o t \in Seq(Char) /\ Len(s \o t) = Len(s) + Len(t)
           /\ \A i \in 1..Len(s) : (s \o t)[i] = s[i]
           /\ \A i \in 1..Len(t) : (s \o t)[Len(s) + i] = t[i]
<1> DEFINE u == s \o t
<1>1. /\ u \in Seq(Char) /\ Len(u) = Len(s) + Len(t)
      /\ \A i \in 1 .. Len(s) + Len(t) : u[i] = IF i <= Len(s) THEN s[i] ELSE t[i - Len(s)]
    BY ConcatProperties
<1> HIDE DEF u
<1>2. Len(s) \in Nat /\ Len(t) \in Nat
    OBVIOUS
<1>3. ASSUME NEW i \in 1..Len(s)
      PROVE  u[i] = s[i]
    BY <1>1, <1>2
<1>4. ASSUME NEW i \in 1..Len(t)
      PROVE  u[Len(s) + i] = t[i]
    <2>1. Len(s) + i \in 1 .. Len(s) + Len(t) /\ ~(Len(s) + i <= Len(s))
        BY <1>2
    <2>2. (Len(s) + i) - Len(s) = i
        BY <1>2
    <2> QED
        BY <1>1, <2>1, <2>2
<1> QED
    BY <1>1, <1>3, <1>4 DEF u

LEMMA HashIs ==
    ASSUME NEW decimal
    PROVE  /\ Hash(decimal) \in Seq(Char)
           /\ ~decimal => Len(Hash(decimal)) = 1 /\ Hash(decimal)[1] = "a"
           /\ decimal => Len(Hash(decimal)) = 8 /\ \A i \in 1..8 : Hash(decimal)[i] = "1"
<1> DEFINE ones == [i \in 1..8 |-> "1"]
           a == <<"a">>
<1>1. "a" \in Char /\ "1" \in Char
    BY CharsAre
<1>2. ones \in Seq(Char) /\ Len(ones) = 8 /\ \A i \in 1..8 : ones[i] = "1"
    BY <1>1
<1>3. a \in Seq(Char) /\ Len(a) = 1 /\ a[1] = "a"
    BY <1>1
<1> HIDE DEF ones, a
<1>4. CASE decimal
    <2>1. Hash(decimal) = ones
        BY <1>4 DEF Hash, ones
    <2> QED
        BY <1>2, <1>4, <2>1
<1>5. CASE ~decimal
    <2>1. Hash(decimal) = a
        BY <1>5 DEF Hash, a
    <2> QED
        BY <1>3, <1>5, <2>1
<1> QED
    BY <1>4, <1>5

(* What is in a token behind the label.                                       *)
HasHash(tok, decimal) ==
    /\ ~decimal => Len(tok) = 4 /\ tok[3] = "a" /\ tok[4] = ">"
    /\ decimal => Len(tok) = 11 /\ (\A k \in 3..10 : tok[k] = "1") /\ tok[11] = ">"

LEMMA TokenIs ==
    ASSUME NEW kind \in Kinds, NEW decimal
    PROVE  IsToken(Token(kind, decimal), kind) /\ HasHash(Token(kind, decimal), decimal)
<1> DEFINE hash == Hash(decimal)
           h == Len(hash)
           start == <<"<", kind>>
           close == <<">">>
           front == start \o hash
           all == front \o close
<1>1. "<" \in Char /\ ">" \in Char /\ kind \in Char
    BY CharsAre
<1>2. /\ start \in Seq(Char) /\ Len(start) = 2 /\ start[1] = "<" /\ start[2] = kind
      /\ close \in Seq(Char) /\ Len(close) = 1 /\ close[1] = ">"
    BY <1>1
<1>a. ~decimal => h = 1 /\ hash[1] = "a"
    BY HashIs
<1>b. decimal => h = 8 /\ \A i \in 1..8 : hash[i] = "1"
    BY HashIs
<1>3. hash \in Seq(Char) /\ h \in {1, 8}
    <2>1. hash \in Seq(Char)
        BY HashIs
    <2> QED
        BY <1>a, <1>b, <2>1
<1>4. Token(kind, decimal) = all
    BY DEF Token
<1> HIDE DEF start, close, hash, all, front
<1>5. /\ front \in Seq(Char) /\ Len(front) = 2 + h
      /\ \A i \in 1..2 : front[i] = start[i]
      /\ \A i \in 1..h : front[2 + i] = hash[i]
    <2>1. /\ start \o hash \in Seq(Char) /\ Len(start \o hash) = Len(start) + Len(hash)
          /\ \A i \in 1..Len(start) : (start \o hash)[i] = start[i]
          /\ \A i \in 1..Len(hash) : (start \o hash)[Len(start) + i] = hash[i]
        BY <1>2, <1>3, ConcatAt
    <2> QED
        BY <1>2, <2>1 DEF front
<1>6. /\ all \in Seq(Char) /\ Len(all) = 2 + h + 1
      /\ \A i \in 1 .. 2 + h : all[i] = front[i]
      /\ \A i \in 1..1 : all[2 + h + i] = close[i]
    <2>1. /\ front \o close \in Seq(Char) /\ Len(front \o close) = Len(front) + Len(close)
          /\ \A i \in 1..Len(front) : (front \o close)[i] = front[i]
          /\ \A i \in 1..Len(close) : (front \o close)[Len(front) + i] = close[i]
        BY <1>2, <1>5, ConcatAt
    <2> QED
        BY <1>2, <1>5, <2>1 DEF all
<1> HIDE DEF h
<1>7. all[1] = "<" /\ all[2] = kind /\ all[3 + h] = ">"
    <2>1. 1 \in 1 .. 2 + h /\ 2 \in 1 .. 2 + h /\ 1 \in 1..2 /\ 2 \in 1..2 /\ 2 + h + 1 = 3 + h
        BY <1>3
    <2> QED
        BY <1>2, <1>5, <1>6, <2>1
<1>8. \A i \in 1..h : all[2 + i] = hash[i]
    <2>1. \A i \in 1..h : 2 + i \in 1 .. 2 + h
        BY <1>3
    <2> QED
        BY <1>5, <1>6, <2>1
<1>9. CASE ~decimal
    <2>0. h = 1 /\ hash[1] = "a"
        BY <1>9, <1>a
    <2>1. all[3] = "a" /\ all[4] = ">" /\ Len(all) = 4
        <3>1. 1 \in 1..h /\ 2 + 1 = 3 /\ 3 + h = 4 /\ 2 + h + 1 = 4
            BY <2>0
        <3>2. all[2 + 1] = hash[1]
            BY <1>8, <3>1
        <3> QED
            BY <2>0, <1>6, <1>7, <3>1, <3>2
    <2>2. \A k \in 3..4 : all[k] \in {">", "a", "1"}
        <3>1. \A k \in 3..4 : k = 3 \/ k = 4
            OBVIOUS
        <3> QED
            BY <2>1, <3>1
    <2>3. all \in Seq(Char) /\ Len(all) \in Nat /\ Len(all) >= 4
        <3>1. all \in Seq(Char)
            BY <1>6
        <3>2. Len(all) \in Nat /\ Len(all) >= 4
            BY <2>1
        <3> QED
            BY <3>1, <3>2
    <2>4. \A k \in 3..Len(all) : all[k] \in {">", "a", "1"}
        BY <2>1, <2>2
    <2>5. all[1] = "<" /\ all[2] = kind
        BY <1>7
    <2>6. IsToken(all, kind)
        BY <2>1, <2>3, <2>4, <2>5 DEF IsToken
    <2>7. HasHash(all, decimal)
        BY <1>9, <2>1 DEF HasHash
    <2> QED
        BY <1>4, <2>6, <2>7
<1>10. CASE decimal
    <2>0. h = 8 /\ \A i \in 1..8 : hash[i] = "1"
        BY <1>10, <1>b
    <2>1. \A k \in 3..10 : all[k] = "1"
        <3>1. \A k \in 3..10 : k - 2 \in 1..8 /\ 2 + (k - 2) = k
            OBVIOUS
        <3>2. \A i \in 1..8 : hash[i] = "1" /\ all[2 + i] = hash[i]
            BY <2>0, <1>8
        <3> QED
            BY <3>1, <3>2
    <2>2. Len(all) = 11 /\ all[11] = ">"
        <3>1. 2 + h + 1 = 11 /\ 3 + h = 11
            BY <2>0
        <3> QED
            BY <1>6, <1>7, <3>1
    <2>3. \A k \in 3..11 : all[k] \in {">", "a", "1"}
        <3>1. \A k \in 3..11 : k = 11 \/ k \in 3..10
            OBVIOUS
        <3> QED
            BY <2>1, <2>2, <3>1
    <2>4. all \in Seq(Char) /\ Len(all) \in Nat /\ Len(all) >= 4
        <3>1. all \in Seq(Char)
            BY <1>6
        <3>2. Len(all) \in Nat /\ Len(all) >= 4
            BY <2>2
        <3> QED
            BY <3>1, <3>2
    <2>5. \A k \in 3..Len(all) : all[k] \in {">", "a", "1"}
        BY <2>2, <2>3
    <2>6. all[1] = "<" /\ all[2] = kind
        BY <1>7
    <2>7. IsToken(all, kind)
        BY <2>1, <2>2, <2>4, <2>5, <2>6 DEF IsToken
    <2>8. HasHash(all, decimal)
        BY <1>10, <2>1, <2>2 DEF HasHash
    <2> QED
        BY <1>4, <2>7, <2>8
<1> QED
    BY <1>9, <1>10

LEMMA TokenLabels ==
    ASSUME NEW kind \in Kinds, NEW tok, IsToken(tok, kind), NEW k \in Kinds
    PROVE  Labels(tok, k) = IF k = kind THEN 1 ELSE 0
<1> DEFINE n == Len(tok)
           rest == SubSeq(tok, 3, n)
           c1 == <<"<">>
           c2 == <<kind>>
<1>1. /\ tok \in Seq(Char) /\ n \in Nat /\ n >= 4 /\ tok[1] = "<" /\ tok[2] = kind
      /\ \A i \in 3..n : tok[i] \in {">", "a", "1"}
    BY DEF IsToken
<1>2. "<" \in Char /\ kind \in Char /\ "<" # k /\ \A c \in {">", "a", "1"} : c # k
    BY CharsAre
<1>3. /\ rest \in Seq(Char) /\ Len(rest) = n - 2
      /\ \A i \in 1 .. n - 2 : rest[i] = tok[i + 2]
    BY <1>1
<1>4. c1 \in Seq(Char) /\ c2 \in Seq(Char) /\ c2 \o rest \in Seq(Char)
    BY <1>2, <1>3
<1>5. tok = c1 \o (c2 \o rest)
    <2>1. SubSeq(tok, 1, n) = tok
        BY <1>1, SubSeqFull
    <2>2. SubSeq(tok, 1, n) = <<tok[1]>> \o SubSeq(tok, 2, n)
        BY <1>1, SubSeqRecursiveFirst
    <2>3. SubSeq(tok, 2, n) = <<tok[2]>> \o SubSeq(tok, 3, n)
        BY <1>1, SubSeqRecursiveFirst
    <2> QED
        BY <1>1, <2>1, <2>2, <2>3
<1>6. \A i \in 1..Len(rest) : rest[i] # k
    <2>1. \A i \in 1 .. n - 2 : i + 2 \in 3..n
        BY <1>1
    <2> QED
        BY <1>1, <1>2, <1>3, <2>1
<1> HIDE DEF rest
<1>7. Labels(rest, k) = 0
    BY <1>3, <1>6, LabelsNone
<1>8. Labels(c1, k) = 0 /\ Labels(c2, k) = IF k = kind THEN 1 ELSE 0
    BY <1>2, LabelsOne
<1> HIDE DEF c1, c2
<1>9. Labels(c2 \o rest, k) = Labels(c2, k) + Labels(rest, k)
    BY <1>3, <1>4, LabelsConcat
<1>10. Labels(c1 \o (c2 \o rest), k) = Labels(c1, k) + Labels(c2 \o rest, k)
    BY <1>4, LabelsConcat
<1> QED
    BY <1>5, <1>7, <1>8, <1>9, <1>10

------------------------------------------------------------------------------
(* A text on its way through a substitution: u is written, t is still to come *)
(* from f on.                                                                 *)

Rest(t, f) == SubSeq(t, f, Len(t))

Then(u, t, f) == u \o Rest(t, f)

LEMMA RestIs ==
    ASSUME NEW t \in Seq(Char), NEW f \in 1 .. Len(t) + 1
    PROVE  /\ Rest(t, f) \in Seq(Char) /\ Len(Rest(t, f)) = Len(t) - f + 1
           /\ \A k \in 1 .. Len(t) - f + 1 : Rest(t, f)[k] = t[f + k - 1]
<1> DEFINE n == Len(t)
<1>1. n \in Nat /\ f \in Int /\ n \in Int /\ f >= 1 /\ f <= n + 1
    OBVIOUS
<1>2. \A i \in f..n : t[i] \in Char
    BY ElementOfSeq
<1>3. /\ SubSeq(t, f, n) \in Seq(Char)
      /\ Len(SubSeq(t, f, n)) = IF f <= n THEN n - f + 1 ELSE 0
      /\ \A i \in 1 .. n - f + 1 : SubSeq(t, f, n)[i] = t[f + i - 1]
    BY <1>1, <1>2, SubSeqProperties
<1>4. Rest(t, f) = SubSeq(t, f, n)
    BY DEF Rest
<1> HIDE DEF n
<1>5. (IF f <= n THEN n - f + 1 ELSE 0) = n - f + 1
    BY <1>1
<1> QED
    BY <1>3, <1>4, <1>5 DEF n

LEMMA ThenAt ==
    ASSUME NEW u \in Seq(Char), NEW t \in Seq(Char), NEW f \in 1 .. Len(t) + 1
    PROVE  /\ Then(u, t, f) \in Seq(Char)
           /\ \A k \in Int :
                 At(Then(u, t, f), k) = IF k <= Len(u) THEN At(u, k)
                                                       ELSE At(t, k - Len(u) + f - 1)
<1> DEFINE r == Rest(t, f)
           a == Len(u)
           n == Len(t)
           v == u \o r
<1>1. /\ r \in Seq(Char) /\ Len(r) = n - f + 1
      /\ \A k \in 1 .. n - f + 1 : r[k] = t[f + k - 1]
    BY RestIs
<1>2. a \in Nat /\ n \in Nat /\ f \in 1 .. n + 1
    OBVIOUS
<1> HIDE DEF r
<1>3. /\ v \in Seq(Char) /\ Len(v) = a + (n - f + 1)
      /\ \A i \in 1..a : v[i] = u[i]
      /\ \A i \in 1 .. n - f + 1 : v[a + i] = r[i]
    <2>1. /\ u \o r \in Seq(Char) /\ Len(u \o r) = Len(u) + Len(r)
          /\ \A i \in 1..Len(u) : (u \o r)[i] = u[i]
          /\ \A i \in 1..Len(r) : (u \o r)[Len(u) + i] = r[i]
        BY <1>1, ConcatAt
    <2> HIDE DEF v, n
    <2>2. v = u \o r
        BY DEF v
    <2> QED
        BY <1>1, <2>1, <2>2
<1>4. Then(u, t, f) = v
    BY DEF Then, r
<1> HIDE DEF v
<1>5. ASSUME NEW k \in Int
      PROVE  At(v, k) = IF k <= a THEN At(u, k) ELSE At(t, k - a + f - 1)
    <2>1. CASE k \in 1..a
        <3>1. k \in 1..Len(v) /\ k <= a
            BY <1>2, <1>3, <2>1
        <3>2. At(v, k) = v[k] /\ At(u, k) = u[k]
            BY <2>1, <3>1 DEF At
        <3> QED
            BY <1>3, <2>1, <3>1, <3>2
    <2>2. CASE k <= a /\ k \notin 1..a
        <3>1. k \notin 1..Len(v)
            BY <1>2, <1>3, <2>2
        <3>2. At(v, k) = "" /\ At(u, k) = ""
            BY <2>2, <3>1 DEF At
        <3> QED
            BY <2>2, <3>2
    <2>3. CASE k > a /\ k <= a + (n - f + 1)
        <3> DEFINE j == k - a
        <3>1. j \in 1 .. n - f + 1 /\ a + j = k /\ f + j - 1 = k - a + f - 1
            BY <1>2, <2>3
        <3>2. k \in 1..Len(v) /\ k - a + f - 1 \in 1..n /\ ~(k <= a)
            BY <1>2, <1>3, <2>3
        <3> HIDE DEF j
        <3>3. v[k] = r[j] /\ r[j] = t[k - a + f - 1]
            <4>1. v[a + j] = r[j] /\ r[j] = t[f + j - 1]
                BY <1>1, <1>3, <3>1
            <4> QED
                BY <3>1, <4>1
        <3>4. At(v, k) = v[k] /\ At(t, k - a + f - 1) = t[k - a + f - 1]
            BY <3>2 DEF At, n
        <3> QED
            BY <3>2, <3>3, <3>4
    <2>4. CASE k > a /\ ~(k <= a + (n - f + 1))
        <3>1. k \notin 1..Len(v) /\ k - a + f - 1 \notin 1..n /\ ~(k <= a)
            BY <1>2, <1>3, <2>4
        <3>2. At(v, k) = "" /\ At(t, k - a + f - 1) = ""
            BY <3>1 DEF At, n
        <3> QED
            BY <3>1, <3>2
    <2> QED
        BY <1>2, <2>1, <2>2, <2>3, <2>4
<1> QED
    BY <1>3, <1>4, <1>5

(* A character that is not replaced.                                          *)
LEMMA Copies ==
    ASSUME NEW u \in Seq(Char), NEW t \in Seq(Char), NEW i \in 1..Len(t)
    PROVE  /\ u \o <<t[i]>> \in Seq(Char)
           /\ Then(u \o <<t[i]>>, t, i + 1) = Then(u, t, i)
<1> DEFINE c == <<t[i]>>
           r == Rest(t, i + 1)
<1>1. t[i] \in Char
    BY ElementOfSeq
<1>2. c \in Seq(Char)
    BY <1>1
<1>3. i + 1 \in 1 .. Len(t) + 1 /\ Len(t) \in i..Len(t)
    OBVIOUS
<1>4. r \in Seq(Char)
    BY <1>3, RestIs
<1>5. Rest(t, i) = c \o r
    BY <1>3, SubSeqRecursiveFirst DEF Rest
<1> HIDE DEF c, r
<1>6. (u \o c) \o r = u \o (c \o r)
    BY <1>2, <1>4, ConcatAssociative, SMTT(30)
<1>7. u \o c \in Seq(Char)
    BY <1>2, ConcatProperties
<1> QED
    BY <1>5, <1>6, <1>7 DEF Then, c, r

LEMMA ThenLabels ==
    ASSUME NEW u \in Seq(Char), NEW t \in Seq(Char), NEW f \in 1 .. Len(t) + 1, NEW k
    PROVE  /\ Labels(u, k) \in Nat /\ Labels(Rest(t, f), k) \in Nat
           /\ Labels(Then(u, t, f), k) = Labels(u, k) + Labels(Rest(t, f), k)
<1> DEFINE r == Rest(t, f)
<1>1. r \in Seq(Char)
    BY RestIs
<1>2. Then(u, t, f) = u \o r
    BY DEF Then
<1> HIDE DEF r
<1>3. Labels(u, k) \in Nat /\ Labels(u \o r, k) = Labels(u, k) + Labels(r, k)
    BY <1>1, LabelsConcat
<1>4. Labels(r, k) \in Nat
    BY <1>1, LabelsConcat
<1> QED
    BY <1>2, <1>3, <1>4 DEF r

(* A match that is replaced: nothing that was labelled is torn, and there is  *)
(* one label more.                                                            *)
LEMMA Replaces ==
    ASSUME NEW u \in Seq(Char), NEW t \in Seq(Char), NEW f \in 1..Len(t), NEW e,
           Matched(t, f, e), NEW kind \in Kinds, NEW tok, IsToken(tok, kind)
    PROVE  /\ u \o tok \in Seq(Char)
           /\ Labelled(Then(u, t, f)) => Labelled(Then(u \o tok, t, e + 1))
           /\ \A k \in Kinds : Labels(Then(u \o tok, t, e + 1), k) =
                 Labels(Then(u, t, f), k) + IF k = kind THEN 1 ELSE 0
<1> DEFINE n == Len(t)
           a == Len(u)
           l == Len(tok)
           m == e - f + 1
           v == u \o tok
           x == Then(u, t, f)
           y == Then(v, t, e + 1)
<1>1. n \in Nat /\ a \in Nat /\ f \in 1..n /\ e \in f..n /\ m \in Nat \ {0}
    BY DEF Matched
<1>2. /\ \A k \in f..e : t[k] \in Char \ Bracket
      /\ e >= f + 7 \/ \E k \in f..e : t[k] = "@"
    BY DEF Matched
<1>3. /\ tok \in Seq(Char) /\ l \in Nat /\ l >= 4 /\ tok[1] = "<" /\ tok[2] = kind
      /\ \A k \in 3..l : tok[k] \in {">", "a", "1"}
    BY DEF IsToken
<1>4. /\ v \in Seq(Char) /\ Len(v) = a + l
      /\ \A i \in 1..a : v[i] = u[i]
      /\ \A i \in 1..l : v[a + i] = tok[i]
    <2>1. /\ u \o tok \in Seq(Char) /\ Len(u \o tok) = Len(u) + Len(tok)
          /\ \A i \in 1..Len(u) : (u \o tok)[i] = u[i]
          /\ \A i \in 1..Len(tok) : (u \o tok)[Len(u) + i] = tok[i]
        BY <1>3, ConcatAt
    <2> QED
        BY <2>1
<1>5. f \in 1 .. n + 1 /\ e + 1 \in 1 .. n + 1
    BY <1>1
<1>6. /\ x \in Seq(Char)
      /\ \A k \in Int : At(x, k) = IF k <= a THEN At(u, k) ELSE At(t, k - a + f - 1)
    BY <1>5, ThenAt
<1> HIDE DEF v
<1>7. /\ y \in Seq(Char)
      /\ \A k \in Int : At(y, k) = IF k <= Len(v) THEN At(v, k) ELSE At(t, k - Len(v) + (e + 1) - 1)
    BY <1>4, <1>5, ThenAt
<1> HIDE DEF x, y
<1>8. \A k \in Int : k <= a => At(v, k) = At(u, k)
    <2> SUFFICES ASSUME NEW k \in Int, k <= a PROVE At(v, k) = At(u, k)
        OBVIOUS
    <2>1. CASE k \in 1..a
        <3>1. k \in 1..Len(v)
            BY <1>1, <1>3, <1>4, <2>1
        <3>2. At(v, k) = v[k] /\ At(u, k) = u[k]
            BY <2>1, <3>1 DEF At
        <3> QED
            BY <1>4, <2>1, <3>2
    <2>2. CASE k \notin 1..a
        <3>1. k \notin 1..Len(v)
            BY <1>1, <2>2
        <3> QED
            BY <2>2, <3>1 DEF At
    <2> QED
        BY <2>1, <2>2
<1>9. \A k \in 1..l : At(y, a + k) = tok[k]
    <2> SUFFICES ASSUME NEW k \in 1..l PROVE At(y, a + k) = tok[k]
        OBVIOUS
    <2>1. a + k \in Int /\ a + k <= Len(v) /\ a + k \in 1..Len(v)
        BY <1>1, <1>3, <1>4
    <2>2. At(y, a + k) = At(v, a + k) /\ At(v, a + k) = v[a + k]
        BY <1>7, <2>1 DEF At
    <2> QED
        BY <1>4, <2>2
<1>10. SameBut(x, y, a, m, l)
    <2>1. ASSUME NEW k \in Int, k <= a
          PROVE  At(y, k) = At(x, k)
        <3>1. k <= Len(v)
            BY <1>1, <1>3, <1>4, <2>1
        <3> QED
            BY <1>6, <1>7, <1>8, <2>1, <3>1
    <2>2. ASSUME NEW k \in Int, k > a + m
          PROVE  At(y, k + l - m) = At(x, k)
        <3> DEFINE j == k + l - m
        <3>1. /\ j \in Int /\ ~(j <= Len(v)) /\ j - Len(v) + (e + 1) - 1 = k - a + f - 1
              /\ ~(k <= a)
            BY <1>1, <1>3, <1>4, <2>2
        <3> HIDE DEF j
        <3>2. At(y, j) = At(t, k - a + f - 1)
            BY <1>7, <3>1
        <3> QED
            BY <1>6, <3>1, <3>2 DEF j
    <2> QED
        BY <2>1, <2>2 DEF SameBut
<1>11. ASSUME NEW k \in a + 1 .. a + m
       PROVE  k - a + f - 1 \in f..e /\ At(x, k) = t[k - a + f - 1]
    <2>1. k \in Int /\ ~(k <= a) /\ k - a + f - 1 \in f..e /\ k - a + f - 1 \in 1..n
        BY <1>1
    <2>2. At(t, k - a + f - 1) = t[k - a + f - 1]
        BY <2>1 DEF At
    <2> QED
        BY <1>6, <2>1, <2>2
<1>12. \A k \in a + 1 .. a + m : At(x, k) \notin Bracket
    BY <1>2, <1>11
<1>13. m >= 8 \/ \E k \in a + 1 .. a + m : At(x, k) = "@"
    <2>1. CASE e >= f + 7
        BY <1>1, <2>1
    <2>2. ASSUME NEW j \in f..e, t[j] = "@"
          PROVE  \E k \in a + 1 .. a + m : At(x, k) = "@"
        <3>1. j - f + 1 + a \in a + 1 .. a + m /\ (j - f + 1 + a) - a + f - 1 = j
            BY <1>1
        <3>2. At(x, j - f + 1 + a) = t[j]
            BY <1>11, <3>1
        <3> QED
            BY <2>2, <3>1, <3>2
    <2> QED
        BY <1>2, <2>1, <2>2
<1>14. TokenStands(y, a, l)
    <2>1. 1 \in 1..l /\ 2 \in 1..l /\ 3 \in 1..l /\ 4 \in 1..l
        BY <1>3
    <2>2. /\ At(y, a + 1) = tok[1] /\ At(y, a + 2) = tok[2] /\ At(y, a + 3) = tok[3]
          /\ At(y, a + 4) = tok[4]
        BY <1>9, <2>1
    <2>3. \A k \in a + 3 .. a + l : At(y, k) \notin Kinds \cup {"<"}
        <3> SUFFICES ASSUME NEW k \in a + 3 .. a + l PROVE At(y, k) \notin Kinds \cup {"<"}
            OBVIOUS
        <3>1. k - a \in 1..l /\ k - a \in 3..l /\ a + (k - a) = k
            BY <1>1, <1>3
        <3>2. At(y, k) = tok[k - a]
            BY <1>9, <3>1
        <3>3. At(y, k) \in {">", "a", "1"}
            BY <1>3, <3>1, <3>2
        <3> QED
            BY <3>3, CharsAre
    <2>4. Followed(y, a + 2)
        <3>1. (a + 2) + 1 = a + 3 /\ (a + 2) + 2 = a + 4 /\ (a + 2) + 9 = a + 11
            BY <1>1
        <3>2. CASE tok[3] = "a" /\ tok[4] = ">"
            BY <2>2, <3>1, <3>2 DEF Followed
        <3>3. CASE l = 11 /\ (\A k \in 3..10 : tok[k] = "1") /\ tok[11] = ">"
            <4>1. 11 \in 1..l
                BY <3>3
            <4>2. At(y, a + 11) = ">"
                BY <1>9, <3>3, <4>1
            <4>3. \A k \in 1..8 : At(y, (a + 2) + k) = "1"
                <5> SUFFICES ASSUME NEW k \in 1..8 PROVE At(y, (a + 2) + k) = "1"
                    OBVIOUS
                <5>1. k + 2 \in 1..l /\ k + 2 \in 3..10 /\ a + (k + 2) = (a + 2) + k
                    BY <1>1, <3>3
                <5> QED
                    BY <1>9, <3>3, <5>1
            <4> QED
                BY <3>1, <4>2, <4>3 DEF Followed
        <3> QED
            BY <3>2, <3>3 DEF IsToken
    <2> QED
        BY <1>3, <2>2, <2>3, <2>4 DEF TokenStands
<1>15. Labelled(x) => Labelled(y)
    <2>1. LabelledAt(x) => LabelledAt(y)
        BY <1>1, <1>3, <1>10, <1>12, <1>13, <1>14, LabelledStill
    <2> QED
        BY <1>6, <1>7, <2>1, LabelledEverywhere
<1>16. ASSUME NEW k \in Kinds
       PROVE  Labels(y, k) = Labels(x, k) + IF k = kind THEN 1 ELSE 0
    <2> DEFINE w == SubSeq(t, f, e)
               r == Rest(t, e + 1)
    <2>1. w \in Seq(Char) /\ Len(w) = m /\ \A i \in 1..m : w[i] = t[f + i - 1]
        <3>1. \A i \in f..e : t[i] \in Char
            BY <1>2
        <3>2. f \in Int /\ e \in Int /\ f <= e
            BY <1>1
        <3> QED
            BY <3>1, <3>2, SubSeqProperties
    <2>2. r \in Seq(Char)
        BY <1>5, RestIs
    <2>3. Rest(t, f) = w \o r
        <3>1. f \in 1 .. Len(t) + 1 /\ e \in f - 1 .. Len(t) /\ Len(t) \in e .. Len(t)
            BY <1>1
        <3> QED
            BY <3>1, ConcatAdjacentSubSeq DEF Rest
    <2> HIDE DEF w
    <2>4. Labels(w, k) = 0
        <3>1. \A i \in 1..Len(w) : w[i] # k
            <4> SUFFICES ASSUME NEW i \in 1..Len(w) PROVE w[i] # k
                OBVIOUS
            <4>1. f + i - 1 \in f..e /\ i \in 1..m
                BY <1>1, <2>1
            <4>2. w[i] \notin Bracket
                BY <1>2, <2>1, <4>1
            <4> QED
                BY <4>2 DEF Bracket
        <3> QED
            BY <2>1, <3>1, LabelsNone
    <2>5. Labels(w \o r, k) = Labels(w, k) + Labels(r, k) /\ Labels(r, k) \in Nat
        <3> HIDE DEF r
        <3>1. Labels(w \o r, k) = Labels(w, k) + Labels(r, k)
            BY <2>1, <2>2, LabelsConcat
        <3>2. Labels(r, k) \in Nat
            BY <2>2, LabelsConcat
        <3> QED
            BY <3>1, <3>2
    <2>6. Labels(x, k) = Labels(u, k) + Labels(Rest(t, f), k) /\ Labels(u, k) \in Nat
        BY <1>5, ThenLabels DEF x
    <2>7. Labels(y, k) = Labels(v, k) + Labels(r, k)
        BY <1>4, <1>5, ThenLabels DEF y
    <2>8. Labels(v, k) = Labels(u, k) + Labels(tok, k)
        BY <1>3, LabelsConcat DEF v
    <2>9. Labels(tok, k) = IF k = kind THEN 1 ELSE 0
        BY TokenLabels
    <2> HIDE DEF r
    <2>10. Labels(x, k) = Labels(u, k) + Labels(r, k)
        BY <2>3, <2>4, <2>5, <2>6
    <2>11. Labels(tok, k) \in Nat
        BY <1>3, LabelsConcat
    <2>12. Labels(y, k) = Labels(x, k) + Labels(tok, k)
        BY <2>5, <2>6, <2>7, <2>8, <2>10, <2>11
    <2> QED
        BY <2>9, <2>12
<1> QED
    BY <1>4, <1>15, <1>16 DEF v, x, y

------------------------------------------------------------------------------
(* A substitution, from the left.                                             *)

Covers(m, i) == i \in m.first .. m.last

IsParts(ps, ms, t, kind) ==
    /\ ps \in Seq(Seq(Char)) /\ Len(ps) = Len(t)
    /\ \A i \in 1..Len(t) : (\A m \in ms : ~Covers(m, i)) => ps[i] = <<t[i]>>
    /\ \A m \in ms : IsToken(ps[m.first], kind)
    /\ \A m \in ms : \A i \in 1..Len(t) : Covers(m, i) /\ i # m.first => ps[i] = <<>>

LEMMA OneCovers ==
    ASSUME NEW t \in Seq(Char), NEW ms, IsMatches(ms, t), NEW m \in ms, NEW q \in ms,
           NEW i \in Int, Covers(m, i), Covers(q, i)
    PROVE  m = q
<1>1. m \in Stretch(Len(t)) /\ q \in Stretch(Len(t))
    BY DEF IsMatches
<1>2. m.first \in Int /\ m.last \in Int /\ q.first \in Int /\ q.last \in Int
    BY <1>1 DEF Stretch
<1>3. m # q => m.last < q.first \/ q.last < m.first
    BY DEF IsMatches, Apart
<1> QED
    BY <1>2, <1>3 DEF Covers

LEMMA SubstituteIs ==
    ASSUME NEW kind \in Kinds, NEW t \in Seq(Char), Labelled(t), NEW decimal
    PROVE  \E ps : /\ IsParts(ps, Matches(kind, t), t, kind)
                   /\ Substitute(kind, t, decimal) = FlattenSeq(ps)
<1> DEFINE ms == Matches(kind, t)
           n == Len(t)
           of(i) == CHOOSE x \in ms : i \in x.first .. x.last
           put(i) == IF i = of(i).first THEN Token(kind, of(i) \in decimal) ELSE <<>>
           part(i) == IF \E m \in ms : i \in m.first .. m.last THEN put(i) ELSE <<t[i]>>
           ps == [i \in 1..n |-> part(i)]
<1>1. Substitute(kind, t, decimal) = FlattenSeq(ps)
    BY DEF Substitute
<1>2. IsMatches(ms, t)
    BY MatchesAre
<1> HIDE DEF ms
<1>3. ASSUME NEW m \in ms, NEW i \in 1..n, Covers(m, i)
      PROVE  of(i) = m
    <2>1. i \in m.first .. m.last
        BY <1>3 DEF Covers
    <2>2. of(i) \in ms /\ i \in of(i).first .. of(i).last
        BY <2>1
    <2> HIDE DEF of
    <2>3. Covers(of(i), i) /\ i \in Int
        BY <2>2 DEF Covers
    <2> QED
        BY <1>2, <1>3, <2>2, <2>3, OneCovers
<1> HIDE DEF of
<1>4. ASSUME NEW i \in 1..n, \A m \in ms : ~Covers(m, i)
      PROVE  part(i) = <<t[i]>>
    BY <1>4 DEF Covers
<1>5. ASSUME NEW m \in ms
      PROVE  m.first \in 1..n /\ Covers(m, m.first) /\ IsToken(part(m.first), kind)
    <2>1. m \in Stretch(n) /\ Matched(t, m.first, m.last)
        BY <1>2 DEF IsMatches
    <2>2. m.first \in 1..n /\ m.last \in m.first .. n
        BY <2>1 DEF Stretch, Matched
    <2>3. Covers(m, m.first)
        BY <2>2 DEF Covers
    <2>4. of(m.first) = m
        BY <1>3, <2>2, <2>3
    <2>5. part(m.first) = Token(kind, of(m.first) \in decimal)
        BY <2>3, <2>4 DEF Covers
    <2> HIDE DEF part
    <2> QED
        BY <2>2, <2>3, <2>5, TokenIs
<1>6. ASSUME NEW m \in ms, NEW i \in 1..n, Covers(m, i), i # m.first
      PROVE  part(i) = <<>>
    <2>1. of(i) = m
        BY <1>3, <1>6
    <2> QED
        BY <1>6, <2>1 DEF Covers
<1> HIDE DEF part
<1>7. \A i \in 1..n : part(i) \in Seq(Char)
    <2> SUFFICES ASSUME NEW i \in 1..n PROVE part(i) \in Seq(Char)
        OBVIOUS
    <2>1. CASE \A m \in ms : ~Covers(m, i)
        <3>1. t[i] \in Char
            BY ElementOfSeq
        <3>2. <<t[i]>> \in Seq(Char)
            BY <3>1
        <3> QED
            BY <1>4, <2>1, <3>2
    <2>2. ASSUME NEW m \in ms, Covers(m, i)
          PROVE  part(i) \in Seq(Char)
        <3>1. CASE i = m.first
            BY <1>5, <3>1 DEF IsToken
        <3>2. CASE i # m.first
            <4>1. <<>> \in Seq(Char)
                OBVIOUS
            <4> QED
                BY <1>6, <2>2, <3>2, <4>1
        <3> QED
            BY <3>1, <3>2
    <2> QED
        BY <2>1, <2>2
<1>8. n \in Nat
    OBVIOUS
<1> HIDE DEF n
<1>9. ps \in Seq(Seq(Char)) /\ Len(ps) = n /\ \A i \in 1..n : ps[i] = part(i)
    BY <1>7, <1>8
<1> HIDE DEF ps
<1>10. IsParts(ps, ms, t, kind)
    <2>1. ps \in Seq(Seq(Char)) /\ Len(ps) = Len(t)
        BY <1>9 DEF n
    <2>2. \A i \in 1..Len(t) : (\A m \in ms : ~Covers(m, i)) => ps[i] = <<t[i]>>
        BY <1>4, <1>9 DEF n
    <2>3. \A m \in ms : IsToken(ps[m.first], kind)
        BY <1>5, <1>9
    <2>4. \A m \in ms : \A i \in 1..Len(t) : Covers(m, i) /\ i # m.first => ps[i] = <<>>
        BY <1>6, <1>9 DEF n
    <2> QED
        BY <2>1, <2>2, <2>3, <2>4 DEF IsParts
<1> QED
    BY <1>1, <1>10 DEF ms

(* When the i-th character has been dealt with, the text goes on behind s.    *)
GoesOn(ms, i, s) ==
    \/ s = i /\ \A m \in ms : ~Covers(m, i)
    \/ \E m \in ms : Covers(m, i) /\ s = m.last

Begun(ms, i) == {m \in ms : m.first <= i}

Halfway(u, ms, t, kind, i) ==
    /\ u \in Seq(Char)
    /\ \A s \in i..Len(t) : GoesOn(ms, i, s) =>
          /\ Labelled(Then(u, t, s + 1))
          /\ \A k \in Kinds : Labels(Then(u, t, s + 1), k) =
                Labels(t, k) + IF k = kind THEN Cardinality(Begun(ms, i)) ELSE 0

LEMMA BegunIs ==
    ASSUME NEW t \in Seq(Char), NEW ms, IsMatches(ms, t), NEW i \in Nat
    PROVE  /\ IsFiniteSet(Begun(ms, i)) /\ Cardinality(Begun(ms, i)) \in Nat
           /\ \A m \in ms : m.first = i + 1 =>
                 Cardinality(Begun(ms, i + 1)) = Cardinality(Begun(ms, i)) + 1
           /\ (\A m \in ms : m.first # i + 1) => Begun(ms, i + 1) = Begun(ms, i)
<1>1. IsFiniteSet(ms)
    BY DEF IsMatches
<1>2. \A m \in ms : m.first \in Nat /\ m.last \in Nat /\ m.first <= m.last
    <2> SUFFICES ASSUME NEW m \in ms PROVE m.first \in Nat /\ m.last \in Nat /\ m.first <= m.last
        OBVIOUS
    <2>1. m \in Stretch(Len(t)) /\ Matched(t, m.first, m.last)
        BY DEF IsMatches
    <2>2. m.first \in 1..Len(t) /\ m.last \in m.first .. Len(t)
        BY <2>1 DEF Stretch, Matched
    <2> QED
        BY <2>2
<1>3. IsFiniteSet(Begun(ms, i))
    <2>1. Begun(ms, i) \subseteq ms
        BY DEF Begun
    <2> QED
        BY <1>1, <2>1, FS_Subset
<1>4. Cardinality(Begun(ms, i)) \in Nat
    BY <1>3, FS_CardinalityType
<1>5. ASSUME NEW m \in ms, m.first = i + 1
      PROVE  Cardinality(Begun(ms, i + 1)) = Cardinality(Begun(ms, i)) + 1
    <2>1. m \notin Begun(ms, i)
        BY <1>5 DEF Begun
    <2>2. \A q \in ms : q.first <= i + 1 => q.first <= i \/ q = m
        <3> SUFFICES ASSUME NEW q \in ms, q.first <= i + 1, ~(q.first <= i) PROVE q = m
            OBVIOUS
        <3>1. q.first = i + 1
            BY <1>2
        <3>2. Covers(m, i + 1) /\ Covers(q, i + 1) /\ i + 1 \in Int
            BY <1>2, <1>5, <3>1 DEF Covers
        <3> QED
            BY <3>2, OneCovers
    <2>3. \A q \in ms : q.first <= i => q.first <= i + 1
        BY <1>2
    <2>4. Begun(ms, i + 1) = Begun(ms, i) \cup {m}
        BY <1>5, <2>2, <2>3 DEF Begun
    <2> QED
        BY <1>3, <2>1, <2>4, FS_AddElement
<1>6. ASSUME \A m \in ms : m.first # i + 1
      PROVE  Begun(ms, i + 1) = Begun(ms, i)
    <2>1. \A q \in ms : q.first <= i + 1 <=> q.first <= i
        BY <1>2, <1>6
    <2> QED
        BY <2>1 DEF Begun
<1> QED
    BY <1>3, <1>4, <1>5, <1>6

LEMMA HalfwayFirst ==
    ASSUME NEW t \in Seq(Char), Labelled(t), NEW ms, IsMatches(ms, t), NEW kind \in Kinds
    PROVE  Halfway(<<>>, ms, t, kind, 0)
<1> DEFINE none == <<>>
<1>1. \A m \in ms : m.first \in Nat /\ m.first >= 1
    <2> SUFFICES ASSUME NEW m \in ms PROVE m.first \in Nat /\ m.first >= 1
        OBVIOUS
    <2>1. m \in Stretch(Len(t))
        BY DEF IsMatches
    <2> QED
        BY <2>1 DEF Stretch
<1>2. ASSUME NEW s, GoesOn(ms, 0, s)
      PROVE  s = 0
    <2>1. \A m \in ms : ~Covers(m, 0)
        BY <1>1 DEF Covers
    <2> QED
        BY <1>2, <2>1 DEF GoesOn
<1>3. none \in Seq(Char) /\ none \o t = t
    BY ConcatEmptySeq
<1>4. Then(none, t, 0 + 1) = t
    <2>1. Rest(t, 0 + 1) = t
        BY SubSeqFull DEF Rest
    <2> QED
        BY <1>3, <2>1 DEF Then
<1>5. Cardinality(Begun(ms, 0)) = 0
    <2>1. Begun(ms, 0) = {}
        BY <1>1 DEF Begun
    <2> QED
        BY <2>1, FS_EmptySet
<1>6. \A k \in Kinds : Labels(t, k) = Labels(t, k) + 0
    <2>1. \A k \in Kinds : Labels(t, k) \in Nat
        BY LabelsConcat
    <2> QED
        BY <2>1
<1> HIDE DEF none
<1>7. ASSUME NEW s, GoesOn(ms, 0, s)
      PROVE  /\ Labelled(Then(none, t, s + 1))
             /\ \A k \in Kinds : Labels(Then(none, t, s + 1), k) =
                   Labels(t, k) + IF k = kind THEN Cardinality(Begun(ms, 0)) ELSE 0
    <2>1. s = 0
        BY <1>2, <1>7
    <2> QED
        BY <1>4, <1>5, <1>6, <2>1
<1>8. Halfway(none, ms, t, kind, 0)
    BY <1>3, <1>7 DEF Halfway
<1> QED
    BY <1>8 DEF none

LEMMA HalfwayNext ==
    ASSUME NEW t \in Seq(Char), NEW ms, IsMatches(ms, t), NEW kind \in Kinds,
           NEW ps, IsParts(ps, ms, t, kind),
           NEW i \in Nat, i + 1 <= Len(t), NEW u, Halfway(u, ms, t, kind, i)
    PROVE  Halfway(u \o ps[i + 1], ms, t, kind, i + 1)
<1> DEFINE n == Len(t)
           j == i + 1
           part == ps[j]
           v == u \o part
           began == Cardinality(Begun(ms, i))
<1>1. n \in Nat /\ j \in 1..n /\ i \in 0..n /\ i \in i..n /\ j \in Int /\ i \in Int
    OBVIOUS
<1>2. u \in Seq(Char)
    BY DEF Halfway
<1>3. ASSUME NEW s \in i..n, GoesOn(ms, i, s)
      PROVE  /\ Labelled(Then(u, t, s + 1))
             /\ \A k \in Kinds : Labels(Then(u, t, s + 1), k) =
                   Labels(t, k) + IF k = kind THEN began ELSE 0
    BY <1>3 DEF Halfway
<1>4. \A m \in ms : /\ m.first \in 1..n /\ m.last \in m.first .. n
                    /\ Matched(t, m.first, m.last)
    <2> SUFFICES ASSUME NEW m \in ms
                 PROVE  /\ m.first \in 1..n /\ m.last \in m.first .. n
                        /\ Matched(t, m.first, m.last)
        OBVIOUS
    <2>1. m \in Stretch(n) /\ Matched(t, m.first, m.last)
        BY DEF IsMatches
    <2> QED
        BY <2>1 DEF Stretch, Matched
<1>5. began \in Nat /\ \A k \in Kinds : Labels(t, k) \in Nat
    <2>1. began \in Nat
        BY BegunIs
    <2>2. \A k \in Kinds : Labels(t, k) \in Nat
        BY LabelsConcat
    <2> QED
        BY <2>1, <2>2
<1> HIDE DEF n
<1>6. CASE \A m \in ms : ~Covers(m, j)
    <2>1. GoesOn(ms, i, i)
        <3> SUFFICES ASSUME NEW m \in ms, Covers(m, i) PROVE i = m.last
            BY DEF GoesOn
        <3>1. ~Covers(m, j)
            BY <1>6
        <3> QED
            BY <1>1, <1>4, <3>1 DEF Covers
    <2>2. part = <<t[j]>>
        BY <1>1, <1>6 DEF IsParts, n
    <2> HIDE DEF part
    <2>3. v \in Seq(Char) /\ Then(v, t, j + 1) = Then(u, t, j)
        BY <1>1, <1>2, <2>2, Copies DEF n
    <2>4. Begun(ms, j) = Begun(ms, i)
        <3>1. \A m \in ms : m.first # i + 1
            BY <1>1, <1>4, <1>6 DEF Covers
        <3> QED
            BY <3>1, BegunIs
    <2>5. \A s : GoesOn(ms, j, s) => s = j
        BY <1>6 DEF GoesOn
    <2> HIDE DEF v
    <2>6. /\ Labelled(Then(v, t, j + 1))
          /\ \A k \in Kinds : Labels(Then(v, t, j + 1), k) =
                Labels(t, k) + IF k = kind THEN Cardinality(Begun(ms, j)) ELSE 0
        BY <1>1, <1>3, <2>1, <2>3, <2>4
    <2> HIDE DEF j
    <2>7. Halfway(v, ms, t, kind, j)
        BY <2>3, <2>5, <2>6 DEF Halfway
    <2> QED
        BY <2>7 DEF v, j, part
<1>7. ASSUME NEW m \in ms, m.first = j
      PROVE  Halfway(v, ms, t, kind, j)
    <2>1. Covers(m, j)
        BY <1>4, <1>7 DEF Covers
    <2>2. GoesOn(ms, i, i)
        <3> SUFFICES ASSUME NEW q \in ms, Covers(q, i) PROVE i = q.last
            BY DEF GoesOn
        <3>1. CASE Covers(q, j)
            <4>1. q = m
                BY <1>1, <2>1, <3>1, OneCovers
            <4> QED
                BY <1>1, <1>7, <4>1 DEF Covers
        <3>2. CASE ~Covers(q, j)
            BY <1>1, <1>4, <3>2 DEF Covers
        <3> QED
            BY <3>1, <3>2
    <2>3. IsToken(part, kind)
        BY <1>7 DEF IsParts
    <2> HIDE DEF part
    <2>4. Matched(t, j, m.last)
        BY <1>4, <1>7
    <2>5. /\ v \in Seq(Char)
          /\ Labelled(Then(u, t, j)) => Labelled(Then(v, t, m.last + 1))
          /\ \A k \in Kinds : Labels(Then(v, t, m.last + 1), k) =
                Labels(Then(u, t, j), k) + IF k = kind THEN 1 ELSE 0
        BY <1>1, <1>2, <2>3, <2>4, Replaces DEF n
    <2>6. Cardinality(Begun(ms, j)) = began + 1
        BY <1>7, BegunIs
    <2>7. \A s : GoesOn(ms, j, s) => s = m.last
        <3> SUFFICES ASSUME NEW s, GoesOn(ms, j, s) PROVE s = m.last
            OBVIOUS
        <3>1. PICK q \in ms : Covers(q, j) /\ s = q.last
            BY <2>1 DEF GoesOn
        <3> QED
            BY <1>1, <2>1, <3>1, OneCovers
    <2> HIDE DEF v, began
    <2>8. /\ Labelled(Then(v, t, m.last + 1))
          /\ \A k \in Kinds : Labels(Then(v, t, m.last + 1), k) =
                Labels(t, k) + IF k = kind THEN Cardinality(Begun(ms, j)) ELSE 0
        <3>1. /\ Labelled(Then(u, t, j))
              /\ \A k \in Kinds : Labels(Then(u, t, j), k) =
                    Labels(t, k) + IF k = kind THEN began ELSE 0
            BY <1>1, <1>3, <2>2
        <3> HIDE DEF j
        <3>2. ASSUME NEW k \in Kinds
              PROVE  Labels(Then(v, t, m.last + 1), k) =
                        Labels(t, k) + IF k = kind THEN Cardinality(Begun(ms, j)) ELSE 0
            <4>1. Labels(t, k) \in Nat
                BY <1>5
            <4>2. Labels(Then(v, t, m.last + 1), k) =
                     (Labels(t, k) + IF k = kind THEN began ELSE 0)
                        + IF k = kind THEN 1 ELSE 0
                BY <2>5, <3>1
            <4>3. CASE k = kind
                BY <1>5, <2>6, <4>1, <4>2, <4>3
            <4>4. CASE k # kind
                BY <4>1, <4>2, <4>4
            <4> QED
                BY <4>3, <4>4
        <3> QED
            BY <2>5, <3>1, <3>2
    <2> HIDE DEF j
    <2> QED
        BY <2>5, <2>7, <2>8 DEF Halfway
<1>8. ASSUME NEW m \in ms, Covers(m, j), m.first # j
      PROVE  Halfway(v, ms, t, kind, j)
    <2>1. Covers(m, i) /\ m.last \in i..n
        BY <1>1, <1>4, <1>8 DEF Covers
    <2>2. GoesOn(ms, i, m.last)
        BY <2>1 DEF GoesOn
    <2>3. part = <<>>
        BY <1>1, <1>8 DEF IsParts, n
    <2>4. v = u
        BY <1>2, <2>3, ConcatEmptySeq
    <2> HIDE DEF part, v
    <2>5. Begun(ms, j) = Begun(ms, i)
        <3>1. ASSUME NEW q \in ms, q.first = i + 1
              PROVE  FALSE
            <4>1. Covers(q, j)
                BY <1>4, <3>1 DEF Covers
            <4>2. q = m
                BY <1>1, <1>8, <4>1, OneCovers
            <4> QED
                BY <1>8, <3>1, <4>2
        <3> QED
            BY <3>1, BegunIs
    <2>6. \A s : GoesOn(ms, j, s) => s = m.last
        <3> SUFFICES ASSUME NEW s, GoesOn(ms, j, s) PROVE s = m.last
            OBVIOUS
        <3>1. PICK q \in ms : Covers(q, j) /\ s = q.last
            BY <1>8 DEF GoesOn
        <3> QED
            BY <1>1, <1>8, <3>1, OneCovers
    <2>7. /\ Labelled(Then(u, t, m.last + 1))
          /\ \A k \in Kinds : Labels(Then(u, t, m.last + 1), k) =
                Labels(t, k) + IF k = kind THEN Cardinality(Begun(ms, j)) ELSE 0
        BY <1>3, <2>1, <2>2, <2>5
    <2> HIDE DEF j
    <2> QED
        BY <1>2, <2>4, <2>6, <2>7 DEF Halfway
<1>9. Halfway(v, ms, t, kind, j)
    BY <1>6, <1>7, <1>8
<1> QED
    BY <1>9

(* A substitution tears no token; it adds one for every match.                *)
LEMMA Substituted ==
    ASSUME NEW kind \in Kinds, NEW t \in Seq(Char), Labelled(t), NEW decimal
    PROVE  /\ Substitute(kind, t, decimal) \in Seq(Char)
           /\ Labelled(Substitute(kind, t, decimal))
           /\ Cardinality(Matches(kind, t)) \in Nat
           /\ \A k \in Kinds : Labels(Substitute(kind, t, decimal), k) =
                 Labels(t, k) + IF k = kind THEN Cardinality(Matches(kind, t)) ELSE 0
<1> DEFINE ms == Matches(kind, t)
           n == Len(t)
<1>1. IsMatches(ms, t)
    BY MatchesAre
<1>2. PICK ps : IsParts(ps, ms, t, kind) /\ Substitute(kind, t, decimal) = FlattenSeq(ps)
    BY SubstituteIs
<1>3. ps \in Seq(Seq(Char)) /\ Len(ps) = n
    BY <1>2 DEF IsParts
<1>4. PICK f : Joins(f, ps, Len(ps)) /\ FlattenSeq(ps) = f[Len(ps)]
    BY <1>3, FlattenJoins
<1>5. n \in Nat
    OBVIOUS
<1> HIDE DEF ms
<1>6. f[0] = <<>> /\ \A i \in 1..n : f[i] = f[i - 1] \o ps[i]
    <2>1. Len(ps) \in Nat
        BY <1>3, <1>5
    <2>2. f[0] = <<>> /\ \A i \in 1..Len(ps) : f[i] = f[i - 1] \o ps[i]
        BY <1>4, <2>1, JoinsUnfolded
    <2> QED
        BY <1>3, <2>2
<1> DEFINE T == {i \in Nat : i <= n => Halfway(f[i], ms, t, kind, i)}
<1>7. 0 \in T
    BY <1>1, <1>6, HalfwayFirst
<1>8. ASSUME NEW i \in Nat, i \in T
      PROVE  i + 1 \in T
    <2> SUFFICES ASSUME i + 1 <= n PROVE Halfway(f[i + 1], ms, t, kind, i + 1)
        OBVIOUS
    <2>1. i <= n /\ i + 1 \in 1..n /\ (i + 1) - 1 = i
        BY <1>5
    <2>2. Halfway(f[i], ms, t, kind, i)
        BY <1>8, <2>1
    <2>3. f[i + 1] = f[i] \o ps[i + 1]
        BY <1>6, <2>1
    <2>4. Halfway(f[i] \o ps[i + 1], ms, t, kind, i + 1)
        BY <1>1, <1>2, <2>2, HalfwayNext
    <2> QED
        BY <2>3, <2>4
<1>9. Halfway(f[n], ms, t, kind, n)
    <2>1. n \in T
        <3> HIDE DEF T
        <3> QED
            BY <1>5, <1>7, <1>8, ForAllNumbers
    <2> QED
        BY <1>5, <2>1
<1>10. f[n] \in Seq(Char)
    BY <1>9 DEF Halfway
<1>11. \A m \in ms : m.first \in 1..n /\ m.last \in m.first .. n
    <2> SUFFICES ASSUME NEW m \in ms PROVE m.first \in 1..n /\ m.last \in m.first .. n
        OBVIOUS
    <2>1. m \in Stretch(n) /\ Matched(t, m.first, m.last)
        BY <1>1 DEF IsMatches
    <2> QED
        BY <2>1 DEF Stretch, Matched
<1>12. GoesOn(ms, n, n)
    <2> SUFFICES ASSUME NEW m \in ms, Covers(m, n) PROVE n = m.last
        BY DEF GoesOn
    <2> QED
        BY <1>5, <1>11 DEF Covers
<1>13. Then(f[n], t, n + 1) = f[n]
    <2>1. Rest(t, n + 1) = <<>>
        <3>1. n + 1 \in Int /\ n \in Int /\ n < n + 1
            BY <1>5
        <3> QED
            BY <3>1, SubSeqEmpty DEF Rest
    <2> QED
        BY <1>10, <2>1, ConcatEmptySeq DEF Then
<1>14. Begun(ms, n) = ms
    BY <1>5, <1>11 DEF Begun
<1>15. Cardinality(ms) \in Nat
    BY <1>1, FS_CardinalityType DEF IsMatches
<1>16. /\ Labelled(f[n])
       /\ \A k \in Kinds : Labels(f[n], k) =
             Labels(t, k) + IF k = kind THEN Cardinality(ms) ELSE 0
    <2>1. n \in n..Len(t)
        BY <1>5
    <2> QED
        BY <1>9, <1>12, <1>13, <1>14, <2>1 DEF Halfway
<1>17. Substitute(kind, t, decimal) = f[n]
    BY <1>2, <1>3, <1>4
<1> QED
    BY <1>10, <1>15, <1>16, <1>17 DEF ms

------------------------------------------------------------------------------
(* The inductive invariant: every label is that of a token, and there are as  *)
(* many of a kind as were counted. Before the first pass there are none.      *)

AuditOK ==
    /\ Labelled(text)
    /\ \A kind \in Kinds : Labels(text, kind) = events[kind]
    /\ passes = 0 => todo = <<>> /\ text = original /\ \A kind \in Kinds : events[kind] = 0

IInv == TypeOK /\ AuditOK

Written == Char \ ({"<", ">"} \cup Kinds)

LEMMA WrittenUnlabelled ==
    ASSUME NEW t \in Seq(Written)
    PROVE  /\ t \in Seq(Char) /\ Labelled(t)
           /\ \A kind \in Kinds : Labels(t, kind) = 0
<1>1. \A i \in 1..Len(t) : t[i] \in Written
    BY ElementOfSeq
<1>2. t \in Seq(Char)
    <2>1. Written \subseteq Char
        BY DEF Written
    <2> QED
        BY <2>1, SeqMonotonic
<1>3. \A i \in 1..Len(t) : t[i] \notin Kinds /\ t[i] # "<"
    BY <1>1 DEF Written
<1>4. Labelled(t)
    BY <1>3 DEF Labelled
<1>5. ASSUME NEW kind \in Kinds
      PROVE  Labels(t, kind) = 0
    <2>1. \A i \in 1..Len(t) : t[i] # kind
        BY <1>3
    <2> QED
        BY <1>2, <2>1, LabelsNone
<1> QED
    BY <1>2, <1>4, <1>5

(* What is still to do is the end of DETECTORS from some detector on.         *)
LEMMA Detectors ==
    /\ DETECTORS \in Seq(Kinds) /\ Len(DETECTORS) = 3
    /\ SubSeq(DETECTORS, 1, 3) = DETECTORS /\ SubSeq(DETECTORS, 4, 3) = <<>>
    /\ \A i \in 1..3 :
          /\ SubSeq(DETECTORS, i, 3) # <<>>
          /\ Head(SubSeq(DETECTORS, i, 3)) \in Kinds
          /\ Tail(SubSeq(DETECTORS, i, 3)) = SubSeq(DETECTORS, i + 1, 3)
<1> DEFINE ds == DETECTORS
<1>1. ds \in Seq(Kinds) /\ Len(ds) = 3
    BY DEF DETECTORS, Kinds
<1> HIDE DEF ds
<1>2. SubSeq(ds, 1, 3) = ds
    BY <1>1, SubSeqFull
<1>3. SubSeq(ds, 4, 3) = <<>>
    BY SubSeqEmpty
<1>4. ASSUME NEW i \in 1..3
      PROVE  /\ SubSeq(ds, i, 3) # <<>>
             /\ Head(SubSeq(ds, i, 3)) \in Kinds
             /\ Tail(SubSeq(ds, i, 3)) = SubSeq(ds, i + 1, 3)
    <2>1. i \in 1..Len(ds) /\ 3 \in i..Len(ds) /\ i \in Int /\ 3 \in Int /\ i <= 3
        BY <1>1
    <2>2. Head(SubSeq(ds, i, 3)) = ds[i] /\ Tail(SubSeq(ds, i, 3)) = SubSeq(ds, i + 1, 3)
        BY <1>1, <2>1, HeadTailOfSubSeq
    <2>3. ds[i] \in Kinds
        BY <1>1, <2>1, ElementOfSeq
    <2>4. SubSeq(ds, i, 3) # <<>>
        <3>1. \A j \in i..3 : ds[j] \in Kinds
            BY <1>1, ElementOfSeq
        <3>2. Len(SubSeq(ds, i, 3)) = 3 - i + 1
            BY <2>1, <3>1, SubSeqProperties
        <3>3. Len(<<>>) = 0 /\ 3 - i + 1 # 0
            BY EmptySeq
        <3> QED
            BY <3>2, <3>3
    <2> QED
        BY <2>2, <2>3, <2>4
<1> QED
    BY <1>1, <1>2, <1>3, <1>4 DEF ds

LEMMA Bounds == MaxPieces \in Nat /\ MaxPasses \in Nat
BY RedactionAssumption

LEMMA IInvInit == Init => IInv
<1> SUFFICES ASSUME Init PROVE IInv
    OBVIOUS
<1>1. text \in Seq(Written) /\ text = original
    BY DEF Init
<1>2. text \in Seq(Char) /\ Labelled(text) /\ \A kind \in Kinds : Labels(text, kind) = 0
    BY <1>1, WrittenUnlabelled
<1>3. TypeOK
    <2>1. todo \in {SubSeq(DETECTORS, i, 3) : i \in 1..4}
        BY Detectors DEF Init
    <2>2. /\ size \in 0..MaxPieces /\ passes \in 0..MaxPasses
          /\ events \in [Kinds -> Nat]
        BY Bounds DEF Init
    <2> QED
        BY <1>1, <1>2, <2>1, <2>2 DEF TypeOK, Written
<1>4. AuditOK
    BY <1>1, <1>2 DEF Init, AuditOK
<1> QED
    BY <1>3, <1>4 DEF IInv

LEMMA IInvNext == IInv /\ [Next]_vars => IInv'
<1> SUFFICES ASSUME IInv, [Next]_vars PROVE IInv'
    OBVIOUS
<1>1. /\ original \in Seq(Written) /\ size \in 0..MaxPieces /\ text \in Seq(Char)
      /\ todo \in {SubSeq(DETECTORS, i, 3) : i \in 1..4}
      /\ passes \in 0..MaxPasses /\ events \in [Kinds -> Nat]
    BY DEF IInv, TypeOK, Written
<1>2. /\ Labelled(text) /\ \A kind \in Kinds : Labels(text, kind) = events[kind]
      /\ passes = 0 => todo = <<>> /\ text = original /\ \A kind \in Kinds : events[kind] = 0
    BY DEF IInv, AuditOK
<1>3. CASE Writes
    <2>1. PICK p \in Pieces : original' = original \o p
        BY <1>3 DEF Writes
    <2>2. p \in Seq(Written)
        <3>1. (Word \ Kinds) \cup PhoneChars \cup {"+", "@", ","} \subseteq Written
            BY DEF Written, Char, Word, Kinds, PhoneChars
        <3>2. p \in Seq((Word \ Kinds) \cup PhoneChars \cup {"+", "@", ","})
            BY RedactionAssumption
        <3> QED
            BY <3>1, <3>2, SeqMonotonic
    <2>3. original' \in Seq(Written)
        BY <1>1, <2>1, <2>2, ConcatProperties
    <2>4. text' = original' /\ UNCHANGED <<todo, passes, events>> /\ passes = 0
        BY <1>3 DEF Writes
    <2>5. /\ text' \in Seq(Char) /\ Labelled(text')
          /\ \A kind \in Kinds : Labels(text', kind) = 0
        BY <2>3, <2>4, WrittenUnlabelled
    <2>6. size' \in 0..MaxPieces
        BY <1>1, <1>3, Bounds DEF Writes
    <2>7. TypeOK'
        BY <1>1, <2>3, <2>4, <2>5, <2>6 DEF TypeOK, Written
    <2>8. AuditOK'
        BY <1>2, <2>4, <2>5 DEF AuditOK
    <2> QED
        BY <2>7, <2>8 DEF IInv
<1>4. CASE StartsPass
    <2>1. /\ todo' = DETECTORS /\ passes' = passes + 1 /\ passes < MaxPasses
          /\ UNCHANGED <<original, size, text, events>>
        BY <1>4 DEF StartsPass
    <2>2. todo' \in {SubSeq(DETECTORS, i, 3) : i \in 1..4}
        BY <2>1, Detectors
    <2>3. passes' \in 0..MaxPasses /\ passes' # 0
        BY <1>1, <2>1, Bounds
    <2>4. TypeOK'
        BY <1>1, <2>1, <2>2, <2>3 DEF TypeOK, Written
    <2>5. AuditOK'
        BY <1>2, <2>1, <2>3 DEF AuditOK
    <2> QED
        BY <2>4, <2>5 DEF IInv
<1>5. CASE Detects
    <2> DEFINE kind == Head(todo)
               found == Matches(kind, text)
    <2>1. /\ todo # <<>> /\ todo' = Tail(todo)
          /\ \E decimal \in SUBSET found : text' = Substitute(kind, text, decimal)
          /\ events' = [events EXCEPT ![kind] = @ + Cardinality(found)]
          /\ UNCHANGED <<original, size, passes>>
        BY <1>5 DEF Detects, Remaining
    <2>2. PICK i \in 1..4 : todo = SubSeq(DETECTORS, i, 3)
        BY <1>1
    <2>3. i \in 1..3
        <3>1. i # 4
            BY <2>1, <2>2, Detectors
        <3> QED
            BY <3>1
    <2>4. kind \in Kinds /\ todo' \in {SubSeq(DETECTORS, k, 3) : k \in 1..4}
        <3>1. kind \in Kinds /\ todo' = SubSeq(DETECTORS, i + 1, 3)
            BY <2>1, <2>2, <2>3, Detectors
        <3>2. i + 1 \in 1..4
            BY <2>3
        <3> QED
            BY <3>1, <3>2
    <2>5. PICK decimal \in SUBSET found : text' = Substitute(kind, text, decimal)
        BY <2>1
    <2>6. passes # 0
        BY <1>2, <2>1
    <2> HIDE DEF kind
    <2>7. /\ text' \in Seq(Char) /\ Labelled(text') /\ Cardinality(found) \in Nat
          /\ \A k \in Kinds : Labels(text', k) =
                Labels(text, k) + IF k = kind THEN Cardinality(found) ELSE 0
        BY <1>1, <1>2, <2>4, <2>5, Substituted
    <2> HIDE DEF found
    <2>8. events' \in [Kinds -> Nat]
          /\ \A k \in Kinds : events'[k] =
                events[k] + IF k = kind THEN Cardinality(found) ELSE 0
        <3>1. events[kind] + Cardinality(found) \in Nat
            BY <1>1, <2>4, <2>7
        <3>2. \A k \in Kinds : events[k] = events[k] + 0
            BY <1>1
        <3> QED
            BY <1>1, <2>1, <2>4, <3>1, <3>2
    <2>9. TypeOK'
        BY <1>1, <2>1, <2>4, <2>7, <2>8 DEF TypeOK, Written
    <2>10. \A k \in Kinds : Labels(text', k) = events'[k]
        BY <1>2, <2>7, <2>8
    <2>11. AuditOK'
        BY <2>1, <2>6, <2>7, <2>10 DEF AuditOK
    <2> QED
        BY <2>9, <2>11 DEF IInv
<1>6. CASE UNCHANGED vars
    BY <1>6 DEF IInv, TypeOK, AuditOK, vars
<1> QED
    BY <1>3, <1>4, <1>5, <1>6 DEF Next

(* The inductive invariant holds in every reachable state.                    *)
THEOREM Invariant == Spec => []IInv
BY IInvInit, IInvNext, PTL DEF Spec

(* The types of the loop of redact_text (redaction/redactor.py:26-40), for    *)
(* texts, hashes and passes of any number.                                    *)
THEOREM TypeCorrect == Spec => []TypeOK
<1>1. IInv => TypeOK
    BY DEF IInv
<1> QED
    BY <1>1, Invariant, PTL

------------------------------------------------------------------------------
(* What the audit log says of the text.                                       *)

LEMMA LabelsCount ==
    ASSUME NEW t \in Seq(Char), NEW kind \in Kinds
    PROVE  /\ Cardinality({i \in 1..Len(t) : t[i] = kind}) = Labels(t, kind)
           /\ Labels(t, kind) > 0 <=> \E i \in 1..Len(t) : t[i] = kind
<1> DEFINE C == {i \in 1..Len(t) : t[i] = kind}
<1>1. PICK p : IsPositions(p, t, {kind})
    BY FilteredPositions
<1>2. /\ p \in Seq(Nat) /\ Rising(p) /\ Len(p) = Labels(t, kind)
      /\ Contents(p) = {i \in 1..Len(t) : t[i] \in {kind}}
    BY <1>1 DEF IsPositions, Labels
<1>3. Contents(p) = C
    BY <1>2
<1>4. NoRepeats(p)
    <2> SUFFICES ASSUME NEW i \in 1..Len(p), NEW j \in 1..Len(p), i # j PROVE p[i] # p[j]
        BY DEF NoRepeats
    <2>1. i < j \/ j < i
        OBVIOUS
    <2>2. p[i] \in Nat /\ p[j] \in Nat
        BY <1>2, ElementOfSeq
    <2>3. p[i] < p[j] \/ p[j] < p[i]
        BY <1>2, <2>1 DEF Rising
    <2> QED
        BY <2>2, <2>3
<1> HIDE DEF C
<1>5. IsFiniteSet(C) /\ Cardinality(C) = Labels(t, kind)
    BY <1>2, <1>3, <1>4, CountsElements
<1>6. Labels(t, kind) > 0 <=> C # {}
    <2>1. Cardinality(C) = 0 <=> C = {}
        BY <1>5, FS_EmptySet
    <2>2. Labels(t, kind) \in Nat
        BY LabelsConcat
    <2> QED
        BY <1>5, <2>1, <2>2
<1> QED
    BY <1>5, <1>6 DEF C

(* A token that a text has at i.                                              *)
LEMMA OccursAt ==
    ASSUME NEW t \in Seq(Char), NEW i \in 1..Len(t), NEW s \in Seq(Char), Len(s) >= 1
    PROVE  Occurs(s, t, i) <=>
              /\ i + Len(s) - 1 <= Len(t)
              /\ \A k \in 1..Len(s) : t[i + k - 1] = s[k]
<1> DEFINE l == Len(s)
           n == Len(t)
           u == SubSeq(t, i, i + l - 1)
<1>1. l \in Nat /\ n \in Nat /\ i \in 1..n /\ l >= 1
    OBVIOUS
<1>2. Occurs(s, t, i) <=> i + l - 1 <= n /\ u = s
    BY DEF Occurs
<1>3. ASSUME i + l - 1 <= n
      PROVE  /\ u \in Seq(Char) /\ Len(u) = l
             /\ \A k \in 1..l : u[k] = t[i + k - 1]
    <2>1. \A k \in i .. i + l - 1 : t[k] \in Char
        <3>1. \A k \in i .. i + l - 1 : k \in 1..n
            BY <1>1, <1>3
        <3> QED
            BY <3>1, ElementOfSeq
    <2> DEFINE e == i + l - 1
    <2>2. i \in Int /\ e \in Int /\ i <= e /\ e - i + 1 = l
        BY <1>1
    <2> HIDE DEF e, l
    <2>3. /\ SubSeq(t, i, e) \in Seq(Char) /\ Len(SubSeq(t, i, e)) = e - i + 1
          /\ \A k \in 1 .. e - i + 1 : SubSeq(t, i, e)[k] = t[i + k - 1]
        BY <2>1, <2>2, SubSeqProperties DEF e
    <2> QED
        BY <2>2, <2>3 DEF e
<1> HIDE DEF u
<1>4. ASSUME i + l - 1 <= n
      PROVE  u = s <=> \A k \in 1..l : t[i + k - 1] = s[k]
    <2>1. ASSUME \A k \in 1..l : t[i + k - 1] = s[k]
          PROVE  u = s
        <3>1. Len(u) = Len(s) /\ \A k \in 1..Len(u) : u[k] = s[k]
            BY <1>3, <1>4, <2>1
        <3> QED
            BY <1>3, <1>4, <3>1, SeqEqual
    <2>2. ASSUME u = s
          PROVE  \A k \in 1..l : t[i + k - 1] = s[k]
        BY <1>3, <1>4, <2>2
    <2> QED
        BY <2>1, <2>2
<1> QED
    BY <1>2, <1>4

(* The last label of a text is that of a token whose hash is as it was made.  *)
LEMMA LastLabel ==
    ASSUME NEW t \in Seq(Char), Labelled(t), NEW j \in 1..Len(t), t[j] \in Kinds,
           \A k \in j + 1 .. Len(t) : t[k] \notin Kinds
    PROVE  TokenAt(t, j - 1)
<1> DEFINE n == Len(t)
           i == j - 1
<1>1. n \in Nat /\ j \in Int /\ "" \notin Kinds
    BY DEF Kinds
<1>2. At(t, i) = "<" /\ Followed(t, j)
    BY DEF Labelled
<1>3. i \in 1..n /\ t[i] = "<"
    BY <1>2, AtOut
<1>4. At(t, j + 1) # "<"
    <2> SUFFICES ASSUME At(t, j + 1) = "<" PROVE FALSE
        OBVIOUS
    <2>1. j + 1 \in 1..n /\ t[j + 1] = "<"
        BY AtOut
    <2>2. At(t, (j + 1) + 1) \in Kinds
        BY <2>1 DEF Labelled
    <2>3. (j + 1) + 1 \in 1..n /\ t[(j + 1) + 1] \in Kinds
        BY <1>1, <2>2, AtOut
    <2>4. (j + 1) + 1 \in j + 1 .. n
        <3>1. (j + 1) + 1 \in 1..n
            BY <2>3
        <3>2. n \in Nat /\ j \in Int
            BY <1>1
        <3> HIDE DEF n
        <3> QED
            BY <3>1, <3>2
    <2> QED
        BY <2>3, <2>4
<1>5. ASSUME At(t, j + 1) = "a", At(t, j + 2) = ">"
      PROVE  Occurs(Token(t[j], FALSE), t, i)
    <2> DEFINE tok == Token(t[j], FALSE)
    <2>1. j + 2 \in 1..n /\ t[j + 1] = "a" /\ t[j + 2] = ">"
        BY <1>5, AtOut
    <2>2. IsToken(tok, t[j]) /\ HasHash(tok, FALSE)
        BY TokenIs
    <2> HIDE DEF tok
    <2>3. /\ tok \in Seq(Char) /\ Len(tok) = 4
          /\ tok[1] = "<" /\ tok[2] = t[j] /\ tok[3] = "a" /\ tok[4] = ">"
        BY <2>2 DEF IsToken, HasHash
    <2>4. /\ i + 4 - 1 <= n
          /\ i + 1 - 1 = i /\ i + 2 - 1 = j /\ i + 3 - 1 = j + 1 /\ i + 4 - 1 = j + 2
        <3>1. n \in Nat /\ j \in Int /\ j + 2 \in 1..n
            BY <1>1, <2>1
        <3> HIDE DEF n
        <3> QED
            BY <3>1
    <2>5. \A k \in 1..4 : t[i + k - 1] = tok[k]
        <3>1. \A k \in 1..4 : k = 1 \/ k = 2 \/ k = 3 \/ k = 4
            OBVIOUS
        <3> HIDE DEF i
        <3>2. /\ t[i + 1 - 1] = tok[1] /\ t[i + 2 - 1] = tok[2]
              /\ t[i + 3 - 1] = tok[3] /\ t[i + 4 - 1] = tok[4]
            BY <1>3, <2>1, <2>3, <2>4
        <3> QED
            BY <3>1, <3>2
    <2> HIDE DEF i
    <2>6. Len(tok) >= 1 /\ i + Len(tok) - 1 <= n /\ \A k \in 1..Len(tok) : t[i + k - 1] = tok[k]
        BY <2>3, <2>4, <2>5
    <2>7. Occurs(tok, t, i)
        BY <1>3, <2>3, <2>6, OccursAt
    <2> QED
        BY <2>7 DEF tok
<1>6. ASSUME \A k \in 1..8 : At(t, j + k) = "1", At(t, j + 9) = ">"
      PROVE  Occurs(Token(t[j], TRUE), t, i)
    <2> DEFINE tok == Token(t[j], TRUE)
    <2>1. j + 9 \in 1..n /\ t[j + 9] = ">"
        BY <1>6, AtOut
    <2>2. \A k \in 1..8 : t[j + k] = "1"
        <3> SUFFICES ASSUME NEW k \in 1..8 PROVE t[j + k] = "1"
            OBVIOUS
        <3>1. At(t, j + k) = "1"
            BY <1>6
        <3> QED
            BY <3>1, AtOut
    <2>3. IsToken(tok, t[j]) /\ HasHash(tok, TRUE)
        BY TokenIs
    <2> HIDE DEF tok
    <2>4. /\ tok \in Seq(Char) /\ Len(tok) = 11
          /\ tok[1] = "<" /\ tok[2] = t[j] /\ tok[11] = ">"
          /\ \A k \in 3..10 : tok[k] = "1"
        BY <2>3 DEF IsToken, HasHash
    <2>5. /\ i + 11 - 1 <= n
          /\ i + 1 - 1 = i /\ i + 2 - 1 = j /\ i + 11 - 1 = j + 9
          /\ \A k \in 3..10 : i + k - 1 = j + (k - 2) /\ k - 2 \in 1..8
        <3>1. n \in Nat /\ j \in Int /\ j + 9 \in 1..n
            BY <1>1, <2>1
        <3> HIDE DEF n
        <3> QED
            BY <3>1
    <2>6. \A k \in 1..11 : t[i + k - 1] = tok[k]
        <3>1. \A k \in 1..11 : k = 1 \/ k = 2 \/ k = 11 \/ k \in 3..10
            OBVIOUS
        <3> HIDE DEF i
        <3>2. t[i + 1 - 1] = tok[1] /\ t[i + 2 - 1] = tok[2] /\ t[i + 11 - 1] = tok[11]
            BY <1>3, <2>1, <2>4, <2>5
        <3>3. \A k \in 3..10 : t[i + k - 1] = tok[k]
            BY <2>2, <2>4, <2>5
        <3> QED
            BY <3>1, <3>2, <3>3
    <2> HIDE DEF i
    <2>7. Len(tok) >= 1 /\ i + Len(tok) - 1 <= n /\ \A k \in 1..Len(tok) : t[i + k - 1] = tok[k]
        BY <2>4, <2>5, <2>6
    <2>8. Occurs(tok, t, i)
        BY <1>3, <2>4, <2>7, OccursAt
    <2> QED
        BY <2>8 DEF tok
<1>7. Occurs(Token(t[j], FALSE), t, i) \/ Occurs(Token(t[j], TRUE), t, i)
    BY <1>2, <1>4, <1>5, <1>6 DEF Followed
<1> QED
    BY <1>7 DEF TokenAt

LEMMA TokensLabelled ==
    ASSUME NEW t \in Seq(Char), Labelled(t)
    PROVE  (\E kind \in Kinds : Labels(t, kind) > 0) <=> \E i \in 1..Len(t) : TokenAt(t, i)
<1> DEFINE n == Len(t)
<1>1. n \in Nat
    OBVIOUS
<1>2. ASSUME NEW kind \in Kinds, Labels(t, kind) > 0
      PROVE  \E i \in 1..n : TokenAt(t, i)
    <2> DEFINE T == {i \in 0..n : i \in 1..n /\ t[i] \in Kinds}
    <2>1. T \in SUBSET (0..n) /\ T # {}
        <3>1. PICK i \in 1..n : t[i] = kind
            BY <1>2, LabelsCount
        <3>2. i \in T
            BY <1>1, <3>1
        <3> QED
            BY <3>2
    <2>2. Max(T) \in T /\ \A k \in T : k <= Max(T)
        <3> HIDE DEF T
        <3> QED
            BY <1>1, <2>1, MaxIs
    <2> DEFINE j == Max(T)
    <2> HIDE DEF T
    <2>3. j \in 1..n /\ t[j] \in Kinds
        BY <2>2 DEF T
    <2>4. \A k \in j + 1 .. n : t[k] \notin Kinds
        <3> SUFFICES ASSUME NEW k \in j + 1 .. n, t[k] \in Kinds PROVE FALSE
            OBVIOUS
        <3>1. k \in 0..n /\ k \in 1..n /\ ~(k <= j)
            BY <1>1, <2>3
        <3>2. k \in T
            BY <3>1 DEF T
        <3> QED
            BY <2>2, <3>1, <3>2
    <2> HIDE DEF j
    <2>5. TokenAt(t, j - 1)
        BY <2>3, <2>4, LastLabel
    <2>6. j - 1 \in 1..n
        <3>1. At(t, j - 1) = "<"
            BY <2>3 DEF Labelled
        <3> QED
            BY <3>1, AtOut
    <2> QED
        BY <2>5, <2>6
<1>3. ASSUME NEW i \in 1..n, TokenAt(t, i)
      PROVE  \E kind \in Kinds : Labels(t, kind) > 0
    <2>1. PICK kind \in Kinds, decimal \in BOOLEAN : Occurs(Token(kind, decimal), t, i)
        BY <1>3 DEF TokenAt
    <2> DEFINE tok == Token(kind, decimal)
    <2>2. tok \in Seq(Char) /\ Len(tok) \in Nat /\ Len(tok) >= 4 /\ tok[2] = kind
        BY TokenIs DEF IsToken
    <2> HIDE DEF tok
    <2>3. /\ i + Len(tok) - 1 <= n
          /\ \A k \in 1..Len(tok) : t[i + k - 1] = tok[k]
        <3>1. Occurs(tok, t, i) /\ Len(tok) >= 1
            BY <2>1, <2>2 DEF tok
        <3> QED
            BY <2>2, <3>1, OccursAt
    <2>4. i + 1 \in 1..n /\ 2 \in 1..Len(tok) /\ i + 2 - 1 = i + 1
        BY <1>1, <2>2, <2>3
    <2>5. t[i + 1] = kind
        BY <2>2, <2>3, <2>4
    <2> QED
        BY <2>4, <2>5, LabelsCount
<1> QED
    BY <1>2, <1>3

(* The audit log has as many tokens of each kind as the text, and the diff    *)
(* suspects redaction exactly when the log has one (redaction/redactor.py:    *)
(* 26-40, replay/diff.py:32, 85-87), however many detectors and passes have   *)
(* rewritten one another's tokens.                                            *)
THEOREM AuditAgrees == Spec => []AuditMatches
<1>1. ASSUME IInv PROVE AuditMatches
    <2>1. text \in Seq(Char) /\ Labelled(text)
          /\ \A kind \in Kinds : Labels(text, kind) = events[kind]
        BY <1>1 DEF IInv, TypeOK, AuditOK
    <2>2. \A kind \in Kinds :
             Cardinality({i \in 1..Len(text) : text[i] = kind}) = events[kind]
        BY <2>1, LabelsCount
    <2>3. (\E kind \in Kinds : Labels(text, kind) > 0)
             <=> \E i \in 1..Len(text) : TokenAt(text, i)
        BY <2>1, TokensLabelled
    <2> QED
        BY <2>1, <2>2, <2>3 DEF AuditMatches
<1> QED
    BY <1>1, Invariant, PTL
==============================================================================
