------------------------ MODULE TrajectoryDiffProofs -------------------------
(* What is proved of the trajectory diff for trajectories of any length and   *)
(* any calls: its types, that its verdict claims neither more nor less than   *)
(* the two trajectories show, that it does not depend on their order, and     *)
(* that a divergence, once established, stays.                                *)
EXTENDS TrajectoryDiff, SubsequenceLemmas

------------------------------------------------------------------------------
(* The decisions of a sequence of steps.                                      *)

Decision == {CallStep(k, token) : k \in Keys, token \in BOOLEAN} \cup {FinalStep}

LEMMA StepKinds ==
    ASSUME NEW s \in StepType
    PROVE  /\ IsDecision(s) => s \in Decision
           /\ s.kind \in {"tool_call", "tool_result", "final"}
           /\ s.kind = "final" => s = FinalStep
BY DEF StepType, Decision, IsDecision, CallStep, ResultStep, FinalStep

LEMMA DecisionKeys ==
    ASSUME NEW s \in Decision
    PROVE  s.key \in Keys \cup {FinalKey} /\ s.key # NoKey
BY DiffAssumption DEF Decision, CallStep, FinalStep

One(s) == IF IsDecision(s) THEN <<s>> ELSE <<>>

(* f collects the decisions of the first m steps of seq.                      *)
Collects(f, seq, m) ==
    f = [i \in 0..m |-> IF i = 0 THEN <<>> ELSE f[i - 1] \o One(seq[i])]

LEMMA Unfolded ==
    ASSUME NEW f, NEW seq, NEW m, Collects(f, seq, m)
    PROVE  \A i \in 0..m : f[i] = IF i = 0 THEN <<>> ELSE f[i - 1] \o One(seq[i])
<1> DEFINE h == [i \in 0..m |-> IF i = 0 THEN <<>> ELSE f[i - 1] \o One(seq[i])]
<1>1. f = h
    BY DEF Collects
<1>2. \A i \in 0..m : h[i] = IF i = 0 THEN <<>> ELSE f[i - 1] \o One(seq[i])
    OBVIOUS
<1> HIDE DEF h
<1> QED
    BY <1>1, <1>2

LEMMA Collected ==
    ASSUME NEW seq, Len(seq) \in Nat
    PROVE  \E f : Collects(f, seq, Len(seq))
<1> DEFINE T == {n \in Nat : \E f : Collects(f, seq, n)}
<1>1. 0 \in T
    <2> DEFINE f == [i \in 0..0 |-> <<>>]
    <2>1. Collects(f, seq, 0)
        BY DEF Collects
    <2> QED
        BY <2>1
<1>2. ASSUME NEW n \in Nat, n \in T
      PROVE  n + 1 \in T
    <2>1. PICK f : Collects(f, seq, n)
        BY <1>2
    <2> DEFINE g == [i \in 0 .. n + 1 |-> IF i <= n THEN f[i] ELSE f[n] \o One(seq[n + 1])]
    <2>2. ASSUME NEW i \in 0 .. n + 1
          PROVE  g[i] = IF i = 0 THEN <<>> ELSE g[i - 1] \o One(seq[i])
        <3>1. CASE i = 0
            BY <2>1, <3>1, Unfolded
        <3>2. CASE i \in 1..n
            <4>1. g[i] = f[i] /\ g[i - 1] = f[i - 1] /\ i # 0
                BY <3>2
            <4>2. \A j \in 0..n : f[j] = IF j = 0 THEN <<>> ELSE f[j - 1] \o One(seq[j])
                BY <2>1, Unfolded
            <4>3. i \in 0..n /\ i # 0
                BY <3>2
            <4>4. f[i] = f[i - 1] \o One(seq[i])
                BY <4>2, <4>3
            <4> HIDE DEF g
            <4> QED
                BY <4>1, <4>4
        <3>3. CASE i = n + 1
            BY <3>3
        <3> QED
            BY <3>1, <3>2, <3>3
    <2>3. Collects(g, seq, n + 1)
        BY <2>2 DEF Collects
    <2> HIDE DEF g
    <2> QED
        BY <2>3
<1>3. Len(seq) \in T
    <2> HIDE DEF T
    <2> QED
        BY <1>1, <1>2, ForAllNumbers
<1> QED
    BY <1>3

LEMMA UpTo ==
    ASSUME NEW t, Len(t.steps) \in Nat
    PROVE  /\ DecisionsUpTo(t, 0) = <<>>
           /\ \A n \in 0 .. Len(t.steps) - 1 :
                 DecisionsUpTo(t, n + 1) = DecisionsUpTo(t, n) \o One(t.steps[n + 1])
<1> DEFINE f == CHOOSE f : Collects(f, t.steps, Len(t.steps))
<1>1. Collects(f, t.steps, Len(t.steps))
    BY Collected
<1>2. \A n : DecisionsUpTo(t, n) = f[n]
    BY DEF DecisionsUpTo, Collects, One
<1> HIDE DEF f
<1>3. \A i \in 0..Len(t.steps) :
          f[i] = IF i = 0 THEN <<>> ELSE f[i - 1] \o One(t.steps[i])
    BY <1>1, Unfolded
<1>4. f[0] = <<>>
    BY <1>3
<1>5. ASSUME NEW n \in 0 .. Len(t.steps) - 1
      PROVE  f[n + 1] = f[n] \o One(t.steps[n + 1])
    <2>1. PICK i \in 0..Len(t.steps) : i = n + 1 /\ i # 0 /\ i - 1 = n
        OBVIOUS
    <2>2. f[i] = f[i - 1] \o One(t.steps[i])
        BY <1>3, <2>1
    <2> QED
        BY <2>1, <2>2
<1> QED
    BY <1>2, <1>4, <1>5

LEMMA UpToType ==
    ASSUME NEW t, t.steps \in Seq(StepType)
    PROVE  \A i \in 0..Len(t.steps) : DecisionsUpTo(t, i) \in Seq(Decision)
<1> DEFINE T == {n \in Nat : n <= Len(t.steps) => DecisionsUpTo(t, n) \in Seq(Decision)}
<1>1. Len(t.steps) \in Nat /\ \A i \in 1..Len(t.steps) : t.steps[i] \in StepType
    BY ElementOfSeq
<1>2. 0 \in T
    <2>1. DecisionsUpTo(t, 0) = <<>> /\ <<>> \in Seq(Decision)
        BY <1>1, UpTo
    <2> QED
        BY <2>1
<1>3. ASSUME NEW n \in Nat, n \in T
      PROVE  n + 1 \in T
    <2> SUFFICES ASSUME n + 1 <= Len(t.steps)
                 PROVE  DecisionsUpTo(t, n + 1) \in Seq(Decision)
        OBVIOUS
    <2>1. DecisionsUpTo(t, n) \in Seq(Decision)
        BY <1>1, <1>3
    <2>2. n \in 0 .. Len(t.steps) - 1 /\ n + 1 \in 1..Len(t.steps)
        BY <1>1
    <2>3. One(t.steps[n + 1]) \in Seq(Decision)
        BY <1>1, <2>2, StepKinds DEF One
    <2>4. DecisionsUpTo(t, n + 1) = DecisionsUpTo(t, n) \o One(t.steps[n + 1])
        BY <1>1, <2>2, UpTo
    <2> QED
        BY <2>1, <2>3, <2>4, ConcatProperties
<1>4. Nat \subseteq T
    <2> HIDE DEF T
    <2> QED
        BY <1>2, <1>3, ForAllNumbers
<1> QED
    BY <1>1, <1>4

LEMMA DecisionsType ==
    ASSUME NEW t, t.steps \in Seq(StepType)
    PROVE  /\ Decisions(t) \in Seq(Decision)
           /\ Len(Decisions(t)) \in Nat
           /\ \A i \in 1..Len(Decisions(t)) : Decisions(t)[i] \in Decision
<1>1. Decisions(t) \in Seq(Decision)
    BY UpToType DEF Decisions
<1> QED
    BY <1>1, ElementOfSeq

(* The decisions are the steps that are one, in their order.                  *)
LEMMA DecisionsFiltered ==
    ASSUME NEW t, Len(t.steps) \in Nat, NEW S,
           \A i \in 1..Len(t.steps) : t.steps[i] \in S <=> IsDecision(t.steps[i])
    PROVE  Decisions(t) = Filtered(t.steps, S)
<1> DEFINE seq == t.steps
           m == Len(seq)
<1>1. PICK f : Joins(f, Parts(seq, S), m) /\ Filtered(seq, S) = f[m]
    BY FilteredJoins
<1>2. f[0] = <<>> /\ \A i \in 1..m : f[i] = f[i - 1] \o Parts(seq, S)[i]
    BY <1>1, JoinsUnfolded
<1>3. \A i \in 1..m : Parts(seq, S)[i] = One(seq[i])
    BY DEF Parts, Part, One
<1> DEFINE T == {n \in Nat : n <= m => DecisionsUpTo(t, n) = f[n]}
<1>4. 0 \in T
    BY <1>2, UpTo
<1>5. ASSUME NEW n \in Nat, n \in T
      PROVE  n + 1 \in T
    <2> SUFFICES ASSUME n + 1 <= m
                 PROVE  DecisionsUpTo(t, n + 1) = f[n + 1]
        OBVIOUS
    <2>1. PICK i \in 1..m : i = n + 1 /\ i - 1 = n
        OBVIOUS
    <2>2. f[i] = f[i - 1] \o One(seq[i])
        BY <1>2, <1>3, <2>1
    <2>3. n \in 0 .. m - 1 /\ DecisionsUpTo(t, n) = f[n]
        BY <1>5
    <2>4. DecisionsUpTo(t, n + 1) = DecisionsUpTo(t, n) \o One(seq[n + 1])
        BY <2>3, UpTo
    <2> QED
        BY <2>1, <2>2, <2>3, <2>4
<1>6. m \in T
    <2> HIDE DEF T
    <2> QED
        BY <1>4, <1>5, ForAllNumbers
<1> QED
    BY <1>1, <1>6 DEF Decisions

(* A trajectory that grows keeps its decisions.                               *)
LEMMA UpToGrows ==
    ASSUME NEW t, t.steps \in Seq(StepType), NEW s \in StepType,
           NEW u, u.steps = Append(t.steps, s)
    PROVE  /\ u.steps \in Seq(StepType) /\ Len(u.steps) = Len(t.steps) + 1
           /\ \A i \in 0..Len(t.steps) : DecisionsUpTo(u, i) = DecisionsUpTo(t, i)
           /\ Decisions(u) = Decisions(t) \o One(s)
<1>1. /\ u.steps \in Seq(StepType) /\ Len(t.steps) \in Nat /\ Len(u.steps) = Len(t.steps) + 1
      /\ u.steps[Len(t.steps) + 1] = s
      /\ \A i \in 1..Len(t.steps) : u.steps[i] = t.steps[i]
    OBVIOUS
<1>2. /\ DecisionsUpTo(u, 0) = <<>> /\ DecisionsUpTo(t, 0) = <<>>
      /\ \A n \in 0 .. Len(u.steps) - 1 :
            DecisionsUpTo(u, n + 1) = DecisionsUpTo(u, n) \o One(u.steps[n + 1])
      /\ \A n \in 0 .. Len(t.steps) - 1 :
            DecisionsUpTo(t, n + 1) = DecisionsUpTo(t, n) \o One(t.steps[n + 1])
    <2>1. Len(u.steps) \in Nat /\ Len(t.steps) \in Nat
        BY <1>1
    <2> QED
        BY <2>1, UpTo
<1> DEFINE T == {n \in Nat : n <= Len(t.steps) => DecisionsUpTo(u, n) = DecisionsUpTo(t, n)}
<1>3. 0 \in T
    BY <1>2
<1>4. ASSUME NEW n \in Nat, n \in T
      PROVE  n + 1 \in T
    <2> SUFFICES ASSUME n + 1 <= Len(t.steps)
                 PROVE  DecisionsUpTo(u, n + 1) = DecisionsUpTo(t, n + 1)
        OBVIOUS
    <2>1. DecisionsUpTo(u, n) = DecisionsUpTo(t, n)
        BY <1>1, <1>4
    <2>2. /\ n \in 0 .. Len(t.steps) - 1 /\ n \in 0 .. Len(u.steps) - 1
          /\ n + 1 \in 1..Len(t.steps)
        BY <1>1
    <2>3. DecisionsUpTo(u, n + 1) = DecisionsUpTo(u, n) \o One(u.steps[n + 1])
        BY <1>2, <2>2
    <2>4. DecisionsUpTo(t, n + 1) = DecisionsUpTo(t, n) \o One(t.steps[n + 1])
        BY <1>2, <2>2
    <2> QED
        BY <1>1, <2>1, <2>2, <2>3, <2>4
<1>5. Nat \subseteq T
    <2> HIDE DEF T
    <2> QED
        BY <1>3, <1>4, ForAllNumbers
<1>6. \A i \in 0..Len(t.steps) : DecisionsUpTo(u, i) = DecisionsUpTo(t, i)
    BY <1>1, <1>5
<1>7. Decisions(u) = Decisions(t) \o One(s)
    <2>1. /\ Len(u.steps) \in Nat /\ Len(t.steps) \in 0 .. Len(u.steps) - 1
          /\ Len(t.steps) \in 0..Len(t.steps)
        BY <1>1
    <2>2. DecisionsUpTo(u, Len(t.steps) + 1)
              = DecisionsUpTo(u, Len(t.steps)) \o One(u.steps[Len(t.steps) + 1])
        BY <1>2, <2>1
    <2> QED
        BY <1>1, <1>6, <2>1, <2>2 DEF Decisions
<1> QED
    BY <1>1, <1>6, <1>7

------------------------------------------------------------------------------
(* Where two sequences of decisions part.                                     *)

LEMMA Keyed ==
    ASSUME NEW ds \in Seq(Decision), NEW i \in Nat
    PROVE  /\ i \in 1..Len(ds) => KeyAt(ds, i) = ds[i].key /\ KeyAt(ds, i) # NoKey
           /\ i > Len(ds) => KeyAt(ds, i) = NoKey
<1>1. Len(ds) \in Nat /\ \A j \in 1..Len(ds) : ds[j].key # NoKey
    BY ElementOfSeq, DecisionKeys
<1> QED
    BY <1>1 DEF KeyAt

LEMMA LongestIs ==
    ASSUME NEW da \in Seq(Decision), NEW db \in Seq(Decision)
    PROVE  /\ Longest(da, db) \in Nat /\ Len(da) \in Nat /\ Len(db) \in Nat
           /\ Len(da) <= Longest(da, db) /\ Len(db) <= Longest(da, db)
           /\ Longest(da, db) = Longest(db, da)
           /\ Longest(da, db) \in {Len(da), Len(db)}
           /\ Conflicts(da, db) \in SUBSET Nat
           /\ Conflicts(da, db) = Conflicts(db, da)
<1>1. Len(da) \in Nat /\ Len(db) \in Nat
    OBVIOUS
<1>2. /\ Longest(da, db) \in Nat /\ Len(da) <= Longest(da, db) /\ Len(db) <= Longest(da, db)
      /\ Longest(da, db) = Longest(db, da) /\ Longest(da, db) \in {Len(da), Len(db)}
    BY <1>1 DEF Longest
<1> QED
    BY <1>1, <1>2 DEF Conflicts

(* The first conflict is the least one: both sides agree before it.           *)
LEMMA FirstIsLeast ==
    ASSUME NEW da \in Seq(Decision), NEW db \in Seq(Decision), Conflicts(da, db) # {}
    PROVE  /\ FirstConflict(da, db) \in 1..Longest(da, db)
           /\ KeyAt(da, FirstConflict(da, db)) # KeyAt(db, FirstConflict(da, db))
           /\ \A j \in 1 .. FirstConflict(da, db) - 1 : KeyAt(da, j) = KeyAt(db, j)
           /\ \A i \in Conflicts(da, db) :
                 (\A j \in Conflicts(da, db) : i <= j) => i = FirstConflict(da, db)
<1> DEFINE C == Conflicts(da, db)
           f == FirstConflict(da, db)
<1>1. \E i \in C : \A j \in C : i <= j
    BY LongestIs, LeastElement
<1>2. f \in C /\ \A j \in C : f <= j
    BY <1>1 DEF FirstConflict
<1>3. C \subseteq 1..Longest(da, db) /\ \A i \in 1..Longest(da, db) :
          i \in C <=> KeyAt(da, i) # KeyAt(db, i)
    BY DEF Conflicts
<1> HIDE DEF C, f
<1>4. Longest(da, db) \in Nat /\ C \in SUBSET Nat
    BY LongestIs DEF C
<1>5. \A j \in 1 .. f - 1 : KeyAt(da, j) = KeyAt(db, j)
    BY <1>2, <1>3, <1>4
<1>6. \A i \in C : (\A j \in C : i <= j) => i = f
    BY <1>2, <1>4
<1> QED
    BY <1>2, <1>3, <1>5, <1>6 DEF C, f

(* A place where both agree before and not at it is the first conflict.       *)
LEMMA FirstIs ==
    ASSUME NEW da \in Seq(Decision), NEW db \in Seq(Decision), NEW i \in Nat \ {0},
           KeyAt(da, i) # KeyAt(db, i),
           \A j \in 1 .. i - 1 : KeyAt(da, j) = KeyAt(db, j)
    PROVE  Conflicts(da, db) # {} /\ FirstConflict(da, db) = i
<1>1. Longest(da, db) \in Nat /\ Len(da) \in Nat /\ Len(db) \in Nat
      /\ Len(da) <= Longest(da, db) /\ Len(db) <= Longest(da, db)
    BY LongestIs
<1>2. i <= Longest(da, db)
    BY <1>1, Keyed
<1>3. i \in Conflicts(da, db)
    BY <1>1, <1>2 DEF Conflicts
<1>4. \A j \in Conflicts(da, db) : i <= j
    BY <1>1 DEF Conflicts
<1> QED
    BY <1>3, <1>4, FirstIsLeast

(* Without a conflict the two make the same decisions.                        *)
LEMMA NoConflict ==
    ASSUME NEW da \in Seq(Decision), NEW db \in Seq(Decision)
    PROVE  Conflicts(da, db) = {} <=>
               Len(da) = Len(db) /\ \A i \in 1..Len(da) : da[i].key = db[i].key
<1>1. Longest(da, db) \in Nat /\ Len(da) \in Nat /\ Len(db) \in Nat
      /\ Len(da) <= Longest(da, db) /\ Len(db) <= Longest(da, db)
      /\ Longest(da, db) \in {Len(da), Len(db)}
    BY LongestIs
<1>2. ASSUME Conflicts(da, db) = {}
      PROVE  Len(da) = Len(db) /\ \A i \in 1..Len(da) : da[i].key = db[i].key
    <2>1. \A i \in 1..Longest(da, db) : KeyAt(da, i) = KeyAt(db, i)
        BY <1>2 DEF Conflicts
    <2>2. Len(da) <= Len(db)
        <3> SUFFICES ASSUME Len(da) > Len(db) PROVE FALSE
            BY <1>1
        <3>1. Len(da) \in 1..Len(da) /\ Len(da) \in 1..Longest(da, db)
            BY <1>1
        <3>2. KeyAt(da, Len(da)) # NoKey /\ KeyAt(db, Len(da)) = NoKey
            BY <1>1, <3>1, Keyed
        <3> QED
            BY <2>1, <3>1, <3>2
    <2>3. Len(db) <= Len(da)
        <3> SUFFICES ASSUME Len(db) > Len(da) PROVE FALSE
            BY <1>1
        <3>1. Len(db) \in 1..Len(db) /\ Len(db) \in 1..Longest(da, db)
            BY <1>1
        <3>2. KeyAt(db, Len(db)) # NoKey /\ KeyAt(da, Len(db)) = NoKey
            BY <1>1, <3>1, Keyed
        <3> QED
            BY <2>1, <3>1, <3>2
    <2> QED
        BY <1>1, <2>1, <2>2, <2>3 DEF KeyAt
<1>3. ASSUME Len(da) = Len(db), \A i \in 1..Len(da) : da[i].key = db[i].key
      PROVE  Conflicts(da, db) = {}
    BY <1>1, <1>3 DEF Conflicts, KeyAt
<1> QED
    BY <1>2, <1>3

------------------------------------------------------------------------------
(* The verdict.                                                               *)

Trajectory == [steps : Seq(StepType), stopped : StoppedReason]

(* The i-th decisions of a and b differ, and none before them.                *)
PartAt(a, b, i) ==
    /\ i \in Nat \ {0}
    /\ KeyAt(Decisions(a), i) # KeyAt(Decisions(b), i)
    /\ \A j \in 1 .. i - 1 : KeyAt(Decisions(a), j) = KeyAt(Decisions(b), j)

Match(a, b) == Conflicts(Decisions(a), Decisions(b)) = {}

LEMMA TrajectoryDecisions ==
    ASSUME NEW t \in Trajectory
    PROVE  /\ t.steps \in Seq(StepType)
           /\ Decisions(t) \in Seq(Decision) /\ Len(Decisions(t)) \in Nat
           /\ HasTerminal(t) \in BOOLEAN /\ Forked(t) \in BOOLEAN
<1>1. t.steps \in Seq(StepType)
    BY DEF Trajectory
<1> QED
    BY <1>1, DecisionsType DEF HasTerminal, Forked

LEMMA Parted ==
    ASSUME NEW a \in Trajectory, NEW b \in Trajectory, NEW i, PartAt(a, b, i)
    PROVE  /\ ~Match(a, b) /\ Diff(a, b) = ConflictVerdict(a, b, i)
           /\ i \in 1..Longest(Decisions(a), Decisions(b))
<1> DEFINE da == Decisions(a)
           db == Decisions(b)
<1>1. da \in Seq(Decision) /\ db \in Seq(Decision)
    BY TrajectoryDecisions
<1>2. Conflicts(da, db) # {} /\ FirstConflict(da, db) = i
    BY <1>1, FirstIs DEF PartAt
<1>3. i \in 1..Longest(da, db)
    BY <1>1, <1>2, FirstIsLeast
<1> QED
    BY <1>2, <1>3 DEF Match, Diff

LEMMA PartOrMatch ==
    ASSUME NEW a \in Trajectory, NEW b \in Trajectory
    PROVE  \/ Match(a, b) /\ Diff(a, b) = MatchVerdict(a, b)
           \/ \E i \in 1..Longest(Decisions(a), Decisions(b)) : PartAt(a, b, i)
<1> DEFINE da == Decisions(a)
           db == Decisions(b)
<1>1. da \in Seq(Decision) /\ db \in Seq(Decision) /\ Longest(da, db) \in Nat
    BY TrajectoryDecisions, LongestIs
<1>2. CASE Conflicts(da, db) = {}
    BY <1>2 DEF Match, Diff
<1>3. CASE Conflicts(da, db) # {}
    <2>1. /\ FirstConflict(da, db) \in 1..Longest(da, db)
          /\ KeyAt(da, FirstConflict(da, db)) # KeyAt(db, FirstConflict(da, db))
          /\ \A j \in 1 .. FirstConflict(da, db) - 1 : KeyAt(da, j) = KeyAt(db, j)
        BY <1>1, <1>3, FirstIsLeast
    <2>2. PartAt(a, b, FirstConflict(da, db))
        BY <1>1, <2>1 DEF PartAt
    <2> QED
        BY <2>1, <2>2
<1> QED
    BY <1>2, <1>3

LEMMA KeysLength ==
    ASSUME NEW t \in Trajectory
    PROVE  Len(KeysOf(t)) = Len(Decisions(t)) /\ Len(KeysOf(t)) \in Nat
<1> DEFINE ds == Decisions(t)
<1>1. ds \in Seq(Decision)
    BY TrajectoryDecisions
<1>2. KeysOf(t) = [i \in 1..Len(ds) |-> ds[i].key]
    BY DEF KeysOf
<1> HIDE DEF ds
<1>3. [i \in 1..Len(ds) |-> ds[i].key] \in [1..Len(ds) -> Keys \cup {FinalKey}]
    BY <1>1, ElementOfSeq, DecisionKeys
<1>4. Len(ds) \in Nat
    BY <1>1
<1>5. Len(KeysOf(t)) = Len(ds)
    BY <1>2, <1>3, <1>4
<1> QED
    BY <1>4, <1>5 DEF ds

LEMMA MatchIs ==
    ASSUME NEW a \in Trajectory, NEW b \in Trajectory
    PROVE  Match(a, b) <=> KeysOf(a) = KeysOf(b)
<1> DEFINE da == Decisions(a)
           db == Decisions(b)
<1>1. da \in Seq(Decision) /\ db \in Seq(Decision) /\ Len(da) \in Nat /\ Len(db) \in Nat
    BY TrajectoryDecisions
<1>2. Match(a, b) <=> Len(da) = Len(db) /\ \A i \in 1..Len(da) : da[i].key = db[i].key
    BY <1>1, NoConflict DEF Match
<1> HIDE DEF da, db
<1>3. KeysOf(a) = [i \in 1..Len(da) |-> da[i].key] /\ KeysOf(b) = [i \in 1..Len(db) |-> db[i].key]
    BY DEF KeysOf, da, db
<1>4. ASSUME KeysOf(a) = KeysOf(b)
      PROVE  Len(da) = Len(db)
    <2>1. 1..Len(da) = 1..Len(db)
        BY <1>3, <1>4
    <2>2. (Len(da) \in 1..Len(da) \/ Len(da) = 0) /\ (Len(db) \in 1..Len(db) \/ Len(db) = 0)
        BY <1>1
    <2> QED
        BY <1>1, <2>1, <2>2
<1>5. ASSUME KeysOf(a) = KeysOf(b), NEW i \in 1..Len(da)
      PROVE  da[i].key = db[i].key
    <2>1. KeysOf(a)[i] = da[i].key /\ KeysOf(b)[i] = db[i].key
        BY <1>3, <1>4, <1>5
    <2> QED
        BY <1>5, <2>1
<1>6. ASSUME Len(da) = Len(db), \A i \in 1..Len(da) : da[i].key = db[i].key
      PROVE  KeysOf(a) = KeysOf(b)
    BY <1>3, <1>6
<1> QED
    BY <1>2, <1>4, <1>5, <1>6

(* What each verdict's kind is.                                               *)
LEMMA ConflictKind ==
    ASSUME NEW a \in Trajectory, NEW b \in Trajectory, NEW i, PartAt(a, b, i)
    PROVE  LET d == Diff(a, b)
               out == RanOut(i, Decisions(a), Decisions(b), HasTerminal(a), HasTerminal(b))
           IN  /\ Forked(a) \/ Forked(b) => d.kind = "unresolvable_fork"
               /\ ~Forked(a) /\ ~Forked(b) /\ out => d.kind = "unknown_terminal"
               /\ ~Forked(a) /\ ~Forked(b) /\ ~out => d.kind = "diverged"
               /\ d.until = i - 1
               /\ d.first = IF d.kind = "unknown_terminal" THEN NoIndex ELSE i - 1
               /\ d.suspect = IF d.kind = "unknown_terminal" THEN FALSE
                                                             ELSE RedactionInPlay(a, b, i)
<1>1. Diff(a, b) = ConflictVerdict(a, b, i)
    BY Parted
<1> QED
    BY <1>1 DEF ConflictVerdict, Verdict

LEMMA MatchKind ==
    ASSUME NEW a \in Trajectory, NEW b \in Trajectory, Match(a, b)
    PROVE  /\ Diff(a, b) = MatchVerdict(a, b)
           /\ Diff(a, b).kind = IF HasTerminal(a) /\ HasTerminal(b) THEN "aligned"
                                                                    ELSE "unknown_terminal"
           /\ Diff(a, b).until = Len(Decisions(a)) /\ Diff(a, b).first = NoIndex
<1>1. Diff(a, b) = MatchVerdict(a, b)
    BY DEF Diff, Match
<1> QED
    BY <1>1 DEF MatchVerdict, Verdict

(* A trajectory ran out where the other goes on, and was not seen to end:     *)
(* exactly then the longer of the two can be both.                            *)
LEMMA PartIsProper ==
    ASSUME NEW a \in Trajectory, NEW b \in Trajectory, NEW i, PartAt(a, b, i)
    PROVE  CouldBe(KeysOf(b), a) <=> i > Len(Decisions(a)) /\ ~HasTerminal(a)
<1> DEFINE da == Decisions(a)
           db == Decisions(b)
<1>1. /\ da \in Seq(Decision) /\ db \in Seq(Decision) /\ Len(da) \in Nat /\ Len(db) \in Nat
      /\ Longest(da, db) \in {Len(da), Len(db)} /\ i \in 1..Longest(da, db)
    BY TrajectoryDecisions, LongestIs, Parted
<1>2. KeysOf(a) = [j \in 1..Len(da) |-> da[j].key] /\ KeysOf(b) = [j \in 1..Len(db) |-> db[j].key]
    BY DEF KeysOf
<1>3. KeysOf(a) # KeysOf(b)
    BY MatchIs, Parted
<1>4. Len(KeysOf(a)) = Len(da) /\ Len(KeysOf(b)) = Len(db)
    BY KeysLength
<1>5. ASSUME i > Len(da), ~HasTerminal(a)
      PROVE  CouldBe(KeysOf(b), a)
    <2>1. Len(da) <= Len(db)
        BY <1>1, <1>5
    <2>2. ASSUME NEW j \in 1..Len(da)
          PROVE  KeysOf(b)[j] = KeysOf(a)[j]
        <3>1. j \in 1 .. i - 1 /\ j \in 1..Len(db) /\ j \in Nat
            BY <1>1, <1>5, <2>1 DEF PartAt
        <3>2. KeyAt(da, j) = KeyAt(db, j)
            BY <3>1 DEF PartAt
        <3> HIDE DEF da, db
        <3>3. KeyAt(da, j) = da[j].key /\ KeyAt(db, j) = db[j].key
            BY <1>1, <3>1, Keyed
        <3> QED
            BY <1>2, <3>1, <3>2, <3>3
    <2> QED
        BY <1>4, <1>5, <2>1, <2>2 DEF CouldBe, Extends
<1>6. ASSUME CouldBe(KeysOf(b), a)
      PROVE  i > Len(da) /\ ~HasTerminal(a)
    <2>1. ~HasTerminal(a) /\ Len(da) <= Len(db)
          /\ \A j \in 1..Len(da) : KeysOf(b)[j] = KeysOf(a)[j]
        BY <1>3, <1>4, <1>6 DEF CouldBe, Extends
    <2>2. SUFFICES ASSUME i <= Len(da) PROVE FALSE
        BY <1>1, <2>1 DEF PartAt
    <2>3. i \in 1..Len(da) /\ i \in 1..Len(db) /\ i \in Nat
        BY <1>1, <2>1, <2>2 DEF PartAt
    <2>4. KeyAt(da, i) # KeyAt(db, i)
        BY DEF PartAt
    <2> HIDE DEF da, db
    <2>5. KeyAt(da, i) = da[i].key /\ KeyAt(db, i) = db[i].key
        BY <1>1, <2>3, Keyed
    <2>6. KeysOf(a)[i] = da[i].key /\ KeysOf(b)[i] = db[i].key
        BY <1>2, <2>3
    <2> QED
        BY <2>1, <2>3, <2>4, <2>5, <2>6
<1> QED
    BY <1>5, <1>6

LEMMA CouldBeItself ==
    ASSUME NEW t \in Trajectory
    PROVE  CouldBe(KeysOf(t), t)
BY KeysLength DEF CouldBe, Extends

(* Each side of the diff is read the same way.                                *)
LEMMA DiffCommutes ==
    ASSUME NEW a \in Trajectory, NEW b \in Trajectory
    PROVE  Diff(b, a) = Diff(a, b)
<1>1. CASE Match(a, b)
    <2>1. Match(b, a)
        BY <1>1, TrajectoryDecisions, LongestIs DEF Match
    <2>2. Len(Decisions(a)) = Len(Decisions(b))
        BY <1>1, TrajectoryDecisions, NoConflict DEF Match
    <2> QED
        BY <1>1, <2>1, <2>2, MatchKind, TrajectoryDecisions DEF MatchVerdict
<1>2. ASSUME NEW i, PartAt(a, b, i)
      PROVE  Diff(b, a) = Diff(a, b)
    <2>1. PartAt(b, a, i)
        BY <1>2 DEF PartAt
    <2>2. Diff(a, b) = ConflictVerdict(a, b, i) /\ Diff(b, a) = ConflictVerdict(b, a, i)
        BY <1>2, <2>1, Parted
    <2> DEFINE ab == RanOut(i, Decisions(a), Decisions(b), HasTerminal(a), HasTerminal(b))
               ba == RanOut(i, Decisions(b), Decisions(a), HasTerminal(b), HasTerminal(a))
    <2>3. ab = ba
        BY DEF RanOut
    <2>4. RedactionInPlay(a, b, i) = RedactionInPlay(b, a, i)
        BY DEF RedactionInPlay, TokenThrough
    <2>5. (Forked(a) \/ Forked(b)) = (Forked(b) \/ Forked(a))
        BY DEF Forked
    <2> DEFINE Of(forked, out, suspect) ==
                   LET kind == IF forked THEN "unresolvable_fork"
                               ELSE IF out THEN "unknown_terminal" ELSE "diverged"
                   IN  IF kind = "unknown_terminal"
                       THEN Verdict(kind, NoIndex, i - 1, FALSE)
                       ELSE Verdict(kind, i - 1, i - 1, suspect)
    <2>6. /\ ConflictVerdict(a, b, i) = Of(Forked(a) \/ Forked(b), ab, RedactionInPlay(a, b, i))
          /\ ConflictVerdict(b, a, i) = Of(Forked(b) \/ Forked(a), ba, RedactionInPlay(b, a, i))
        BY DEF ConflictVerdict
    <2> HIDE DEF ab, ba, Of
    <2> QED
        BY <2>2, <2>3, <2>4, <2>5, <2>6
<1> QED
    BY <1>1, <1>2, PartOrMatch

LEMMA VerdictType ==
    ASSUME NEW a \in Trajectory, NEW b \in Trajectory
    PROVE  LET d == Diff(a, b)
           IN  /\ d.kind \in {"aligned", "diverged", "unresolvable_fork", "unknown_terminal"}
               /\ d.until \in 0..Longest(Decisions(a), Decisions(b))
               /\ d.first \in {NoIndex, d.until}
<1>1. Longest(Decisions(a), Decisions(b)) \in Nat
      /\ Len(Decisions(a)) \in 0..Longest(Decisions(a), Decisions(b))
    BY TrajectoryDecisions, LongestIs
<1>2. CASE Match(a, b)
    BY <1>1, <1>2, MatchKind
<1>3. ASSUME NEW i \in 1..Longest(Decisions(a), Decisions(b)), PartAt(a, b, i)
      PROVE  LET d == Diff(a, b)
             IN  /\ d.kind \in {"aligned", "diverged", "unresolvable_fork", "unknown_terminal"}
                 /\ d.until \in 0..Longest(Decisions(a), Decisions(b))
                 /\ d.first \in {NoIndex, d.until}
    <2>1. i - 1 \in 0..Longest(Decisions(a), Decisions(b))
        BY <1>1
    <2>2. RanOut(i, Decisions(a), Decisions(b), HasTerminal(a), HasTerminal(b)) \in BOOLEAN
        BY DEF RanOut
    <2> QED
        BY <1>3, <2>1, <2>2, ConflictKind
<1> QED
    BY <1>2, <1>3, PartOrMatch

(* KindIsExact of any two trajectories.                                       *)
LEMMA Exact ==
    ASSUME NEW a \in Trajectory, NEW b \in Trajectory
    PROVE  /\ Diff(a, b).kind = "aligned" <=>
                  (HasTerminal(a) /\ HasTerminal(b)) /\ KeysOf(a) = KeysOf(b)
           /\ ~Forked(a) /\ ~Forked(b) =>
                  (Diff(a, b).kind = "diverged" <=> ~CouldBeSame(a, b))
<1>1. CouldBeSame(a, b) <=>
          \/ CouldBe(KeysOf(a), a) /\ CouldBe(KeysOf(a), b)
          \/ CouldBe(KeysOf(b), a) /\ CouldBe(KeysOf(b), b)
    BY DEF CouldBeSame
<1>2. CASE Match(a, b)
    <2>1. KeysOf(a) = KeysOf(b)
        BY <1>2, MatchIs
    <2>2. CouldBeSame(a, b)
        BY <1>1, <2>1, CouldBeItself
    <2> QED
        BY <1>2, <2>1, <2>2, MatchKind
<1>3. ASSUME NEW i, PartAt(a, b, i)
      PROVE  /\ Diff(a, b).kind = "aligned" <=>
                    (HasTerminal(a) /\ HasTerminal(b)) /\ KeysOf(a) = KeysOf(b)
             /\ ~Forked(a) /\ ~Forked(b) =>
                    (Diff(a, b).kind = "diverged" <=> ~CouldBeSame(a, b))
    <2>1. KeysOf(a) # KeysOf(b)
        BY <1>3, MatchIs, Parted
    <2>2. CouldBe(KeysOf(b), a) <=> i > Len(Decisions(a)) /\ ~HasTerminal(a)
        BY <1>3, PartIsProper
    <2>3. CouldBe(KeysOf(a), b) <=> i > Len(Decisions(b)) /\ ~HasTerminal(b)
        <3>1. PartAt(b, a, i)
            BY <1>3 DEF PartAt
        <3> QED
            BY <3>1, PartIsProper
    <2> DEFINE out == RanOut(i, Decisions(a), Decisions(b), HasTerminal(a), HasTerminal(b))
    <2>4. out <=> CouldBeSame(a, b)
        BY <1>1, <2>2, <2>3, CouldBeItself DEF RanOut
    <2>5. /\ Forked(a) \/ Forked(b) => Diff(a, b).kind = "unresolvable_fork"
          /\ ~Forked(a) /\ ~Forked(b) /\ out => Diff(a, b).kind = "unknown_terminal"
          /\ ~Forked(a) /\ ~Forked(b) /\ ~out => Diff(a, b).kind = "diverged"
        BY <1>3, ConflictKind
    <2> HIDE DEF out
    <2> QED
        BY <2>1, <2>4, <2>5
<1> QED
    BY <1>2, <1>3, PartOrMatch

(* ComparableAgrees of any two trajectories.                                  *)
LEMMA Agrees ==
    ASSUME NEW a \in Trajectory, NEW b \in Trajectory
    PROVE  /\ \A i \in 1..Diff(a, b).until : KeyAt(Decisions(a), i) = KeyAt(Decisions(b), i)
           /\ Diff(a, b).first # NoIndex =>
                  KeyAt(Decisions(a), Diff(a, b).first + 1)
                      # KeyAt(Decisions(b), Diff(a, b).first + 1)
<1>1. CASE Match(a, b)
    <2>1. Len(Decisions(a)) = Len(Decisions(b))
          /\ \A i \in 1..Len(Decisions(a)) : Decisions(a)[i].key = Decisions(b)[i].key
        BY <1>1, TrajectoryDecisions, NoConflict DEF Match
    <2>2. \A i \in 1..Len(Decisions(a)) : KeyAt(Decisions(a), i) = KeyAt(Decisions(b), i)
        BY <2>1, TrajectoryDecisions DEF KeyAt
    <2> QED
        BY <1>1, <2>2, MatchKind
<1>2. ASSUME NEW i, PartAt(a, b, i)
      PROVE  /\ \A j \in 1..Diff(a, b).until :
                    KeyAt(Decisions(a), j) = KeyAt(Decisions(b), j)
             /\ Diff(a, b).first # NoIndex =>
                    KeyAt(Decisions(a), Diff(a, b).first + 1)
                        # KeyAt(Decisions(b), Diff(a, b).first + 1)
    <2>1. Diff(a, b).until = i - 1 /\ Diff(a, b).first \in {NoIndex, i - 1}
        BY <1>2, ConflictKind
    <2>2. i - 1 + 1 = i /\ i \in Nat
        BY <1>2 DEF PartAt
    <2> QED
        BY <1>2, <2>1, <2>2 DEF PartAt
<1> QED
    BY <1>1, <1>2, PartOrMatch

(* The same of the keys of the two: where a divergence or a fork is placed,   *)
(* that a side with no decision there was seen to end, unless it is a fork,   *)
(* what "aligned" says, and what a run is told that did all that another was  *)
(* seen to do, and ended.                                                     *)
Parting(d, x, y) ==
    /\ d.first \in Nat /\ d.first <= Len(x) /\ d.first <= Len(y)
    /\ d.first < Len(x) \/ d.first < Len(y)
    /\ d.first < Len(x) /\ d.first < Len(y) => x[d.first + 1] # y[d.first + 1]
    /\ \A i \in 1..d.first : x[i] = y[i]

LEMMA ToldOfKeys ==
    ASSUME NEW a \in Trajectory, NEW b \in Trajectory
    PROVE  LET d == Diff(a, b)
               x == KeysOf(a)
               y == KeysOf(b)
           IN  /\ d.kind = "diverged" =>
                     /\ Parting(d, x, y) /\ ~Forked(a) /\ ~Forked(b)
                     /\ d.first = Len(x) => HasTerminal(a)
                     /\ d.first = Len(y) => HasTerminal(b)
               /\ d.kind = "unresolvable_fork" =>
                     Parting(d, x, y) /\ (Forked(a) \/ Forked(b))
               /\ d.kind = "aligned" => x = y
               /\ ~Forked(a) /\ ~Forked(b) /\ HasTerminal(b) /\ CouldBe(y, a)
                     => d.kind = IF HasTerminal(a) THEN "aligned" ELSE "unknown_terminal"
<1> DEFINE da == Decisions(a)
           db == Decisions(b)
           d == Diff(a, b)
           x == KeysOf(a)
           y == KeysOf(b)
<1>1. /\ da \in Seq(Decision) /\ db \in Seq(Decision) /\ Len(da) \in Nat /\ Len(db) \in Nat
      /\ Len(x) = Len(da) /\ Len(y) = Len(db)
    BY TrajectoryDecisions, KeysLength
<1>2. /\ \A i \in 1..Len(da) : x[i] = da[i].key /\ KeyAt(da, i) = da[i].key
      /\ \A i \in 1..Len(db) : y[i] = db[i].key /\ KeyAt(db, i) = db[i].key
    BY <1>1, Keyed DEF KeysOf
<1>3. /\ \A i \in Nat : i > Len(da) => KeyAt(da, i) = NoKey
      /\ \A i \in Nat : i > Len(db) => KeyAt(db, i) = NoKey
    BY <1>1 DEF KeyAt
<1>4. /\ \A i \in 1..Len(da) : KeyAt(da, i) # NoKey
      /\ \A i \in 1..Len(db) : KeyAt(db, i) # NoKey
    <2>1. /\ \A i \in 1..Len(da) : da[i] \in Decision
          /\ \A i \in 1..Len(db) : db[i] \in Decision
        BY <1>1, ElementOfSeq
    <2> QED
        BY <1>2, <2>1, DecisionKeys, DiffAssumption
<1> HIDE DEF da, db, d, x, y
<1>5. CASE Match(a, b)
    <2>1. x = y /\ d.first = NoIndex
          /\ d.kind = IF HasTerminal(a) /\ HasTerminal(b) THEN "aligned" ELSE "unknown_terminal"
        BY <1>5, MatchIs, MatchKind DEF x, y, d
    <2> QED
        BY <2>1, TrajectoryDecisions DEF d, x, y
<1>6. ASSUME NEW i \in 1..Longest(Decisions(a), Decisions(b)), PartAt(a, b, i)
      PROVE  /\ d.kind = "diverged" =>
                   /\ Parting(d, x, y) /\ ~Forked(a) /\ ~Forked(b)
                   /\ d.first = Len(x) => HasTerminal(a)
                   /\ d.first = Len(y) => HasTerminal(b)
             /\ d.kind = "unresolvable_fork" =>
                   Parting(d, x, y) /\ (Forked(a) \/ Forked(b))
             /\ d.kind = "aligned" => x = y
             /\ ~Forked(a) /\ ~Forked(b) /\ HasTerminal(b) /\ CouldBe(y, a)
                   => d.kind = IF HasTerminal(a) THEN "aligned" ELSE "unknown_terminal"
    <2>1. i \in Nat \ {0} /\ (i <= Len(da) \/ i <= Len(db)) /\ i - 1 + 1 = i
        BY <1>1, LongestIs DEF da, db
    <2>2. /\ x # y /\ KeyAt(da, i) # KeyAt(db, i)
          /\ \A j \in 1 .. i - 1 : KeyAt(da, j) = KeyAt(db, j)
        BY <1>6, MatchIs, Parted DEF PartAt, x, y, da, db
    <2> DEFINE out == RanOut(i, da, db, HasTerminal(a), HasTerminal(b))
    <2>3. /\ d.kind \in {"diverged", "unresolvable_fork"} => d.first = i - 1
          /\ d.kind = "unresolvable_fork" => Forked(a) \/ Forked(b)
          /\ d.kind = "diverged" => ~Forked(a) /\ ~Forked(b) /\ ~out
          /\ d.kind # "aligned"
        <3>1. out \in BOOLEAN
            BY DEF RanOut
        <3> QED
            BY <1>6, <3>1, ConflictKind, TrajectoryDecisions DEF d, da, db
    <2>4. ASSUME i - 1 < Len(x), i - 1 < Len(y)
          PROVE  x[i] # y[i]
        <3>1. i \in 1..Len(da) /\ i \in 1..Len(db)
            BY <1>1, <2>1, <2>4
        <3> QED
            BY <1>2, <2>2, <3>1
    <2>5. ASSUME NEW j \in 1 .. i - 1
          PROVE  x[j] = y[j]
        <3>1. j \in Nat /\ KeyAt(da, j) = KeyAt(db, j) /\ (j \in 1..Len(da) \/ j \in 1..Len(db))
            BY <1>1, <2>1, <2>2
        <3>2. j \in 1..Len(da) /\ j \in 1..Len(db)
            BY <1>1, <1>3, <1>4, <3>1
        <3> QED
            BY <1>2, <3>1, <3>2
    <2>6. ASSUME ~Forked(a), ~Forked(b), HasTerminal(b), CouldBe(y, a)
          PROVE  d.kind = "unknown_terminal" /\ ~HasTerminal(a)
        <3>1. i > Len(da) /\ ~HasTerminal(a)
            BY <1>6, <2>6, PartIsProper DEF y, da
        <3>2. RanOut(i, da, db, HasTerminal(a), HasTerminal(b))
            BY <3>1 DEF RanOut
        <3> QED
            BY <1>6, <2>6, <3>1, <3>2, ConflictKind DEF d, da, db
    <2>7. i - 1 <= Len(x) /\ i - 1 <= Len(y)
        <3>1. CASE i = 1
            BY <1>1, <3>1
        <3>2. CASE i # 1
            <4>1. i - 1 \in 1 .. i - 1 /\ (i - 1 \in 1..Len(da) \/ i - 1 \in 1..Len(db))
                BY <1>1, <2>1, <3>2
            <4>2. KeyAt(da, i - 1) = KeyAt(db, i - 1)
                BY <2>2, <4>1
            <4> QED
                BY <1>1, <1>3, <1>4, <2>1, <4>1, <4>2
        <3> QED
            BY <3>1, <3>2
    <2>8. ASSUME d.first = i - 1
          PROVE  Parting(d, x, y)
        <3>1. i - 1 \in Nat /\ (i - 1 < Len(x) \/ i - 1 < Len(y))
            BY <1>1, <2>1
        <3> QED
            BY <2>1, <2>4, <2>5, <2>7, <2>8, <3>1 DEF Parting
    <2>9. ASSUME ~out, d.first = i - 1
          PROVE  /\ d.first = Len(x) => HasTerminal(a)
                 /\ d.first = Len(y) => HasTerminal(b)
        BY <1>1, <2>1, <2>9 DEF RanOut
    <2> HIDE DEF out
    <2> QED
        BY <2>3, <2>6, <2>8, <2>9
<1> QED
    BY <1>5, <1>6, PartOrMatch DEF d, x, y

------------------------------------------------------------------------------
(* How a step changes the trajectories.                                       *)

Grown(t, u) ==
    /\ ~HasTerminal(t)
    /\ u.steps = t.steps \/ \E new \in StepType : u.steps = Append(t.steps, new)

(* A final step is the last one.                                              *)
EndsOnce(t) ==
    \A n \in 1..Len(t.steps) : t.steps[n].kind = "final" => n = Len(t.steps)

LEMMA NotEnded ==
    ASSUME NEW t \in Trajectory, EndsOnce(t), ~HasTerminal(t), NEW n \in 1..Len(t.steps)
    PROVE  t.steps[n].kind # "final"
<1> SUFFICES ASSUME t.steps[n].kind = "final" PROVE FALSE
    OBVIOUS
<1>1. n = Len(t.steps) /\ Len(t.steps) \in Nat /\ n \in Nat /\ t.steps \in Seq(StepType)
    BY TrajectoryDecisions DEF EndsOnce
<1>2. PICK m \in 0 .. Len(t.steps) - 1 : m + 1 = n
    BY <1>1
<1>3. Decisions(t) = DecisionsUpTo(t, m) \o One(t.steps[n])
    BY <1>1, <1>2, UpTo DEF Decisions
<1>4. One(t.steps[n]) = <<t.steps[n]>>
    BY DEF One, IsDecision
<1>5. DecisionsUpTo(t, m) \in Seq(Decision) /\ <<t.steps[n]>> \in Seq(StepType)
    BY <1>1, <1>2, UpToType, ElementOfSeq
<1>6. /\ Decisions(t) # <<>>
      /\ Decisions(t)[Len(Decisions(t))] = t.steps[n]
    <2>1. \A ds : ds \in Seq(Decision) =>
              ds \o <<t.steps[n]>> # <<>> /\ Len(ds \o <<t.steps[n]>>) = Len(ds) + 1
              /\ (ds \o <<t.steps[n]>>)[Len(ds) + 1] = t.steps[n]
        OBVIOUS
    <2> QED
        BY <1>3, <1>4, <1>5, <2>1
<1> QED
    BY <1>6 DEF HasTerminal

LEMMA GrowsOnce ==
    ASSUME NEW t \in Trajectory, EndsOnce(t),
           NEW u \in Trajectory, Grown(t, u)
    PROVE  EndsOnce(u)
<1>1. \A n \in 1..Len(t.steps) : t.steps[n].kind # "final"
    BY NotEnded DEF Grown
<1>2. CASE u.steps = t.steps
    BY <1>1, <1>2 DEF EndsOnce
<1>3. ASSUME NEW new \in StepType, u.steps = Append(t.steps, new)
      PROVE  EndsOnce(u)
    <2>1. t.steps \in Seq(StepType)
        BY TrajectoryDecisions
    <2>2. Len(u.steps) = Len(t.steps) + 1 /\ Len(t.steps) \in Nat
          /\ \A n \in 1..Len(t.steps) : u.steps[n] = t.steps[n]
        BY <1>3, <2>1
    <2> QED
        BY <1>1, <2>2 DEF EndsOnce
<1> QED
    BY <1>2, <1>3 DEF Grown

LEMMA Fields ==
    ASSUME NEW t \in Trajectory, NEW x, NEW y
    PROVE  /\ [t EXCEPT !.steps = x] = [steps |-> x, stopped |-> t.stopped]
           /\ [t EXCEPT !.stopped = y] = [steps |-> t.steps, stopped |-> y]
<1>1. t = [steps |-> t.steps, stopped |-> t.stopped]
    BY DEF Trajectory
<1>2. ASSUME NEW v, NEW w
      PROVE  [[steps |-> v, stopped |-> w] EXCEPT !.steps = x] = [steps |-> x, stopped |-> w]
    OBVIOUS
<1>3. ASSUME NEW v, NEW w
      PROVE  [[steps |-> v, stopped |-> w] EXCEPT !.stopped = y] = [steps |-> v, stopped |-> y]
    OBVIOUS
<1>4. ASSUME NEW v, NEW w, t = [steps |-> v, stopped |-> w], v = t.steps, w = t.stopped
      PROVE  /\ [t EXCEPT !.steps = x] = [steps |-> x, stopped |-> t.stopped]
             /\ [t EXCEPT !.stopped = y] = [steps |-> t.steps, stopped |-> y]
      BY <1>2, <1>3, <1>4
<1> QED
    BY <1>1, <1>4

LEMMA OneGrows ==
    ASSUME traj \in [Side -> Trajectory], Next
    PROVE  \E s \in Side, u \in Trajectory :
               traj' = [traj EXCEPT ![s] = u] /\ Grown(traj[s], u)
<1>1. \A k \in Keys, token \in BOOLEAN : CallStep(k, token) \in StepType
    BY DEF StepType
<1>2. (\A token \in BOOLEAN : ResultStep(token) \in StepType) /\ FinalStep \in StepType
    BY DEF StepType
<1>3. ASSUME NEW s \in Side, NEW steps, NEW stopped \in StoppedReason, ~HasTerminal(traj[s]),
             \/ steps = traj[s].steps
             \/ \E new \in StepType : steps = Append(traj[s].steps, new),
             traj' = [traj EXCEPT ![s] = [steps |-> steps, stopped |-> stopped]]
      PROVE  \E u \in Trajectory : traj' = [traj EXCEPT ![s] = u] /\ Grown(traj[s], u)
    <2>1. traj[s].steps \in Seq(StepType)
        BY DEF Trajectory
    <2>2. steps \in Seq(StepType)
        BY <1>3, <2>1, SMTT(40)
    <2> DEFINE u == [steps |-> steps, stopped |-> stopped]
    <2>3. u \in Trajectory /\ Grown(traj[s], u)
        BY <1>3, <2>2 DEF Trajectory, Grown
    <2> QED
        BY <1>3, <2>3
<1>4. ASSUME NEW s \in Side, NEW new \in StepType, AddsStep(s, new)
      PROVE  \E u \in Trajectory : traj' = [traj EXCEPT ![s] = u] /\ Grown(traj[s], u)
    <2>1. traj[s] \in Trajectory
        OBVIOUS
    <2>2. traj' = [traj EXCEPT ![s] = [steps |-> Append(traj[s].steps, new),
                                       stopped |-> traj[s].stopped]]
        <3>1. traj' = [traj EXCEPT ![s] = [traj[s] EXCEPT !.steps = Append(traj[s].steps, new)]]
            BY <1>4 DEF AddsStep
        <3>2. [traj[s] EXCEPT !.steps = Append(traj[s].steps, new)]
                  = [steps |-> Append(traj[s].steps, new), stopped |-> traj[s].stopped]
            BY <2>1, Fields
        <3> QED
            BY <3>1, <3>2, Zenon
    <2>3. traj[s].stopped \in StoppedReason
        BY <2>1 DEF Trajectory
    <2> QED
        BY <1>3, <1>4, <2>2, <2>3 DEF AddsStep, Growing
<1>5. ASSUME NEW s \in Side, StopsAtFork(s)
      PROVE  \E u \in Trajectory : traj' = [traj EXCEPT ![s] = u] /\ Grown(traj[s], u)
    <2>1. traj[s] \in Trajectory
        OBVIOUS
    <2>2. traj' = [traj EXCEPT ![s] = [steps |-> Append(traj[s].steps, ResultStep(FALSE)),
                                       stopped |-> "unrecorded_tool_call"]]
        BY <1>5, <2>1 DEF StopsAtFork
    <2>3. "unrecorded_tool_call" \in StoppedReason
        BY DEF StoppedReason
    <2> QED
        BY <1>2, <1>3, <1>5, <2>2, <2>3 DEF StopsAtFork, Growing
<1>6. ASSUME NEW s \in Side, RunsOutOfSteps(s)
      PROVE  \E u \in Trajectory : traj' = [traj EXCEPT ![s] = u] /\ Grown(traj[s], u)
    <2>1. traj[s] \in Trajectory
        OBVIOUS
    <2>2. traj' = [traj EXCEPT ![s] = [steps |-> traj[s].steps, stopped |-> "max_steps"]]
        <3>1. traj' = [traj EXCEPT ![s] = [traj[s] EXCEPT !.stopped = "max_steps"]]
            BY <1>6 DEF RunsOutOfSteps
        <3>2. [traj[s] EXCEPT !.stopped = "max_steps"]
                  = [steps |-> traj[s].steps, stopped |-> "max_steps"]
            BY <2>1, Fields
        <3> QED
            BY <3>1, <3>2, Zenon
    <2>3. "max_steps" \in StoppedReason
        BY DEF StoppedReason
    <2> QED
        BY <1>3, <1>6, <2>2, <2>3 DEF RunsOutOfSteps, Growing
<1>7. PICK s \in Side :
          \/ MakesCall(s) \/ GetsResult(s) \/ GivesAnswer(s) \/ StopsAtFork(s) \/ RunsOutOfSteps(s)
    BY DEF Next
<1> QED
    BY <1>1, <1>2, <1>4, <1>5, <1>6, <1>7 DEF MakesCall, GetsResult, GivesAnswer

(* A trajectory that grows on past a divergence leaves the verdict as it is.  *)
LEMMA StaysDiverged ==
    ASSUME NEW a \in Trajectory, NEW b \in Trajectory, Diff(a, b).kind = "diverged",
           NEW u \in Trajectory, Grown(a, u), ~Forked(u), ~Forked(b)
    PROVE  Diff(u, b) = Diff(a, b)
<1> DEFINE out(t, i) == RanOut(i, Decisions(t), Decisions(b), HasTerminal(t), HasTerminal(b))
<1>1. PICK i : PartAt(a, b, i)
    BY MatchKind, PartOrMatch
<1>2. ~Forked(a) /\ ~out(a, i)
    BY <1>1, ConflictKind
<1>3. /\ ~HasTerminal(a) /\ i \in Nat \ {0} /\ Len(Decisions(a)) \in Nat
      /\ Decisions(a) \in Seq(Decision) /\ a.steps \in Seq(StepType)
    BY <1>1, TrajectoryDecisions DEF Grown, PartAt
<1>4. i <= Len(Decisions(a))
    BY <1>2, <1>3 DEF RanOut
<1>5. /\ i <= Len(Decisions(u))
      /\ \A j \in 1..i : KeyAt(Decisions(u), j) = KeyAt(Decisions(a), j)
      /\ TokenThrough(u, i) = TokenThrough(a, i)
    <2>1. CASE u.steps = a.steps
        <3>1. Decisions(u) = Decisions(a) /\ StepsThrough(u, i) = StepsThrough(a, i)
            BY <2>1 DEF Decisions, DecisionsUpTo, StepsThrough
        <3> QED
            BY <1>4, <2>1, <3>1 DEF TokenThrough
    <2>2. ASSUME NEW new \in StepType, u.steps = Append(a.steps, new)
          PROVE  /\ i <= Len(Decisions(u))
                 /\ \A j \in 1..i : KeyAt(Decisions(u), j) = KeyAt(Decisions(a), j)
                 /\ TokenThrough(u, i) = TokenThrough(a, i)
        <3>1. /\ u.steps \in Seq(StepType) /\ Len(u.steps) = Len(a.steps) + 1
              /\ \A n \in 0..Len(a.steps) : DecisionsUpTo(u, n) = DecisionsUpTo(a, n)
              /\ Decisions(u) = Decisions(a) \o One(new)
            BY <1>3, <2>2, UpToGrows
        <3>2. One(new) \in Seq(Decision)
            BY StepKinds DEF One
        <3>3. /\ Len(Decisions(u)) = Len(Decisions(a)) + Len(One(new))
              /\ Len(One(new)) \in Nat
              /\ \A j \in 1..Len(Decisions(a)) : Decisions(u)[j] = Decisions(a)[j]
            BY <1>3, <3>1, <3>2
        <3>4. \A j \in 1..i : KeyAt(Decisions(u), j) = KeyAt(Decisions(a), j)
            <4>1. \A j \in 1..i : j \in 1..Len(Decisions(a)) /\ j <= Len(Decisions(u))
                BY <1>3, <1>4, <3>3
            <4> QED
                BY <3>3, <4>1 DEF KeyAt
        <3>5. /\ Len(a.steps) \in Nat
              /\ \A n \in 1..Len(a.steps) : u.steps[n] = a.steps[n]
            BY <1>3, <2>2
        <3>6. StepsThrough(u, i) = StepsThrough(a, i)
            <4>1. ASSUME NEW n \in 1..Len(a.steps)
                  PROVE  n \in StepsThrough(u, i) <=> n \in StepsThrough(a, i)
                <5>1. n - 1 \in 0..Len(a.steps) /\ n \in 1..Len(u.steps)
                    BY <3>1, <3>5
                <5>2. DecisionsUpTo(u, n - 1) = DecisionsUpTo(a, n - 1)
                    BY <3>1, <5>1
                <5> QED
                    BY <5>1, <5>2 DEF StepsThrough
            <4>2. Len(a.steps) + 1 \notin StepsThrough(u, i)
                <5>1. PICK n \in 0..Len(a.steps) : n = Len(a.steps) + 1 - 1
                    BY <3>5
                <5>2. DecisionsUpTo(u, Len(a.steps) + 1 - 1) = Decisions(a)
                    BY <3>1, <3>5, <5>1 DEF Decisions
                <5> QED
                    BY <1>3, <1>4, <5>2 DEF StepsThrough
            <4>3. \A n \in 1..Len(u.steps) : n \in 1..Len(a.steps) \/ n = Len(a.steps) + 1
                BY <3>1, <3>5
            <4>4. StepsThrough(u, i) \subseteq 1..Len(u.steps)
                  /\ StepsThrough(a, i) \subseteq 1..Len(a.steps)
                BY DEF StepsThrough
            <4> QED
                BY <4>1, <4>2, <4>3, <4>4
        <3>7. \A n \in StepsThrough(a, i) : u.steps[n] = a.steps[n]
            BY <3>5 DEF StepsThrough
        <3>8. TokenThrough(u, i) = TokenThrough(a, i)
            BY <3>6, <3>7 DEF TokenThrough
        <3> QED
            BY <1>3, <1>4, <3>3, <3>4, <3>8
    <2> QED
        BY <2>1, <2>2 DEF Grown
<1>6. PartAt(u, b, i)
    <2>1. i \in 1..i /\ \A j \in 1 .. i - 1 : j \in 1..i
        BY <1>3
    <2> QED
        BY <1>1, <1>5, <2>1 DEF PartAt
<1>7. ~out(u, i)
    BY <1>2, <1>3, <1>5, <1>6, TrajectoryDecisions DEF RanOut
<1>8. RedactionInPlay(u, b, i) = RedactionInPlay(a, b, i)
    BY <1>5 DEF RedactionInPlay
<1>9. /\ Diff(a, b) = ConflictVerdict(a, b, i)
      /\ Diff(u, b) = ConflictVerdict(u, b, i)
    BY <1>1, <1>6, Parted
<1>10. /\ ConflictVerdict(a, b, i) = Verdict("diverged", i - 1, i - 1, RedactionInPlay(a, b, i))
       /\ ConflictVerdict(u, b, i) = Verdict("diverged", i - 1, i - 1, RedactionInPlay(u, b, i))
    BY <1>2, <1>7 DEF ConflictVerdict
<1> QED
    BY <1>8, <1>9, <1>10

------------------------------------------------------------------------------
(* The specification.                                                         *)

IInv ==
    /\ traj \in [Side -> Trajectory]
    /\ \A s \in Side : EndsOnce(traj[s])

(* The trajectories are well-typed, and end at most once.                     *)
THEOREM Invariant == Spec => []IInv
<1>1. Init => IInv
    <2>1. [steps |-> <<>>, stopped |-> None] \in Trajectory
        BY DEF Trajectory, StoppedReason
    <2>2. EndsOnce([steps |-> <<>>, stopped |-> None])
        BY DEF EndsOnce
    <2> QED
        BY <2>1, <2>2 DEF Init, IInv
<1>2. IInv /\ [Next]_traj => IInv'
    <2> SUFFICES ASSUME IInv, [Next]_traj PROVE IInv'
        OBVIOUS
    <2>1. CASE UNCHANGED traj
        BY <2>1 DEF IInv
    <2>2. CASE Next
        <3>1. PICK s \in Side, u \in Trajectory :
                  traj' = [traj EXCEPT ![s] = u] /\ Grown(traj[s], u)
            BY <2>2, OneGrows DEF IInv
        <3>2. EndsOnce(u)
            BY <3>1, GrowsOnce DEF IInv
        <3>3. traj' \in [Side -> Trajectory]
              /\ \A o \in Side : traj'[o] = IF o = s THEN u ELSE traj[o]
            BY <3>1 DEF IInv
        <3>4. \A o \in Side : EndsOnce(traj'[o])
            BY <3>2, <3>3 DEF IInv
        <3> QED
            BY <3>3, <3>4 DEF IInv
    <2> QED
        BY <2>1, <2>2
<1> QED
    BY <1>1, <1>2, PTL DEF Spec

LEMMA Sides ==
    ASSUME IInv
    PROVE  traj["a"] \in Trajectory /\ traj["b"] \in Trajectory
BY DEF IInv, Side

(* The verdict of diff_trajectories is one of the four kinds (diff.py:34-37), *)
(* its indices are within the decisions compared, and a trajectory ends at    *)
(* most once, with its last step.                                             *)
THEOREM TypeCorrect == Spec => []TypeOK
<1>1. IInv => TypeOK
    <2> SUFFICES ASSUME IInv PROVE TypeOK
        OBVIOUS
    <2>1. /\ D.kind \in {"aligned", "diverged", "unresolvable_fork", "unknown_terminal"}
          /\ D.until \in 0..Longest(DecisionsOf("a"), DecisionsOf("b"))
          /\ D.first \in {NoIndex, D.until}
        BY Sides, VerdictType DEF D, DecisionsOf
    <2> QED
        BY <2>1 DEF TypeOK, IInv, Trajectory, EndsOnce
<1> QED
    BY <1>1, Invariant, PTL

(* Of any two trajectories on the way: "aligned" is said exactly of two runs  *)
(* that were seen to end after the same decisions, and, when neither forked,  *)
(* "diverged" exactly of two runs no continuation of which can be the same    *)
(* (diff.py:117-124, 167-206; the unknown endings of diff.py:12-16).          *)
THEOREM ClaimsExactly == Spec => []KindIsExact
<1>1. IInv => KindIsExact
    BY Sides, Exact DEF KindIsExact, D
<1> QED
    BY <1>1, Invariant, PTL

(* Before comparable_until the two trajectories agree decision by decision,   *)
(* and where first_divergence points they do not (diff.py:114-117, 158, 163). *)
THEOREM ComparesTruly == Spec => []ComparableAgrees
<1>1. IInv => ComparableAgrees
    BY Sides, Agrees DEF ComparableAgrees, D, DecisionsOf
<1> QED
    BY <1>1, Invariant, PTL

(* Which trajectory is called a makes no difference to the kind, the indices  *)
(* and the suspicion of redaction (diff.py:111-112, 121, 127).                *)
THEOREM OrderIsNoMatter == Spec => []Symmetric
<1>1. IInv => Symmetric
    BY Sides, DiffCommutes DEF Symmetric, D
<1> QED
    BY <1>1, Invariant, PTL

(* A divergence, once the two trajectories show it, is the verdict however    *)
(* they go on, with its place and its suspicion of redaction, unless a replay *)
(* stops at a fork (diff.py:103-106, 114-165).                                *)
THEOREM DivergenceStays == Spec => VerdictStable
<1>1. ASSUME IInv, [Next]_traj, D.kind = "diverged",
             ~Forked(traj["a"]'), ~Forked(traj["b"]')
      PROVE  D' = D
    <2>1. CASE UNCHANGED traj
        BY <2>1 DEF D
    <2>2. CASE Next
        <3>1. PICK s \in Side, u \in Trajectory :
                  traj' = [traj EXCEPT ![s] = u] /\ Grown(traj[s], u)
            BY <1>1, <2>2, OneGrows DEF IInv
        <3>2. PICK a \in Trajectory, b \in Trajectory : a = traj["a"] /\ b = traj["b"]
            BY <1>1, Sides
        <3>3. Diff(a, b).kind = "diverged" /\ D = Diff(a, b)
            BY <1>1, <3>2 DEF D
        <3>4. CASE s = "a"
            <4>1. traj'["a"] = u /\ traj'["b"] = b
                BY <1>1, <3>1, <3>2, <3>4 DEF IInv, Side
            <4>2. Grown(a, u) /\ ~Forked(u) /\ ~Forked(b)
                BY <1>1, <3>1, <3>2, <3>4, <4>1
            <4>3. Diff(u, b) = Diff(a, b)
                BY <3>3, <4>2, StaysDiverged
            <4> QED
                BY <3>3, <4>1, <4>3 DEF D
        <3>5. CASE s = "b"
            <4>1. traj'["b"] = u /\ traj'["a"] = a
                BY <1>1, <3>1, <3>2, <3>5 DEF IInv, Side
            <4>2. Grown(b, u) /\ ~Forked(u) /\ ~Forked(a)
                BY <1>1, <3>1, <3>2, <3>5, <4>1
            <4>3. Diff(b, a) = Diff(a, b) /\ Diff(a, u) = Diff(u, a)
                BY DiffCommutes
            <4>4. Diff(u, a) = Diff(b, a)
                BY <3>3, <4>2, <4>3, StaysDiverged
            <4> QED
                BY <3>3, <4>1, <4>3, <4>4 DEF D
        <3> QED
            BY <3>4, <3>5 DEF Side
    <2> QED
        BY <1>1, <2>1, <2>2
<1>2. IInv /\ [Next]_traj =>
          [D.kind = "diverged" /\ ~Forked(traj["a"]') /\ ~Forked(traj["b"]') => D' = D]_traj
    BY <1>1
<1> QED
    BY <1>2, Invariant, PTL DEF Spec, VerdictStable
==============================================================================
