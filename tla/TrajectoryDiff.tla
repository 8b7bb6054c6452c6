--------------------------- MODULE TrajectoryDiff ----------------------------
(* The trajectory diff (replay/diff.py): aligns two trajectories on their     *)
(* decisions (tool calls and the final answer) and says where they part. The  *)
(* two trajectories grow here as captures and replays make them grow, and the *)
(* diff is taken of every pair of states on the way.                          *)
(*                                                                            *)
(* A step is [kind, key, token]: key is what _key makes of a decision (tool   *)
(* name and arguments as one atom; every final answer has the same key), and  *)
(* token tells whether a redaction token is found in the step's input or      *)
(* result.                                                                    *)
EXTENDS Naturals, Sequences

CONSTANTS
    Keys,       \* (tool name, arguments) of the calls
    FinalKey,   \* the key of every final answer
    NoKey,      \* where a trajectory has no decision
    NoIndex,    \* first_divergence = None
    MaxSteps    \* bound: steps of one trajectory

ASSUME DiffAssumption ==
    /\ FinalKey \notin Keys
    /\ NoKey \notin Keys \cup {FinalKey}
    /\ NoIndex \notin Nat
    /\ MaxSteps \in Nat

Side == {"a", "b"}

VARIABLE traj   \* [Side -> Trajectory]

None == "none"

StoppedReason == {None, "unrecorded_tool_call", "max_steps"}

CallStep(k, token) == [kind |-> "tool_call", key |-> k, token |-> token]
ResultStep(token) == [kind |-> "tool_result", key |-> NoKey, token |-> token]
FinalStep == [kind |-> "final", key |-> FinalKey, token |-> FALSE]

IsDecision(s) == s.kind \in {"tool_call", "final"}

(* The decisions among the first n steps; Trajectory.decisions is all of them. *)
DecisionsUpTo(t, n) ==
    LET upTo[i \in 0..Len(t.steps)] ==
            IF i = 0 THEN <<>>
            ELSE upTo[i - 1] \o IF IsDecision(t.steps[i]) THEN <<t.steps[i]>> ELSE <<>>
    IN  upTo[n]

Decisions(t) == DecisionsUpTo(t, Len(t.steps))

(* Was this run seen to end, or did the recording just stop?                  *)
HasTerminal(t) ==
    LET ds == Decisions(t)
    IN  ds # <<>> /\ ds[Len(ds)].kind = "final"

Forked(t) == t.stopped = "unrecorded_tool_call"

------------------------------------------------------------------------------
(* The diff itself. Decisions are counted from 1 here and from 0 in the code: *)
(* the fields first and until of a verdict are the code's.                    *)

KeyAt(ds, i) == IF i <= Len(ds) THEN ds[i].key ELSE NoKey

Longest(da, db) == IF Len(da) >= Len(db) THEN Len(da) ELSE Len(db)

Conflicts(da, db) ==
    {i \in 1..Longest(da, db) : KeyAt(da, i) # KeyAt(db, i)}

FirstConflict(da, db) ==
    CHOOSE i \in Conflicts(da, db) : \A j \in Conflicts(da, db) : i <= j

(* Operators named Bad... are the mistakes the mutation runs make: each is put *)
(* in place of the definition that follows it, and nothing else uses them.    *)

(* Only the first trajectory is asked whether it had ended.                   *)
BadRanOut(i, da, db, aEnds, bEnds) ==
    (i > Len(da) \/ i > Len(db)) /\ ~aEnds

(* One side has no i-th decision, and it was not seen to end before it.       *)
RanOut(i, da, db, aEnds, bEnds) ==
    (i > Len(da) /\ ~aEnds) \/ (i > Len(db) /\ ~bEnds)

(* Steps up to and including the i-th decision of a trajectory, all of them   *)
(* if it has fewer decisions.                                                 *)
StepsThrough(t, i) ==
    {n \in 1..Len(t.steps) : Len(DecisionsUpTo(t, n - 1)) < i}

TokenThrough(t, i) == \E n \in StepsThrough(t, i) : t.steps[n].token

(* Any token of either trajectory, wherever it is.                            *)
BadRedactionInPlay(a, b, i) ==
    \E t \in {a, b} : \E n \in 1..Len(t.steps) : t.steps[n].token

RedactionInPlay(a, b, i) == TokenThrough(a, i) \/ TokenThrough(b, i)

Verdict(kind, first, until, suspect) ==
    [kind |-> kind, first |-> first, until |-> until, suspect |-> suspect]

ConflictVerdict(a, b, i) ==
    LET da == Decisions(a)
        db == Decisions(b)
        kind == IF Forked(a) \/ Forked(b) THEN "unresolvable_fork"
                ELSE IF RanOut(i, da, db, HasTerminal(a), HasTerminal(b))
                     THEN "unknown_terminal"
                     ELSE "diverged"
    IN  IF kind = "unknown_terminal"
        THEN Verdict(kind, NoIndex, i - 1, FALSE)
        ELSE Verdict(kind, i - 1, i - 1, RedactionInPlay(a, b, i))

(* Matching decisions are taken for the whole run.                            *)
BadMatchVerdict(a, b) == Verdict("aligned", NoIndex, Len(Decisions(a)), FALSE)

MatchVerdict(a, b) ==
    LET kind == IF HasTerminal(a) /\ HasTerminal(b) THEN "aligned"
                                                    ELSE "unknown_terminal"
    IN  Verdict(kind, NoIndex, Len(Decisions(a)), FALSE)

(* The shorter trajectory bounds the loop.                                    *)
BadDiff(a, b) ==
    LET da == Decisions(a)
        db == Decisions(b)
        short == {i \in Conflicts(da, db) : i <= Len(da) /\ i <= Len(db)}
    IN  IF short = {} THEN MatchVerdict(a, b)
                      ELSE ConflictVerdict(a, b, FirstConflict(da, db))

(* diff_trajectories(a, b)                                                    *)
Diff(a, b) ==
    LET da == Decisions(a)
        db == Decisions(b)
    IN  IF Conflicts(da, db) = {} THEN MatchVerdict(a, b)
                                  ELSE ConflictVerdict(a, b, FirstConflict(da, db))

------------------------------------------------------------------------------
(* How trajectories grow: a capture or a replay adds steps, sees the run end  *)
(* with an answer, or is cut short for a reason.                              *)

Init == traj = [s \in Side |-> [steps |-> <<>>, stopped |-> None]]

(* A final answer does not end the loop.                                      *)
BadGrowing(s) == traj[s].stopped = None

Growing(s) == ~HasTerminal(traj[s]) /\ traj[s].stopped = None

AddsStep(s, new) ==
    /\ Growing(s)
    /\ Len(traj[s].steps) < MaxSteps
    /\ traj' = [traj EXCEPT ![s].steps = Append(@, new)]

MakesCall(s) == \E k \in Keys, token \in BOOLEAN : AddsStep(s, CallStep(k, token))

GetsResult(s) ==
    /\ traj[s].steps # <<>>
    /\ traj[s].steps[Len(traj[s].steps)].kind = "tool_call"
    /\ \E token \in BOOLEAN : AddsStep(s, ResultStep(token))

GivesAnswer(s) == AddsStep(s, FinalStep)

(* A replay that asked for a call the recording does not cover: its last step *)
(* is the missing result of that call.                                        *)
StopsAtFork(s) ==
    /\ Growing(s)
    /\ traj[s].steps # <<>>
    /\ traj[s].steps[Len(traj[s].steps)].kind = "tool_call"
    /\ traj' = [traj EXCEPT ![s] = [steps |-> Append(@.steps, ResultStep(FALSE)),
                                   stopped |-> "unrecorded_tool_call"]]

RunsOutOfSteps(s) ==
    /\ Growing(s)
    /\ traj' = [traj EXCEPT ![s].stopped = "max_steps"]

Next ==
    \E s \in Side :
        \/ MakesCall(s)
        \/ GetsResult(s)
        \/ GivesAnswer(s)
        \/ StopsAtFork(s)
        \/ RunsOutOfSteps(s)

Spec == Init /\ [][Next]_traj

------------------------------------------------------------------------------

D == Diff(traj["a"], traj["b"])

DecisionsOf(s) == Decisions(traj[s])

StepType == {CallStep(k, token) : k \in Keys, token \in BOOLEAN}
    \cup {ResultStep(token) : token \in BOOLEAN} \cup {FinalStep}

(* A trajectory has at most one final step, the last one, and the verdict's   *)
(* indices are within the decisions compared.                                 *)
TypeOK ==
    /\ traj \in [Side -> [steps : Seq(StepType), stopped : StoppedReason]]
    /\ \A s \in Side : \A n \in 1..Len(traj[s].steps) :
          traj[s].steps[n].kind = "final" => n = Len(traj[s].steps)
    /\ D.kind \in {"aligned", "diverged", "unresolvable_fork", "unknown_terminal"}
    /\ D.until \in 0..Longest(DecisionsOf("a"), DecisionsOf("b"))
    /\ D.first \in {NoIndex, D.until}

(* The keys of a run that was seen to end, or any continuation of one that    *)
(* was not: what the run may really have been.                                *)
KeysOf(t) == [i \in 1..Len(Decisions(t)) |-> Decisions(t)[i].key]

Extends(long, short) ==
    /\ Len(short) <= Len(long)
    /\ \A i \in 1..Len(short) : long[i] = short[i]

CouldBe(run, t) ==
    IF HasTerminal(t) THEN run = KeysOf(t) ELSE Extends(run, KeysOf(t))

(* If two runs can be one and the same, the longer of the two records can be  *)
(* taken for it.                                                              *)
CouldBeSame(a, b) == \E t \in {a, b} : CouldBe(KeysOf(t), a) /\ CouldBe(KeysOf(t), b)

(* "aligned" claims that the runs made the same decisions and "diverged" that *)
(* they did not, in each case whatever the unseen part of either was;         *)
(* "unknown_terminal" claims neither. No claim is made beyond the evidence    *)
(* and none is withheld.                                                      *)
KindIsExact ==
    LET a == traj["a"]
        b == traj["b"]
        ended == HasTerminal(a) /\ HasTerminal(b)
    IN  /\ D.kind = "aligned" <=> ended /\ KeysOf(a) = KeysOf(b)
        /\ ~Forked(a) /\ ~Forked(b) => (D.kind = "diverged" <=> ~CouldBeSame(a, b))

(* Everything before comparable_until really agrees, and where a conflict is  *)
(* reported the two runs really disagree.                                     *)
ComparableAgrees ==
    LET a == DecisionsOf("a")
        b == DecisionsOf("b")
    IN  /\ \A i \in 1..D.until : KeyAt(a, i) = KeyAt(b, i)
        /\ D.first # NoIndex => KeyAt(a, D.first + 1) # KeyAt(b, D.first + 1)

(* The verdict does not depend on which trajectory is called a.               *)
Symmetric == Diff(traj["b"], traj["a"]) = D

(* Once a divergence is established it stays, with its place and with its     *)
(* suspicion of redaction, however the two runs go on. (A fork met later does *)
(* change the kind: see ForkIsTheDivergence. And it is for trajectories that  *)
(* grow at their end, as Growing makes them. A capture may also take a final  *)
(* step back when the agent goes on after an answer, capture.py:92-100, and   *)
(* then a divergence at that step is not final; and a proxy trace gets the    *)
(* span of a slow call after those of calls made later.)                      *)
VerdictStable ==
    [][D.kind = "diverged" /\ ~Forked(traj["a"]') /\ ~Forked(traj["b"]') => D' = D]_traj

(* What diff.py:8-11 says of an unresolvable fork: the run diverged because   *)
(* the replay asked for a call the recording does not cover, and the steps    *)
(* after that point never happened.                                           *)
ForkIsTheDivergence ==
    D.kind = "unresolvable_fork" =>
        \E s \in Side : Forked(traj[s]) /\ Len(DecisionsOf(s)) <= D.until + 1
==============================================================================
