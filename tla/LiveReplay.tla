----------------------------- MODULE LiveReplay ------------------------------
(* The whole loop: an agent run is captured (SdkSession), the explorer's      *)
(* /api/replay (ui/app.py) reads the trace through a connection of its own,   *)
(* possibly while the agent is still running, replays it against another      *)
(* model (ReplayEngine) and reports where the two runs part (TrajectoryDiff). *)
(*                                                                            *)
(* The handler reads the trace twice: once for the recording and once for the *)
(* trajectory. What the agent does after the second read can no longer matter *)
(* to it and is left out.                                                     *)
EXTENDS CapturedTrace

CONSTANTS
    Asked,      \* the calls a replayed model may make, with redacted ones
    Stub,       \* STUB_RESULT
    Policies,   \* the values of on_unrecorded tried
    MaxSteps,   \* max_steps
    MaxBatch,   \* bound: tool calls in one response
    NoIndex     \* first_divergence = None

ASSUME ReplayAssumption ==
    /\ Calls \subseteq Asked
    /\ Asked \cup Values \cup {Stub} \subseteq DOMAIN Redact
    /\ \A call \in Asked : Redact[call] \in Asked
    /\ \A v \in Values : Redact[v] \in DOMAIN Redact
    /\ Stub \notin Values \cup {Redact[v] : v \in Values}
    /\ Policies \subseteq STRING
    /\ MaxSteps \in Nat
    /\ MaxBatch \in Nat \ {0}
    /\ FinalKey \notin Asked
    /\ NoKey \notin Asked \cup {FinalKey}
    /\ NoIndex \notin Nat
    /\ None \notin Tokens

VARIABLES
    ui,         \* "idle", "rebuilt", "replaying" or "failed"
    complete,   \* history: how many rows there were when the recording was read
    captured,   \* the trajectory the agent took
    recording, policy, executor, pc, round, turns, batch, results,
    steps, stopped, executed    \* as in ReplayEngine

engineVars == <<recording, policy, executor, pc, round, turns, batch, results,
                steps, stopped, executed>>

vars == <<sessionVars, ui, complete, captured, engineVars>>

Results == {Redact[v] : v \in Values}

Engine == INSTANCE ReplayEngine WITH
    Calls <- Asked, Values <- Results, Narrates <- {FALSE},
    Recordings <- UNION {[S -> Results] : S \in SUBSET Asked}

Replayed ==
    [steps |-> [i \in 1..Len(steps) |->
        [kind |-> steps[i].kind,
         key |-> CASE steps[i].kind = "tool_call" -> steps[i].of
                   [] steps[i].kind = "final" -> FinalKey
                   [] OTHER -> NoKey,
         token |-> steps[i].of \in Tokens]],
     stopped |-> stopped]

Diffs == INSTANCE TrajectoryDiff WITH
    Keys <- Asked, MaxSteps <- MaxEvents,
    traj <- [s \in {"a", "b"} |-> IF s = "a" THEN captured ELSE Replayed]

Init ==
    /\ SessionInit
    /\ ui = "idle"
    /\ complete = 0
    /\ captured = [steps |-> <<>>, stopped |-> None]
    /\ recording = <<>>
    /\ policy = None
    /\ executor = FALSE
    /\ pc = "start"
    /\ round = 0
    /\ turns = <<>>
    /\ batch = <<>>
    /\ results = <<>>
    /\ steps = <<>>
    /\ stopped = None
    /\ executed = <<>>

AgentRuns ==
    /\ ui \in {"idle", "rebuilt"}
    /\ SessionNext
    /\ UNCHANGED <<ui, complete, captured, engineVars>>

(* A transaction that a failed commit left open locks readers out: the        *)
(* request ends with an error.                                                *)
LockedOut ==
    /\ ui \in {"idle", "rebuilt"}
    /\ txn # <<>>
    /\ ui' = "failed"
    /\ UNCHANGED <<sessionVars, complete, captured, engineVars>>

(* No such trace (404), or no question in it (400).                           *)
CannotRebuild ==
    /\ ui = "idle"
    /\ txn = <<>>
    /\ ~Replayable(rows)
    /\ ui' = "failed"
    /\ UNCHANGED <<sessionVars, complete, captured, engineVars>>

Rebuilds ==
    /\ ui = "idle"
    /\ txn = <<>>
    /\ Replayable(rows)
    /\ recording' = RecordingFrom(rows)
    /\ policy' \in Policies
    /\ complete' = Len(rows)
    /\ ui' = "rebuilt"
    /\ UNCHANGED <<sessionVars, captured, executor, pc, round, turns, batch,
                   results, steps, stopped, executed>>

ReadsTrajectory ==
    /\ ui = "rebuilt"
    /\ txn = <<>>
    /\ captured' = CapturedTrajectory(rows)
    /\ ui' = "replaying"
    /\ UNCHANGED <<sessionVars, complete, engineVars>>

(* The engine runs. If it raises the request fails; if it returns, the diff   *)
(* of what was read and what was replayed is the answer.                      *)
Replays ==
    /\ ui = "replaying"
    /\ Engine!Step
    /\ UNCHANGED <<sessionVars, ui, complete, captured>>

Responds == ui = "replaying" /\ pc = "returned"

Next ==
    \/ AgentRuns
    \/ LockedOut
    \/ CannotRebuild
    \/ Rebuilds
    \/ ReadsTrajectory
    \/ Replays

Spec == Init /\ [][Next]_vars

------------------------------------------------------------------------------

Kept(n) == \E i \in 1..Len(rows) : rows[i].n = n

(* What really happened and can be known: what the agent did, but for the     *)
(* spans that failed to be written, redacted.                                 *)
Happened ==
    LET kept == Filtered(did, {s \in Contents(did) : Kept(s.n)})
    IN  [i \in 1..Len(kept) |-> Redacted(kept[i])]

Truth ==
    LET calls == OfKind(Happened, "tool_call")
    IN  [i \in 1..Len(calls) |-> calls[i].call]

CallsOf(t) ==
    LET calls == OfKind(t.steps, "tool_call")
    IN  [i \in 1..Len(calls) |-> calls[i].key]

Decision == {CallDecision(c) : c \in {Redact[x] : x \in Calls}} \cup {FinalDecision}

TypeOK ==
    /\ session \in {"open", "raising", "closed"}
    /\ ui \in {"idle", "rebuilt", "replaying", "failed"}
    /\ complete \in 0..Len(rows)
    /\ captured \in [steps : Seq(Decision), stopped : {None}]
    /\ ui # "idle" => ui = "failed" \/ Engine!TypeOK

(* The captured trajectory is what the agent did. At any moment a reader may  *)
(* come, it finds every tool call that was written, failed ones included, and *)
(* as long as the clock was not set back it finds them in the order they      *)
(* happened, and finds the run ended only if the agent's last model call said *)
(* so. The explorer's list counts the same calls, and names no session that   *)
(* is still going on.                                                         *)
CapturedIsWhatHappened ==
    LET seen == CapturedTrajectory(rows)
        calls == CallsOf(seen)
        truth == Truth
        told == OfKind(Happened, "llm_call")
    IN  /\ Len(calls) = Len(truth)
        /\ Listed(rows).calls = Len(truth)
        /\ Listed(rows).named => session = "closed"
        /\ ~setBack =>
              /\ calls = truth
              /\ Diffs!HasTerminal(seen) <=>
                    told # <<>> /\ told[Len(told)].finish = <<"ending">>

(* A reader never has to take back a tool call or its place: the trajectory   *)
(* of a trace that is still being written only grows at its end. (Its final   *)
(* step may be taken back, when the agent goes on after an answer.)           *)
CapturedGrows ==
    [][~setBack' => IsPrefix(CallsOf(CapturedTrajectory(rows)),
                             CallsOf(CapturedTrajectory(rows')))]_vars

(* What the replayed model is told in reply to a call it makes, unless it is  *)
(* the stub, is what the agent was told in reply to that call.                *)
ToldWhatTheAgentWasTold ==
    \A i \in 1..Len(turns) : \A j \in 1..Len(turns[i].results) :
        LET told == turns[i].results[j].value
            call == turns[i - 1].calls[j].call
        IN  told # Stub =>
                \E s \in Contents(Happened) : s.call = call /\ s.result = told

(* The calls whose answer is in the rows the recording was read from, in the  *)
(* trace's words.                                                             *)
AnswersThere ==
    {rows[i].call : i \in {k \in 1..complete :
        rows[k].kind = "tool_call" /\ rows[k].result # NoResult}}

GivesUpBranch == stopped = "unrecorded_tool_call"

(* The call the branch was given up on, in the model's words.                 *)
GivenUp == batch[Len(results) + 1].call

(* A call is answered with the stub, or the branch given up on it, exactly if *)
(* the rows read hold no answer to the call in the model's own words: the     *)
(* agent did not make it, or had no answer to it written by then, or made it  *)
(* in words of which the trace has only the redacted form. (So a miss is not  *)
(* always the genuine divergence that recording.py:43-45 takes it for.)       *)
ForkIsUncovered ==
    /\ \A i \in 1..Len(turns) : \A j \in 1..Len(turns[i].results) :
          turns[i].results[j].value = Stub
              <=> turns[i - 1].calls[j].call \notin AnswersThere
    /\ \A j \in 1..Len(results) :
          results[j].value = Stub <=> batch[j].call \notin AnswersThere
    /\ GivesUpBranch => GivenUp \notin AnswersThere

(* What the model asked for, as far as it was listened to: in its own words,  *)
(* and as its trajectory has it.                                              *)
AskedFor ==
    LET all == Engine!AskedSoFar
        kept == Len(all) - IF GivesUpBranch
                           THEN Len(batch) - Len(results) - 1 ELSE 0
    IN  [i \in 1..kept |-> all[i].call]

Decided == [i \in 1..Len(AskedFor) |-> Redact[AskedFor[i]]]

D == Diffs!D

WithEnd(calls, ends) == calls \o IF ends THEN <<FinalKey>> ELSE <<>>

(* What the user is told of the two runs is true of the decisions they made.  *)
(* Before the place of a divergence or a fork the two decided the same.       *)
(* At a divergence both decided, and not the same. At a fork one of three     *)
(* things happened: both decided, and not the same; or the agent's trace      *)
(* stops there; or the model did not get there, for the decision before,      *)
(* which it shares with the agent, is the call it was given up on, having     *)
(* used words for it that the recording has no answer to. Models that decide  *)
(* as the agent did and then answer are never said to diverge, and only they  *)
(* are said to be aligned. All this although the trace may grow between the   *)
(* handler's two reads, and calls may fail.                                   *)
VerdictIsTrue ==
    LET agent == WithEnd(Truth, Diffs!HasTerminal(captured))
        model == WithEnd(Decided, stopped = None)
        n == D.first
        Agree == \A i \in 1..n : agent[i] = model[i]
        Differ == n < Len(agent) /\ n < Len(model) /\ agent[n + 1] # model[n + 1]
        TraceStops == n = Len(agent) /\ n < Len(model) /\ ~Diffs!HasTerminal(captured)
        CutOff == /\ n = Len(model) /\ n < Len(agent)
                  /\ n = Len(AskedFor) /\ n # 0
                  /\ AskedFor[n] \notin AnswersThere
    IN  Responds /\ ~setBack =>
            /\ D.kind = "diverged" => Agree /\ Differ /\ ~GivesUpBranch
            /\ D.kind = "unresolvable_fork" =>
                  Agree /\ GivesUpBranch /\ (Differ \/ TraceStops \/ CutOff)
            /\ D.kind = "aligned" => agent = model
            /\ Decided = Truth /\ stopped = None =>
                  D.kind = IF Diffs!HasTerminal(captured) THEN "aligned"
                                                          ELSE "unknown_terminal"

(* What diff.py:4-5 says the comparison rests on: the replay is given the     *)
(* same tool outputs. A model that repeats the agent's calls is told at each  *)
(* of them what the agent was told there.                                     *)
SameOutputs ==
    LET told == FlattenSeq([i \in 1..Len(turns) |-> turns[i].results])
        calls == OfKind(Happened, "tool_call")
    IN  Responds /\ Decided = Truth /\ stopped = None =>
            \A i \in 1..Len(told) :
                calls[i].result # NoResult /\ told[i].value # Stub
                    => told[i].value = calls[i].result

(* What engine.py:10-13 says of redaction: a replay stays aligned with the     *)
(* original, and differences are due to the model. A model that makes the     *)
(* agent's calls, in the words that the trace and its own prompt have for     *)
(* them, is not said to diverge.                                              *)
RepeatsAlign ==
    Responds /\ ~setBack /\ AskedFor = Truth => D.kind # "diverged"
==============================================================================
