---------------------------- MODULE ReplayEngine -----------------------------
(* The mocked replay engine (replay/engine.py): drives a model through the    *)
(* agent loop and answers its tool calls from a recording. One run of         *)
(* replay(): an action is one iteration of its outer loop up to the tool      *)
(* calls, one tool call, or one return.                                       *)
(*                                                                            *)
(* A call (tool name and arguments) and a value (tool result) are atoms. The  *)
(* model is the environment: it may answer anything, or raise. It gives every *)
(* call an id of its own, here the pair of round and position.                *)
EXTENDS SequencesExt, Subsequences

CONSTANTS
    Calls,      \* (tool name, canonical arguments) the model may ask for
    Values,     \* tool results
    Stub,       \* STUB_RESULT
    Recordings, \* the recordings replayed: partial functions Calls -> Values
    Policies,   \* the values of on_unrecorded tried
    MaxSteps,   \* max_steps
    MaxBatch,   \* bound: tool calls in one response
    Narrates,   \* bound, subset of BOOLEAN: whether a response has text, too
    Redact      \* [Calls \cup Values \cup {Stub} -> ...]: redact_object

ASSUME ReplayAssumption ==
    /\ Stub \notin Values
    /\ \A r \in Recordings : DOMAIN r \subseteq Calls /\ r \in [DOMAIN r -> Values]
    /\ Policies \subseteq STRING
    /\ MaxSteps \in Nat
    /\ MaxBatch \in Nat \ {0}
    /\ Narrates \subseteq BOOLEAN /\ Narrates # {}
    /\ Calls \cup Values \cup {Stub} \subseteq DOMAIN Redact

VARIABLES
    recording,  \* the recording: call -> result, for the calls it covers
    policy,     \* on_unrecorded
    executor,   \* BOOLEAN: live_tool was given
    pc,         \* "start", "converse", "calls", "returned" or "raised"
    round,      \* how many times the adapter was asked
    turns,      \* the conversation the model is shown
    batch,      \* resp.tool_calls of this round
    results,    \* result_turn: the answers collected for batch so far
    steps,      \* traj.steps
    stopped,    \* traj.stopped_reason
    executed    \* history: the calls live_tool was given

vars == <<recording, policy, executor, pc, round, turns, batch, results,
          steps, stopped, executed>>

inputs == <<recording, policy, executor>>

None == "none"

Forks == {"stop", "stub", "live"}

PC == {"start", "converse", "calls", "returned", "raised"}

(* A turn: whether it has text, the tools it asks for, the results it brings. *)
TurnOf(role, text, calls, answers) ==
    [role |-> role, text |-> text, calls |-> calls, results |-> answers]

Question == TurnOf("user", TRUE, <<>>, <<>>)
AssistantTurn(text, calls) == TurnOf("assistant", text, calls, <<>>)
ResultTurn(answers) == TurnOf("user", FALSE, <<>>, answers)

Text == [kind |-> "model_text", of |-> None, how |-> None]
Final == [kind |-> "final", of |-> None, how |-> None]
(* Operators named Bad... are the mistakes the mutation runs make: each is put *)
(* in place of the definition that follows it, and nothing else uses them.    *)

BadCallStep(c) == [kind |-> "tool_call", of |-> c, how |-> None]
CallStep(c) == [kind |-> "tool_call", of |-> Redact[c], how |-> None]

BadResultStep(v, how) == [kind |-> "tool_result", of |-> v, how |-> how]

ResultStep(v, how) == [kind |-> "tool_result", of |-> Redact[v], how |-> how]
MissingStep == [kind |-> "tool_result", of |-> None, how |-> "missing"]

Init ==
    /\ recording \in Recordings
    /\ policy \in Policies
    /\ executor \in BOOLEAN
    /\ pc = "start"
    /\ round = 0
    /\ turns = <<>>
    /\ batch = <<>>
    /\ results = <<>>
    /\ steps = <<>>
    /\ stopped = None
    /\ executed = <<>>

(* An unknown policy is refused before anything else happens.                 *)
RefusesPolicy ==
    /\ pc = "start"
    /\ policy \notin Forks
    /\ pc' = "raised"
    /\ UNCHANGED <<inputs, round, turns, batch, results, steps, stopped, executed>>

Start ==
    /\ pc = "start"
    /\ policy \in Forks
    /\ turns' = <<Question>>
    /\ pc' = "converse"
    /\ UNCHANGED <<inputs, round, batch, results, steps, stopped, executed>>

------------------------------------------------------------------------------
(* One round: the adapter is asked, and its response is text, tool calls,     *)
(* both or neither. (The usage numbers it comes with are only summed up.)     *)

Batches(n) ==
    {[i \in 1..k |-> [id |-> <<n, i>>, call |-> cs[i]]] :
        k \in 1..MaxBatch, cs \in [1..MaxBatch -> Calls]}

(* One round too many.                                                        *)
BadRoundsLeft == round <= MaxSteps
RoundsLeft == round < MaxSteps

Asks ==
    /\ pc = "converse"
    /\ RoundsLeft
    /\ round' = round + 1

Said(text) == steps \o IF text THEN <<Text>> ELSE <<>>

(* No tool calls: the response is the final answer, even if it is empty.      *)
FinalAnswer ==
    /\ Asks
    /\ \E text \in Narrates : steps' = Append(Said(text), Final)
    /\ pc' = "returned"
    /\ UNCHANGED <<inputs, turns, batch, results, stopped, executed>>

RequestsTools ==
    /\ Asks
    /\ batch' \in Batches(round')
    /\ \E text \in Narrates :
          /\ steps' = Said(text)
          /\ turns' = Append(turns, AssistantTurn(text, batch'))
    /\ results' = <<>>
    /\ pc' = "calls"
    /\ UNCHANGED <<inputs, stopped, executed>>

(* The adapter raises (network, credentials, a response it cannot parse): the *)
(* trajectory is lost.                                                        *)
AdapterRaises ==
    /\ Asks
    /\ pc' = "raised"
    /\ UNCHANGED <<inputs, turns, batch, results, steps, stopped, executed>>

(* The test for the last round is off by one.                                 *)
BadRoundsSpent == round > MaxSteps
RoundsSpent == round = MaxSteps

OutOfSteps ==
    /\ pc = "converse"
    /\ RoundsSpent
    /\ stopped' = "max_steps"
    /\ pc' = "returned"
    /\ UNCHANGED <<inputs, round, turns, batch, results, steps, executed>>

------------------------------------------------------------------------------
(* The tool calls of one response, in order.                                  *)

Handling == pc = "calls" /\ Len(results) < Len(batch)

Current == batch[Len(results) + 1]

Found == Current.call \in DOMAIN recording

(* "stop" falls through to the stub.                                          *)
BadStopStubs(way) == ~Found /\ (policy = way \/ (way = "stub" /\ policy = "stop"))

(* The policy is preferred to the recording.                                  *)
BadPolicyFirst(way) == policy = way

(* The recording does not cover the call, and the policy says what to do.     *)
Fork(way) == ~Found /\ policy = way

Answers(v, how) ==
    /\ steps' = steps \o <<CallStep(Current.call), ResultStep(v, how)>>
    /\ results' = Append(results, [id |-> Current.id, value |-> v])
    /\ UNCHANGED <<inputs, pc, round, turns, batch, stopped>>

AnswerRecorded ==
    /\ Handling
    /\ Found
    /\ Answers(recording[Current.call], "recorded")
    /\ UNCHANGED executed

AnswerStub ==
    /\ Handling
    /\ Fork("stub")
    /\ Answers(Stub, "stubbed")
    /\ UNCHANGED executed

AnswerLive ==
    /\ Handling
    /\ Fork("live")
    /\ executor
    /\ \E v \in Values : Answers(v, "live")
    /\ executed' = Append(executed, Current.call)

(* Without an executor the first fork raises; an executor may raise itself.   *)
LiveRaises ==
    /\ Handling
    /\ Fork("live")
    /\ steps' = Append(steps, CallStep(Current.call))
    /\ executed' = IF executor THEN Append(executed, Current.call) ELSE executed
    /\ pc' = "raised"
    /\ UNCHANGED <<inputs, round, turns, batch, results, stopped>>

(* break where the code has return: only the batch is given up.               *)
BadGivesUp == pc' = "converse" /\ stopped' = "unrecorded_tool_call"
GivesUp == pc' = "returned" /\ stopped' = "unrecorded_tool_call"

StopAtFork ==
    /\ Handling
    /\ Fork("stop")
    /\ steps' = steps \o <<CallStep(Current.call), MissingStep>>
    /\ GivesUp
    /\ UNCHANGED <<inputs, round, turns, batch, results, executed>>

(* The answers never become a turn.                                           *)
BadShowsResults == turns' = turns
ShowsResults == turns' = Append(turns, ResultTurn(results))

(* Every call is answered: the answers become a turn, and the model is next.  *)
BatchAnswered ==
    /\ pc = "calls"
    /\ Len(results) = Len(batch)
    /\ ShowsResults
    /\ pc' = "converse"
    /\ UNCHANGED <<inputs, round, batch, results, steps, stopped, executed>>

------------------------------------------------------------------------------

Done == pc \in {"returned", "raised"}

Converse == FinalAnswer \/ RequestsTools \/ AdapterRaises \/ OutOfSteps

HandleCall ==
    AnswerRecorded \/ AnswerStub \/ AnswerLive \/ LiveRaises \/ StopAtFork

Step == RefusesPolicy \/ Start \/ Converse \/ HandleCall \/ BatchAnswered

Next == Step \/ (Done /\ UNCHANGED vars)

Spec == Init /\ [][Next]_vars

(* replay() is one synchronous call; the adapter and live_tool return.        *)
FairSpec == Spec /\ WF_vars(Step)

------------------------------------------------------------------------------

Call == [id : Nat \X Nat, call : Calls]
Answer == [id : Nat \X Nat, value : Values \cup {Stub}]
Turn == [role : {"user", "assistant"}, text : BOOLEAN,
         calls : Seq(Call), results : Seq(Answer)]

TypeOK ==
    /\ recording \in Recordings
    /\ policy \in Policies
    /\ executor \in BOOLEAN
    /\ pc \in PC
    /\ round \in 0..MaxSteps
    /\ turns \in Seq(Turn)
    /\ batch \in Seq(Call)
    /\ results \in Seq(Answer)
    /\ Len(results) <= Len(batch)
    /\ stopped \in {None, "max_steps", "unrecorded_tool_call"}
    /\ executed \in Seq(Calls)

(* answers reply to a prefix of calls, one each, in order, by id.             *)
Replies(answers, calls) ==
    /\ Len(answers) <= Len(calls)
    /\ \A i \in 1..Len(answers) : answers[i].id = calls[i].id

(* Whenever the model is asked, the conversation is one a model provider      *)
(* accepts: the question, then assistant turns that request tools, each       *)
(* followed by a turn that answers all its calls. While calls are handled the *)
(* last assistant turn is the one being answered.                             *)
ConversationWellFormed ==
    /\ turns # <<>> <=> pc # "start" /\ policy \in Forks
    /\ turns # <<>> =>
        /\ turns[1] = Question
        /\ \A i \in 2..Len(turns) :
              IF i % 2 = 0
              THEN turns[i].role = "assistant" /\ turns[i].calls # <<>>
              ELSE /\ turns[i].role = "user"
                   /\ Len(turns[i].results) = Len(turns[i - 1].calls)
                   /\ Replies(turns[i].results, turns[i - 1].calls)
        /\ pc = "converse" => Len(turns) = 2 * round + 1
        /\ pc = "calls" => /\ Len(turns) = 2 * round
                           /\ turns[Len(turns)].calls = batch
                           /\ Replies(results, batch)

(* What the model may be told in reply to a call: the recorded result if      *)
(* there is one, whatever the policy; otherwise what the policy says, and     *)
(* under "stop" nothing at all.                                               *)
Legitimate(answer, call) ==
    IF call \in DOMAIN recording
    THEN answer = recording[call]
    ELSE \/ policy = "stub" /\ answer = Stub
         \/ policy = "live" /\ answer # Stub
                            /\ \E i \in 1..Len(executed) : executed[i] = call

NothingFabricated ==
    /\ \A i \in 1..Len(turns) : \A j \in 1..Len(turns[i].results) :
          Legitimate(turns[i].results[j].value, turns[i - 1].calls[j].call)
    /\ \A j \in 1..Len(results) : Legitimate(results[j].value, batch[j].call)

(* Real tools are called only where the recording has nothing to say and the  *)
(* caller asked for it; the trajectory marks every live result.               *)
LiveIsLastResort ==
    /\ executed # <<>> => policy = "live" /\ executor
    /\ \A i \in 1..Len(executed) : executed[i] \notin DOMAIN recording

(* How the trajectory says the run ended is how it ended: a final step is the *)
(* last one and means an answer was seen; a missing result is the last one    *)
(* and means the branch was given up; a run out of steps used all of them.    *)
EndingHonest ==
    /\ \A i \in 1..Len(steps) :
          /\ steps[i].kind = "final" => i = Len(steps) /\ stopped = None
          /\ steps[i].how = "missing" =>
                i = Len(steps) /\ stopped = "unrecorded_tool_call"
    /\ stopped = "max_steps" => round = MaxSteps
    /\ pc = "returned" =>
          \/ stopped = "max_steps"
          \/ steps[Len(steps)] = Final
          \/ steps[Len(steps)] = MissingStep

(* The calls of the conversation, and the answers, those of the round that is *)
(* still going on included.                                                   *)
AskedSoFar == FlattenSeq([i \in 1..Len(turns) |-> turns[i].calls])

ToldSoFar ==
    FlattenSeq([i \in 1..Len(turns) |-> turns[i].results])
        \o IF turns # <<>> /\ turns[Len(turns)].role = "assistant" THEN results ELSE <<>>

StepsWith(kind) == {s \in Contents(steps) : s.kind = kind}

CallSteps == Filtered(steps, StepsWith("tool_call"))
AnswerSteps == Filtered(steps, StepsWith("tool_result") \ {MissingStep})

(* The trajectory shows exactly what the model was told, redacted, in the     *)
(* order it was told, after the calls it asked for: a step is never recorded  *)
(* without the turn the model sees, nor the reverse. A call that has no       *)
(* answer yet is at most the one the run ended on.                            *)
StepsMirrorConversation ==
    /\ Len(AnswerSteps) = Len(ToldSoFar)
    /\ \A i \in 1..Len(AnswerSteps) : AnswerSteps[i].of = Redact[ToldSoFar[i].value]
    /\ Len(CallSteps) - Len(AnswerSteps) \in IF Done THEN {0, 1} ELSE {0}
    /\ Len(CallSteps) <= Len(AskedSoFar)
    /\ \A i \in 1..Len(CallSteps) : CallSteps[i].of = Redact[AskedSoFar[i].call]

(* replay() returns or raises, whatever the model keeps asking for.           *)
Terminates == <>Done

------------------------------------------------------------------------------
(* What a replay promises, told without the engine: see AgentLoop. The n-th   *)
(* exchange is the n-th assistant turn with the answers collected for it, in  *)
(* the turn that follows or still in result_turn.                             *)

Exchanges ==
    [n \in 1 .. Len(turns) \div 2 |->
        LET calls == turns[2 * n].calls
            answers == IF 2 * n < Len(turns) THEN turns[2 * n + 1].results ELSE results
        IN  [asked |-> [i \in 1..Len(calls) |-> calls[i].call],
             told |-> [i \in 1..Len(answers) |-> answers[i].value]]]

Ending ==
    CASE pc = "raised" -> "failed"
      [] pc = "returned" /\ stopped = None -> "answered"
      [] pc = "returned" /\ stopped # None -> stopped
      [] OTHER -> "running"

Loop == INSTANCE AgentLoop WITH talk <- Exchanges, ending <- Ending

(* Whatever the model, the policy and the executor do, the engine holds a     *)
(* conversation of the abstract kind.                                         *)
ImplementsAgentLoop == Loop!Spec
==============================================================================
