------------------------- MODULE ReplayEngineProofs --------------------------
(* What is proved of the replay engine for every value of its constants: its  *)
(* types, its five safety invariants, and that it holds a conversation of the *)
(* kind AgentLoop describes, for any recordings, numbers of rounds, sizes of  *)
(* batches and policies.                                                      *)
EXTENDS ReplayEngine, SubsequenceLemmas

(* The steps of a run that goes on.                                           *)
Narrating == TRUE \in Narrates

OngoingStep ==
    (IF Narrating THEN {Text} ELSE {}) \cup {CallStep(c) : c \in Calls}
        \cup {ResultStep(v, how) : v \in Values \cup {Stub},
                                   how \in {"recorded", "stubbed", "live"}}

AnyStep == OngoingStep \cup {Final, MissingStep}

(* A step that ends the run is the last one, it says how the run ended, and   *)
(* no run returns without one unless its rounds are spent.                    *)
Ends(s) ==
    \/ s = Final /\ stopped = None
    \/ s = MissingStep /\ stopped = "unrecorded_tool_call"

StepsOK ==
    /\ steps \in Seq(AnyStep)
    /\ \A i \in 1..Len(steps) :
          \/ steps[i] \in OngoingStep
          \/ i = Len(steps) /\ pc = "returned" /\ Ends(steps[i])
    /\ pc # "returned" => stopped = None
    /\ pc = "returned" =>
          \/ stopped = "max_steps" /\ round = MaxSteps
          \/ steps # <<>> /\ Ends(steps[Len(steps)])

(* Nothing has happened before the first turn. While an assistant turn is the *)
(* last one, batch holds its calls and results answers some of them, also     *)
(* when the run ends there.                                                   *)
LastIsAssistant == turns # <<>> /\ turns[Len(turns)].role = "assistant"

BatchOK ==
    /\ turns = <<>> => round = 0 /\ executed = <<>> /\ pc \in {"start", "raised"}
    /\ LastIsAssistant =>
          /\ batch # <<>>
          /\ turns[Len(turns)].calls = batch
          /\ Replies(results, batch)

(* A branch is given up on a call that is not answered and not recorded.      *)
ForkOK ==
    stopped = "unrecorded_tool_call" =>
        /\ pc = "returned" /\ LastIsAssistant /\ Len(results) < Len(batch)
        /\ batch[Len(results) + 1].call \notin DOMAIN recording

(* The steps that show calls and answers, and what they show, for any steps   *)
(* and turns.                                                                 *)
CallKind == {s \in AnyStep : s.kind = "tool_call"}
AnswerKind == {s \in AnyStep : s.kind = "tool_result" /\ s # MissingStep}

CallsShown(ss) == Filtered(ss, CallKind)
AnswersShown(ss) == Filtered(ss, AnswerKind)

AskedIn(ts) == FlattenSeq([i \in 1..Len(ts) |-> ts[i].calls])
ToldIn(ts) == FlattenSeq([i \in 1..Len(ts) |-> ts[i].results])
ToldNow(ts, rs) ==
    ToldIn(ts) \o IF ts # <<>> /\ ts[Len(ts)].role = "assistant" THEN rs ELSE <<>>

(* The calls shown are the first that were asked for, the answers shown are   *)
(* the ones told.                                                             *)
Mirrors(calls, answers, asked, told) ==
    /\ Len(answers) = Len(told)
    /\ \A i \in 1..Len(answers) : answers[i].of = Redact[told[i].value]
    /\ Len(calls) <= Len(asked)
    /\ \A i \in 1..Len(calls) : calls[i].of = Redact[asked[i].call]

(* What was asked for last is b, and so far rs was told of it.                *)
Pending(asked, told, b, rs) ==
    /\ Len(asked) = Len(told) + Len(b) - Len(rs)
    /\ Len(rs) <= Len(told)
    /\ \A k \in 1..Len(b) : asked[Len(told) - Len(rs) + k] = b[k]

MirrorOK ==
    /\ Mirrors(CallsShown(steps), AnswersShown(steps), AskedIn(turns), ToldNow(turns, results))
    /\ LastIsAssistant => Pending(AskedIn(turns), ToldNow(turns, results), batch, results)
    /\ ~LastIsAssistant => Len(AskedIn(turns)) = Len(ToldNow(turns, results))
    /\ \/ /\ Len(CallsShown(steps)) = Len(AnswersShown(steps))
          /\ stopped # "unrecorded_tool_call"
       \/ /\ Len(CallsShown(steps)) = Len(AnswersShown(steps)) + 1
          /\ stopped = "unrecorded_tool_call" \/ pc = "raised"
    /\ pc = "returned" => (LastIsAssistant <=> stopped = "unrecorded_tool_call")

IInv ==
    /\ TypeOK
    /\ StepsOK
    /\ BatchOK
    /\ ConversationWellFormed
    /\ NothingFabricated
    /\ LiveIsLastResort
    /\ ForkOK
    /\ MirrorOK

------------------------------------------------------------------------------
(* The data of one response and of one answer.                                *)

LEMMA BatchType ==
    ASSUME NEW n \in Nat, NEW b \in Batches(n)
    PROVE  b \in Seq(Call) /\ Len(b) \in 1..MaxBatch
<1>1. PICK k \in 1..MaxBatch, cs \in [1..MaxBatch -> Calls] :
          b = [i \in 1..k |-> [id |-> <<n, i>>, call |-> cs[i]]]
    BY DEF Batches
<1>2. \A i \in 1..k : [id |-> <<n, i>>, call |-> cs[i]] \in Call
    BY <1>1, ReplayAssumption DEF Call
<1>3. b \in [1..k -> Call] /\ k \in Nat
    BY <1>1, <1>2, ReplayAssumption
<1> QED
    BY <1>3

LEMMA CurrentType ==
    ASSUME TypeOK, Handling
    PROVE  /\ Len(results) + 1 \in 1..Len(batch)
           /\ Current = batch[Len(results) + 1]
           /\ Current \in Call
BY ElementOfSeq DEF TypeOK, Handling, Current

(* The recording, the stub and the executor answer with results or the stub,  *)
(* and never a result for a stub.                                             *)
LEMMA RecordedType ==
    ASSUME TypeOK, Found
    PROVE  recording[Current.call] \in Values
BY ReplayAssumption DEF TypeOK, Found

------------------------------------------------------------------------------
(* Types.                                                                     *)

LEMMA TypeNext ==
    ASSUME TypeOK, [Next]_vars
    PROVE  TypeOK'
<1> USE DEF TypeOK
<1>1. CASE RefusesPolicy
    BY <1>1 DEF RefusesPolicy, inputs, PC
<1>2. CASE Start
    <2>1. Question \in Turn
        BY DEF Question, TurnOf, Turn
    <2> QED
        BY <1>2, <2>1 DEF Start, inputs, PC
<1>3. CASE FinalAnswer
    BY <1>3, ReplayAssumption DEF FinalAnswer, Asks, RoundsLeft, inputs, PC
<1>4. CASE RequestsTools
    <2>1. round' \in Nat /\ round' \in 0..MaxSteps
        BY <1>4, ReplayAssumption DEF RequestsTools, Asks, RoundsLeft
    <2>2. batch' \in Seq(Call) /\ Len(batch') \in 1..MaxBatch
        BY <1>4, <2>1, BatchType DEF RequestsTools
    <2>3. PICK text \in Narrates : turns' = Append(turns, AssistantTurn(text, batch'))
        BY <1>4 DEF RequestsTools
    <2>4. AssistantTurn(text, batch') \in Turn
        BY <2>2, ReplayAssumption DEF AssistantTurn, TurnOf, Turn
    <2>5. turns' \in Seq(Turn)
        BY <2>3, <2>4
    <2>6. results' = <<>> /\ pc' = "calls" /\ UNCHANGED <<inputs, stopped, executed>>
        BY <1>4 DEF RequestsTools
    <2>7. results' \in Seq(Answer) /\ Len(results') <= Len(batch')
        BY <2>2, <2>6
    <2> QED
        BY <2>1, <2>2, <2>5, <2>6, <2>7 DEF inputs, PC
<1>5. CASE AdapterRaises
    BY <1>5, ReplayAssumption DEF AdapterRaises, Asks, RoundsLeft, inputs, PC
<1>6. CASE OutOfSteps
    BY <1>6 DEF OutOfSteps, inputs, PC
<1>7. ASSUME NEW v \in Values \cup {Stub}, NEW how, Handling, Answers(v, how)
      PROVE  /\ results' \in Seq(Answer) /\ Len(results') <= Len(batch')
             /\ UNCHANGED <<inputs, pc, round, turns, batch, stopped>>
    <2>1. [id |-> Current.id, value |-> v] \in Answer
        BY <1>7, CurrentType DEF Answer, Call
    <2>2. results' = Append(results, [id |-> Current.id, value |-> v])
        BY <1>7 DEF Answers
    <2> QED
        BY <1>7, <2>1, <2>2 DEF Answers, Handling
<1>8. CASE AnswerRecorded
    BY <1>7, <1>8, RecordedType DEF AnswerRecorded, inputs
<1>9. CASE AnswerStub
    BY <1>7, <1>9 DEF AnswerStub, inputs
<1>10. ASSUME Handling
       PROVE  Append(executed, Current.call) \in Seq(Calls)
    BY <1>10, CurrentType DEF Call
<1>11. CASE AnswerLive
    BY <1>7, <1>10, <1>11 DEF AnswerLive, inputs
<1>12. CASE LiveRaises
    BY <1>10, <1>12 DEF LiveRaises, inputs, PC
<1>13. CASE StopAtFork
    BY <1>13 DEF StopAtFork, GivesUp, inputs, PC
<1>14. CASE BatchAnswered
    <2>1. ResultTurn(results) \in Turn
        BY DEF ResultTurn, TurnOf, Turn
    <2> QED
        BY <1>14, <2>1 DEF BatchAnswered, ShowsResults, inputs, PC
<1>15. CASE UNCHANGED vars
    BY <1>15 DEF vars
<1> QED
    BY <1>1, <1>2, <1>3, <1>4, <1>5, <1>6, <1>8, <1>9, <1>11, <1>12, <1>13, <1>14, <1>15
    DEF Next, Step, Converse, HandleCall, Done

------------------------------------------------------------------------------
(* The trajectory's steps.                                                    *)

LEMMA OngoingSteps ==
    ASSUME NEW s \in OngoingStep
    PROVE  s.kind # "final" /\ s.how # "missing" /\ s \notin {Final, MissingStep}
BY DEF OngoingStep, Text, CallStep, ResultStep, Final, MissingStep, None

LEMMA WhileRunning ==
    ASSUME StepsOK, pc # "returned"
    PROVE  steps \in Seq(OngoingStep) /\ stopped = None
<1>1. steps \in [1..Len(steps) -> AnyStep] /\ Len(steps) \in Nat
    BY LenProperties DEF StepsOK
<1>2. \A i \in 1..Len(steps) : steps[i] \in OngoingStep
    BY DEF StepsOK
<1>3. steps \in [1..Len(steps) -> OngoingStep]
    BY <1>1, <1>2
<1>4. steps \in Seq(OngoingStep)
    BY <1>1, <1>3, SeqDef
<1> QED
    BY <1>4 DEF StepsOK

LEMMA StillRunning ==
    ASSUME steps' \in Seq(OngoingStep), stopped' = None, pc' # "returned"
    PROVE  StepsOK'
<1>1. steps' \in Seq(AnyStep)
    BY SeqMonotonic DEF AnyStep
<1>2. \A i \in 1..Len(steps') : steps'[i] \in OngoingStep
    BY ElementOfSeq
<1> QED
    BY <1>1, <1>2 DEF StepsOK

LEMMA EndsHere ==
    ASSUME NEW before \in Seq(OngoingStep), NEW s \in {Final, MissingStep},
           steps' = Append(before, s), pc' = "returned", Ends(s)'
    PROVE  StepsOK'
<1>1. before \in Seq(AnyStep) /\ s \in AnyStep
    BY SeqMonotonic DEF AnyStep
<1>2. steps' \in Seq(AnyStep) /\ Len(steps') = Len(before) + 1
    BY <1>1
<1>3. steps'[Len(steps')] = s /\ steps' # <<>> /\ Len(before) \in Nat
    BY <1>1
<1>4. \A i \in 1..Len(before) : steps'[i] = before[i] /\ before[i] \in OngoingStep
    BY <1>1, ElementOfSeq
<1> QED
    BY <1>2, <1>3, <1>4 DEF StepsOK, Ends

LEMMA SaidType ==
    ASSUME StepsOK, pc # "returned", NEW text \in Narrates
    PROVE  Said(text) \in Seq(OngoingStep)
<1>1. text \in BOOLEAN /\ (text = TRUE => Text \in OngoingStep)
    <2>1. text = TRUE => Narrating
        BY Zenon DEF Narrating
    <2>2. text \in BOOLEAN
        BY ReplayAssumption
    <2> QED
        BY <2>1, <2>2 DEF OngoingStep
<1>2. <<>> \in Seq(OngoingStep) /\ (text = TRUE => <<Text>> \in Seq(OngoingStep))
    BY <1>1
<1>3. steps \in Seq(OngoingStep)
    BY WhileRunning
<1>4. CASE text = TRUE
    BY <1>2, <1>3, <1>4, ConcatProperties DEF Said
<1>5. CASE text = FALSE
    BY <1>2, <1>3, <1>5, ConcatProperties DEF Said
<1> QED
    BY <1>1, <1>4, <1>5

LEMMA AnswersSteps ==
    ASSUME StepsOK, TypeOK, Handling, NEW v \in Values \cup {Stub},
           NEW how \in {"recorded", "stubbed", "live"}, Answers(v, how)
    PROVE  StepsOK'
<1>1. CallStep(Current.call) \in OngoingStep /\ ResultStep(v, how) \in OngoingStep
    BY CurrentType DEF OngoingStep, Call
<1>2. <<CallStep(Current.call), ResultStep(v, how)>> \in Seq(OngoingStep)
    BY <1>1
<1>3. steps \in Seq(OngoingStep) /\ stopped = None /\ pc = "calls"
    BY WhileRunning DEF Handling
<1>4. steps' \in Seq(OngoingStep) /\ stopped' = None /\ pc' # "returned"
    BY <1>2, <1>3, ConcatProperties DEF Answers
<1> QED
    BY <1>4, StillRunning

LEMMA StepsNext ==
    ASSUME StepsOK, TypeOK, [Next]_vars
    PROVE  StepsOK'
<1>1. ASSUME pc # "returned", pc' # "returned", UNCHANGED <<steps, stopped>>
      PROVE  StepsOK'
    BY <1>1, WhileRunning, StillRunning
<1>2. CASE RefusesPolicy
    BY <1>1, <1>2 DEF RefusesPolicy
<1>3. CASE Start
    BY <1>1, <1>3 DEF Start
<1>4. CASE FinalAnswer
    <2>1. PICK text \in Narrates : steps' = Append(Said(text), Final)
        BY <1>4 DEF FinalAnswer
    <2>2. Said(text) \in Seq(OngoingStep) /\ stopped' = None /\ pc' = "returned"
        BY <1>4, SaidType, WhileRunning DEF FinalAnswer, Asks
    <2> QED
        BY <2>1, <2>2, EndsHere DEF Ends
<1>5. CASE RequestsTools
    <2>1. PICK text \in Narrates : steps' = Said(text)
        BY <1>5 DEF RequestsTools
    <2>2. Said(text) \in Seq(OngoingStep) /\ stopped' = None /\ pc' = "calls"
        BY <1>5, SaidType, WhileRunning DEF RequestsTools, Asks
    <2> QED
        BY <2>1, <2>2, StillRunning
<1>6. CASE AdapterRaises
    BY <1>1, <1>6 DEF AdapterRaises, Asks
<1>7. CASE OutOfSteps
    <2>1. steps \in Seq(OngoingStep)
        BY <1>7, WhileRunning DEF OutOfSteps
    <2>2. steps \in Seq(AnyStep) /\ \A i \in 1..Len(steps) : steps[i] \in OngoingStep
        BY <2>1, SeqMonotonic, ElementOfSeq DEF AnyStep
    <2> QED
        BY <1>7, <2>2 DEF OutOfSteps, RoundsSpent, StepsOK
<1>8. CASE AnswerRecorded
    BY <1>8, RecordedType, AnswersSteps DEF AnswerRecorded
<1>9. CASE AnswerStub
    BY <1>9, AnswersSteps DEF AnswerStub
<1>10. CASE AnswerLive
    BY <1>10, AnswersSteps DEF AnswerLive
<1>11. ASSUME Handling
       PROVE  /\ steps \in Seq(OngoingStep) /\ stopped = None
              /\ Append(steps, CallStep(Current.call)) \in Seq(OngoingStep)
              /\ steps \o <<CallStep(Current.call), MissingStep>>
                    = Append(Append(steps, CallStep(Current.call)), MissingStep)
    <2>1. CallStep(Current.call) \in OngoingStep
        BY <1>11, CurrentType DEF OngoingStep, Call
    <2>2. steps \in Seq(OngoingStep) /\ stopped = None
        BY <1>11, WhileRunning DEF Handling
    <2>3. steps \in Seq(AnyStep) /\ CallStep(Current.call) \in AnyStep
          /\ MissingStep \in AnyStep
        BY <2>1, <2>2, SeqMonotonic DEF AnyStep
    <2> HIDE DEF AnyStep, CallStep, MissingStep, Current
    <2> QED
        BY <2>1, <2>2, <2>3
<1>12. CASE LiveRaises
    BY <1>11, <1>12, StillRunning DEF LiveRaises
<1>13. CASE StopAtFork
    BY <1>11, <1>13, EndsHere DEF StopAtFork, GivesUp, Ends
<1>14. CASE BatchAnswered
    BY <1>1, <1>14 DEF BatchAnswered
<1>15. CASE UNCHANGED vars
    BY <1>15 DEF vars, StepsOK, Ends
<1> QED
    BY <1>2, <1>3, <1>4, <1>5, <1>6, <1>7, <1>8, <1>9, <1>10, <1>12, <1>13, <1>14, <1>15
    DEF Next, Step, Converse, HandleCall, Done

------------------------------------------------------------------------------
(* The conversation.                                                          *)

(* What ConversationWellFormed asks of the i-th turn.                         *)
Fits(ts, i) ==
    IF i % 2 = 0
    THEN ts[i].role = "assistant" /\ ts[i].calls # <<>>
    ELSE /\ ts[i].role = "user"
         /\ Len(ts[i].results) = Len(ts[i - 1].calls)
         /\ Replies(ts[i].results, ts[i - 1].calls)

LEMMA TurnsFit ==
    ASSUME ConversationWellFormed, turns # <<>>
    PROVE  turns[1] = Question /\ \A i \in 2..Len(turns) : Fits(turns, i)
BY DEF ConversationWellFormed, Fits

(* The engine is asking when a user's turn is the last, and handles calls     *)
(* when an assistant's is.                                                    *)
LEMMA WhoseTurn ==
    ASSUME TypeOK, BatchOK, ConversationWellFormed
    PROVE  /\ pc = "converse" =>
                 turns # <<>> /\ Len(turns) = 2 * round + 1 /\ ~LastIsAssistant
           /\ pc = "calls" =>
                 turns # <<>> /\ Len(turns) = 2 * round /\ LastIsAssistant
<1>1. CASE pc = "converse"
    <2>1. turns # <<>> /\ Len(turns) = 2 * round + 1
        BY <1>1 DEF ConversationWellFormed, BatchOK
    <2>2. CASE round = 0
        BY <1>1, <2>1, <2>2, TurnsFit DEF LastIsAssistant, Question, TurnOf
    <2>3. CASE round # 0
        <3>1. Len(turns) \in 2..Len(turns) /\ Len(turns) % 2 = 1
            BY <2>1, <2>3, ReplayAssumption DEF TypeOK
        <3>2. Fits(turns, Len(turns))
            BY <2>1, <3>1, TurnsFit
        <3> QED
            BY <1>1, <2>1, <3>1, <3>2 DEF Fits, LastIsAssistant
    <2> QED
        BY <1>1, <2>1, <2>2, <2>3
<1>2. CASE pc = "calls"
    <2>1. turns # <<>> /\ Len(turns) = 2 * round
        BY <1>2 DEF ConversationWellFormed, BatchOK
    <2>2. Len(turns) \in Nat \ {0}
        BY <2>1, EmptySeq DEF TypeOK
    <2>3. Len(turns) \in 2..Len(turns) /\ Len(turns) % 2 = 0
        BY <2>1, <2>2, ReplayAssumption DEF TypeOK
    <2>4. Fits(turns, Len(turns))
        BY <2>1, <2>3, TurnsFit
    <2> QED
        BY <1>2, <2>1, <2>3, <2>4 DEF Fits, LastIsAssistant
<1> QED
    BY <1>1, <1>2

LEMMA TurnAppended ==
    ASSUME TypeOK, NEW t \in Turn, turns' = Append(turns, t)
    PROVE  /\ Len(turns') = Len(turns) + 1 /\ turns' # <<>> /\ Len(turns) \in Nat
           /\ turns'[Len(turns')] = t /\ turns'[Len(turns) + 1] = t
           /\ \A i \in 1..Len(turns) : turns'[i] = turns[i]
<1>1. turns \in Seq(Turn) /\ Len(turns) \in Nat
    BY DEF TypeOK
<1>2. Len(turns') = Len(turns) + 1 /\ turns'[Len(turns) + 1] = t
    BY <1>1
<1>3. \A i \in 1..Len(turns) : turns'[i] = turns[i]
    BY <1>1
<1> QED
    BY <1>1, <1>2, <1>3

LEMMA TurnsStillFit ==
    ASSUME TypeOK, ConversationWellFormed, turns # <<>>,
           NEW t \in Turn, turns' = Append(turns, t), Fits(turns', Len(turns) + 1)
    PROVE  turns'[1] = Question /\ \A i \in 2..Len(turns') : Fits(turns', i)
<1>1. Len(turns) >= 1
    BY EmptySeq DEF TypeOK
<1>2. turns'[1] = Question
    BY <1>1, TurnAppended, TurnsFit
<1>3. ASSUME NEW i \in 2..Len(turns)
      PROVE  Fits(turns', i)
    <2>1. turns'[i] = turns[i] /\ turns'[i - 1] = turns[i - 1]
        BY TurnAppended
    <2>2. Fits(turns, i)
        BY TurnsFit
    <2> QED
        BY <2>1, <2>2 DEF Fits
<1>4. \A i \in 2..Len(turns') : i \in 2..Len(turns) \/ i = Len(turns) + 1
    BY <1>1, TurnAppended
<1> QED
    BY <1>2, <1>3, <1>4

LEMMA NewTurns ==
    ASSUME TypeOK
    PROVE  /\ ResultTurn(results) \in Turn
           /\ \A text \in BOOLEAN, b \in Seq(Call) : AssistantTurn(text, b) \in Turn
BY DEF TypeOK, ResultTurn, AssistantTurn, TurnOf, Turn

(* What RequestsTools does, with its inputs named.                            *)
LEMMA Requested ==
    ASSUME TypeOK, RequestsTools
    PROVE  /\ batch' \in Seq(Call) /\ Len(batch') \in 1..MaxBatch /\ batch' # <<>>
           /\ \E text \in BOOLEAN :
                 /\ turns' = Append(turns, AssistantTurn(text, batch'))
                 /\ AssistantTurn(text, batch') \in Turn
<1>1. round' \in Nat
    BY ReplayAssumption DEF TypeOK, RequestsTools, Asks
<1>2. batch' \in Seq(Call) /\ Len(batch') \in 1..MaxBatch
    BY <1>1, BatchType DEF RequestsTools
<1> QED
    BY <1>2, NewTurns, ReplayAssumption DEF RequestsTools

LEMMA AnswersReply ==
    ASSUME TypeOK, Handling, Replies(results, batch), NEW v, NEW how, Answers(v, how)
    PROVE  Replies(results', batch')
<1>1. /\ results' = Append(results, [id |-> Current.id, value |-> v])
      /\ Len(results') = Len(results) + 1 /\ Len(results) \in Nat
      /\ results'[Len(results) + 1].id = Current.id
      /\ \A i \in 1..Len(results) : results'[i] = results[i]
    BY DEF Answers, TypeOK
<1>2. batch' = batch /\ Len(batch) \in Nat
    BY DEF Answers, TypeOK
<1> QED
    BY <1>1, <1>2, CurrentType DEF Replies, Handling

LEMMA BatchNext ==
    ASSUME TypeOK, BatchOK, ConversationWellFormed, [Next]_vars
    PROVE  BatchOK'
<1>1. CASE RefusesPolicy
    BY <1>1 DEF RefusesPolicy, BatchOK, LastIsAssistant, Replies, inputs
<1>2. CASE Start
    <2>1. turns' # <<>> /\ turns'[Len(turns')] = Question
        BY <1>2 DEF Start
    <2> QED
        BY <2>1 DEF BatchOK, LastIsAssistant, Question, TurnOf
<1>3. ASSUME turns # <<>>, UNCHANGED <<turns, batch, results>>
      PROVE  BatchOK'
    BY <1>3 DEF BatchOK, LastIsAssistant, Replies
<1>4. CASE FinalAnswer
    BY <1>3, <1>4, WhoseTurn DEF FinalAnswer, Asks
<1>5. CASE RequestsTools
    <2>1. PICK text \in BOOLEAN : /\ turns' = Append(turns, AssistantTurn(text, batch'))
                                  /\ AssistantTurn(text, batch') \in Turn
        BY <1>5, Requested
    <2>2. turns' # <<>> /\ turns'[Len(turns')] = AssistantTurn(text, batch')
        BY <2>1, TurnAppended
    <2>3. turns'[Len(turns')].calls = batch'
        BY <2>2 DEF AssistantTurn, TurnOf
    <2>4. batch' # <<>> /\ Len(batch') \in Nat
        BY <1>5, Requested
    <2>5. results' = <<>>
        BY <1>5 DEF RequestsTools
    <2>6. Replies(results', batch')
        BY <2>4, <2>5 DEF Replies
    <2> QED
        BY <2>2, <2>3, <2>4, <2>6 DEF BatchOK
<1>6. CASE AdapterRaises
    BY <1>3, <1>6, WhoseTurn DEF AdapterRaises, Asks
<1>7. CASE OutOfSteps
    BY <1>3, <1>7, WhoseTurn DEF OutOfSteps
<1>8. ASSUME Handling, NEW v, NEW how, Answers(v, how)
      PROVE  BatchOK'
    <2>1. turns # <<>> /\ LastIsAssistant
        BY <1>8, WhoseTurn DEF Handling
    <2>2. UNCHANGED <<turns, batch>>
        BY <1>8 DEF Answers
    <2> QED
        BY <1>8, <2>1, <2>2, AnswersReply DEF BatchOK
<1>9. CASE AnswerRecorded
    BY <1>8, <1>9 DEF AnswerRecorded
<1>10. CASE AnswerStub
    BY <1>8, <1>10 DEF AnswerStub
<1>11. CASE AnswerLive
    BY <1>8, <1>11 DEF AnswerLive
<1>12. CASE LiveRaises
    BY <1>3, <1>12, WhoseTurn DEF LiveRaises, Handling
<1>13. CASE StopAtFork
    BY <1>3, <1>13, WhoseTurn DEF StopAtFork, Handling
<1>14. CASE BatchAnswered
    <2>1. turns' # <<>> /\ turns'[Len(turns')] = ResultTurn(results)
        BY <1>14, NewTurns, TurnAppended DEF BatchAnswered, ShowsResults
    <2> QED
        BY <2>1 DEF BatchOK, LastIsAssistant, ResultTurn, TurnOf
<1>15. CASE UNCHANGED vars
    BY <1>15 DEF vars, BatchOK, LastIsAssistant, Replies
<1> QED
    BY <1>1, <1>2, <1>4, <1>5, <1>6, <1>7, <1>9, <1>10, <1>11, <1>12, <1>13, <1>14, <1>15
    DEF Next, Step, Converse, HandleCall, Done

LEMMA ConversationNext ==
    ASSUME TypeOK, BatchOK, ConversationWellFormed, [Next]_vars
    PROVE  ConversationWellFormed'
<1>1. ASSUME turns # <<>>, UNCHANGED <<turns, policy>>, pc' \in {"returned", "raised"}
      PROVE  ConversationWellFormed'
    BY <1>1 DEF ConversationWellFormed, Replies
<1>2. CASE RefusesPolicy
    BY <1>2 DEF RefusesPolicy, ConversationWellFormed, inputs
<1>3. CASE Start
    <2>1. round' = 0
        BY <1>3 DEF Start, ConversationWellFormed, BatchOK
    <2>2. turns' = <<Question>> /\ pc' = "converse" /\ policy' \in Forks
        BY <1>3 DEF Start, inputs
    <2> HIDE DEF Question
    <2>3. Len(turns') = 1 /\ turns'[1] = Question /\ turns' # <<>>
        BY <2>2
    <2> QED
        BY <2>1, <2>2, <2>3 DEF ConversationWellFormed
<1>4. CASE FinalAnswer
    BY <1>1, <1>4, WhoseTurn DEF FinalAnswer, Asks, inputs
<1>5. CASE RequestsTools
    <2>1. turns # <<>> /\ Len(turns) = 2 * round + 1 /\ round \in Nat
        BY <1>5, WhoseTurn, ReplayAssumption DEF RequestsTools, Asks, TypeOK
    <2>2. PICK text \in BOOLEAN : /\ turns' = Append(turns, AssistantTurn(text, batch'))
                                  /\ AssistantTurn(text, batch') \in Turn
        BY <1>5, Requested
    <2>3. batch' # <<>> /\ batch' \in Seq(Call) /\ results' = <<>> /\ round' = round + 1
        BY <1>5, Requested DEF RequestsTools, Asks
    <2>4. /\ Len(turns') = Len(turns) + 1 /\ turns' # <<>>
          /\ turns'[Len(turns')] = AssistantTurn(text, batch')
        BY <2>2, TurnAppended
    <2>5. Len(turns') = 2 * round' /\ Len(turns') % 2 = 0
        BY <2>1, <2>3, <2>4
    <2>6. turns'[Len(turns')].role = "assistant" /\ turns'[Len(turns')].calls = batch'
        BY <2>4 DEF AssistantTurn, TurnOf
    <2>7. Fits(turns', Len(turns) + 1)
        BY <2>3, <2>4, <2>5, <2>6 DEF Fits
    <2>8. turns'[1] = Question /\ \A i \in 2..Len(turns') : Fits(turns', i)
        BY <2>1, <2>2, <2>7, TurnsStillFit
    <2>9. Replies(results', batch')
        BY <2>3 DEF Replies
    <2>10. pc' = "calls" /\ policy' \in Forks
        BY <1>5, <2>1 DEF RequestsTools, inputs, ConversationWellFormed
    <2> QED
        BY <2>4, <2>5, <2>6, <2>8, <2>9, <2>10 DEF ConversationWellFormed, Fits
<1>6. CASE AdapterRaises
    BY <1>1, <1>6, WhoseTurn DEF AdapterRaises, Asks, inputs
<1>7. CASE OutOfSteps
    BY <1>1, <1>7, WhoseTurn DEF OutOfSteps, inputs
<1>8. ASSUME Handling, NEW v, NEW how, Answers(v, how)
      PROVE  ConversationWellFormed'
    <2>1. turns # <<>> /\ pc = "calls" /\ Replies(results, batch)
        BY <1>8, WhoseTurn DEF Handling, BatchOK
    <2>2. Replies(results', batch')
        BY <1>8, <2>1, AnswersReply
    <2>3. UNCHANGED <<turns, policy, pc, round, batch>>
        BY <1>8 DEF Answers, inputs
    <2> QED
        BY <2>1, <2>2, <2>3 DEF ConversationWellFormed, Replies
<1>9. CASE AnswerRecorded
    BY <1>8, <1>9 DEF AnswerRecorded
<1>10. CASE AnswerStub
    BY <1>8, <1>10 DEF AnswerStub
<1>11. CASE AnswerLive
    BY <1>8, <1>11 DEF AnswerLive
<1>12. CASE LiveRaises
    BY <1>1, <1>12, WhoseTurn DEF LiveRaises, Handling, inputs
<1>13. CASE StopAtFork
    BY <1>1, <1>13, WhoseTurn DEF StopAtFork, GivesUp, Handling, inputs
<1>14. CASE BatchAnswered
    <2>1. /\ turns # <<>> /\ Len(turns) = 2 * round /\ round \in Nat
          /\ turns[Len(turns)].calls = batch /\ Replies(results, batch)
        BY <1>14, WhoseTurn, ReplayAssumption DEF BatchAnswered, BatchOK, TypeOK
    <2>2. turns' = Append(turns, ResultTurn(results)) /\ ResultTurn(results) \in Turn
        BY <1>14, NewTurns DEF BatchAnswered, ShowsResults
    <2>3. /\ Len(turns') = Len(turns) + 1 /\ turns' # <<>> /\ Len(turns) \in Nat \ {0}
          /\ turns'[Len(turns')] = ResultTurn(results)
          /\ turns'[Len(turns)] = turns[Len(turns)]
        BY <2>1, <2>2, TurnAppended, EmptySeq DEF TypeOK
    <2>4. round' = round /\ pc' = "converse" /\ policy' = policy /\ Len(results) = Len(batch)
        BY <1>14 DEF BatchAnswered, inputs
    <2>5. Len(turns') = 2 * round' + 1 /\ (Len(turns) + 1) % 2 = 1
        BY <2>1, <2>3, <2>4
    <2>6. turns'[Len(turns) + 1].role = "user" /\ turns'[Len(turns) + 1].results = results
        BY <2>3 DEF ResultTurn, TurnOf
    <2>7. turns'[Len(turns) + 1 - 1].calls = batch
        BY <2>1, <2>3
    <2>8. Fits(turns', Len(turns) + 1)
        BY <2>1, <2>4, <2>5, <2>6, <2>7 DEF Fits
    <2>9. turns'[1] = Question /\ \A i \in 2..Len(turns') : Fits(turns', i)
        BY <2>1, <2>2, <2>8, TurnsStillFit
    <2> QED
        BY <2>1, <2>3, <2>4, <2>5, <2>9 DEF ConversationWellFormed, Fits
<1>15. CASE UNCHANGED vars
    BY <1>15 DEF vars, inputs, ConversationWellFormed, Replies
<1> QED
    BY <1>2, <1>3, <1>4, <1>5, <1>6, <1>7, <1>9, <1>10, <1>11, <1>12, <1>13, <1>14, <1>15
    DEF Next, Step, Converse, HandleCall, Done

------------------------------------------------------------------------------
(* What the model is told.                                                    *)

(* Only live_tool adds to executed, and it only adds.                         *)
LEMMA ExecutedGrows ==
    ASSUME TypeOK, [Next]_vars
    PROVE  /\ UNCHANGED <<recording, policy, executor>>
           /\ \/ executed' = executed
              \/ /\ Handling /\ ~Found /\ policy = "live" /\ executor
                 /\ executed' = Append(executed, Current.call)
                 /\ Current.call \in Calls
<1>1. ASSUME Handling
      PROVE  Current.call \in Calls
    BY <1>1, CurrentType DEF Call
<1>2. CASE RefusesPolicy \/ Start \/ Converse
    BY <1>2 DEF RefusesPolicy, Start, Converse, FinalAnswer, RequestsTools, AdapterRaises,
                OutOfSteps, inputs
<1>3. CASE AnswerRecorded \/ AnswerStub \/ AnswerLive
    BY <1>1, <1>3 DEF AnswerRecorded, AnswerStub, AnswerLive, Answers, Fork, inputs
<1>4. CASE LiveRaises \/ StopAtFork
    BY <1>1, <1>4 DEF LiveRaises, StopAtFork, Fork, inputs
<1>5. CASE BatchAnswered \/ UNCHANGED vars
    BY <1>5 DEF BatchAnswered, vars, inputs
<1> QED
    BY <1>2, <1>3, <1>4, <1>5 DEF Next, Step, HandleCall

(* Legitimate, with the state it speaks of as parameters: the provers need to *)
(* speak of old answers in the new state.                                     *)
MayTell(answer, call, known, way, made) ==
    IF call \in DOMAIN known
    THEN answer = known[call]
    ELSE \/ way = "stub" /\ answer = Stub
         \/ way = "live" /\ answer # Stub /\ \E i \in 1..Len(made) : made[i] = call

MayTellNow(answer, call) == MayTell(answer, call, recording, policy, executed)
MayTellNext(answer, call) == MayTell(answer, call, recording', policy', executed')

LEMMA WhatWasToldStands ==
    ASSUME TypeOK, [Next]_vars
    PROVE  \A answer, call : MayTellNow(answer, call) => MayTellNext(answer, call)
<1>1. \A call : (\E i \in 1..Len(executed) : executed[i] = call)
                    => \E i \in 1..Len(executed') : executed'[i] = call
    <2>1. CASE executed' = executed
        BY <2>1
    <2>2. CASE executed' = Append(executed, Current.call) /\ Current.call \in Calls
        <3>1. /\ Len(executed) \in Nat /\ Len(executed') = Len(executed) + 1
              /\ \A i \in 1..Len(executed) : executed'[i] = executed[i]
            BY <2>2 DEF TypeOK
        <3> QED
            BY <3>1
    <2> QED
        BY <2>1, <2>2, ExecutedGrows
<1> QED
    BY <1>1, ExecutedGrows DEF MayTellNow, MayTellNext, MayTell

(* So the invariant is kept if the turns and answers that are new are right.  *)
LEMMA ToldIsKept ==
    ASSUME TypeOK, NothingFabricated, [Next]_vars
    PROVE  /\ \A i \in 1..Len(turns) : \A j \in 1..Len(turns[i].results) :
                 MayTellNext(turns[i].results[j].value, turns[i - 1].calls[j].call)
           /\ \A j \in 1..Len(results) : MayTellNext(results[j].value, batch[j].call)
<1>1. /\ \A i \in 1..Len(turns) : \A j \in 1..Len(turns[i].results) :
            MayTellNow(turns[i].results[j].value, turns[i - 1].calls[j].call)
      /\ \A j \in 1..Len(results) : MayTellNow(results[j].value, batch[j].call)
    BY DEF NothingFabricated, Legitimate, MayTellNow, MayTell
<1> QED
    BY <1>1, WhatWasToldStands

LEMMA TellsNext ==
    ASSUME \A i \in 1..Len(turns') : \A j \in 1..Len(turns'[i].results) :
               MayTellNext(turns'[i].results[j].value, turns'[i - 1].calls[j].call),
           \A j \in 1..Len(results') : MayTellNext(results'[j].value, batch'[j].call)
    PROVE  NothingFabricated'
BY DEF NothingFabricated, Legitimate, MayTellNext, MayTell

(* The turns of a conversation that a turn is added to.                       *)
LEMMA TurnToldNext ==
    ASSUME TypeOK, NothingFabricated, [Next]_vars, turns # <<>>, turns[1] = Question,
           NEW t \in Turn, turns' = Append(turns, t),
           \A j \in 1..Len(t.results) :
               MayTellNext(t.results[j].value, turns[Len(turns)].calls[j].call)
    PROVE  \A i \in 1..Len(turns') : \A j \in 1..Len(turns'[i].results) :
               MayTellNext(turns'[i].results[j].value, turns'[i - 1].calls[j].call)
<1>1. Len(turns) \in Nat \ {0} /\ Len(turns') = Len(turns) + 1
    BY EmptySeq, TurnAppended DEF TypeOK
<1>2. turns'[1] = Question /\ Question.results = <<>> /\ Len(<<>>) = 0
    BY <1>1, TurnAppended DEF Question, TurnOf
<1>3. ASSUME NEW i \in 2..Len(turns), NEW j \in 1..Len(turns'[i].results)
      PROVE  MayTellNext(turns'[i].results[j].value, turns'[i - 1].calls[j].call)
    <2>1. turns'[i] = turns[i] /\ turns'[i - 1] = turns[i - 1]
        BY <1>1, TurnAppended
    <2> QED
        BY <2>1, ToldIsKept, SMTT(20)
<1>4. /\ turns'[Len(turns) + 1] = t
      /\ turns'[Len(turns) + 1 - 1] = turns[Len(turns)]
    BY <1>1, TurnAppended
<1>5. ASSUME NEW j \in 1..Len(turns'[Len(turns) + 1].results)
      PROVE  MayTellNext(turns'[Len(turns) + 1].results[j].value,
                         turns'[Len(turns) + 1 - 1].calls[j].call)
    BY <1>4
<1>6. \A i \in 1..Len(turns') : i = 1 \/ i \in 2..Len(turns) \/ i = Len(turns) + 1
    BY <1>1
<1>7. \A j \in 1..Len(turns'[1].results) : FALSE
    BY <1>2
<1> QED
    BY <1>3, <1>5, <1>6, <1>7, SMTT(20)

LEMMA NothingFabricatedNext ==
    ASSUME TypeOK, BatchOK, ConversationWellFormed, NothingFabricated, [Next]_vars
    PROVE  NothingFabricated'
<1>1. CASE UNCHANGED <<turns, batch, results>>
    BY <1>1, ToldIsKept, TellsNext
<1>2. CASE RefusesPolicy \/ FinalAnswer \/ AdapterRaises \/ OutOfSteps \/ UNCHANGED vars
    BY <1>1, <1>2 DEF RefusesPolicy, FinalAnswer, AdapterRaises, OutOfSteps, vars
<1>3. CASE Start
    <2>1. turns' = <<Question>> /\ UNCHANGED <<batch, results>>
        BY <1>3 DEF Start
    <2> HIDE DEF Question
    <2>2. Len(turns') = 1 /\ turns'[1] = Question
        BY <2>1
    <2>3. Question.results = <<>> /\ Len(<<>>) = 0
        BY DEF Question, TurnOf
    <2>4. \A i \in 1..Len(turns') : \A j \in 1..Len(turns'[i].results) : FALSE
        BY <2>2, <2>3
    <2> QED
        BY <2>1, <2>4, ToldIsKept, TellsNext
<1>4. CASE RequestsTools
    <2>1. turns # <<>> /\ turns[1] = Question
        BY <1>4, WhoseTurn, TurnsFit DEF RequestsTools, Asks
    <2>2. PICK text \in BOOLEAN : /\ turns' = Append(turns, AssistantTurn(text, batch'))
                                  /\ AssistantTurn(text, batch') \in Turn
        BY <1>4, Requested
    <2>3. AssistantTurn(text, batch').results = <<>> /\ Len(<<>>) = 0
        BY DEF AssistantTurn, TurnOf
    <2>4. \A j \in 1..Len(AssistantTurn(text, batch').results) : FALSE
        BY <2>3
    <2>5. \A i \in 1..Len(turns') : \A j \in 1..Len(turns'[i].results) :
              MayTellNext(turns'[i].results[j].value, turns'[i - 1].calls[j].call)
        BY <2>1, <2>2, <2>4, TurnToldNext
    <2>6. \A j \in 1..Len(results') : FALSE
        BY <1>4, <2>3 DEF RequestsTools
    <2> QED
        BY <2>5, <2>6, TellsNext
<1>5. ASSUME Handling, NEW v, NEW how, Answers(v, how), MayTellNext(v, Current.call)
      PROVE  NothingFabricated'
    <2>1. UNCHANGED <<turns, batch>>
          /\ results' = Append(results, [id |-> Current.id, value |-> v])
        BY <1>5 DEF Answers
    <2>2. /\ Len(results') = Len(results) + 1 /\ Len(results) \in Nat
          /\ results'[Len(results) + 1].value = v
          /\ \A j \in 1..Len(results) : results'[j] = results[j]
        BY <2>1 DEF TypeOK
    <2>3. Current = batch'[Len(results) + 1]
        BY <1>5, <2>1, CurrentType
    <2>4. \A j \in 1..Len(results') : j \in 1..Len(results) \/ j = Len(results) + 1
        BY <2>2
    <2>5. \A j \in 1..Len(results') : MayTellNext(results'[j].value, batch'[j].call)
        BY <1>5, <2>1, <2>2, <2>3, <2>4, ToldIsKept
    <2> QED
        BY <2>1, <2>5, ToldIsKept, TellsNext
<1>6. CASE AnswerRecorded
    <2>1. MayTellNext(recording[Current.call], Current.call)
        BY <1>6, ExecutedGrows DEF AnswerRecorded, Found, MayTellNext, MayTell
    <2> QED
        BY <1>5, <1>6, <2>1 DEF AnswerRecorded
<1>7. CASE AnswerStub
    <2>1. MayTellNext(Stub, Current.call)
        BY <1>7, ExecutedGrows DEF AnswerStub, Fork, Found, MayTellNext, MayTell
    <2> QED
        BY <1>5, <1>7, <2>1 DEF AnswerStub
<1>8. CASE AnswerLive
    <2>1. PICK v \in Values : Answers(v, "live")
        BY <1>8 DEF AnswerLive
    <2>2. executed' = Append(executed, Current.call) /\ Current.call \in Calls
        BY <1>8, CurrentType DEF AnswerLive, Call
    <2>3. Len(executed) + 1 \in 1..Len(executed') /\ executed'[Len(executed) + 1] = Current.call
        BY <2>2 DEF TypeOK
    <2>4. \E i \in 1..Len(executed') : executed'[i] = Current.call
        BY <2>3
    <2>5. v # Stub /\ policy = "live" /\ ~Found /\ UNCHANGED <<recording, policy>>
        BY <1>8, ReplayAssumption, ExecutedGrows DEF AnswerLive, Fork
    <2>6. MayTellNext(v, Current.call)
        BY <2>4, <2>5 DEF Found, MayTellNext, MayTell
    <2> QED
        BY <1>5, <1>8, <2>1, <2>6 DEF AnswerLive
<1>9. CASE LiveRaises \/ StopAtFork
    BY <1>1, <1>9 DEF LiveRaises, StopAtFork
<1>10. CASE BatchAnswered
    <2>1. /\ turns # <<>> /\ turns[1] = Question
          /\ turns[Len(turns)].calls = batch /\ UNCHANGED <<batch, results>>
        BY <1>10, WhoseTurn, TurnsFit DEF BatchAnswered, BatchOK
    <2>2. turns' = Append(turns, ResultTurn(results)) /\ ResultTurn(results) \in Turn
        BY <1>10, NewTurns DEF BatchAnswered, ShowsResults
    <2>3. ResultTurn(results).results = results
        BY DEF ResultTurn, TurnOf
    <2>4. \A i \in 1..Len(turns') : \A j \in 1..Len(turns'[i].results) :
              MayTellNext(turns'[i].results[j].value, turns'[i - 1].calls[j].call)
        BY <2>1, <2>2, <2>3, ToldIsKept, TurnToldNext
    <2> QED
        BY <2>1, <2>4, ToldIsKept, TellsNext
<1> QED
    BY <1>2, <1>3, <1>4, <1>6, <1>7, <1>8, <1>9, <1>10
    DEF Next, Step, Converse, HandleCall, Done

LEMMA LiveIsLastResortNext ==
    ASSUME TypeOK, LiveIsLastResort, [Next]_vars
    PROVE  LiveIsLastResort'
<1>1. CASE executed' = executed
    BY <1>1, ExecutedGrows DEF LiveIsLastResort
<1>2. CASE /\ ~Found /\ policy = "live" /\ executor
           /\ executed' = Append(executed, Current.call) /\ Current.call \in Calls
    <2>1. /\ Len(executed) \in Nat /\ Len(executed') = Len(executed) + 1
          /\ executed'[Len(executed) + 1] = Current.call
          /\ \A i \in 1..Len(executed) : executed'[i] = executed[i]
        BY <1>2 DEF TypeOK
    <2>2. \A i \in 1..Len(executed') : i \in 1..Len(executed) \/ i = Len(executed) + 1
        BY <2>1
    <2>3. \A i \in 1..Len(executed') : executed'[i] \notin DOMAIN recording
        BY <1>2, <2>1, <2>2 DEF LiveIsLastResort, Found
    <2> QED
        BY <1>2, <2>3, ExecutedGrows DEF LiveIsLastResort
<1> QED
    BY <1>1, <1>2, ExecutedGrows

LEMMA ForkNext ==
    ASSUME TypeOK, StepsOK, BatchOK, ConversationWellFormed, ForkOK, [Next]_vars
    PROVE  ForkOK'
<1>1. CASE Done /\ UNCHANGED vars
    BY <1>1 DEF ForkOK, vars, LastIsAssistant
<1>2. CASE UNCHANGED vars
    BY <1>2 DEF ForkOK, vars, LastIsAssistant
<1>3. ASSUME pc # "returned", UNCHANGED stopped
      PROVE  ForkOK'
    BY <1>3 DEF StepsOK, ForkOK
<1>4. CASE StopAtFork
    <2>1. pc = "calls" /\ Handling /\ ~Found
        BY <1>4 DEF StopAtFork, Handling, Fork
    <2>2. LastIsAssistant
        BY <2>1, WhoseTurn
    <2>3. UNCHANGED <<turns, batch, results, recording>> /\ pc' = "returned"
        BY <1>4 DEF StopAtFork, GivesUp, inputs
    <2> QED
        BY <2>1, <2>2, <2>3 DEF ForkOK, Handling, Found, Current, LastIsAssistant
<1>5. CASE OutOfSteps
    BY <1>5 DEF OutOfSteps, ForkOK
<1>6. CASE RefusesPolicy \/ Start \/ FinalAnswer \/ RequestsTools \/ AdapterRaises
           \/ AnswerRecorded \/ AnswerStub \/ AnswerLive \/ LiveRaises \/ BatchAnswered
    BY <1>3, <1>6 DEF RefusesPolicy, Start, FinalAnswer, RequestsTools, AdapterRaises, Asks,
       AnswerRecorded, AnswerStub, AnswerLive, LiveRaises, Answers, Handling, BatchAnswered
<1> QED
    BY <1>1, <1>2, <1>4, <1>5, <1>6 DEF Next, Step, Converse, HandleCall

------------------------------------------------------------------------------
(* The trajectory and the conversation: what the steps show, and what the     *)
(* turns ask and tell.                                                        *)

LEMMA ShownIs ==
    ASSUME steps \in Seq(AnyStep)
    PROVE  CallSteps = CallsShown(steps) /\ AnswerSteps = AnswersShown(steps)
<1> DEFINE all == steps
           C == StepsWith("tool_call")
           A == StepsWith("tool_result") \ {MissingStep}
<1>1. all \in Seq(AnyStep) /\ \A e \in Contents(all) : e \in AnyStep
    BY ElementOfSeq, ContentsMembers
<1>2. \A e \in Contents(all) : (e \in C <=> e \in CallKind) /\ (e \in A <=> e \in AnswerKind)
    BY <1>1 DEF StepsWith, CallKind, AnswerKind
<1> HIDE DEF all, C, A
<1>3. Filtered(all, C) = Filtered(all, CallKind) /\ Filtered(all, A) = Filtered(all, AnswerKind)
    BY <1>1, <1>2, FilteredSame
<1> QED
    BY <1>3 DEF all, C, A, CallSteps, AnswerSteps, CallsShown, AnswersShown

LEMMA ShownType ==
    ASSUME NEW ss \in Seq(AnyStep)
    PROVE  CallsShown(ss) \in Seq(AnyStep) /\ AnswersShown(ss) \in Seq(AnyStep)
BY FilteredType DEF CallsShown, AnswersShown

LEMMA ShownAppend ==
    ASSUME NEW ss \in Seq(AnyStep), NEW s \in AnyStep
    PROVE  /\ CallsShown(Append(ss, s)) =
                  IF s \in CallKind THEN Append(CallsShown(ss), s) ELSE CallsShown(ss)
           /\ AnswersShown(Append(ss, s)) =
                  IF s \in AnswerKind THEN Append(AnswersShown(ss), s) ELSE AnswersShown(ss)
<1>1. CallsShown(ss) \in Seq(AnyStep) /\ AnswersShown(ss) \in Seq(AnyStep)
    BY ShownType
<1>2. /\ CallsShown(Append(ss, s)) = CallsShown(ss) \o Part(s, CallKind)
      /\ AnswersShown(Append(ss, s)) = AnswersShown(ss) \o Part(s, AnswerKind)
    BY FilteredAppend DEF CallsShown, AnswersShown
<1>3. \A q \in Seq(AnyStep) : q \o <<s>> = Append(q, s) /\ q \o <<>> = q
    BY ConcatEmptySeq
<1> QED
    BY <1>1, <1>2, <1>3 DEF Part

LEMMA StepsShown ==
    /\ \A c \in Calls : CallStep(c) \in CallKind /\ CallStep(c) \notin AnswerKind
    /\ \A v \in Values \cup {Stub}, how \in {"recorded", "stubbed", "live"} :
          ResultStep(v, how) \in AnswerKind /\ ResultStep(v, how) \notin CallKind
    /\ \A s \in {Final, MissingStep} : s \in AnyStep \ (CallKind \cup AnswerKind)
    /\ Text \notin CallKind \cup AnswerKind /\ (Narrating => Text \in AnyStep)
BY DEF CallKind, AnswerKind, AnyStep, OngoingStep, CallStep, ResultStep, MissingStep,
       Text, Final

LEMMA TurnsAppend ==
    ASSUME NEW ts \in Seq(Turn), NEW t \in Turn
    PROVE  /\ AskedIn(ts) \in Seq(Call) /\ AskedIn(Append(ts, t)) = AskedIn(ts) \o t.calls
           /\ ToldIn(ts) \in Seq(Answer) /\ ToldIn(Append(ts, t)) = ToldIn(ts) \o t.results
<1> DEFINE n == Len(ts)
           more == Append(ts, t)
           c == [i \in 1..n |-> ts[i].calls]
           a == [i \in 1..n |-> ts[i].results]
<1>1. /\ n \in Nat /\ \A i \in 1..n : ts[i] \in Turn
      /\ more \in Seq(Turn) /\ Len(more) = n + 1 /\ more[n + 1] = t
      /\ \A i \in 1..n : more[i] = ts[i]
    BY ElementOfSeq
<1>2. /\ \A i \in 1..n : ts[i].calls \in Seq(Call) /\ ts[i].results \in Seq(Answer)
      /\ t.calls \in Seq(Call) /\ t.results \in Seq(Answer)
    BY <1>1 DEF Turn
<1>3. c \in Seq(Seq(Call)) /\ a \in Seq(Seq(Answer)) /\ Len(c) = n /\ Len(a) = n
    BY <1>1, <1>2
<1> HIDE DEF more
<1>4. [i \in 1..Len(more) |-> more[i].calls] = Append(c, t.calls)
    BY <1>1
<1>5. [i \in 1..Len(more) |-> more[i].results] = Append(a, t.results)
    BY <1>1
<1>6. AskedIn(ts) = FlattenSeq(c) /\ ToldIn(ts) = FlattenSeq(a)
    BY DEF AskedIn, ToldIn
<1>7. AskedIn(more) = FlattenSeq(Append(c, t.calls))
    BY <1>4 DEF AskedIn
<1>8. ToldIn(more) = FlattenSeq(Append(a, t.results))
    BY <1>5 DEF ToldIn
<1> HIDE DEF c, a
<1>9. FlattenSeq(c) \in Seq(Call) /\ FlattenSeq(Append(c, t.calls)) = FlattenSeq(c) \o t.calls
    BY <1>2, <1>3, FlattenAppend
<1>10. /\ FlattenSeq(a) \in Seq(Answer)
       /\ FlattenSeq(Append(a, t.results)) = FlattenSeq(a) \o t.results
    BY <1>2, <1>3, FlattenAppend
<1> QED
    BY <1>6, <1>7, <1>8, <1>9, <1>10 DEF more

LEMMA AsksMirrored ==
    ASSUME NEW calls \in Seq(AnyStep), NEW answers \in Seq(AnyStep),
           NEW asked \in Seq(Call), NEW told \in Seq(Answer), NEW b \in Seq(Call),
           Mirrors(calls, answers, asked, told), Len(asked) = Len(told)
    PROVE  /\ Mirrors(calls, answers, asked \o b, told)
           /\ Pending(asked \o b, told, b, <<>>)
<1> DEFINE more == asked \o b
<1>1. /\ Len(more) = Len(asked) + Len(b) /\ Len(asked) \in Nat /\ Len(b) \in Nat
      /\ \A i \in 1..Len(asked) : more[i] = asked[i]
      /\ \A k \in 1..Len(b) : more[Len(asked) + k] = b[k]
    <2>1. Len(more) = Len(asked) + Len(b) /\ Len(asked) \in Nat /\ Len(b) \in Nat
        BY ConcatProperties, LenProperties
    <2>2. \A i \in 1..Len(asked) : more[i] = asked[i]
        OBVIOUS
    <2>3. ASSUME NEW k \in 1..Len(b)
          PROVE  more[Len(asked) + k] = b[k]
        OBVIOUS
    <2> HIDE DEF more
    <2> QED
        BY <2>1, <2>2, <2>3
<1> HIDE DEF more
<1>2. Len(calls) \in Nat /\ Len(told) \in Nat
    OBVIOUS
<1>3. Mirrors(calls, answers, more, told)
    BY <1>1, <1>2 DEF Mirrors
<1>4. Len(<<>>) = 0
    OBVIOUS
<1>5. Pending(more, told, b, <<>>)
    BY <1>1, <1>2, <1>4 DEF Pending
<1> QED
    BY <1>3, <1>5 DEF more

LEMMA CallMirrored ==
    ASSUME NEW calls \in Seq(AnyStep), NEW answers \in Seq(AnyStep),
           NEW asked \in Seq(Call), NEW told \in Seq(Answer),
           NEW b \in Seq(Call), NEW rs \in Seq(Answer), NEW s \in AnyStep,
           Mirrors(calls, answers, asked, told), Len(calls) = Len(answers),
           Pending(asked, told, b, rs), Len(rs) < Len(b),
           s.of = Redact[b[Len(rs) + 1].call]
    PROVE  Mirrors(Append(calls, s), answers, asked, told)
<1> DEFINE more == Append(calls, s)
<1>1. /\ Len(more) = Len(calls) + 1 /\ Len(calls) \in Nat /\ more[Len(calls) + 1] = s
      /\ \A i \in 1..Len(calls) : more[i] = calls[i]
    OBVIOUS
<1>2. Len(told) \in Nat /\ Len(rs) \in Nat /\ Len(b) \in Nat /\ Len(asked) \in Nat
    OBVIOUS
<1> HIDE DEF more
<1>3. Len(calls) = Len(told)
    BY DEF Mirrors
<1>4. asked[Len(told) + 1] = b[Len(rs) + 1] /\ Len(told) + 1 <= Len(asked)
    <2>1. PICK k \in 1..Len(b) : k = Len(rs) + 1
        BY <1>2
    <2>2. asked[Len(told) - Len(rs) + k] = b[k]
        BY DEF Pending
    <2>3. Len(told) - Len(rs) + k = Len(told) + 1
        BY <1>2, <2>1
    <2> QED
        BY <1>2, <2>1, <2>2, <2>3 DEF Pending
<1>5. ASSUME NEW i \in 1..Len(more)
      PROVE  i \in 1..Len(calls) \/ i = Len(calls) + 1
    <2>1. Len(more) = Len(calls) + 1 /\ Len(calls) \in Nat
        BY <1>1
    <2> QED
        BY <2>1
<1>6. Mirrors(more, answers, asked, told)
    BY <1>1, <1>2, <1>3, <1>4, <1>5 DEF Mirrors
<1> QED
    BY <1>6 DEF more

LEMMA AnswerMirrored ==
    ASSUME NEW calls \in Seq(AnyStep), NEW answers \in Seq(AnyStep),
           NEW asked \in Seq(Call), NEW told \in Seq(Answer),
           NEW b \in Seq(Call), NEW rs \in Seq(Answer), NEW s \in AnyStep, NEW x \in Answer,
           Mirrors(calls, answers, asked, told), Pending(asked, told, b, rs),
           s.of = Redact[x.value]
    PROVE  /\ Mirrors(calls, Append(answers, s), asked, Append(told, x))
           /\ Pending(asked, Append(told, x), b, Append(rs, x))
<1> DEFINE more == Append(answers, s)
           then == Append(told, x)
           now == Append(rs, x)
<1>1. /\ Len(more) = Len(answers) + 1 /\ Len(answers) \in Nat /\ more[Len(answers) + 1] = s
      /\ \A i \in 1..Len(answers) : more[i] = answers[i]
    OBVIOUS
<1>2. /\ Len(then) = Len(told) + 1 /\ Len(told) \in Nat /\ then[Len(told) + 1] = x
      /\ \A i \in 1..Len(told) : then[i] = told[i]
    OBVIOUS
<1>3. Len(now) = Len(rs) + 1 /\ Len(rs) \in Nat /\ Len(b) \in Nat /\ Len(asked) \in Nat
    OBVIOUS
<1> HIDE DEF more, then, now
<1>4. \A i \in 1..Len(more) : i \in 1..Len(answers) \/ i = Len(answers) + 1
    BY <1>1
<1>5. Mirrors(calls, more, asked, then)
    BY <1>1, <1>2, <1>4 DEF Mirrors
<1>6. Pending(asked, then, b, now)
    <2>1. Len(then) - Len(now) = Len(told) - Len(rs)
        BY <1>2, <1>3
    <2> QED
        BY <1>2, <1>3, <2>1 DEF Pending
<1> QED
    BY <1>5, <1>6 DEF more, then, now

LEMMA MirrorTypes ==
    ASSUME TypeOK, StepsOK
    PROVE  /\ AskedIn(turns) \in Seq(Call) /\ ToldIn(turns) \in Seq(Answer)
           /\ ToldNow(turns, results) \in Seq(Answer)
           /\ LastIsAssistant => ToldNow(turns, results) = ToldIn(turns) \o results
           /\ ~LastIsAssistant => ToldNow(turns, results) = ToldIn(turns)
           /\ CallsShown(steps) \in Seq(AnyStep) /\ AnswersShown(steps) \in Seq(AnyStep)
           /\ Len(CallsShown(steps)) \in Nat /\ Len(AnswersShown(steps)) \in Nat
<1>1. turns \in Seq(Turn) /\ results \in Seq(Answer) /\ ResultTurn(results) \in Turn
    BY NewTurns DEF TypeOK
<1>2. AskedIn(turns) \in Seq(Call) /\ ToldIn(turns) \in Seq(Answer)
    BY <1>1, TurnsAppend
<1> DEFINE t == ToldIn(turns)
<1>3. t \o <<>> = t /\ t \o results \in Seq(Answer)
    BY <1>1, <1>2, ConcatEmptySeq
<1> HIDE DEF t
<1>4. /\ LastIsAssistant => ToldNow(turns, results) = t \o results
      /\ ~LastIsAssistant => ToldNow(turns, results) = t
    BY <1>3 DEF ToldNow, LastIsAssistant, t
<1>5. CallsShown(steps) \in Seq(AnyStep) /\ AnswersShown(steps) \in Seq(AnyStep)
    BY ShownType DEF StepsOK
<1>6. Len(CallsShown(steps)) \in Nat /\ Len(AnswersShown(steps)) \in Nat
    BY <1>5
<1> QED
    BY <1>2, <1>3, <1>4, <1>5, <1>6 DEF t

LEMMA MirrorInit ==
    ASSUME Init
    PROVE  MirrorOK
<1> DEFINE none == <<>>
<1>1. /\ none \in Seq(AnyStep) /\ Len(none) = 0 /\ none \o none = none
      /\ [i \in 1..Len(none) |-> none[i].calls] = none
      /\ [i \in 1..Len(none) |-> none[i].results] = none
      /\ FlattenSeq(none) = none
    BY FlattenEmpty
<1>2. \A S : Filtered(none, S) = none
    BY FilteredEmpty
<1>3. steps = none /\ turns = none /\ results = none /\ pc = "start" /\ stopped = None
    BY DEF Init
<1>4. ~LastIsAssistant
    BY DEF Init, LastIsAssistant
<1> HIDE DEF none
<1>5. CallsShown(none) = none /\ AnswersShown(none) = none
    BY <1>2 DEF CallsShown, AnswersShown
<1>6. AskedIn(none) = none /\ ToldIn(none) = none
    BY <1>1 DEF AskedIn, ToldIn
<1>7. ToldNow(none, none) = none
    BY <1>1, <1>6 DEF ToldNow
<1>8. Mirrors(none, none, none, none)
    BY <1>1 DEF Mirrors
<1> QED
    BY <1>1, <1>3, <1>4, <1>5, <1>6, <1>7, <1>8 DEF MirrorOK, None

(* The steps change, but not what they show, and nothing is asked or told.    *)
LEMMA MirrorSame ==
    ASSUME TypeOK, StepsOK, MirrorOK, ~LastIsAssistant, stopped = None, pc # "raised",
           UNCHANGED turns,
           CallsShown(steps') = CallsShown(steps), AnswersShown(steps') = AnswersShown(steps),
           stopped' # "unrecorded_tool_call"
    PROVE  MirrorOK'
<1>1. ToldNow(turns', results') = ToldNow(turns, results)
    BY DEF ToldNow, LastIsAssistant
<1>2. ~LastIsAssistant'
    BY DEF LastIsAssistant
<1>3. stopped # "unrecorded_tool_call"
    BY DEF None
<1> QED
    BY <1>1, <1>2, <1>3, MirrorTypes DEF MirrorOK

LEMMA SaidShows ==
    ASSUME StepsOK, pc # "returned", NEW text \in Narrates
    PROVE  /\ Said(text) \in Seq(AnyStep)
           /\ CallsShown(Said(text)) = CallsShown(steps)
           /\ AnswersShown(Said(text)) = AnswersShown(steps)
           /\ CallsShown(Append(Said(text), Final)) = CallsShown(steps)
           /\ AnswersShown(Append(Said(text), Final)) = AnswersShown(steps)
<1> DEFINE said == Said(text)
<1>1. steps \in Seq(AnyStep) /\ Final \in AnyStep /\ text \in BOOLEAN
    BY StepsShown, ReplayAssumption DEF StepsOK
<1>2. said = steps \/ (said = Append(steps, Text) /\ Text \in AnyStep)
    <2>1. CASE text = TRUE
        <3>1. Narrating
            BY <2>1, Zenon DEF Narrating
        <3>2. Text \in AnyStep
            BY <3>1, StepsShown
        <3> QED
            BY <1>1, <2>1, <3>2 DEF Said
    <2>2. CASE text = FALSE
        BY <1>1, <2>2, ConcatEmptySeq DEF Said
    <2> QED
        BY <1>1, <2>1, <2>2
<1> HIDE DEF said
<1>3. said \in Seq(AnyStep)
    BY <1>1, <1>2
<1>4. CallsShown(said) = CallsShown(steps) /\ AnswersShown(said) = AnswersShown(steps)
    BY <1>1, <1>2, ShownAppend, StepsShown
<1>5. /\ CallsShown(Append(said, Final)) = CallsShown(said)
      /\ AnswersShown(Append(said, Final)) = AnswersShown(said)
    BY <1>1, <1>3, ShownAppend, StepsShown
<1> QED
    BY <1>3, <1>4, <1>5 DEF said

(* A call is answered.                                                        *)
LEMMA MirrorAnswers ==
    ASSUME TypeOK, StepsOK, MirrorOK, LastIsAssistant, Handling,
           NEW v \in Values \cup {Stub}, NEW how \in {"recorded", "stubbed", "live"},
           Answers(v, how)
    PROVE  MirrorOK'
<1> DEFINE calls == CallsShown(steps)
           answers == AnswersShown(steps)
           asked == AskedIn(turns)
           told == ToldNow(turns, results)
           c == CallStep(Current.call)
           a == ResultStep(v, how)
           x == [id |-> Current.id, value |-> v]
<1>1. /\ asked \in Seq(Call) /\ told \in Seq(Answer)
      /\ calls \in Seq(AnyStep) /\ answers \in Seq(AnyStep)
      /\ Len(calls) \in Nat /\ Len(answers) \in Nat
    BY MirrorTypes
<1>2. pc = "calls" /\ stopped = None /\ stopped # "unrecorded_tool_call"
    BY DEF Handling, StepsOK, None
<1>3. Mirrors(calls, answers, asked, told) /\ Pending(asked, told, batch, results)
      /\ Len(calls) = Len(answers)
    BY <1>1, <1>2 DEF MirrorOK
<1>4. Current \in Call /\ Current = batch[Len(results) + 1] /\ batch \in Seq(Call)
      /\ results \in Seq(Answer) /\ Len(results) < Len(batch)
    BY CurrentType DEF TypeOK, Handling
<1>5. /\ Current.call \in Calls /\ x \in Answer /\ x.value = v
      /\ c.of = Redact[Current.call] /\ a.of = Redact[v]
    BY <1>4 DEF Call, Answer, CallStep, ResultStep
<1>6. steps \in Seq(AnyStep) /\ c \in CallKind \ AnswerKind /\ a \in AnswerKind \ CallKind
    BY <1>5, StepsShown DEF StepsOK
<1>7. c \in AnyStep /\ a \in AnyStep
    BY <1>6 DEF CallKind, AnswerKind
<1>8. /\ UNCHANGED <<pc, turns, batch, stopped>> /\ results' = Append(results, x)
      /\ steps' = steps \o <<c, a>>
    BY DEF Answers
<1> HIDE DEF calls, answers, asked, told, c, a, x
<1>9. steps' = Append(Append(steps, c), a)
    BY <1>6, <1>7, <1>8
<1>10. CallsShown(steps') = Append(calls, c) /\ AnswersShown(steps') = Append(answers, a)
    <2> DEFINE half == Append(steps, c)
    <2>1. half \in Seq(AnyStep)
        BY <1>6, <1>7
    <2>2. CallsShown(half) = Append(calls, c) /\ AnswersShown(half) = answers
        BY <1>6, <1>7, ShownAppend DEF calls, answers
    <2> HIDE DEF half
    <2>3. CallsShown(Append(half, a)) = CallsShown(half)
          /\ AnswersShown(Append(half, a)) = Append(AnswersShown(half), a)
        BY <1>6, <1>7, <2>1, ShownAppend
    <2> QED
        BY <1>9, <2>2, <2>3 DEF half
<1>11. ToldNow(turns', results') = Append(told, x) /\ LastIsAssistant'
    <2>1. ToldNow(turns', results') = ToldIn(turns) \o Append(results, x)
        BY <1>8 DEF ToldNow, LastIsAssistant
    <2>2. told = ToldIn(turns) \o results /\ ToldIn(turns) \in Seq(Answer)
        BY MirrorTypes DEF told
    <2>3. ToldIn(turns) \o Append(results, x) = Append(ToldIn(turns) \o results, x)
        BY <1>4, <1>5, <2>2
    <2> QED
        BY <1>8, <2>1, <2>2, <2>3 DEF LastIsAssistant
<1>12. Mirrors(Append(calls, c), answers, asked, told)
    BY <1>1, <1>3, <1>4, <1>5, <1>7, CallMirrored
<1>13. /\ Mirrors(Append(calls, c), Append(answers, a), asked, Append(told, x))
       /\ Pending(asked, Append(told, x), batch, results')
    <2>1. Append(calls, c) \in Seq(AnyStep)
        BY <1>1, <1>7
    <2> QED
        BY <1>1, <1>3, <1>4, <1>5, <1>7, <1>8, <1>12, <2>1, AnswerMirrored
<1>14. Len(Append(calls, c)) = Len(Append(answers, a))
    BY <1>1, <1>3, <1>7
<1>15. AskedIn(turns') = asked
    BY <1>8 DEF asked
<1> QED
    BY <1>2, <1>8, <1>10, <1>11, <1>13, <1>14, <1>15 DEF MirrorOK

(* A call is shown that gets no answer.                                       *)
LEMMA MirrorCall ==
    ASSUME TypeOK, StepsOK, MirrorOK, LastIsAssistant, Handling,
           NEW rest, rest \in {<<>>, <<MissingStep>>},
           steps' = Append(steps, CallStep(Current.call)) \o rest,
           UNCHANGED <<turns, batch, results>>,
           \/ pc' = "raised" /\ stopped' # "unrecorded_tool_call"
           \/ pc' = "returned" /\ stopped' = "unrecorded_tool_call"
    PROVE  MirrorOK'
<1> DEFINE calls == CallsShown(steps)
           answers == AnswersShown(steps)
           asked == AskedIn(turns)
           told == ToldNow(turns, results)
           c == CallStep(Current.call)
           half == Append(steps, c)
<1>1. /\ asked \in Seq(Call) /\ told \in Seq(Answer)
      /\ calls \in Seq(AnyStep) /\ answers \in Seq(AnyStep)
      /\ Len(calls) \in Nat /\ Len(answers) \in Nat
    BY MirrorTypes
<1>2. pc = "calls" /\ stopped = None /\ stopped # "unrecorded_tool_call"
    BY DEF Handling, StepsOK, None
<1>3. Mirrors(calls, answers, asked, told) /\ Pending(asked, told, batch, results)
      /\ Len(calls) = Len(answers)
    BY <1>1, <1>2 DEF MirrorOK
<1>4. Current \in Call /\ Current = batch[Len(results) + 1] /\ batch \in Seq(Call)
      /\ results \in Seq(Answer) /\ Len(results) < Len(batch)
    BY CurrentType DEF TypeOK, Handling
<1>5. Current.call \in Calls /\ c.of = Redact[Current.call]
    BY <1>4 DEF Call, CallStep
<1>6. /\ steps \in Seq(AnyStep) /\ c \in CallKind \ AnswerKind /\ c \in AnyStep
      /\ MissingStep \in AnyStep \ (CallKind \cup AnswerKind)
    BY <1>5, StepsShown DEF StepsOK, CallKind
<1> HIDE DEF calls, answers, asked, told, c
<1>7. half \in Seq(AnyStep)
    BY <1>6
<1>8. CallsShown(half) = Append(calls, c) /\ AnswersShown(half) = answers
    BY <1>6, ShownAppend DEF calls, answers
<1>9. steps' = half \/ steps' = Append(half, MissingStep)
    <2> HIDE DEF half
    <2> DEFINE m == MissingStep
    <2>1. steps' = half \o rest /\ (rest = <<>> \/ rest = <<m>>)
        BY DEF half, c
    <2>2. m \in AnyStep
        BY <1>6
    <2> HIDE DEF m
    <2>3. half \o <<>> = half /\ half \o <<m>> = Append(half, m)
        BY <1>7, <2>2, ConcatEmptySeq
    <2> QED
        BY <2>1, <2>3 DEF m
<1> HIDE DEF half
<1>10. CallsShown(steps') = Append(calls, c) /\ AnswersShown(steps') = answers
    BY <1>6, <1>7, <1>8, <1>9, ShownAppend
<1>11. Mirrors(Append(calls, c), answers, asked, told)
    BY <1>1, <1>3, <1>4, <1>5, <1>6, CallMirrored
<1>12. Len(Append(calls, c)) = Len(answers) + 1
    BY <1>1, <1>3, <1>6
<1>13. AskedIn(turns') = asked /\ ToldNow(turns', results') = told /\ LastIsAssistant'
    BY DEF asked, told, LastIsAssistant
<1> QED
    BY <1>3, <1>10, <1>11, <1>12, <1>13 DEF MirrorOK

LEMMA MirrorNext ==
    ASSUME TypeOK, StepsOK, BatchOK, ConversationWellFormed, ForkOK, MirrorOK, [Next]_vars
    PROVE  MirrorOK'
<1>1. CASE UNCHANGED vars
    BY <1>1 DEF vars, MirrorOK, LastIsAssistant
<1>2. pc = "start" => turns = <<>> /\ ~LastIsAssistant
    BY DEF ConversationWellFormed, LastIsAssistant
<1>3. pc = "converse" => ~LastIsAssistant
    BY WhoseTurn
<1>4. Handling => LastIsAssistant
    BY WhoseTurn DEF Handling
<1>5. pc # "returned" => stopped = None /\ None # "unrecorded_tool_call"
    BY DEF StepsOK, None
<1>6. CASE RefusesPolicy
    BY <1>2, <1>5, <1>6, MirrorSame DEF RefusesPolicy
<1>7. CASE Start
    <2> DEFINE none == <<>>
               q == Question
    <2>1. /\ pc = "start" /\ pc' = "converse" /\ UNCHANGED <<steps, stopped>>
          /\ turns = none /\ turns' = Append(none, q)
        BY <1>2, <1>7 DEF Start
    <2>2. q \in Turn /\ q.calls = none /\ q.results = none /\ q.role = "user"
        BY DEF Question, TurnOf, Turn
    <2>3. none \in Seq(Turn) /\ Append(none, q) # none /\ Len(Append(none, q)) = 1
          /\ Append(none, q)[1] = q
        OBVIOUS
    <2> HIDE DEF none, q
    <2>4. /\ AskedIn(turns') = AskedIn(turns) \o none /\ AskedIn(turns) \in Seq(Call)
          /\ ToldIn(turns') = ToldIn(turns) \o none /\ ToldIn(turns) \in Seq(Answer)
        BY <2>1, <2>2, <2>3, TurnsAppend
    <2>5. AskedIn(turns') = AskedIn(turns) /\ ToldIn(turns') = ToldIn(turns)
        BY <2>4, ConcatEmptySeq DEF none
    <2>6. ~LastIsAssistant /\ ~LastIsAssistant'
        BY <1>2, <2>1, <2>2, <2>3 DEF LastIsAssistant
    <2>7. ToldNow(turns, results) = ToldIn(turns) /\ ToldNow(turns', results') = ToldIn(turns')
        <3>1. ToldIn(turns') \o <<>> = ToldIn(turns')
            BY <2>4, <2>5, ConcatEmptySeq
        <3> QED
            BY <2>6, <3>1, MirrorTypes DEF ToldNow, LastIsAssistant
    <2> QED
        BY <1>5, <2>1, <2>5, <2>6, <2>7, MirrorTypes DEF MirrorOK
<1>8. CASE FinalAnswer
    <2>1. PICK text \in Narrates : steps' = Append(Said(text), Final)
        BY <1>8 DEF FinalAnswer
    <2>2. pc = "converse" /\ UNCHANGED <<turns, stopped>>
        BY <1>8 DEF FinalAnswer, Asks
    <2>3. CallsShown(steps') = CallsShown(steps) /\ AnswersShown(steps') = AnswersShown(steps)
        BY <2>1, <2>2, SaidShows
    <2> QED
        BY <1>3, <1>5, <2>2, <2>3, MirrorSame
<1>9. CASE RequestsTools
    <2> DEFINE asked == AskedIn(turns)
               told == ToldNow(turns, results)
               calls == CallsShown(steps)
               answers == AnswersShown(steps)
    <2>1. PICK text \in Narrates :
              steps' = Said(text) /\ turns' = Append(turns, AssistantTurn(text, batch'))
        BY <1>9 DEF RequestsTools
    <2>2. /\ pc = "converse" /\ pc' = "calls" /\ results' = <<>> /\ UNCHANGED stopped
          /\ batch' \in Seq(Call) /\ text \in BOOLEAN
        BY <1>9, Requested, ReplayAssumption DEF RequestsTools, Asks
    <2> DEFINE t == AssistantTurn(text, batch')
    <2>3. /\ t \in Turn /\ t.calls = batch' /\ t.results = <<>> /\ t.role = "assistant"
          /\ turns \in Seq(Turn)
        BY <2>2, NewTurns DEF AssistantTurn, TurnOf, TypeOK
    <2>4. turns' # <<>> /\ turns'[Len(turns')] = t
        BY <2>1, <2>3, TurnAppended
    <2> HIDE DEF t
    <2>5. AskedIn(turns') = asked \o batch' /\ ToldIn(turns') = ToldIn(turns) \o <<>>
        BY <2>1, <2>3, TurnsAppend DEF t
    <2>6. told = ToldIn(turns) /\ ToldIn(turns) \in Seq(Answer) /\ ~LastIsAssistant
        BY <1>3, <2>2, MirrorTypes
    <2>7. LastIsAssistant' /\ ToldNow(turns', results') = told
        <3>1. ToldIn(turns') = told /\ told \o <<>> = told
            BY <2>5, <2>6, ConcatEmptySeq
        <3> QED
            BY <2>2, <2>3, <2>4, <3>1 DEF ToldNow, LastIsAssistant
    <2>8. CallsShown(steps') = calls /\ AnswersShown(steps') = answers
        BY <2>1, <2>2, SaidShows
    <2>9. Mirrors(calls, answers, asked, told) /\ Len(asked) = Len(told)
          /\ Len(calls) = Len(answers)
        BY <1>5, <2>2, <2>6 DEF MirrorOK
    <2>10. /\ calls \in Seq(AnyStep) /\ answers \in Seq(AnyStep)
           /\ asked \in Seq(Call) /\ told \in Seq(Answer)
        BY MirrorTypes
    <2> HIDE DEF asked, told, calls, answers
    <2>11. Mirrors(calls, answers, asked \o batch', told)
           /\ Pending(asked \o batch', told, batch', results')
        BY <2>2, <2>9, <2>10, AsksMirrored
    <2> QED
        BY <1>5, <2>2, <2>5, <2>7, <2>8, <2>9, <2>11 DEF MirrorOK
<1>10. CASE AdapterRaises
    BY <1>3, <1>5, <1>10, MirrorSame DEF AdapterRaises, Asks
<1>11. CASE OutOfSteps
    BY <1>3, <1>5, <1>11, MirrorSame DEF OutOfSteps
<1>12. CASE AnswerRecorded
    BY <1>4, <1>12, RecordedType, MirrorAnswers DEF AnswerRecorded
<1>13. CASE AnswerStub
    BY <1>4, <1>13, MirrorAnswers DEF AnswerStub
<1>14. CASE AnswerLive
    BY <1>4, <1>14, MirrorAnswers DEF AnswerLive
<1>15. CASE LiveRaises
    <2>1. Handling /\ LastIsAssistant /\ stopped = None /\ None # "unrecorded_tool_call"
        BY <1>4, <1>5, <1>15 DEF LiveRaises, Handling
    <2>2. /\ steps' = Append(steps, CallStep(Current.call))
          /\ UNCHANGED <<turns, batch, results, stopped>> /\ pc' = "raised"
        BY <1>15 DEF LiveRaises
    <2>3. Append(steps, CallStep(Current.call)) \o <<>> = Append(steps, CallStep(Current.call))
        <3>1. Append(steps, CallStep(Current.call)) \in Seq(AnyStep)
            BY <2>1, CurrentType, StepsShown DEF Call, CallKind, StepsOK
        <3> QED
            BY <3>1, ConcatEmptySeq
    <2> QED
        BY <2>1, <2>2, <2>3, MirrorCall
<1>16. CASE StopAtFork
    <2>1. Handling /\ LastIsAssistant
        BY <1>4, <1>16 DEF StopAtFork
    <2>2. /\ steps' = steps \o <<CallStep(Current.call), MissingStep>>
          /\ UNCHANGED <<turns, batch, results>>
          /\ pc' = "returned" /\ stopped' = "unrecorded_tool_call"
        BY <1>16 DEF StopAtFork, GivesUp
    <2>3. steps' = Append(steps, CallStep(Current.call)) \o <<MissingStep>>
        <3>1. CallStep(Current.call) \in AnyStep /\ MissingStep \in AnyStep
              /\ steps \in Seq(AnyStep)
            BY <2>1, CurrentType, StepsShown DEF Call, CallKind, StepsOK
        <3> HIDE DEF CallStep, MissingStep, Current, AnyStep
        <3> QED
            BY <2>2, <3>1
    <2> QED
        BY <2>1, <2>2, <2>3, MirrorCall
<1>17. CASE BatchAnswered
    <2> DEFINE asked == AskedIn(turns)
               told == ToldNow(turns, results)
               t == ResultTurn(results)
    <2>1. /\ pc = "calls" /\ pc' = "converse" /\ Len(results) = Len(batch)
          /\ turns' = Append(turns, t) /\ UNCHANGED <<steps, stopped>>
        BY <1>17 DEF BatchAnswered, ShowsResults
    <2>2. /\ t \in Turn /\ t.calls = <<>> /\ t.results = results /\ t.role = "user"
          /\ turns \in Seq(Turn) /\ results \in Seq(Answer)
        BY NewTurns DEF ResultTurn, TurnOf, TypeOK
    <2>3. turns' # <<>> /\ turns'[Len(turns')] = t
        BY <2>1, <2>2, TurnAppended
    <2> HIDE DEF t
    <2>4. AskedIn(turns') = asked \o <<>> /\ ToldIn(turns') = ToldIn(turns) \o results
          /\ asked \in Seq(Call) /\ ToldIn(turns) \in Seq(Answer)
        BY <2>1, <2>2, TurnsAppend
    <2>5. LastIsAssistant /\ told = ToldIn(turns) \o results /\ told \in Seq(Answer)
        BY <2>1, WhoseTurn, MirrorTypes
    <2>6. ~LastIsAssistant' /\ ToldNow(turns', results') = told
        <3>1. ToldIn(turns') = told /\ told \o <<>> = told
            BY <2>4, <2>5, ConcatEmptySeq
        <3> QED
            BY <2>2, <2>3, <3>1 DEF ToldNow, LastIsAssistant
    <2>7. AskedIn(turns') = asked
        BY <2>4, ConcatEmptySeq
    <2>8. /\ Mirrors(CallsShown(steps), AnswersShown(steps), asked, told)
          /\ Pending(asked, told, batch, results)
          /\ Len(CallsShown(steps)) = Len(AnswersShown(steps))
        BY <1>5, <2>1, <2>5 DEF MirrorOK
    <2>9. Len(asked) = Len(told)
        <3>1. Len(asked) \in Nat /\ Len(told) \in Nat /\ Len(batch) \in Nat
            BY <2>4, <2>5 DEF TypeOK
        <3> QED
            BY <2>1, <2>8, <3>1 DEF Pending
    <2> HIDE DEF asked, told
    <2> QED
        BY <1>5, <2>1, <2>6, <2>7, <2>8, <2>9 DEF MirrorOK
<1> QED
    BY <1>1, <1>6, <1>7, <1>8, <1>9, <1>10, <1>11, <1>12, <1>13, <1>14, <1>15, <1>16, <1>17
    DEF Next, Step, Converse, HandleCall

------------------------------------------------------------------------------

LEMMA IInvInit == Init => IInv
<1> SUFFICES ASSUME Init PROVE IInv
    OBVIOUS
<1> USE DEF Init
<1>1. TypeOK
    BY ReplayAssumption DEF TypeOK, PC
<1>2. StepsOK
    BY DEF StepsOK
<1>3. BatchOK
    BY DEF BatchOK, LastIsAssistant
<1>4. ConversationWellFormed /\ NothingFabricated /\ LiveIsLastResort /\ ForkOK
    BY DEF ConversationWellFormed, NothingFabricated, LiveIsLastResort, ForkOK, None
<1>5. MirrorOK
    BY MirrorInit
<1> QED
    BY <1>1, <1>2, <1>3, <1>4, <1>5 DEF IInv

LEMMA IInvNext == IInv /\ [Next]_vars => IInv'
<1> SUFFICES ASSUME IInv, [Next]_vars PROVE IInv'
    OBVIOUS
<1>1. TypeOK' /\ StepsOK'
    BY TypeNext, StepsNext DEF IInv
<1>2. BatchOK' /\ ConversationWellFormed'
    BY BatchNext, ConversationNext DEF IInv
<1>3. NothingFabricated' /\ LiveIsLastResort'
    BY NothingFabricatedNext, LiveIsLastResortNext DEF IInv
<1>4. ForkOK' /\ MirrorOK'
    BY ForkNext, MirrorNext DEF IInv
<1> QED
    BY <1>1, <1>2, <1>3, <1>4 DEF IInv

(* The inductive invariant of the engine holds in every reachable state.      *)
THEOREM Invariant == Spec => []IInv
BY IInvInit, IInvNext, PTL DEF Spec

(* The types of the engine's state (engine.py:45-117), for any recording,     *)
(* number of rounds and size of a response.                                   *)
THEOREM TypeCorrect == Spec => []TypeOK
<1>1. IInv => TypeOK
    BY DEF IInv
<1> QED
    BY <1>1, Invariant, PTL

(* The model is always shown the question, then its own turns, each followed  *)
(* by answers to all its calls, by id and in order (engine.py:61-114).        *)
THEOREM AlwaysWellFormed == Spec => []ConversationWellFormed
<1>1. IInv => ConversationWellFormed
    BY DEF IInv
<1> QED
    BY <1>1, Invariant, PTL

(* The model is never told anything but the recorded result of its call, or,  *)
(* for a call that has none, what on_unrecorded says (engine.py:81-112).      *)
THEOREM NeverFabricates == Spec => []NothingFabricated
<1>1. IInv => NothingFabricated
    BY DEF IInv
<1> QED
    BY <1>1, Invariant, PTL

(* live_tool is called under "live" only, and only for calls the recording    *)
(* does not cover (engine.py:86-104).                                         *)
THEOREM LiveOnlyWhereUnrecorded == Spec => []LiveIsLastResort
<1>1. IInv => LiveIsLastResort
    BY DEF IInv
<1> QED
    BY <1>1, Invariant, PTL

(* The trajectory ends as stopped_reason says: with the answer, with the call *)
(* that has no result, or with all rounds spent (engine.py:64-117).           *)
THEOREM EndsHonestly == Spec => []EndingHonest
<1>1. ASSUME IInv PROVE EndingHonest
    <2>1. \A i \in 1..Len(steps) :
              \/ steps[i].kind # "final" /\ steps[i].how # "missing"
              \/ i = Len(steps) /\ pc = "returned" /\ Ends(steps[i])
        BY <1>1, OngoingSteps DEF IInv, StepsOK
    <2>2. \A i \in 1..Len(steps) :
              /\ steps[i].kind = "final" => i = Len(steps) /\ stopped = None
              /\ steps[i].how = "missing" =>
                    i = Len(steps) /\ stopped = "unrecorded_tool_call"
        BY <2>1 DEF Ends, Final, MissingStep, None
    <2>3. stopped = "max_steps" => round = MaxSteps
        BY <1>1 DEF IInv, StepsOK, Ends, None
    <2>4. pc = "returned" =>
              \/ stopped = "max_steps"
              \/ steps[Len(steps)] = Final
              \/ steps[Len(steps)] = MissingStep
        BY <1>1 DEF IInv, StepsOK, Ends
    <2> QED
        BY <2>2, <2>3, <2>4 DEF EndingHonest
<1> QED
    BY <1>1, Invariant, PTL

(* The trajectory and the conversation tell the same story: the calls shown   *)
(* are the first that were asked for, the answers shown are all the model was *)
(* told, redacted and in order, and only a run that is over shows one call    *)
(* more (engine.py:83-116: the steps and the result turn are built side by    *)
(* side, and left side by side by return and raise).                          *)
THEOREM MirrorsConversation == Spec => []StepsMirrorConversation
<1> SUFFICES ASSUME IInv PROVE StepsMirrorConversation
    BY Invariant, PTL
<1> DEFINE calls == CallsShown(steps)
           answers == AnswersShown(steps)
           asked == AskedIn(turns)
           told == ToldNow(turns, results)
<1>1. TypeOK /\ StepsOK /\ ForkOK /\ MirrorOK
    BY DEF IInv
<1>2. CallSteps = calls /\ AnswerSteps = answers
    BY <1>1, ShownIs DEF StepsOK
<1>3. AskedSoFar = asked /\ ToldSoFar = told
    BY DEF AskedSoFar, ToldSoFar, AskedIn, ToldNow, ToldIn
<1>4. Mirrors(calls, answers, asked, told) /\ Len(calls) \in Nat /\ Len(answers) \in Nat
    BY <1>1, MirrorTypes DEF MirrorOK
<1>5. Len(calls) = Len(answers) \/ (Len(calls) = Len(answers) + 1 /\ Done)
    BY <1>1 DEF MirrorOK, ForkOK, Done
<1> HIDE DEF calls, answers, asked, told
<1>6. Len(calls) - Len(answers) \in IF Done THEN {0, 1} ELSE {0}
    BY <1>4, <1>5
<1> QED
    BY <1>2, <1>3, <1>4, <1>6 DEF StepsMirrorConversation, Mirrors

(* What the diff is given of a run that returned: the calls shown, and the    *)
(* answer if there was one. The calls are those that were asked for up to the *)
(* one the run was given up on.                                               *)
DecisionKind == {s \in AnyStep : s.kind \in {"tool_call", "final"}}

LEMMA ShownDecisions ==
    ASSUME IInv, pc = "returned"
    PROVE  Filtered(steps, DecisionKind) =
               CallsShown(steps) \o IF stopped = None THEN <<Final>> ELSE <<>>
<1> DEFINE n == Len(steps)
<1>1. /\ steps \in Seq(AnyStep) /\ n \in Nat
      /\ \A i \in 1..n : steps[i] \in OngoingStep \/ (i = n /\ Ends(steps[i]))
    BY DEF IInv, StepsOK
<1>2. \A s \in OngoingStep : s \in DecisionKind <=> s \in CallKind
    BY OngoingSteps DEF DecisionKind, CallKind, AnyStep, Final
<1>3. /\ Final \in AnyStep /\ Final \in DecisionKind /\ Final \notin CallKind
      /\ MissingStep \notin DecisionKind /\ MissingStep \notin CallKind
    BY DEF DecisionKind, CallKind, AnyStep, Final, MissingStep
<1>4. CASE stopped # None
    <2>1. \A i \in 1..n : steps[i] \in DecisionKind <=> steps[i] \in CallKind
        BY <1>1, <1>2, <1>3, <1>4 DEF Ends
    <2>2. \A e \in Contents(steps) : e \in DecisionKind <=> e \in CallKind
        BY <2>1, ContentsMembers
    <2>3. Filtered(steps, DecisionKind) = CallsShown(steps)
        BY <1>1, <2>2, FilteredSame DEF CallsShown
    <2>4. CallsShown(steps) \o <<>> = CallsShown(steps)
        BY <1>1, ShownType, ConcatEmptySeq
    <2> QED
        BY <1>4, <2>3, <2>4
<1>5. CASE stopped = None
    <2>1. steps # <<>> /\ steps[n] = Final
        BY <1>5 DEF IInv, StepsOK, Ends, None
    <2>2. n \in 1..n
        BY <1>1, <2>1, EmptySeq
    <2> DEFINE front == [i \in 1 .. n - 1 |-> steps[i]]
    <2>3. /\ front \in Seq(AnyStep) /\ Len(front) = n - 1
          /\ \A i \in 1..Len(front) : front[i] = steps[i] /\ front[i] \in OngoingStep
        <3>1. \A i \in 1 .. n - 1 : steps[i] \in AnyStep /\ steps[i] \in OngoingStep
            BY <1>1, <2>2, ElementOfSeq
        <3>2. n - 1 \in Nat
            BY <1>1, <2>2
        <3> QED
            BY <3>1, <3>2
    <2> HIDE DEF front
    <2>4. steps = Append(front, Final)
        BY <1>1, <1>3, <2>1, <2>2, <2>3
    <2>5. \A e \in Contents(front) : e \in DecisionKind <=> e \in CallKind
        BY <1>2, <2>3, ContentsMembers
    <2>6. Filtered(front, DecisionKind) = CallsShown(front)
        BY <2>3, <2>5, FilteredSame DEF CallsShown
    <2>7. Filtered(steps, DecisionKind) = Filtered(front, DecisionKind) \o <<Final>>
        BY <1>3, <2>3, <2>4, FilteredAppend DEF Part
    <2>8. CallsShown(steps) = CallsShown(front)
        BY <1>3, <2>3, <2>4, ShownAppend
    <2> QED
        BY <1>5, <2>6, <2>7, <2>8
<1> QED
    BY <1>4, <1>5

LEMMA Listened ==
    ASSUME IInv, pc = "returned"
    PROVE  LET calls == CallsShown(steps)
               asked == AskedIn(turns)
           IN  /\ calls \in Seq(AnyStep) /\ asked \in Seq(Call)
               /\ Len(calls) = Len(asked) - IF stopped = "unrecorded_tool_call"
                                            THEN Len(batch) - Len(results) - 1 ELSE 0
               /\ Len(calls) <= Len(asked)
               /\ \A i \in 1..Len(calls) :
                     /\ calls[i] \in CallKind
                     /\ calls[i].of = Redact[asked[i].call]
               /\ stopped = "unrecorded_tool_call" =>
                     Len(calls) # 0 /\ asked[Len(calls)] = batch[Len(results) + 1]
<1> DEFINE calls == CallsShown(steps)
           answers == AnswersShown(steps)
           asked == AskedIn(turns)
           told == ToldNow(turns, results)
<1>1. TypeOK /\ StepsOK /\ ForkOK /\ MirrorOK
    BY DEF IInv
<1>2. /\ calls \in Seq(AnyStep) /\ asked \in Seq(Call) /\ told \in Seq(Answer)
      /\ Len(calls) \in Nat /\ Len(answers) \in Nat
    BY <1>1, MirrorTypes
<1>3. Contents(calls) \subseteq CallKind
    BY <1>1, FilteredType DEF StepsOK, CallsShown
<1>4. /\ Mirrors(calls, answers, asked, told)
      /\ LastIsAssistant => Pending(asked, told, batch, results)
      /\ ~LastIsAssistant => Len(asked) = Len(told)
      /\ LastIsAssistant <=> stopped = "unrecorded_tool_call"
      /\ Len(calls) = Len(answers) + IF stopped = "unrecorded_tool_call" THEN 1 ELSE 0
    BY <1>1, <1>2 DEF MirrorOK
<1>5. Len(batch) \in Nat /\ Len(results) \in Nat /\ Len(asked) \in Nat /\ Len(told) \in Nat
    BY <1>1, <1>2 DEF TypeOK
<1> HIDE DEF calls, answers, asked, told
<1>6. Len(calls) = Len(asked) - IF stopped = "unrecorded_tool_call"
                                THEN Len(batch) - Len(results) - 1 ELSE 0
    <2>1. CASE stopped = "unrecorded_tool_call"
        <3>1. Pending(asked, told, batch, results)
            BY <1>4, <2>1
        <3>2. Len(asked) = Len(told) + Len(batch) - Len(results)
            BY <3>1 DEF Pending
        <3>3. Len(calls) = Len(told) + 1
            BY <1>4, <2>1 DEF Mirrors
        <3> QED
            BY <1>5, <2>1, <3>2, <3>3
    <2>2. CASE stopped # "unrecorded_tool_call"
        BY <1>2, <1>4, <1>5, <2>2 DEF Mirrors
    <2> QED
        BY <2>1, <2>2
<1>7. Len(calls) <= Len(asked) /\ \A i \in 1..Len(calls) : calls[i].of = Redact[asked[i].call]
    BY <1>4 DEF Mirrors
<1>8. \A i \in 1..Len(calls) : calls[i] \in CallKind
    BY <1>3, ContentsMembers
<1>9. ASSUME stopped = "unrecorded_tool_call"
      PROVE  Len(calls) # 0 /\ asked[Len(calls)] = batch[Len(results) + 1]
    <2>1. Pending(asked, told, batch, results) /\ Len(calls) = Len(told) + 1
        BY <1>4, <1>9 DEF Mirrors
    <2>2. Len(results) + 1 \in 1..Len(batch)
        BY <1>1, <1>5, <1>9 DEF ForkOK
    <2>3. asked[Len(told) - Len(results) + (Len(results) + 1)] = batch[Len(results) + 1]
        BY <2>1, <2>2 DEF Pending
    <2> QED
        BY <1>5, <2>1, <2>3
<1> QED
    BY <1>2, <1>6, <1>7, <1>8, <1>9 DEF calls, asked

------------------------------------------------------------------------------
(* The engine holds a conversation of the abstract kind.                      *)

Exchange == [asked : Seq(Calls), told : Seq(Values \cup {Stub})]

AskedOf(calls) == [i \in 1..Len(calls) |-> calls[i].call]
ToldOf(answers) == [i \in 1..Len(answers) |-> answers[i].value]

(* Exchanges, of any turns and answers.                                       *)
TalkOf(ts, rs) ==
    [n \in 1 .. Len(ts) \div 2 |->
        [asked |-> AskedOf(ts[2 * n].calls),
         told |-> ToldOf(IF 2 * n < Len(ts) THEN ts[2 * n + 1].results ELSE rs)]]

LEMMA TalkIs == Exchanges = TalkOf(turns, results) /\ Exchanges' = TalkOf(turns', results')
BY DEF Exchanges, TalkOf, AskedOf, ToldOf

LEMMA FunctionSeq ==
    ASSUME NEW S, NEW n \in Nat, NEW f \in [1..n -> S]
    PROVE  f \in Seq(S) /\ Len(f) = n
OBVIOUS

LEMMA AskedType ==
    ASSUME NEW calls \in Seq(Call)
    PROVE  AskedOf(calls) \in Seq(Calls) /\ Len(AskedOf(calls)) = Len(calls)
<1>1. Len(calls) \in Nat /\ \A i \in 1..Len(calls) : calls[i] \in Call
    BY ElementOfSeq
<1>2. AskedOf(calls) \in [1..Len(calls) -> Calls]
    BY <1>1 DEF AskedOf, Call
<1> QED
    BY <1>1, <1>2, FunctionSeq

LEMMA ToldType ==
    ASSUME NEW answers \in Seq(Answer)
    PROVE  /\ ToldOf(answers) \in Seq(Values \cup {Stub})
           /\ Len(ToldOf(answers)) = Len(answers)
<1>1. Len(answers) \in Nat /\ \A i \in 1..Len(answers) : answers[i] \in Answer
    BY ElementOfSeq
<1>2. ToldOf(answers) \in [1..Len(answers) -> Values \cup {Stub}]
    BY <1>1 DEF ToldOf, Answer
<1> QED
    BY <1>1, <1>2, FunctionSeq

LEMMA TurnParts ==
    ASSUME NEW ts \in Seq(Turn)
    PROVE  \A i \in 1..Len(ts) :
               ts[i].calls \in Seq(Call) /\ ts[i].results \in Seq(Answer)
<1>1. \A i \in 1..Len(ts) : ts[i] \in Turn
    BY ElementOfSeq
<1>2. \A t \in Turn : t.calls \in Seq(Call) /\ t.results \in Seq(Answer)
    BY DEF Turn
<1> QED
    BY <1>1, <1>2

LEMMA Halves == \A k \in Nat : (2 * k) \div 2 = k /\ (2 * k + 1) \div 2 = k
OBVIOUS

(* An odd number of turns: every exchange is settled.                         *)
LEMMA TalkAfterUser ==
    ASSUME NEW ts \in Seq(Turn), NEW k \in Nat, Len(ts) = 2 * k + 1, NEW rs
    PROVE  /\ TalkOf(ts, rs) \in Seq(Exchange)
           /\ Len(TalkOf(ts, rs)) = k
           /\ \A n \in 1..k :
                 TalkOf(ts, rs)[n] = [asked |-> AskedOf(ts[2 * n].calls),
                                      told |-> ToldOf(ts[2 * n + 1].results)]
<1>1. Len(ts) \div 2 = k
    BY Halves
<1>2. \A n \in 1..k : 2 * n < Len(ts) /\ 2 * n \in 1..Len(ts) /\ 2 * n + 1 \in 1..Len(ts)
    OBVIOUS
<1>3. ASSUME NEW n \in 1..k
      PROVE  /\ TalkOf(ts, rs)[n] = [asked |-> AskedOf(ts[2 * n].calls),
                                     told |-> ToldOf(ts[2 * n + 1].results)]
             /\ TalkOf(ts, rs)[n] \in Exchange
    <2>1. ts[2 * n].calls \in Seq(Call) /\ ts[2 * n + 1].results \in Seq(Answer)
        BY <1>2, TurnParts
    <2>2. TalkOf(ts, rs)[n] = [asked |-> AskedOf(ts[2 * n].calls),
                               told |-> ToldOf(ts[2 * n + 1].results)]
        BY <1>1, <1>2 DEF TalkOf
    <2> QED
        BY <2>1, <2>2, AskedType, ToldType DEF Exchange
<1>4. TalkOf(ts, rs) \in [1..k -> Exchange]
    <2>1. DOMAIN TalkOf(ts, rs) = 1..k /\ TalkOf(ts, rs) = [n \in 1..k |-> TalkOf(ts, rs)[n]]
        BY <1>1 DEF TalkOf
    <2> QED
        BY <1>3, <2>1
<1> QED
    BY <1>3, <1>4, FunctionSeq

(* An even number: the last exchange is the one going on.                     *)
LEMMA TalkAfterAssistant ==
    ASSUME NEW ts \in Seq(Turn), NEW k \in Nat \ {0}, Len(ts) = 2 * k, NEW rs \in Seq(Answer)
    PROVE  /\ TalkOf(ts, rs) \in Seq(Exchange)
           /\ Len(TalkOf(ts, rs)) = k
           /\ \A n \in 1 .. k - 1 :
                 TalkOf(ts, rs)[n] = [asked |-> AskedOf(ts[2 * n].calls),
                                      told |-> ToldOf(ts[2 * n + 1].results)]
           /\ TalkOf(ts, rs)[k] = [asked |-> AskedOf(ts[2 * k].calls), told |-> ToldOf(rs)]
<1>1. Len(ts) \div 2 = k
    BY Halves
<1>2. \A n \in 1 .. k - 1 : 2 * n < Len(ts) /\ 2 * n \in 1..Len(ts) /\ 2 * n + 1 \in 1..Len(ts)
    OBVIOUS
<1>3. ASSUME NEW n \in 1 .. k - 1
      PROVE  /\ TalkOf(ts, rs)[n] = [asked |-> AskedOf(ts[2 * n].calls),
                                     told |-> ToldOf(ts[2 * n + 1].results)]
             /\ TalkOf(ts, rs)[n] \in Exchange
    <2>1. ts[2 * n].calls \in Seq(Call) /\ ts[2 * n + 1].results \in Seq(Answer)
        BY <1>2, TurnParts
    <2>2. TalkOf(ts, rs)[n] = [asked |-> AskedOf(ts[2 * n].calls),
                               told |-> ToldOf(ts[2 * n + 1].results)]
        BY <1>1, <1>2 DEF TalkOf
    <2> QED
        BY <2>1, <2>2, AskedType, ToldType DEF Exchange
<1>4. /\ TalkOf(ts, rs)[k] = [asked |-> AskedOf(ts[2 * k].calls), told |-> ToldOf(rs)]
      /\ TalkOf(ts, rs)[k] \in Exchange
    <2>1. 2 * k \in 1..Len(ts)
        OBVIOUS
    <2>2. ts[2 * k].calls \in Seq(Call)
        BY <2>1, TurnParts
    <2>3. TalkOf(ts, rs)[k] = [asked |-> AskedOf(ts[2 * k].calls), told |-> ToldOf(rs)]
        BY <1>1 DEF TalkOf
    <2> QED
        BY <2>2, <2>3, AskedType, ToldType DEF Exchange
<1>5. TalkOf(ts, rs) \in [1..k -> Exchange]
    <2>1. DOMAIN TalkOf(ts, rs) = 1..k /\ TalkOf(ts, rs) = [n \in 1..k |-> TalkOf(ts, rs)[n]]
        BY <1>1 DEF TalkOf
    <2>2. \A n \in 1..k : n \in 1 .. k - 1 \/ n = k
        OBVIOUS
    <2> QED
        BY <1>3, <1>4, <2>1, <2>2
<1> QED
    BY <1>3, <1>4, <1>5, FunctionSeq

(* What the abstract conversation is while the engine asks ...                *)
LEMMA WhenAsking ==
    ASSUME IInv, pc = "converse"
    PROVE  /\ Exchanges \in Seq(Exchange) /\ Len(Exchanges) = round
           /\ Loop!Settled /\ Ending = "running"
<1>1. turns \in Seq(Turn) /\ round \in Nat /\ Len(turns) = 2 * round + 1 /\ turns # <<>>
    BY WhoseTurn, ReplayAssumption DEF IInv, TypeOK
<1>2. /\ Exchanges \in Seq(Exchange) /\ Len(Exchanges) = round
      /\ \A n \in 1..round :
            Exchanges[n] = [asked |-> AskedOf(turns[2 * n].calls),
                            told |-> ToldOf(turns[2 * n + 1].results)]
    BY <1>1, TalkIs, TalkAfterUser
<1>3. CASE round = 0
    <2>1. Exchanges = <<>>
        BY <1>2, <1>3, EmptySeq
    <2> QED
        BY <2>1, <1>2 DEF Loop!Settled, Ending
<1>4. CASE round # 0
    <2>1. 2 * round + 1 \in 2..Len(turns) /\ (2 * round + 1) % 2 = 1 /\ 2 * round \in 1..Len(turns)
        BY <1>1, <1>4
    <2>2. Len(turns[2 * round + 1].results) = Len(turns[2 * round + 1 - 1].calls)
        <3>1. PICK k \in 2..Len(turns) : k = 2 * round + 1 /\ k % 2 = 1
            BY <2>1
        <3>2. Fits(turns, k)
            BY <1>1, TurnsFit DEF IInv
        <3>3. Len(turns[k].results) = Len(turns[k - 1].calls)
            BY <3>1, <3>2 DEF Fits
        <3> QED
            BY <1>1, <3>1, <3>3
    <2>3. 2 * round + 1 - 1 = 2 * round
        BY <1>1
    <2>4. turns[2 * round].calls \in Seq(Call) /\ turns[2 * round + 1].results \in Seq(Answer)
        <3>1. 2 * round + 1 \in 1..Len(turns)
            BY <2>1
        <3>2. \A i \in 1..Len(turns) :
                  turns[i].calls \in Seq(Call) /\ turns[i].results \in Seq(Answer)
            BY <1>1, TurnParts
        <3> HIDE DEF IInv
        <3> QED
            BY <2>1, <3>1, <3>2
    <2>5. Exchanges[round] = [asked |-> AskedOf(turns[2 * round].calls),
                              told |-> ToldOf(turns[2 * round + 1].results)]
        BY <1>1, <1>2, <1>4
    <2>6. Len(Exchanges[round].told) = Len(Exchanges[round].asked)
        BY <2>2, <2>3, <2>4, <2>5, AskedType, ToldType
    <2> QED
        BY <1>2, <2>6 DEF Loop!Settled, Ending
<1> QED
    BY <1>3, <1>4

(* ... and while it answers.                                                  *)
LEMMA WhenAnswering ==
    ASSUME IInv, pc = "calls"
    PROVE  /\ round \in Nat \ {0} /\ Len(turns) = 2 * round /\ turns # <<>>
           /\ Exchanges \in Seq(Exchange) /\ Len(Exchanges) = round
           /\ \A n \in 1 .. round - 1 :
                 Exchanges[n] = [asked |-> AskedOf(turns[2 * n].calls),
                                 told |-> ToldOf(turns[2 * n + 1].results)]
           /\ turns[2 * round].calls = batch
           /\ Exchanges[round] = [asked |-> AskedOf(batch), told |-> ToldOf(results)]
           /\ Ending = "running"
<1>1. /\ turns \in Seq(Turn) /\ round \in Nat /\ Len(turns) = 2 * round /\ turns # <<>>
      /\ LastIsAssistant /\ results \in Seq(Answer)
    BY WhoseTurn, ReplayAssumption DEF IInv, TypeOK
<1>2. round \in Nat \ {0}
    BY <1>1, EmptySeq
<1>3. turns[2 * round].calls = batch
    BY <1>1 DEF IInv, BatchOK
<1> QED
    BY <1>1, <1>2, <1>3, TalkIs, TalkAfterAssistant DEF Ending

LEMMA WhenHandling ==
    ASSUME IInv, Handling
    PROVE  /\ ~Loop!Settled
           /\ Loop!NextCall = Current.call
           /\ Loop!Covered <=> Found
<1>1. /\ Exchanges \in Seq(Exchange) /\ Len(Exchanges) = round /\ round \in Nat \ {0}
      /\ Exchanges[round] = [asked |-> AskedOf(batch), told |-> ToldOf(results)]
    BY WhenAnswering DEF Handling
<1>2. batch \in Seq(Call) /\ results \in Seq(Answer) /\ Len(results) + 1 \in 1..Len(batch)
    BY CurrentType DEF IInv, TypeOK
<1>3. Len(AskedOf(batch)) = Len(batch) /\ Len(ToldOf(results)) = Len(results)
    BY <1>2, AskedType, ToldType
<1>4. Exchanges # <<>>
    BY <1>1, EmptySeq
<1>5. AskedOf(batch)[Len(results) + 1] = Current.call
    BY <1>2 DEF AskedOf, Current
<1>6. ~Loop!Settled
    BY <1>1, <1>3, <1>4 DEF Loop!Settled, Handling
<1>7. Loop!NextCall = Current.call
    BY <1>1, <1>3, <1>5 DEF Loop!NextCall
<1> QED
    BY <1>6, <1>7 DEF Loop!Covered, Found

(* The steps of the engine as steps of the conversation.                      *)
LEMMA EndsTalk ==
    ASSUME UNCHANGED <<inputs, turns, results>>, Ending = "running",
           NEW how \in {"answered", "max_steps", "unrecorded_tool_call", "failed"},
           Loop!MayEnd(how), Ending' = how
    PROVE  Loop!End
<1>1. Exchanges' = Exchanges
    BY TalkIs
<1> QED
    BY <1>1 DEF Loop!End, Loop!Running, inputs

LEMMA Asking ==
    ASSUME IInv, RequestsTools
    PROVE  Loop!Ask
<1> DEFINE new == [asked |-> AskedOf(batch'), told |-> <<>>]
<1>1. /\ Exchanges \in Seq(Exchange) /\ Len(Exchanges) = round
      /\ Loop!Settled /\ Ending = "running"
      /\ turns \in Seq(Turn) /\ Len(turns) = 2 * round + 1 /\ round \in Nat
    BY WhenAsking, WhoseTurn, ReplayAssumption DEF IInv, TypeOK, RequestsTools, Asks
<1>2. /\ batch' \in Seq(Call) /\ Len(batch') \in 1..MaxBatch
      /\ round < MaxSteps /\ results' = <<>> /\ Ending' = "running"
      /\ UNCHANGED <<recording, policy>>
    BY Requested DEF IInv, RequestsTools, Asks, RoundsLeft, Ending, inputs
<1>3. PICK text \in BOOLEAN : /\ turns' = Append(turns, AssistantTurn(text, batch'))
                              /\ AssistantTurn(text, batch') \in Turn
    BY Requested DEF IInv
<1>4. /\ Len(turns') = 2 * (round + 1) /\ turns' \in Seq(Turn)
      /\ \A i \in 1..Len(turns) : turns'[i] = turns[i]
      /\ turns'[2 * (round + 1)].calls = batch'
    <2>1. /\ Len(turns') = Len(turns) + 1 /\ turns'[Len(turns')] = AssistantTurn(text, batch')
          /\ \A i \in 1..Len(turns) : turns'[i] = turns[i]
        BY <1>3, TurnAppended DEF IInv
    <2>2. turns' \in Seq(Turn)
        BY <1>1, <1>3
    <2> QED
        BY <1>1, <2>1, <2>2 DEF AssistantTurn, TurnOf
<1>5. results' \in Seq(Answer) /\ ToldOf(results') = <<>>
    BY <1>2 DEF ToldOf
<1>6. /\ Exchanges' \in Seq(Exchange) /\ Len(Exchanges') = round + 1
      /\ \A n \in 1..round :
            Exchanges'[n] = [asked |-> AskedOf(turns'[2 * n].calls),
                             told |-> ToldOf(turns'[2 * n + 1].results)]
      /\ Exchanges'[round + 1] = new
    <2>1. PICK k \in Nat \ {0} : k = round + 1
        BY <1>1
    <2>2. Len(turns') = 2 * k /\ k - 1 = round /\ turns'[2 * k].calls = batch'
        BY <1>1, <1>4, <2>1
    <2>3. /\ Exchanges' \in Seq(Exchange) /\ Len(Exchanges') = k
          /\ \A n \in 1 .. k - 1 :
                Exchanges'[n] = [asked |-> AskedOf(turns'[2 * n].calls),
                                 told |-> ToldOf(turns'[2 * n + 1].results)]
          /\ Exchanges'[k] = [asked |-> AskedOf(turns'[2 * k].calls), told |-> ToldOf(results')]
        BY <1>4, <1>5, <2>2, TalkIs, TalkAfterAssistant
    <2> QED
        BY <1>5, <2>1, <2>2, <2>3
<1>7. \A n \in 1..round :
          Exchanges[n] = [asked |-> AskedOf(turns[2 * n].calls),
                          told |-> ToldOf(turns[2 * n + 1].results)]
    BY <1>1, TalkIs, TalkAfterUser
<1>8. \A n \in 1..round : 2 * n \in 1..Len(turns) /\ 2 * n + 1 \in 1..Len(turns)
    BY <1>1
<1>9. \A n \in 1..round : Exchanges'[n] = Exchanges[n]
    BY <1>4, <1>6, <1>7, <1>8
<1>10. new \in Exchange
    BY <1>2, AskedType DEF Exchange
<1>11. Exchanges' = Append(Exchanges, new)
    <2> HIDE DEF new
    <2>1. /\ Append(Exchanges, new) \in Seq(Exchange)
          /\ Len(Append(Exchanges, new)) = round + 1
          /\ Append(Exchanges, new)[round + 1] = new
          /\ \A n \in 1..round : Append(Exchanges, new)[n] = Exchanges[n]
        BY <1>1, <1>10
    <2>2. \A n \in 1 .. round + 1 : n \in 1..round \/ n = round + 1
        BY <1>1
    <2>3. \A n \in 1 .. round + 1 : Exchanges'[n] = Append(Exchanges, new)[n]
        BY <1>6, <1>9, <2>1, <2>2
    <2> QED
        BY <1>6, <2>1, <2>3, SeqEqual
<1>12. AskedOf(batch') \in [1..Len(batch') -> Calls]
    <2>1. AskedOf(batch') \in Seq(Calls) /\ Len(AskedOf(batch')) = Len(batch')
        BY <1>2, AskedType
    <2> QED
        BY <2>1, LenProperties
<1> QED
    BY <1>1, <1>2, <1>11, <1>12 DEF Loop!Ask, Loop!Running

LEMMA Hearing ==
    ASSUME IInv, Handling, NEW v \in Values \cup {Stub}, NEW how, Answers(v, how),
           v \in Loop!MayHear
    PROVE  Loop!Hear
<1> DEFINE more == Append(ToldOf(results), v)
           next == [asked |-> AskedOf(batch), told |-> more]
<1>1. /\ Exchanges \in Seq(Exchange) /\ Len(Exchanges) = round /\ round \in Nat \ {0}
      /\ Exchanges[round] = [asked |-> AskedOf(batch), told |-> ToldOf(results)]
      /\ turns[2 * round].calls = batch
      /\ Ending = "running" /\ turns \in Seq(Turn) /\ Len(turns) = 2 * round
    BY WhenAnswering DEF Handling, IInv, TypeOK
<1>2. /\ results' = Append(results, [id |-> Current.id, value |-> v])
      /\ UNCHANGED <<inputs, pc, round, turns, batch, stopped>>
    BY DEF Answers
<1>3. results \in Seq(Answer) /\ [id |-> Current.id, value |-> v] \in Answer
    BY CurrentType DEF IInv, TypeOK, Answer, Call
<1>4. results' \in Seq(Answer) /\ Len(results') = Len(results) + 1
      /\ results'[Len(results) + 1].value = v
      /\ \A i \in 1..Len(results) : results'[i] = results[i]
    BY <1>2, <1>3
<1>5. ToldOf(results') = more
    <2>1. /\ ToldOf(results') \in Seq(Values \cup {Stub})
          /\ Len(ToldOf(results')) = Len(results) + 1
          /\ ToldOf(results) \in Seq(Values \cup {Stub})
          /\ Len(ToldOf(results)) = Len(results) /\ Len(results) \in Nat
        BY <1>3, <1>4, ToldType
    <2>2. /\ \A i \in 1..Len(results) : ToldOf(results')[i] = ToldOf(results)[i]
          /\ ToldOf(results')[Len(results) + 1] = v
        BY <1>4, <2>1 DEF ToldOf
    <2> HIDE DEF ToldOf
    <2>3. /\ more \in Seq(Values \cup {Stub}) /\ Len(more) = Len(results) + 1
          /\ more[Len(results) + 1] = v
          /\ \A i \in 1..Len(results) : more[i] = ToldOf(results)[i]
        BY <2>1
    <2>4. \A i \in 1 .. Len(results) + 1 : i \in 1..Len(results) \/ i = Len(results) + 1
        BY <2>1
    <2> HIDE DEF more
    <2>5. \A i \in 1 .. Len(results) + 1 : ToldOf(results')[i] = more[i]
        BY <2>2, <2>3, <2>4
    <2> QED
        BY <2>1, <2>3, <2>5, SeqEqual
<1>6. /\ Exchanges' \in Seq(Exchange) /\ Len(Exchanges') = round
      /\ \A n \in 1 .. round - 1 : Exchanges'[n] = Exchanges[n]
      /\ Exchanges'[round] = next
    <2>1. Exchanges = TalkOf(turns, results) /\ Exchanges' = TalkOf(turns, results')
        BY <1>2, TalkIs
    <2>2. /\ TalkOf(turns, results') \in Seq(Exchange) /\ Len(TalkOf(turns, results')) = round
          /\ \A n \in 1 .. round - 1 :
                TalkOf(turns, results')[n] = [asked |-> AskedOf(turns[2 * n].calls),
                                              told |-> ToldOf(turns[2 * n + 1].results)]
          /\ TalkOf(turns, results')[round]
                = [asked |-> AskedOf(turns[2 * round].calls), told |-> ToldOf(results')]
        BY <1>1, <1>4, TalkAfterAssistant
    <2>3. \A n \in 1 .. round - 1 :
              TalkOf(turns, results)[n] = [asked |-> AskedOf(turns[2 * n].calls),
                                           told |-> ToldOf(turns[2 * n + 1].results)]
        BY <1>1, <1>3, TalkAfterAssistant
    <2> HIDE DEF more
    <2> QED
        BY <1>1, <1>5, <2>1, <2>2, <2>3
<1>7. Exchanges' = [Exchanges EXCEPT ![round] = next]
    <2> HIDE DEF next
    <2>1. next \in Exchange
        BY <1>1, <1>6, ElementOfSeq
    <2>2. \A n \in 1..round : n \in 1 .. round - 1 \/ n = round
        BY <1>1
    <2>3. /\ [Exchanges EXCEPT ![round] = next] \in Seq(Exchange)
          /\ Len([Exchanges EXCEPT ![round] = next]) = round
          /\ \A n \in 1..round : [Exchanges EXCEPT ![round] = next][n]
                                    = IF n = round THEN next ELSE Exchanges[n]
        BY <1>1, <2>1, ExceptSeq
    <2>4. \A n \in 1..round : Exchanges'[n] = [Exchanges EXCEPT ![round] = next][n]
        BY <1>6, <2>2, <2>3
    <2> QED
        BY <1>6, <2>3, <2>4, SeqEqual
<1>8. next = [Exchanges[round] EXCEPT !.told = Append(@, v)]
    <2>1. ASSUME NEW e, NEW a, NEW b, NEW c, e = [asked |-> a, told |-> b]
          PROVE  [asked |-> a, told |-> Append(b, c)] = [e EXCEPT !.told = Append(@, c)]
        <3>1. e.told = b
            BY <2>1
        <3> QED
            BY <2>1, <3>1
    <2>2. Exchanges[round] = [asked |-> AskedOf(batch), told |-> ToldOf(results)]
        BY <1>1
    <2> QED
        BY <2>1, <2>2, SMTT(20)
<1>9. Exchanges' = [Exchanges EXCEPT ![Len(Exchanges)].told = Append(@, v)]
    BY <1>1, <1>7, <1>8
<1>10. Ending' = Ending /\ UNCHANGED <<recording, policy>>
    BY <1>2 DEF Ending, inputs
<1> QED
    BY <1>1, <1>9, <1>10, WhenHandling DEF Loop!Hear, Loop!Running

LEMMA TalkInit == Init => Loop!Init
<1> SUFFICES ASSUME Init PROVE Loop!Init
    OBVIOUS
<1>1. Len(turns) \div 2 = 0
    BY DEF Init
<1>2. Exchanges = <<>>
    BY <1>1 DEF Exchanges
<1> QED
    BY <1>2 DEF Init, Loop!Init, Ending

(* Before the question there is no exchange, and nothing has ended.           *)
LEMMA WhenStarting ==
    ASSUME IInv, pc = "start"
    PROVE  turns = <<>> /\ Exchanges = <<>> /\ Loop!Settled /\ Ending = "running"
<1>1. turns = <<>>
    BY DEF IInv, ConversationWellFormed
<1>2. Len(turns) \div 2 = 0
    BY <1>1
<1>3. Exchanges = <<>>
    BY <1>2 DEF Exchanges
<1> QED
    BY <1>1, <1>3 DEF Loop!Settled, Ending

(* Every step of the engine is a step of the conversation or leaves it alone. *)
LEMMA TalkStep ==
    ASSUME IInv, [Next]_vars
    PROVE  [Loop!Next]_(Loop!vars)
<1> USE DEF Loop!Next
<1>1. CASE RefusesPolicy
    <2>1. Loop!MayEnd("failed") /\ Ending' = "failed"
        BY <1>1, WhenStarting DEF RefusesPolicy, Loop!MayEnd, Ending
    <2> QED
        BY <1>1, <2>1, WhenStarting, EndsTalk DEF RefusesPolicy
<1>2. CASE Start
    <2>1. turns' = <<Question>>
        BY <1>2 DEF Start
    <2> HIDE DEF Question
    <2>2. Len(turns') = 1
        BY <2>1
    <2>3. Len(turns') \div 2 = 0
        BY <2>2
    <2>4. Exchanges' = <<>>
        BY <2>3 DEF Exchanges
    <2>5. Exchanges' = Exchanges /\ Ending' = Ending
        BY <1>2, <2>4, WhenStarting DEF Start, Ending
    <2> QED
        BY <1>2, <2>5 DEF Start, inputs, Loop!vars
<1>3. CASE FinalAnswer
    <2>1. pc = "converse" /\ round < MaxSteps /\ pc' = "returned" /\ stopped' = None
        BY <1>3, WhileRunning DEF FinalAnswer, Asks, RoundsLeft, IInv
    <2>2. Loop!MayEnd("answered") /\ Ending' = "answered"
        BY <2>1, WhenAsking DEF Loop!MayEnd, Ending
    <2> QED
        BY <1>3, <2>1, <2>2, WhenAsking, EndsTalk DEF FinalAnswer
<1>4. CASE RequestsTools
    BY <1>4, Asking
<1>5. CASE AdapterRaises
    <2>1. pc = "converse" /\ pc' = "raised"
        BY <1>5 DEF AdapterRaises, Asks
    <2>2. Loop!MayEnd("failed") /\ Ending' = "failed"
        BY <2>1, WhenAsking DEF Loop!MayEnd, Ending
    <2> QED
        BY <1>5, <2>1, <2>2, WhenAsking, EndsTalk DEF AdapterRaises
<1>6. CASE OutOfSteps
    <2>1. pc = "converse" /\ round = MaxSteps /\ pc' = "returned" /\ stopped' = "max_steps"
        BY <1>6 DEF OutOfSteps, RoundsSpent
    <2>2. Loop!MayEnd("max_steps") /\ Ending' = "max_steps"
        BY <2>1, WhenAsking DEF Loop!MayEnd, Ending, None
    <2> QED
        BY <1>6, <2>1, <2>2, WhenAsking, EndsTalk DEF OutOfSteps
<1>7. CASE AnswerRecorded
    <2>1. recording[Current.call] \in Loop!MayHear /\ recording[Current.call] \in Values
        BY <1>7, WhenHandling, RecordedType DEF AnswerRecorded, Loop!MayHear, IInv
    <2> QED
        BY <1>7, <2>1, Hearing DEF AnswerRecorded
<1>8. CASE AnswerStub
    <2>1. Stub \in Loop!MayHear
        BY <1>8, WhenHandling DEF AnswerStub, Fork, Loop!MayHear
    <2> QED
        BY <1>8, <2>1, Hearing DEF AnswerStub
<1>9. CASE AnswerLive
    <2>1. PICK v \in Values : Answers(v, "live")
        BY <1>9 DEF AnswerLive
    <2>2. v \in Loop!MayHear
        BY <1>9, WhenHandling DEF AnswerLive, Fork, Loop!MayHear
    <2> QED
        BY <1>9, <2>1, <2>2, Hearing DEF AnswerLive
<1>10. CASE LiveRaises
    <2>1. Loop!MayEnd("failed") /\ Ending' = "failed"
        BY <1>10, WhenHandling DEF LiveRaises, Fork, Loop!MayEnd, Ending
    <2> QED
        BY <1>10, <2>1, WhenAnswering, EndsTalk DEF LiveRaises, Handling
<1>11. CASE StopAtFork
    <2>1. Loop!MayEnd("unrecorded_tool_call") /\ Ending' = "unrecorded_tool_call"
        BY <1>11, WhenHandling DEF StopAtFork, GivesUp, Fork, Loop!MayEnd, Ending, None
    <2> QED
        BY <1>11, <2>1, WhenAnswering, EndsTalk DEF StopAtFork, Handling
<1>12. CASE BatchAnswered
    <2>1. /\ round \in Nat \ {0} /\ Len(turns) = 2 * round /\ turns \in Seq(Turn)
          /\ results \in Seq(Answer)
          /\ Exchanges \in Seq(Exchange) /\ Len(Exchanges) = round
          /\ \A n \in 1 .. round - 1 :
                Exchanges[n] = [asked |-> AskedOf(turns[2 * n].calls),
                                told |-> ToldOf(turns[2 * n + 1].results)]
          /\ turns[2 * round].calls = batch
          /\ Exchanges[round] = [asked |-> AskedOf(batch), told |-> ToldOf(results)]
        BY <1>12, WhenAnswering DEF BatchAnswered, IInv, TypeOK
    <2>2. /\ turns' = Append(turns, ResultTurn(results)) /\ ResultTurn(results) \in Turn
          /\ ResultTurn(results).results = results
        BY <1>12, NewTurns DEF BatchAnswered, ShowsResults, IInv, ResultTurn, TurnOf
    <2>3. /\ turns' \in Seq(Turn) /\ Len(turns') = 2 * round + 1
          /\ turns'[2 * round + 1] = ResultTurn(results)
          /\ \A i \in 1 .. 2 * round : turns'[i] = turns[i]
        BY <2>1, <2>2, TurnAppended DEF IInv
    <2>4. /\ Exchanges' \in Seq(Exchange) /\ Len(Exchanges') = round
          /\ \A n \in 1..round :
                Exchanges'[n] = [asked |-> AskedOf(turns'[2 * n].calls),
                                 told |-> ToldOf(turns'[2 * n + 1].results)]
        <3>1. PICK k \in Nat : k = round
            BY <2>1
        <3>2. turns' \in Seq(Turn) /\ Len(turns') = 2 * k + 1
            BY <2>3, <3>1
        <3>3. /\ TalkOf(turns', results') \in Seq(Exchange)
              /\ Len(TalkOf(turns', results')) = k
              /\ \A n \in 1..k : TalkOf(turns', results')[n]
                    = [asked |-> AskedOf(turns'[2 * n].calls),
                       told |-> ToldOf(turns'[2 * n + 1].results)]
            BY <3>2, TalkAfterUser
        <3> QED
            BY <3>1, <3>3, TalkIs
    <2>5. ASSUME NEW n \in 1 .. round - 1
          PROVE  Exchanges'[n] = Exchanges[n]
        <3>1. 2 * n \in 1 .. 2 * round /\ 2 * n + 1 \in 1 .. 2 * round /\ n \in 1..round
            BY <2>1
        <3> QED
            BY <2>1, <2>3, <2>4, <3>1
    <2>6. Exchanges'[round] = Exchanges[round]
        <3>1. 2 * round \in 1 .. 2 * round /\ round \in 1..round
            BY <2>1
        <3>2. Exchanges'[round] = [asked |-> AskedOf(turns'[2 * round].calls),
                                   told |-> ToldOf(turns'[2 * round + 1].results)]
            BY <2>4, <3>1
        <3> QED
            BY <2>1, <2>2, <2>3, <3>1, <3>2
    <2>7. \A n \in 1..round : n \in 1 .. round - 1 \/ n = round
        BY <2>1
    <2>8. \A n \in 1..round : Exchanges'[n] = Exchanges[n]
        BY <2>5, <2>6, <2>7
    <2>9. Exchanges' = Exchanges
        BY <2>1, <2>4, <2>8, SeqEqual
    <2> QED
        BY <1>12, <2>9 DEF BatchAnswered, inputs, Loop!vars, Ending
<1>13. CASE UNCHANGED vars
    BY <1>13, TalkIs DEF vars, inputs, Loop!vars, Ending
<1> QED
    BY <1>1, <1>2, <1>3, <1>4, <1>5, <1>6, <1>7, <1>8, <1>9, <1>10, <1>11, <1>12, <1>13
    DEF Next, Step, Converse, HandleCall, Done

(* Whatever the model, the policy and live_tool do, a replay is a conversation *)
(* of the abstract kind (engine.py:45-57): calls are answered one by one, in  *)
(* order, as the recording and the policy say, and it ends as it says it did. *)
THEOREM Implements == Spec => ImplementsAgentLoop
<1>1. Init => Loop!Init
    BY TalkInit
<1>2. IInv /\ [Next]_vars => [Loop!Next]_(Loop!vars)
    BY TalkStep
<1> QED
    BY <1>1, <1>2, Invariant, PTL DEF Spec, ImplementsAgentLoop, Loop!Spec
==============================================================================
