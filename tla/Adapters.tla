------------------------------- MODULE Adapters -------------------------------
(* The model adapters (replay/adapters/bedrock.py, openai_compat.py): what    *)
(* they make of the engine's turns for their provider, and of the provider's  *)
(* messages for the engine. A call and its arguments, or a result, is an atom *)
(* here: JSON text and JSON object are one.                                   *)
EXTENDS ReplayEngine

TextBlock == [block |-> "text"]
ToolUse(c) == [block |-> "toolUse", id |-> c.id, call |-> c.call]
ToolResult(a) == [block |-> "toolResult", id |-> a.id, value |-> a.value]

(* Operators named Bad... are the mistakes the mutation runs make: each is put *)
(* in place of the definition that follows it, and nothing else uses them.    *)

(* Text and tool calls are taken for alternatives.                            *)
BadTurnToConverse(t) ==
    [role |-> t.role,
     content |-> IF t.text THEN <<TextBlock>>
                 ELSE [i \in 1..Len(t.calls) |-> ToolUse(t.calls[i])]
                      \o [i \in 1..Len(t.results) |-> ToolResult(t.results[i])]]

(* _turn_to_converse: one message of blocks.                                  *)
TurnToConverse(t) ==
    [role |-> t.role,
     content |-> (IF t.text THEN <<TextBlock>> ELSE <<>>)
                 \o [i \in 1..Len(t.calls) |-> ToolUse(t.calls[i])]
                 \o [i \in 1..Len(t.results) |-> ToolResult(t.results[i])]]

OfBlock(content, block) ==
    Filtered(content, {b \in Contents(content) : b.block = block})

(* _parse_converse: text and calls of a message, wherever they are in it.     *)
ParseConverse(content) ==
    LET uses == OfBlock(content, "toolUse")
    IN  [text |-> OfBlock(content, "text") # <<>>,
         calls |-> [i \in 1..Len(uses) |-> [id |-> uses[i].id, call |-> uses[i].call]]]

ToolMessage(a) == [role |-> "tool", id |-> a.id, value |-> a.value]

(* One message for all results, under the id of the first.                    *)
BadResultMessages(answers) == <<ToolMessage(answers[1])>>
ResultMessages(answers) == [i \in 1..Len(answers) |-> ToolMessage(answers[i])]

(* _turn_to_openai: a message for each result, or one for the whole turn.     *)
TurnToOpenAI(t) ==
    IF t.results # <<>> THEN ResultMessages(t.results)
    ELSE <<[role |-> t.role, text |-> t.text, calls |-> t.calls]>>

(* _parse_openai.                                                             *)
ParseOpenAI(message) == [text |-> message.text, calls |-> message.calls]

(* The messages of converse, which either adapter makes anew every round,     *)
(* without the system prompt.                                                 *)
BedrockMessages == [i \in 1..Len(turns) |-> TurnToConverse(turns[i])]
OpenAIMessages == FlattenSeq([i \in 1..Len(turns) |-> TurnToOpenAI(turns[i])])

------------------------------------------------------------------------------

Ids(seq) == [i \in 1..Len(seq) |-> seq[i].id]

OfRole(msgs, role) == Filtered(msgs, {m \in Contents(msgs) : m.role = role})

(* What the providers ask of a conversation. Bedrock: no empty message, user  *)
(* and assistant take turns, and a message that uses tools is followed by one *)
(* with a result for each use and no other. OpenAI: a message with tool calls *)
(* is followed by one tool message for each of them, and there are no others. *)
BedrockAccepts(msgs) ==
    /\ \A i \in 1..Len(msgs) :
          /\ msgs[i].content # <<>>
          /\ msgs[i].role = IF i % 2 = 1 THEN "user" ELSE "assistant"
    /\ \A i \in 1 .. Len(msgs) - 1 :
          ToSet(Ids(OfBlock(msgs[i].content, "toolUse")))
              = ToSet(Ids(OfBlock(msgs[i + 1].content, "toolResult")))
    /\ OfBlock(msgs[Len(msgs)].content, "toolUse") = <<>>

OpenAIAccepts(msgs) ==
    \A i \in 1..Len(msgs) :
        /\ msgs[i].role = "tool" => i > 1 /\ msgs[i - 1].role \in {"assistant", "tool"}
        /\ msgs[i].role = "assistant" =>
              LET next == {j \in i + 1 .. Len(msgs) :
                              \A k \in i + 1 .. j : msgs[k].role = "tool"}
              IN  /\ Cardinality(next) = Len(msgs[i].calls)
                  /\ {msgs[j].id : j \in next} = ToSet(Ids(msgs[i].calls))

(* Every request either adapter makes for the engine is one its provider      *)
(* accepts.                                                                   *)
ProvidersAccept ==
    pc = "converse" =>
        /\ BedrockAccepts(BedrockMessages)
        /\ OpenAIAccepts(OpenAIMessages)

(* "Swapping Bedrock for an OpenAI-compatible endpoint" changes nothing of    *)
(* what the model reads: both requests carry what it said before, word for    *)
(* word as its adapter would read it, and the same results, in the same order. *)
SameConversation ==
    LET said == OfRole(BedrockMessages, "assistant")
        saidOpenAI == OfRole(OpenAIMessages, "assistant")
        told == FlattenSeq([i \in 1..Len(turns) |->
                    OfBlock(BedrockMessages[i].content, "toolResult")])
        toldOpenAI == OfRole(OpenAIMessages, "tool")
        own == OfRole(turns, "assistant")
    IN  pc = "converse" =>
            /\ Len(said) = Len(own) /\ Len(saidOpenAI) = Len(own)
            /\ \A i \in 1..Len(own) :
                  /\ ParseConverse(said[i].content)
                        = [text |-> own[i].text, calls |-> own[i].calls]
                  /\ ParseOpenAI(saidOpenAI[i]) = ParseConverse(said[i].content)
            /\ [i \in 1..Len(told) |-> <<told[i].id, told[i].value>>]
                = [i \in 1..Len(toldOpenAI) |-> <<toldOpenAI[i].id, toldOpenAI[i].value>>]
==============================================================================
