---------------------------- MODULE AdaptersProofs ----------------------------
(* What is proved of the model adapters, for runs of the engine of any size:  *)
(* that both providers accept every request, and that both requests tell the  *)
(* model the same conversation.                                               *)
EXTENDS Adapters, ReplayEngineProofs

------------------------------------------------------------------------------
(* A turn is the model's, and brings no results, or the user's, and asks for  *)
(* nothing.                                                                   *)

OneSided(t) == IF t.role = "assistant" THEN t.results = <<>> ELSE t.calls = <<>>

Speech == {t \in Turn : OneSided(t)}

TurnsOneSided == turns \in Seq(Speech)

LEMMA SpeechNext ==
    ASSUME IInv, IInv', TurnsOneSided, [Next]_vars
    PROVE  TurnsOneSided'
<1>1. Question \in Speech /\ ResultTurn(results) \in Speech
      /\ \A text \in BOOLEAN, b \in Seq(Call) : AssistantTurn(text, b) \in Speech
    <2>1. Question \in Turn
        BY DEF Question, TurnOf, Turn
    <2>2. ResultTurn(results) \in Turn
          /\ \A text \in BOOLEAN, b \in Seq(Call) : AssistantTurn(text, b) \in Turn
        BY NewTurns DEF IInv
    <2>3. OneSided(Question) /\ OneSided(ResultTurn(results))
          /\ \A text, b : OneSided(AssistantTurn(text, b))
        BY DEF OneSided, Question, ResultTurn, AssistantTurn, TurnOf
    <2> QED
        BY <2>1, <2>2, <2>3 DEF Speech
<1>2. CASE Start
    BY <1>1, <1>2 DEF Start, TurnsOneSided
<1>3. CASE RequestsTools
    <2>1. batch' \in Seq(Call)
        BY DEF IInv, TypeOK
    <2>2. PICK text \in Narrates : turns' = Append(turns, AssistantTurn(text, batch'))
        BY <1>3 DEF RequestsTools
    <2>3. AssistantTurn(text, batch') \in Speech
        BY <1>1, <2>1, <2>2, ReplayAssumption
    <2> QED
        BY <2>2, <2>3 DEF TurnsOneSided
<1>4. CASE BatchAnswered
    <2>1. turns' = Append(turns, ResultTurn(results))
        BY <1>4 DEF BatchAnswered, ShowsResults
    <2> QED
        BY <1>1, <2>1 DEF TurnsOneSided
<1>5. CASE turns' = turns
    BY <1>5 DEF TurnsOneSided
<1> QED
    BY <1>2, <1>3, <1>4, <1>5
    DEF Next, Step, RefusesPolicy, Converse, FinalAnswer, AdapterRaises, OutOfSteps,
        HandleCall, AnswerRecorded, AnswerStub, AnswerLive, Answers, LiveRaises, StopAtFork, vars

(* Every turn the engine puts into the conversation is one-sided              *)
(* (engine.py:45-117).                                                        *)
THEOREM SpeechInvariant == Spec => []TurnsOneSided
<1>1. Init => TurnsOneSided
    BY DEF Init, TurnsOneSided
<1>2. IInv /\ IInv' /\ TurnsOneSided /\ [Next]_vars => TurnsOneSided'
    BY SpeechNext
<1> QED
    BY <1>1, <1>2, Invariant, PTL DEF Spec

------------------------------------------------------------------------------
(* What _turn_to_converse makes of a turn, block by block.                    *)

Block ==
    {TextBlock} \cup {ToolUse(c) : c \in Call} \cup {ToolResult(a) : a \in Answer}

UseOf == [c \in Call |-> ToolUse(c)]
ResultOf == [a \in Answer |-> ToolResult(a)]

TextPart(t) == IF t.text THEN <<TextBlock>> ELSE <<>>

IsSaid(content, t) ==
    /\ content \in Seq(Block)
    /\ OfBlock(content, "text") = TextPart(t)
    /\ OfBlock(content, "toolUse") = Mapped(UseOf, t.calls)
    /\ OfBlock(content, "toolResult") = Mapped(ResultOf, t.results)

(* Sequences of blocks that are all of one kind, one behind the other.        *)
AllOf(s, x) == s \in Seq(Block) /\ \A e \in Contents(s) : e.block = x

IfOf(kind, x, s) == IF kind = x THEN s ELSE <<>>

Chains(all, a, b, c) == all = a \o b \o c

ThreeKinds(all, kind, a, x, b, y, c, z) ==
    /\ OfBlock(all, kind) = IfOf(kind, x, a) \o IfOf(kind, y, b) \o IfOf(kind, z, c)
    /\ all \in Seq(Block) /\ Len(all) = Len(a) + Len(b) + Len(c)

LEMMA KindsApart ==
    ASSUME NEW a, NEW b, NEW c, NEW kind, NEW x, NEW y, NEW z,
           AllOf(a, x), AllOf(b, y), AllOf(c, z), NEW all, Chains(all, a, b, c)
    PROVE  ThreeKinds(all, kind, a, x, b, y, c, z)
<1> DEFINE K == {e \in Block : e.block = kind}
           ab == a \o b
<1>0. a \in Seq(Block) /\ b \in Seq(Block) /\ c \in Seq(Block)
    BY DEF AllOf
<1>1. ASSUME NEW s \in Seq(Block), NEW w, AllOf(s, w)
      PROVE  Filtered(s, K) = IfOf(kind, w, s)
    <2>1. \A e \in Contents(s) : e \in Block
        BY ElementOfSeq, ContentsMembers
    <2>2. CASE kind = w
        <3>1. Contents(s) \subseteq K
            BY <1>1, <2>1, <2>2 DEF AllOf
        <3> HIDE DEF K
        <3> QED
            BY <2>2, <3>1, FilteredAll DEF IfOf
    <2>3. CASE kind # w
        <3>1. Contents(s) \cap K = {}
            BY <1>1, <2>1, <2>3 DEF AllOf
        <3> HIDE DEF K
        <3> QED
            BY <2>3, <3>1, FilteredNone DEF IfOf
    <2> QED
        BY <2>2, <2>3
<1>2. ab \in Seq(Block) /\ Len(ab) = Len(a) + Len(b)
    BY <1>0, ConcatProperties
<1>3. all = ab \o c
    BY DEF ab, Chains
<1> HIDE DEF ab
<1>4. all \in Seq(Block) /\ Len(all) = Len(a) + Len(b) + Len(c)
    BY <1>0, <1>2, <1>3, ConcatProperties
<1>5. OfBlock(all, kind) = Filtered(all, K)
    <2>1. \A e \in Contents(all) : e \in Block
        BY <1>4 DEF Contents
    <2> DEFINE L == {e \in Contents(all) : e.block = kind}
    <2>2. \A e \in Contents(all) : e \in L <=> e \in K
        BY <2>1
    <2>3. OfBlock(all, kind) = Filtered(all, L)
        BY DEF OfBlock
    <2> HIDE DEF K, L
    <2> QED
        BY <1>4, <2>2, <2>3, FilteredSame
<1>6. Filtered(all, K) = Filtered(ab, K) \o Filtered(c, K)
    <2> HIDE DEF K
    <2> QED
        BY <1>0, <1>2, <1>3, FilteredConcat, SMTT(30)
<1>7. Filtered(ab, K) = Filtered(a, K) \o Filtered(b, K)
    <2> HIDE DEF K
    <2> QED
        BY <1>0, FilteredConcat DEF ab
<1>8. /\ Filtered(a, K) = IfOf(kind, x, a) /\ Filtered(b, K) = IfOf(kind, y, b)
      /\ Filtered(c, K) = IfOf(kind, z, c)
    <2> HIDE DEF K
    <2> QED
        BY <1>0, <1>1
<1> HIDE DEF K
<1> QED
    BY <1>4, <1>5, <1>6, <1>7, <1>8 DEF ThreeKinds

(* m is s with f made of every element.                                       *)
IsMapped(m, f, s, E, D) ==
    /\ m \in Seq(D) /\ Len(m) = Len(s) /\ Len(s) \in Nat
    /\ \A i \in 1..Len(s) : m[i] = f[s[i]] /\ s[i] \in E
    /\ \A d \in Contents(m) : \E e \in E : d = f[e]

LEMMA MappedType ==
    ASSUME NEW E, NEW D, NEW f, NEW s \in Seq(E), \A e \in E : f[e] \in D
    PROVE  IsMapped(Mapped(f, s), f, s, E, D)
<1> DEFINE m == Mapped(f, s)
<1>1. Len(s) \in Nat /\ \A i \in 1..Len(s) : s[i] \in E
    BY ElementOfSeq
<1>2. m = [i \in 1..Len(s) |-> f[s[i]]]
    BY DEF Mapped
<1> HIDE DEF m
<1>3. m \in Seq(D) /\ Len(m) = Len(s) /\ \A i \in 1..Len(s) : m[i] = f[s[i]] /\ s[i] \in E
    BY <1>1, <1>2
<1>4. \A d \in Contents(m) : \E e \in E : d = f[e]
    BY <1>3, ContentsMembers
<1> QED
    BY <1>1, <1>3, <1>4 DEF m, IsMapped

LEMMA EmptyPart ==
    ASSUME NEW S, NEW s \in Seq(S)
    PROVE  /\ s \o <<>> = s /\ <<>> \o s = s
           /\ s \o <<>> \o <<>> = s /\ <<>> \o s \o <<>> = s /\ <<>> \o <<>> \o s = s
<1> DEFINE none == <<>>
<1>1. none \in Seq(S) /\ s \o none = s /\ none \o s = s /\ none \o none = none
    BY ConcatEmptySeq
<1> HIDE DEF none
<1>2. s \o none \o none = s /\ none \o s \o none = s /\ none \o none \o s = s
    BY <1>1
<1> QED
    BY <1>1, <1>2 DEF none

(* m says what t says, and is empty only if t is.                             *)
Says(m, t) ==
    /\ IsSaid(m.content, t)
    /\ m.role = t.role
    /\ m.content = <<>> => ~t.text /\ t.calls = <<>> /\ t.results = <<>>

LEMMA Converses ==
    ASSUME NEW t \in Turn
    PROVE  Says(TurnToConverse(t), t)
<1> DEFINE a == TextPart(t)
           b == Mapped(UseOf, t.calls)
           c == Mapped(ResultOf, t.results)
           content == TurnToConverse(t).content
<1>1. t.calls \in Seq(Call) /\ t.results \in Seq(Answer) /\ t.text \in BOOLEAN
    BY DEF Turn
<1>2. /\ \A x \in Call : UseOf[x] = ToolUse(x) /\ UseOf[x] \in Block /\ UseOf[x].block = "toolUse"
      /\ \A x \in Answer : /\ ResultOf[x] = ToolResult(x) /\ ResultOf[x] \in Block
                           /\ ResultOf[x].block = "toolResult"
    <2>1. \A x : ToolUse(x).block = "toolUse" /\ ToolResult(x).block = "toolResult"
        BY DEF ToolUse, ToolResult
    <2> QED
        BY <2>1 DEF UseOf, ResultOf, Block
<1>3. TextBlock \in Block /\ TextBlock.block = "text"
    BY DEF TextBlock, Block
<1>4. a \in Seq(Block) /\ \A e \in Contents(a) : e.block = "text"
    <2>1. <<TextBlock>> \in Seq(Block) /\ <<>> \in Seq(Block)
        BY <1>3
    <2>2. Contents(<<TextBlock>>) = {TextBlock}
        BY DEF Contents
    <2> QED
        BY <1>3, <2>1, <2>2, ContentsEmpty DEF TextPart
<1>5. /\ b \in Seq(Block) /\ Len(b) = Len(t.calls)
      /\ \A i \in 1..Len(t.calls) : b[i] = ToolUse(t.calls[i])
      /\ \A e \in Contents(b) : e.block = "toolUse"
    <2> DEFINE s == t.calls
               f == UseOf
    <2>1. s \in Seq(Call) /\ \A e \in Call : f[e] \in Block
        BY <1>1, <1>2
    <2> HIDE DEF s, f
    <2>2. IsMapped(Mapped(f, s), f, s, Call, Block)
        BY <2>1, MappedType
    <2> QED
        BY <1>2, <2>2 DEF s, f, IsMapped
<1>6. /\ c \in Seq(Block) /\ Len(c) = Len(t.results)
      /\ \A i \in 1..Len(t.results) : c[i] = ToolResult(t.results[i])
      /\ \A e \in Contents(c) : e.block = "toolResult"
    <2> DEFINE s == t.results
               f == ResultOf
    <2>1. s \in Seq(Answer) /\ \A e \in Answer : f[e] \in Block
        BY <1>1, <1>2
    <2> HIDE DEF s, f
    <2>2. IsMapped(Mapped(f, s), f, s, Answer, Block)
        BY <2>1, MappedType
    <2> QED
        BY <1>2, <2>2 DEF s, f, IsMapped
<1>7. content = a \o b \o c /\ TurnToConverse(t).role = t.role
    <2>1. [i \in 1..Len(t.calls) |-> ToolUse(t.calls[i])] = b
        <3>1. \A i \in 1..Len(t.calls) : t.calls[i] \in Call
            BY <1>1, ElementOfSeq
        <3> QED
            BY <1>2, <3>1 DEF Mapped
    <2>2. [i \in 1..Len(t.results) |-> ToolResult(t.results[i])] = c
        <3>1. \A i \in 1..Len(t.results) : t.results[i] \in Answer
            BY <1>1, ElementOfSeq
        <3> QED
            BY <1>2, <3>1 DEF Mapped
    <2> QED
        BY <2>1, <2>2 DEF TurnToConverse, TextPart
<1> HIDE DEF a, b, c, content
<1>8. AllOf(a, "text") /\ AllOf(b, "toolUse") /\ AllOf(c, "toolResult")
    BY <1>4, <1>5, <1>6 DEF AllOf
<1>9. ASSUME NEW kind
      PROVE  ThreeKinds(content, kind, a, "text", b, "toolUse", c, "toolResult")
    <2>1. Chains(content, a, b, c)
        BY <1>7 DEF Chains
    <2> QED
        BY <1>8, <2>1, KindsApart
<1>10. OfBlock(content, "text") = a /\ OfBlock(content, "toolUse") = b
       /\ OfBlock(content, "toolResult") = c
    <2>1. /\ OfBlock(content, "text") = a \o <<>> \o <<>>
          /\ OfBlock(content, "toolUse") = <<>> \o b \o <<>>
          /\ OfBlock(content, "toolResult") = <<>> \o <<>> \o c
        BY <1>9 DEF IfOf, ThreeKinds
    <2> QED
        BY <1>4, <1>5, <1>6, <2>1, EmptyPart
<1>11. /\ content \in Seq(Block)
       /\ content = <<>> => Len(a) = 0 /\ Len(b) = 0 /\ Len(c) = 0
    <2>1. content \in Seq(Block) /\ Len(content) = Len(a) + Len(b) + Len(c)
        BY <1>9 DEF ThreeKinds
    <2>2. Len(a) \in Nat /\ Len(b) \in Nat /\ Len(c) \in Nat
        BY <1>4, <1>5, <1>6
    <2> QED
        BY <2>1, <2>2
<1>12. content = <<>> => ~t.text /\ t.calls = <<>> /\ t.results = <<>>
    <2>1. t.text => Len(a) = 1
        BY DEF a, TextPart
    <2> QED
        BY <1>1, <1>5, <1>6, <1>11, <2>1, EmptySeq
<1> QED
    BY <1>7, <1>10, <1>11, <1>12 DEF Says, IsSaid, a, b, c, content

------------------------------------------------------------------------------
(* The conversation a request is made of: the question first, then in turn    *)
(* one of the model's with calls, and one of the user's that answers them.    *)

SameIds(calls, answers) ==
    /\ Len(calls) = Len(answers)
    /\ \A k \in 1..Len(calls) : calls[k].id = answers[k].id

IsRequest(t) == t.role = "assistant" /\ t.calls # <<>> /\ t.results = <<>>

IsReply(t) == t.role = "user" /\ t.calls = <<>>

Talk(ts) ==
    /\ \A i \in 1..Len(ts) : IF i % 2 = 0 THEN IsRequest(ts[i]) ELSE IsReply(ts[i])
    /\ \A i \in 1..Len(ts) : i = 1 => ts[i].text /\ ts[i].results = <<>>
    /\ \A i \in 1 .. Len(ts) - 1 : SameIds(ts[i].calls, ts[i + 1].results)

LEMMA TalkWhenAsking ==
    ASSUME IInv, TurnsOneSided, pc = "converse"
    PROVE  Talk(turns) /\ Len(turns) = 2 * round + 1 /\ round \in Nat
<1>1. turns \in Seq(Turn) /\ turns # <<>> /\ Len(turns) = 2 * round + 1 /\ round \in Nat
    BY WhoseTurn, ReplayAssumption DEF IInv, TypeOK
<1>2. turns[1] = Question /\ \A i \in 2..Len(turns) : Fits(turns, i)
    BY <1>1, TurnsFit DEF IInv
<1>3. \A i \in 1..Len(turns) : turns[i] \in Turn /\ OneSided(turns[i])
    BY <1>1, ElementOfSeq DEF TurnsOneSided, Speech
<1>4. /\ turns[1].role = "user" /\ turns[1].text /\ turns[1].calls = <<>>
      /\ turns[1].results = <<>>
    BY <1>2 DEF Question, TurnOf
<1>5. ASSUME NEW i \in 1..Len(turns)
      PROVE  IF i % 2 = 0 THEN IsRequest(turns[i]) ELSE IsReply(turns[i])
    <2>1. CASE i = 1
        BY <1>4, <2>1 DEF IsReply
    <2>2. CASE i # 1
        <3>1. i \in 2..Len(turns)
            BY <2>2
        <3> QED
            BY <1>2, <1>3, <3>1 DEF Fits, OneSided, IsRequest, IsReply
    <2> QED
        BY <2>1, <2>2
<1>6. ASSUME NEW i \in 1 .. Len(turns) - 1
      PROVE  SameIds(turns[i].calls, turns[i + 1].results)
    <2>1. i + 1 \in 2..Len(turns) /\ i \in 1..Len(turns) /\ i + 1 \in 1..Len(turns)
        BY <1>1
    <2>2. CASE i % 2 = 0
        <3>1. (i + 1) % 2 # 0
            BY <2>2
        <3>2. /\ Len(turns[i + 1].results) = Len(turns[i + 1 - 1].calls)
              /\ Replies(turns[i + 1].results, turns[i + 1 - 1].calls)
            BY <1>2, <2>1, <3>1 DEF Fits
        <3>3. i + 1 - 1 = i
            OBVIOUS
        <3> QED
            BY <3>2, <3>3 DEF SameIds, Replies
    <2>3. CASE i % 2 # 0
        <3>1. (i + 1) % 2 = 0
            BY <2>3
        <3>2. turns[i].calls = <<>> /\ turns[i + 1].results = <<>>
            BY <1>5, <2>1, <2>3, <3>1 DEF IsRequest, IsReply
        <3> QED
            BY <3>2 DEF SameIds
    <2> QED
        BY <2>2, <2>3
<1> QED
    BY <1>1, <1>4, <1>5, <1>6 DEF Talk

(* A record's id, whatever else it holds.                                     *)
LEMMA SameIdsMapped ==
    ASSUME NEW calls \in Seq(Call), NEW answers \in Seq(Answer), SameIds(calls, answers)
    PROVE  Ids(Mapped(UseOf, calls)) = Ids(Mapped(ResultOf, answers))
<1>1. Len(calls) \in Nat /\ \A k \in 1..Len(calls) : calls[k] \in Call
    BY ElementOfSeq
<1>2. Len(answers) = Len(calls) /\ \A k \in 1..Len(calls) : answers[k] \in Answer
    BY ElementOfSeq DEF SameIds
<1>3. \A k \in 1..Len(calls) : /\ UseOf[calls[k]].id = calls[k].id
                               /\ ResultOf[answers[k]].id = answers[k].id
                               /\ calls[k].id = answers[k].id
    <2>1. \A x : ToolUse(x).id = x.id /\ ToolResult(x).id = x.id
        BY DEF ToolUse, ToolResult
    <2>2. /\ \A x \in Call : UseOf[x] = ToolUse(x)
          /\ \A x \in Answer : ResultOf[x] = ToolResult(x)
        BY DEF UseOf, ResultOf
    <2> QED
        BY <1>1, <1>2, <2>1, <2>2 DEF SameIds
<1>4. ASSUME NEW n \in Nat, NEW f, NEW g, Len(f) = n, Len(g) = n,
             \A k \in 1..n : f[k].id = g[k].id
      PROVE  Ids(f) = Ids(g)
    BY <1>4 DEF Ids
<1> DEFINE u == Mapped(UseOf, calls)
           r == Mapped(ResultOf, answers)
<1>5. /\ Len(u) = Len(calls) /\ Len(r) = Len(calls)
      /\ \A k \in 1..Len(calls) : u[k] = UseOf[calls[k]] /\ r[k] = ResultOf[answers[k]]
    BY <1>1, <1>2 DEF Mapped
<1> HIDE DEF u, r
<1>6. Ids(u) = Ids(r)
    BY <1>1, <1>3, <1>4, <1>5
<1> QED
    BY <1>6 DEF u, r

LEMMA BedrockTakes ==
    ASSUME IInv, TurnsOneSided, pc = "converse"
    PROVE  BedrockAccepts(BedrockMessages)
<1> DEFINE msgs == BedrockMessages
           n == Len(turns)
<1>1. Talk(turns) /\ n = 2 * round + 1 /\ round \in Nat
    BY TalkWhenAsking
<1>2. \A i \in 1..n : turns[i] \in Turn
    BY ElementOfSeq DEF IInv, TypeOK
<1>3. Len(msgs) = n /\ \A i \in 1..n : msgs[i] = TurnToConverse(turns[i])
    BY <1>1 DEF BedrockMessages
<1> HIDE DEF msgs, n
<1>4. \A i \in 1..n : Says(msgs[i], turns[i])
    BY <1>2, <1>3, Converses
<1>5. ASSUME NEW i \in 1..n
      PROVE  /\ msgs[i].content # <<>>
             /\ msgs[i].role = IF i % 2 = 1 THEN "user" ELSE "assistant"
    <2>1. Says(msgs[i], turns[i])
        BY <1>4
    <2>2. CASE i % 2 = 0
        <3>1. IsRequest(turns[i])
            BY <1>1, <2>2 DEF Talk, n
        <3>2. i % 2 # 1
            BY <2>2
        <3> QED
            BY <2>1, <3>1, <3>2 DEF Says, IsRequest
    <2>3. CASE i % 2 # 0
        <3>1. turns[i].role = "user" /\ i % 2 = 1
            BY <1>1, <2>3 DEF Talk, IsReply, n
        <3>2. CASE i = 1
            <4>1. turns[i].text
                BY <1>1, <3>2 DEF Talk, n
            <4> QED
                BY <2>1, <3>1, <4>1 DEF Says
        <3>3. CASE i # 1
            <4>1. i - 1 \in 1..n /\ i - 1 \in 1 .. n - 1 /\ (i - 1) % 2 = 0 /\ i - 1 + 1 = i
                BY <1>1, <2>3, <3>3
            <4>2. turns[i - 1].calls # <<>> /\ SameIds(turns[i - 1].calls, turns[i].results)
                BY <1>1, <4>1 DEF Talk, IsRequest, n
            <4>3. turns[i - 1].calls \in Seq(Call)
                BY <1>2, <4>1 DEF Turn
            <4>4. Len(turns[i].results) # 0
                BY <4>2, <4>3, EmptySeq DEF SameIds
            <4>5. turns[i].results # <<>>
                BY <4>4
            <4> QED
                BY <2>1, <3>1, <4>5 DEF Says
        <3> QED
            BY <3>2, <3>3
    <2> QED
        BY <2>2, <2>3
<1>6. ASSUME NEW i \in 1 .. n - 1
      PROVE  ToSet(Ids(OfBlock(msgs[i].content, "toolUse")))
                 = ToSet(Ids(OfBlock(msgs[i + 1].content, "toolResult")))
    <2>1. i \in 1..n /\ i + 1 \in 1..n
        BY <1>1
    <2>2. /\ OfBlock(msgs[i].content, "toolUse") = Mapped(UseOf, turns[i].calls)
          /\ OfBlock(msgs[i + 1].content, "toolResult") = Mapped(ResultOf, turns[i + 1].results)
        BY <1>4, <2>1 DEF Says, IsSaid
    <2>3. turns[i].calls \in Seq(Call) /\ turns[i + 1].results \in Seq(Answer)
        BY <1>2, <2>1 DEF Turn
    <2>4. SameIds(turns[i].calls, turns[i + 1].results)
        BY <1>1 DEF Talk, n
    <2>5. Ids(Mapped(UseOf, turns[i].calls)) = Ids(Mapped(ResultOf, turns[i + 1].results))
        <3> DEFINE c == turns[i].calls
                   a == turns[i + 1].results
        <3> HIDE DEF c, a
        <3>1. c \in Seq(Call) /\ a \in Seq(Answer) /\ SameIds(c, a)
            BY <2>3, <2>4 DEF c, a
        <3>2. Ids(Mapped(UseOf, c)) = Ids(Mapped(ResultOf, a))
            BY <3>1, SameIdsMapped
        <3> QED
            BY <3>2 DEF c, a
    <2> QED
        BY <2>2, <2>5
<1>7. OfBlock(msgs[n].content, "toolUse") = <<>>
    <2>1. n \in 1..n /\ n % 2 # 0
        BY <1>1
    <2>2. turns[n].calls = <<>>
        BY <1>1, <2>1 DEF Talk, IsReply, n
    <2>3. OfBlock(msgs[n].content, "toolUse") = Mapped(UseOf, turns[n].calls)
        BY <1>4, <2>1 DEF Says, IsSaid
    <2> QED
        BY <2>2, <2>3 DEF Mapped
<1>8. BedrockAccepts(msgs)
    BY <1>3, <1>5, <1>6, <1>7 DEF BedrockAccepts
<1> QED
    BY <1>8 DEF msgs

------------------------------------------------------------------------------
(* The messages _turn_to_openai makes.                                        *)

Plain(t) == [role |-> t.role, text |-> t.text, calls |-> t.calls]

ToolOf == [a \in Answer |-> ToolMessage(a)]

Message == {Plain(t) : t \in Turn} \cup {ToolMessage(a) : a \in Answer}

OpenAIOf(ts) == FlattenSeq([i \in 1..Len(ts) |-> TurnToOpenAI(ts[i])])

MadeFrom(t) == IF t.results # <<>> THEN Mapped(ToolOf, t.results) ELSE <<Plain(t)>>

LEMMA TurnMessages ==
    ASSUME NEW t \in Turn
    PROVE  TurnToOpenAI(t) = MadeFrom(t) /\ MadeFrom(t) \in Seq(Message)
<1>1. t.results \in Seq(Answer)
    BY DEF Turn
<1>2. \A a \in Answer : ToolOf[a] = ToolMessage(a) /\ ToolOf[a] \in Message
    BY DEF ToolOf, Message
<1>3. Mapped(ToolOf, t.results) \in Seq(Message)
    <2> DEFINE s == t.results
               f == ToolOf
    <2>1. s \in Seq(Answer) /\ \A a \in Answer : f[a] \in Message
        BY <1>1, <1>2
    <2> HIDE DEF s, f
    <2>2. IsMapped(Mapped(f, s), f, s, Answer, Message)
        BY <2>1, MappedType
    <2> QED
        BY <2>2 DEF IsMapped, s, f
<1>4. <<Plain(t)>> \in Seq(Message)
    BY DEF Message
<1>5. [i \in 1..Len(t.results) |-> ToolMessage(t.results[i])] = Mapped(ToolOf, t.results)
    <2>1. \A i \in 1..Len(t.results) : t.results[i] \in Answer
        BY <1>1, ElementOfSeq
    <2> QED
        BY <1>2, <2>1 DEF Mapped
<1> QED
    BY <1>3, <1>4, <1>5 DEF TurnToOpenAI, ResultMessages, MadeFrom, Plain

(* What f makes of every element, one behind the other.                       *)
Flattened(f, s) == FlattenSeq(Mapped(f, s))

OneMoreFlattened(f, s, e, D) ==
    /\ Flattened(f, s) \in Seq(D)
    /\ Flattened(f, Append(s, e)) = Flattened(f, s) \o f[e]

LEMMA FlattenedAppend ==
    ASSUME NEW E, NEW D, NEW f, NEW s \in Seq(E), NEW e \in E, \A x \in E : f[x] \in Seq(D)
    PROVE  OneMoreFlattened(f, s, e, D)
<1> DEFINE m == Mapped(f, s)
           last == f[e]
<1>1. IsMapped(m, f, s, E, Seq(D))
    BY MappedType
<1>2. m \in Seq(Seq(D)) /\ last \in Seq(D)
    BY <1>1 DEF IsMapped
<1>3. AppendMaps(f, s, e)
    BY MappedOneMore
<1>4. Mapped(f, Append(s, e)) = Append(m, last)
    BY <1>3 DEF AppendMaps
<1> HIDE DEF m, last
<1>5. FlattenSeq(m) \in Seq(D) /\ FlattenSeq(Append(m, last)) = FlattenSeq(m) \o last
    BY <1>2, FlattenAppend
<1> QED
    BY <1>4, <1>5 DEF OneMoreFlattened, Flattened, m, last

MadeOf == [t \in Turn |-> MadeFrom(t)]

OneMoreTurn(ts, t) ==
    /\ OpenAIOf(ts) \in Seq(Message)
    /\ OpenAIOf(Append(ts, t)) = OpenAIOf(ts) \o MadeFrom(t)

LEMMA OpenAIAppend ==
    ASSUME NEW ts \in Seq(Turn), NEW t \in Turn
    PROVE  OneMoreTurn(ts, t)
<1>1. ASSUME NEW s \in Seq(Turn)
      PROVE  OpenAIOf(s) = Flattened(MadeOf, s)
    <2>1. \A i \in 1..Len(s) : s[i] \in Turn
        BY ElementOfSeq
    <2>2. \A i \in 1..Len(s) : TurnToOpenAI(s[i]) = MadeOf[s[i]]
        BY <2>1, TurnMessages DEF MadeOf
    <2>3. [i \in 1..Len(s) |-> TurnToOpenAI(s[i])] = Mapped(MadeOf, s)
        BY <2>2 DEF Mapped
    <2> QED
        BY <2>3 DEF OpenAIOf, Flattened
<1>2. \A x \in Turn : MadeOf[x] = MadeFrom(x) /\ MadeOf[x] \in Seq(Message)
    BY TurnMessages DEF MadeOf
<1> DEFINE v == ts
<1>3. v \in Seq(Turn) /\ Append(v, t) \in Seq(Turn)
    OBVIOUS
<1> HIDE DEF v
<1>4. OneMoreFlattened(MadeOf, v, t, Message)
    BY <1>2, <1>3, FlattenedAppend
<1>5. OneMoreTurn(v, t)
    BY <1>1, <1>2, <1>3, <1>4 DEF OneMoreTurn, OneMoreFlattened
<1> QED
    BY <1>5 DEF v

LEMMA OpenAIEmpty == OpenAIOf(<<>>) = <<>>
<1>1. [i \in 1..Len(<<>>) |-> TurnToOpenAI(<<>>[i])] = <<>>
    OBVIOUS
<1> QED
    BY <1>1, FlattenEmpty DEF OpenAIOf

(* msgs, then am, then tools.                                                 *)
ExchangeBehind(all, msgs, am, tools) ==
    /\ Len(all) = Len(msgs) + 1 + Len(tools)
    /\ \A i \in 1..Len(msgs) : all[i] = msgs[i]
    /\ all[Len(msgs) + 1] = am
    /\ \A k \in 1..Len(tools) : all[Len(msgs) + 1 + k] = tools[k]

ToolsFrom(msgs, i) ==
    {j \in i + 1 .. Len(msgs) : \A k \in i + 1 .. j : msgs[k].role = "tool"}

Answered(msgs, i) ==
    /\ Cardinality(ToolsFrom(msgs, i)) = Len(msgs[i].calls)
    /\ {msgs[j].id : j \in ToolsFrom(msgs, i)} = ToSet(Ids(msgs[i].calls))

InPlace(msgs, i) ==
    /\ msgs[i].role = "tool" => i > 1 /\ msgs[i - 1].role \in {"assistant", "tool"}
    /\ msgs[i].role = "assistant" => Answered(msgs, i)

LEMMA AcceptsIs ==
    ASSUME NEW msgs
    PROVE  OpenAIAccepts(msgs) <=> \A i \in 1..Len(msgs) : InPlace(msgs, i)
BY DEF OpenAIAccepts, InPlace, Answered, ToolsFrom

HoldsBoth(all, r, s) ==
    /\ Len(all) = Len(r) + Len(s) /\ Len(s) \in Nat
    /\ \A i \in 1..Len(r) : all[i] = r[i]
    /\ \A k \in 1..Len(s) : all[Len(r) + k] = s[k]

LEMMA ConcatPlaces ==
    ASSUME NEW S, NEW r \in Seq(S), NEW s \in Seq(S)
    PROVE  HoldsBoth(r \o s, r, s)
<1> DEFINE all == r \o s
<1>1. /\ Len(all) = Len(r) + Len(s) /\ Len(s) \in Nat
      /\ \A i \in 1..Len(r) : all[i] = r[i]
      /\ \A k \in 1..Len(s) : all[Len(r) + k] = s[k]
    OBVIOUS
<1> HIDE DEF all
<1>2. HoldsBoth(all, r, s)
    BY <1>1 DEF HoldsBoth
<1> QED
    BY <1>2 DEF all

(* A message with calls may follow what is accepted, if a tool message for    *)
(* each of its calls follows it.                                              *)
LEMMA ExchangeAccepted ==
    ASSUME NEW msgs, Len(msgs) \in Nat, OpenAIAccepts(msgs),
           NEW tools, Len(tools) \in Nat \ {0}, NEW am, am.role = "assistant",
           \A k \in 1..Len(tools) : tools[k].role = "tool",
           SameIds(am.calls, tools), NEW all, ExchangeBehind(all, msgs, am, tools)
    PROVE  OpenAIAccepts(all)
<1> DEFINE n == Len(msgs)
           m == Len(tools)
<1>1. /\ n \in Nat /\ m \in Nat \ {0} /\ Len(all) = n + 1 + m
      /\ \A i \in 1..n : all[i] = msgs[i]
      /\ all[n + 1] = am
      /\ \A k \in 1..m : all[n + 1 + k] = tools[k]
    BY DEF ExchangeBehind
<1>2. \A i \in 1..n : InPlace(msgs, i)
    BY AcceptsIs
<1> HIDE DEF n, m
<1>3. \A j \in n + 2 .. n + 1 + m : all[j] = tools[j - n - 1] /\ all[j].role = "tool"
    <2>1. ASSUME NEW j \in n + 2 .. n + 1 + m
          PROVE  all[j] = tools[j - n - 1] /\ all[j].role = "tool"
        <3>1. PICK k : k = j - n - 1 /\ k \in 1..m /\ n + 1 + k = j
            BY <1>1
        <3> QED
            BY <1>1, <3>1 DEF m
    <2> QED
        BY <2>1
<1>4. ASSUME NEW i \in 1..n
      PROVE  InPlace(all, i)
    <2>1. InPlace(msgs, i) /\ all[i] = msgs[i] /\ (i > 1 => all[i - 1] = msgs[i - 1])
        <3>1. i > 1 => i - 1 \in 1..n
            BY <1>1
        <3> QED
            BY <1>1, <1>2, <3>1
    <2>2. ToolsFrom(all, i) = ToolsFrom(msgs, i)
        <3>1. ASSUME NEW j \in ToolsFrom(all, i)
              PROVE  j \in ToolsFrom(msgs, i)
            <4>1. j \in i + 1 .. n + 1 + m /\ \A k \in i + 1 .. j : all[k].role = "tool"
                BY <1>1, <3>1 DEF ToolsFrom
            <4>2. j <= n
                <5>1. j > n => n + 1 \in i + 1 .. j
                    BY <1>1, <4>1
                <5> QED
                    BY <1>1, <4>1, <5>1
            <4>3. \A k \in i + 1 .. j : k \in 1..n
                BY <1>1, <4>1, <4>2
            <4> QED
                BY <1>1, <4>1, <4>2, <4>3 DEF ToolsFrom, n
        <3>2. ASSUME NEW j \in ToolsFrom(msgs, i)
              PROVE  j \in ToolsFrom(all, i)
            <4>1. j \in i + 1 .. n /\ \A k \in i + 1 .. j : msgs[k].role = "tool"
                BY <3>2 DEF ToolsFrom, n
            <4>2. j \in i + 1 .. n + 1 + m /\ \A k \in i + 1 .. j : k \in 1..n
                BY <1>1, <4>1
            <4> QED
                BY <1>1, <4>1, <4>2 DEF ToolsFrom
        <3> QED
            BY <3>1, <3>2
    <2>3. \A j \in ToolsFrom(msgs, i) : all[j].id = msgs[j].id
        <3>1. \A j \in ToolsFrom(msgs, i) : j \in 1..n
            BY <1>1 DEF ToolsFrom, n
        <3> QED
            BY <1>1, <3>1
    <2>4. Answered(msgs, i) => Answered(all, i)
        BY <2>1, <2>2, <2>3 DEF Answered
    <2> QED
        BY <2>1, <2>4 DEF InPlace
<1>5. InPlace(all, n + 1)
    <2>1. ToolsFrom(all, n + 1) = n + 2 .. n + 1 + m
        <3>1. \A j \in n + 2 .. n + 1 + m : \A k \in n + 2 .. j : k \in n + 2 .. n + 1 + m
            BY <1>1
        <3>2. n + 1 + 1 = n + 2
            BY <1>1
        <3> QED
            BY <1>1, <1>3, <3>1, <3>2 DEF ToolsFrom
    <2>2. Cardinality(n + 2 .. n + 1 + m) = m
        <3>1. n + 2 \in Int /\ n + 1 + m \in Int /\ ~(n + 2 > n + 1 + m)
              /\ (n + 1 + m) - (n + 2) + 1 = m
            BY <1>1
        <3> QED
            BY <3>1, FS_Interval
    <2>3. Len(am.calls) = m /\ \A k \in 1..m : am.calls[k].id = tools[k].id
        BY DEF SameIds, m
    <2>4. {all[j].id : j \in n + 2 .. n + 1 + m} = {tools[k].id : k \in 1..m}
        <3>1. ASSUME NEW j \in n + 2 .. n + 1 + m
              PROVE  \E k \in 1..m : all[j].id = tools[k].id
            <4>1. j - n - 1 \in 1..m
                BY <1>1
            <4> QED
                BY <1>3, <4>1
        <3>2. ASSUME NEW k \in 1..m
              PROVE  \E j \in n + 2 .. n + 1 + m : all[j].id = tools[k].id
            <4>1. n + 1 + k \in n + 2 .. n + 1 + m
                BY <1>1
            <4> QED
                BY <1>1, <4>1
        <3> QED
            BY <3>1, <3>2
    <2>5. ToSet(Ids(am.calls)) = {tools[k].id : k \in 1..m}
        <3> DEFINE ids == Ids(am.calls)
        <3>1. ids = [k \in 1..m |-> am.calls[k].id]
            BY <2>3 DEF Ids
        <3>2. DOMAIN ids = 1..m /\ \A k \in 1..m : ids[k] = tools[k].id
            BY <2>3, <3>1
        <3> HIDE DEF ids
        <3>3. ToSet(ids) = {ids[k] : k \in DOMAIN ids}
            BY DEF ToSet
        <3> QED
            BY <3>2, <3>3 DEF ids
    <2> QED
        BY <1>1, <2>1, <2>2, <2>3, <2>4, <2>5 DEF InPlace, Answered
<1>6. ASSUME NEW i \in n + 2 .. n + 1 + m
      PROVE  InPlace(all, i)
    <2>1. all[i].role = "tool" /\ i > 1
        BY <1>1, <1>3
    <2>2. all[i - 1].role \in {"assistant", "tool"}
        <3>1. CASE i = n + 2
            <4>1. i - 1 = n + 1
                BY <1>1, <3>1
            <4> QED
                BY <1>1, <4>1
        <3>2. CASE i # n + 2
            <4>1. i - 1 \in n + 2 .. n + 1 + m
                BY <1>1, <3>2
            <4> QED
                BY <1>3, <4>1
        <3> QED
            BY <3>1, <3>2
    <2> QED
        BY <2>1, <2>2 DEF InPlace
<1>7. \A i \in 1..Len(all) : i \in 1..n \/ i = n + 1 \/ i \in n + 2 .. n + 1 + m
    BY <1>1
<1> QED
    BY <1>4, <1>5, <1>6, <1>7, AcceptsIs

LEMMA QuestionAccepted ==
    ASSUME NEW m, m.role = "user"
    PROVE  OpenAIAccepts(<<m>>)
<1> DEFINE one == <<m>>
<1>1. Len(one) = 1 /\ one[1] = m
    OBVIOUS
<1> HIDE DEF one
<1>2. \A i \in 1..Len(one) : InPlace(one, i)
    BY <1>1 DEF InPlace
<1> QED
    BY <1>2, AcceptsIs DEF one

LEMMA TalkBefore ==
    ASSUME NEW s \in Seq(Turn), NEW t \in Turn, Talk(Append(s, t))
    PROVE  /\ Talk(s)
           /\ IF (Len(s) + 1) % 2 = 0 THEN IsRequest(t) ELSE IsReply(t)
           /\ Len(s) = 0 => t.results = <<>>
           /\ Len(s) # 0 => SameIds(s[Len(s)].calls, t.results)
<1> DEFINE more == Append(s, t)
           n == Len(s)
<1>1. /\ n \in Nat /\ Len(more) = n + 1 /\ more[n + 1] = t
      /\ \A i \in 1..n : more[i] = s[i]
    OBVIOUS
<1>2. Talk(more)
    OBVIOUS
<1> HIDE DEF more, n
<1>3. \A i \in 1 .. n + 1 : IF i % 2 = 0 THEN IsRequest(more[i]) ELSE IsReply(more[i])
    BY <1>1, <1>2 DEF Talk
<1>4. \A i \in 1 .. n + 1 : i = 1 => more[i].text /\ more[i].results = <<>>
    BY <1>1, <1>2 DEF Talk
<1>5. \A i \in 1..n : SameIds(more[i].calls, more[i + 1].results)
    <2>1. \A i \in 1 .. Len(more) - 1 : SameIds(more[i].calls, more[i + 1].results)
        BY <1>2 DEF Talk
    <2>2. Len(more) - 1 = n
        BY <1>1
    <2> QED
        BY <2>1, <2>2
<1>6. Talk(s)
    <2>1. \A i \in 1..n : IF i % 2 = 0 THEN IsRequest(s[i]) ELSE IsReply(s[i])
        <3> TAKE i \in 1..n
        <3>1. i \in 1 .. n + 1 /\ more[i] = s[i]
            BY <1>1
        <3> QED
            BY <1>3, <3>1
    <2>2. \A i \in 1..n : i = 1 => s[i].text /\ s[i].results = <<>>
        <3> TAKE i \in 1..n
        <3>1. i \in 1 .. n + 1 /\ more[i] = s[i]
            BY <1>1
        <3> QED
            BY <1>4, <3>1
    <2>3. \A i \in 1 .. n - 1 : SameIds(s[i].calls, s[i + 1].results)
        <3> TAKE i \in 1 .. n - 1
        <3>1. i \in 1..n /\ i + 1 \in 1..n
            BY <1>1
        <3>2. more[i] = s[i] /\ more[i + 1] = s[i + 1]
            BY <1>1, <3>1
        <3> QED
            BY <1>5, <3>1, <3>2
    <2> QED
        BY <2>1, <2>2, <2>3 DEF Talk, n
<1>7. n + 1 \in 1 .. n + 1 /\ (n # 0 => n \in 1..n) /\ (n = 0 => n + 1 = 1)
    BY <1>1
<1>8. IF (n + 1) % 2 = 0 THEN IsRequest(t) ELSE IsReply(t)
    BY <1>1, <1>3, <1>7
<1>9. n = 0 => t.results = <<>>
    BY <1>1, <1>4, <1>7
<1>10. n # 0 => SameIds(s[n].calls, t.results)
    BY <1>1, <1>5, <1>7
<1> QED
    BY <1>6, <1>8, <1>9, <1>10 DEF n

(* What the messages of a conversation are: accepted, or what is accepted and *)
(* a request behind it that still waits for its results.                      *)
Taken(s) ==
    /\ Len(s) % 2 = 1 => OpenAIAccepts(OpenAIOf(s))
    /\ Len(s) # 0 /\ Len(s) % 2 = 0 =>
          \E ms \in Seq(Message) :
              OpenAIAccepts(ms) /\ OpenAIOf(s) = Append(ms, Plain(s[Len(s)]))

LEMMA TakenNext ==
    ASSUME NEW s \in Seq(Turn), NEW t \in Turn, Talk(Append(s, t)), Taken(s)
    PROVE  Taken(Append(s, t))
<1> DEFINE more == Append(s, t)
           n == Len(s)
           o == OpenAIOf(s)
<1>1. n \in Nat /\ Len(more) = n + 1 /\ more[n + 1] = t
    OBVIOUS
<1>2. /\ Talk(s) /\ IF (n + 1) % 2 = 0 THEN IsRequest(t) ELSE IsReply(t)
      /\ n = 0 => t.results = <<>>
      /\ n # 0 => SameIds(s[n].calls, t.results)
    BY TalkBefore
<1>3. o \in Seq(Message) /\ OpenAIOf(more) = o \o MadeFrom(t)
    BY OpenAIAppend DEF OneMoreTurn
<1>4. Taken(s)
    OBVIOUS
<1>5. Plain(t) \in Message
    BY DEF Message
<1> HIDE DEF more, n, o
<1>6. CASE n = 0
    <2>1. s = <<>>
        BY <1>6, EmptySeq DEF n
    <2>2. o = <<>> /\ MadeFrom(t) = <<Plain(t)>>
        BY <1>2, <1>6, <2>1, OpenAIEmpty DEF o, MadeFrom
    <2>3. OpenAIOf(more) = <<Plain(t)>>
        BY <1>3, <1>5, <2>2, ConcatEmptySeq
    <2>4. Plain(t).role = "user"
        BY <1>2, <1>6 DEF IsReply, Plain
    <2>5. OpenAIAccepts(OpenAIOf(more))
        BY <2>3, <2>4, QuestionAccepted
    <2>6. Len(more) % 2 # 0
        BY <1>1, <1>6
    <2> QED
        BY <2>5, <2>6 DEF Taken, more
<1>7. CASE n % 2 = 1
    <2>1. (n + 1) % 2 = 0 /\ Len(more) % 2 # 1
        BY <1>1, <1>7
    <2>2. MadeFrom(t) = <<Plain(t)>>
        BY <1>2, <2>1 DEF IsRequest, MadeFrom
    <2>3. OpenAIOf(more) = Append(o, Plain(t))
        BY <1>3, <1>5, <2>2, AppendIsConcat
    <2>4. OpenAIAccepts(o)
        BY <1>4, <1>7 DEF Taken, n, o
    <2>5. more[Len(more)] = t
        BY <1>1
    <2> QED
        BY <1>3, <2>1, <2>3, <2>4, <2>5 DEF Taken, more
<1>8. CASE n # 0 /\ n % 2 = 0
    <2> DEFINE last == s[n]
               am == Plain(last)
               tools == Mapped(ToolOf, t.results)
    <2>1. n \in 1..n /\ (n + 1) % 2 # 0 /\ Len(more) % 2 # 0
        BY <1>1, <1>8
    <2>2. last \in Turn /\ IsRequest(last) /\ IsReply(t) /\ SameIds(last.calls, t.results)
        BY <1>1, <1>2, <1>8, <2>1, ElementOfSeq DEF Talk, n
    <2>3. last.calls \in Seq(Call) /\ t.results \in Seq(Answer)
        BY <2>2 DEF Turn
    <2>4. Len(last.calls) \in Nat \ {0} /\ t.results # <<>>
        <3>1. Len(last.calls) # 0
            BY <2>2, <2>3, EmptySeq DEF IsRequest
        <3> QED
            BY <2>2, <2>3, <3>1 DEF SameIds
    <2>5. MadeFrom(t) = tools /\ tools \in Seq(Message)
        BY <2>4, TurnMessages DEF MadeFrom
    <2>6. /\ Len(tools) = Len(t.results)
          /\ \A k \in 1..Len(t.results) : /\ tools[k].role = "tool"
                                          /\ tools[k].id = t.results[k].id
        <3>1. \A k \in 1..Len(t.results) : t.results[k] \in Answer
            BY <2>3, ElementOfSeq
        <3>2. \A a \in Answer : ToolOf[a] = ToolMessage(a)
            BY DEF ToolOf
        <3>3. \A a : ToolMessage(a).role = "tool" /\ ToolMessage(a).id = a.id
            BY DEF ToolMessage
        <3>4. Len(tools) = Len(t.results)
              /\ \A k \in 1..Len(t.results) : tools[k] = ToolOf[t.results[k]]
            BY <2>3 DEF Mapped
        <3> HIDE DEF tools
        <3> QED
            BY <3>1, <3>2, <3>3, <3>4
    <2>7. PICK ms \in Seq(Message) : OpenAIAccepts(ms) /\ o = Append(ms, am)
        BY <1>4, <1>8 DEF Taken, n, o
    <2>8. am.role = "assistant" /\ am.calls = last.calls /\ am \in Message
        BY <2>2 DEF IsRequest, Plain, Message
    <2> HIDE DEF last, am, tools
    <2>9. ExchangeBehind(OpenAIOf(more), ms, am, tools)
        <3> DEFINE mm == Append(ms, am)
        <3>1. mm \in Seq(Message) /\ Len(mm) = Len(ms) + 1 /\ mm[Len(ms) + 1] = am
              /\ Len(ms) \in Nat /\ \A i \in 1..Len(ms) : mm[i] = ms[i]
            BY <2>8
        <3>2. OpenAIOf(more) = mm \o tools
            BY <1>3, <2>5, <2>7
        <3> HIDE DEF mm
        <3> DEFINE all == mm \o tools
        <3>3. HoldsBoth(all, mm, tools)
            <4>1. mm \in Seq(Message) /\ tools \in Seq(Message)
                BY <2>5, <3>1
            <4> QED
                BY <4>1, ConcatPlaces
        <3> HIDE DEF all
        <3>4. ExchangeBehind(all, ms, am, tools)
            BY <3>1, <3>3 DEF ExchangeBehind, HoldsBoth
        <3> QED
            BY <3>2, <3>4 DEF all
    <2>10. Len(ms) \in Nat /\ Len(tools) \in Nat \ {0}
           /\ \A k \in 1..Len(tools) : tools[k].role = "tool"
        BY <2>2, <2>4, <2>6 DEF SameIds
    <2>11. SameIds(am.calls, tools)
        BY <2>2, <2>6, <2>8 DEF SameIds
    <2>12. OpenAIAccepts(OpenAIOf(more))
        BY <2>7, <2>8, <2>9, <2>10, <2>11, ExchangeAccepted
    <2> QED
        BY <2>1, <2>12 DEF Taken, more
<1> QED
    BY <1>1, <1>6, <1>7, <1>8

LEMMA OpenAITakes ==
    ASSUME NEW ts \in Seq(Turn), Talk(ts), Len(ts) % 2 = 1
    PROVE  OpenAIAccepts(OpenAIOf(ts))
<1> DEFINE T == {s \in Seq(Turn) : Talk(s) => Taken(s)}
<1>1. <<>> \in T
    <2> DEFINE none == <<>>
    <2>1. none \in Seq(Turn) /\ Len(none) = 0
        OBVIOUS
    <2> HIDE DEF none
    <2>2. none \in T
        BY <2>1 DEF Taken
    <2> QED
        BY <2>2 DEF none
<1>2. ASSUME NEW s \in Seq(Turn), NEW t \in Turn, s \in T
      PROVE  Append(s, t) \in T
    <2>1. Append(s, t) \in Seq(Turn)
        OBVIOUS
    <2>2. Talk(Append(s, t)) => Taken(Append(s, t))
        BY <1>2, TalkBefore, TakenNext
    <2> QED
        BY <2>1, <2>2
<1>3. Seq(Turn) \subseteq T
    <2> HIDE DEF T
    <2> QED
        BY <1>1, <1>2, ForAllSequences
<1>4. Taken(ts)
    BY <1>3
<1> QED
    BY <1>4 DEF Taken

(* Whatever the model asks for, in however many rounds and with however many  *)
(* calls at a time, each adapter makes a request its provider accepts of the  *)
(* turns the engine hands it (bedrock.py:40-66, openai_compat.py:36-67):      *)
(* every use of a tool is answered, by its id, in the place the provider      *)
(* wants it.                                                                  *)
THEOREM BothAccept == Spec => []ProvidersAccept
<1>1. IInv /\ TurnsOneSided => ProvidersAccept
    <2> SUFFICES ASSUME IInv, TurnsOneSided, pc = "converse"
                 PROVE  BedrockAccepts(BedrockMessages) /\ OpenAIAccepts(OpenAIMessages)
        BY DEF ProvidersAccept
    <2>1. Talk(turns) /\ Len(turns) = 2 * round + 1 /\ round \in Nat
        BY TalkWhenAsking
    <2>2. turns \in Seq(Turn) /\ Len(turns) % 2 = 1
        BY <2>1 DEF IInv, TypeOK
    <2>3. OpenAIAccepts(OpenAIOf(turns))
        BY <2>1, <2>2, OpenAITakes
    <2> QED
        BY <2>3, BedrockTakes DEF OpenAIMessages, OpenAIOf
<1> QED
    BY <1>1, Invariant, SpeechInvariant, PTL

------------------------------------------------------------------------------
(* The model reads the same conversation through either adapter.              *)

ConcatMaps(f, r, s) == Mapped(f, r \o s) = Mapped(f, r) \o Mapped(f, s)

LEMMA MappedConcat ==
    ASSUME NEW E, NEW D, NEW f, NEW r \in Seq(E), NEW s \in Seq(E), \A e \in E : f[e] \in D
    PROVE  ConcatMaps(f, r, s)
<1> DEFINE T == {x \in Seq(E) : ConcatMaps(f, r, x)}
<1>1. <<>> \in T
    <2> DEFINE none == <<>>
               mr == Mapped(f, r)
    <2>1. none \in Seq(E) /\ r \o none = r /\ Mapped(f, none) = none
        BY ConcatEmptySeq DEF Mapped
    <2>2. mr \in Seq(D)
        BY MappedType DEF IsMapped
    <2> HIDE DEF mr
    <2>3. mr \o none = mr
        BY <2>2, ConcatEmptySeq
    <2> HIDE DEF none
    <2>4. none \in T
        BY <2>1, <2>3 DEF ConcatMaps, mr
    <2> QED
        BY <2>4 DEF none
<1>2. ASSUME NEW x \in Seq(E), NEW e \in E, x \in T
      PROVE  Append(x, e) \in T
    <2> DEFINE rx == r \o x
    <2>1. rx \in Seq(E) /\ Append(x, e) \in Seq(E)
        BY ConcatProperties
    <2>2. r \o Append(x, e) = Append(rx, e)
        OBVIOUS
    <2>3. Mapped(f, rx) = Mapped(f, r) \o Mapped(f, x)
        BY <1>2 DEF ConcatMaps
    <2> HIDE DEF rx
    <2>4. AppendMaps(f, rx, e) /\ AppendMaps(f, x, e)
        BY <2>1, MappedOneMore
    <2> DEFINE a == Mapped(f, r)
               b == Mapped(f, x)
               y == f[e]
    <2>5. a \in Seq(D) /\ b \in Seq(D) /\ y \in D
        BY MappedType DEF IsMapped
    <2>6. Mapped(f, Append(rx, e)) = Append(Mapped(f, rx), y) /\ Mapped(f, Append(x, e)) = Append(b, y)
        BY <2>4 DEF AppendMaps
    <2> HIDE DEF a, b, y
    <2>7. Append(a \o b, y) = a \o Append(b, y)
        <3> DEFINE one == <<y>>
        <3>1. one \in Seq(D) /\ a \o b \in Seq(D)
            BY <2>5
        <3>2. Append(a \o b, y) = (a \o b) \o one /\ Append(b, y) = b \o one
            BY <2>5, <3>1, AppendIsConcat
        <3> HIDE DEF one
        <3>3. (a \o b) \o one = a \o (b \o one)
            BY <2>5, <3>1, ConcatAssociative
        <3> QED
            BY <3>2, <3>3
    <2> QED
        BY <2>1, <2>2, <2>3, <2>6, <2>7 DEF ConcatMaps, a, b
<1>3. Seq(E) \subseteq T
    <2> HIDE DEF T
    <2> QED
        BY <1>1, <1>2, ForAllSequences
<1> QED
    BY <1>3

PlainOf == [t \in Speech |-> Plain(t)]
ConverseOf == [t \in Turn |-> TurnToConverse(t)]

OwnKind == {t \in Speech : t.role = "assistant"}
Own(ts) == Filtered(ts, OwnKind)

ByAssistant == {m \in Message : m.role = "assistant"}
ByTool == {m \in Message : m.role = "tool"}

(* What the messages for OpenAI say, and what they tell.                      *)
Carries(ts) ==
    /\ OpenAIOf(ts) \in Seq(Message)
    /\ Filtered(OpenAIOf(ts), ByAssistant) = Mapped(PlainOf, Own(ts))
    /\ Filtered(OpenAIOf(ts), ByTool) = Mapped(ToolOf, ToldIn(ts))

LEMMA MadeCarries ==
    ASSUME NEW t \in Speech
    PROVE  /\ Filtered(MadeFrom(t), ByAssistant) =
                  IF t.role = "assistant" THEN <<Plain(t)>> ELSE <<>>
           /\ Filtered(MadeFrom(t), ByTool) = Mapped(ToolOf, t.results)
<1> DEFINE made == MadeFrom(t)
<1>1. t \in Turn /\ OneSided(t) /\ t.results \in Seq(Answer)
    BY DEF Speech, Turn
<1>2. made \in Seq(Message)
    BY <1>1, TurnMessages
<1>3. CASE t.results # <<>>
    <2>1. made = Mapped(ToolOf, t.results) /\ t.role # "assistant"
        BY <1>1, <1>3 DEF MadeFrom, OneSided
    <2>2. \A m \in Contents(made) : m \in ByTool /\ m \notin ByAssistant
        <3> DEFINE s == t.results
                   f == ToolOf
        <3>1. \A a \in Answer : /\ f[a] = ToolMessage(a) /\ f[a] \in Message
                                /\ ToolMessage(a).role = "tool"
            BY DEF ToolOf, ToolMessage, Message
        <3>2. s \in Seq(Answer) /\ made = Mapped(f, s)
            BY <1>1, <2>1
        <3> HIDE DEF s, f, made
        <3>3. IsMapped(made, f, s, Answer, Message)
            BY <3>1, <3>2, MappedType
        <3>4. \A m \in Contents(made) : \E a \in Answer : m = f[a]
            BY <3>3 DEF IsMapped
        <3> QED
            BY <3>1, <3>4 DEF ByTool, ByAssistant
    <2>3. Filtered(made, ByTool) = made /\ Filtered(made, ByAssistant) = <<>>
        <3>1. Contents(made) \subseteq ByTool /\ Contents(made) \cap ByAssistant = {}
            BY <2>2
        <3> HIDE DEF made
        <3> QED
            BY <1>2, <3>1, FilteredAll, FilteredNone
    <2> QED
        BY <2>1, <2>3
<1>4. CASE t.results = <<>>
    <2> DEFINE m == Plain(t)
    <2>1. made = <<m>> /\ m \in Message /\ m.role = t.role
        BY <1>1, <1>4 DEF MadeFrom, Message, Plain
    <2>2. t.role \in {"user", "assistant"}
        BY <1>1 DEF Turn
    <2>3. m \notin ByTool /\ (m \in ByAssistant <=> t.role = "assistant")
        BY <2>1, <2>2 DEF ByTool, ByAssistant
    <2> HIDE DEF m
    <2>4. <<m>> \in Seq(Message) /\ Contents(<<m>>) = {m}
        BY <2>1 DEF Contents
    <2>5. Filtered(<<m>>, ByTool) = <<>>
        BY <2>3, <2>4, FilteredNone
    <2>6. Filtered(<<m>>, ByAssistant) = IF t.role = "assistant" THEN <<m>> ELSE <<>>
        BY <2>3, <2>4, FilteredAll, FilteredNone
    <2>7. Mapped(ToolOf, t.results) = <<>>
        BY <1>4 DEF Mapped
    <2> QED
        BY <2>1, <2>5, <2>6, <2>7 DEF m
<1> QED
    BY <1>3, <1>4

LEMMA CarriesNext ==
    ASSUME NEW s \in Seq(Speech), NEW t \in Speech, Carries(s)
    PROVE  Carries(Append(s, t))
<1> DEFINE more == Append(s, t)
           o == OpenAIOf(s)
           made == MadeFrom(t)
           own == Own(s)
           told == ToldIn(s)
<1>1. s \in Seq(Turn) /\ t \in Turn /\ t.results \in Seq(Answer)
    <2>1. Speech \subseteq Turn /\ \A x \in Turn : x.results \in Seq(Answer)
        BY DEF Speech, Turn
    <2> QED
        BY <2>1, SeqMonotonic
<1>2. o \in Seq(Message) /\ made \in Seq(Message) /\ OpenAIOf(more) = o \o made
    BY <1>1, OpenAIAppend, TurnMessages DEF OneMoreTurn
<1>3. /\ Filtered(o, ByAssistant) = Mapped(PlainOf, own)
      /\ Filtered(o, ByTool) = Mapped(ToolOf, told)
    BY DEF Carries
<1>4. /\ Filtered(made, ByAssistant) = IF t.role = "assistant" THEN <<Plain(t)>> ELSE <<>>
      /\ Filtered(made, ByTool) = Mapped(ToolOf, t.results)
    BY MadeCarries
<1>5. own \in Seq(Speech) /\ Own(more) = own \o Part(t, OwnKind)
    BY FilteredType, FilteredAppend DEF Own
<1>6. told \in Seq(Answer) /\ ToldIn(more) = told \o t.results
    BY <1>1, TurnsAppend
<1> HIDE DEF more, o, made, own, told
<1>7. /\ OpenAIOf(more) \in Seq(Message)
      /\ Filtered(OpenAIOf(more), ByAssistant) = Filtered(o, ByAssistant) \o Filtered(made, ByAssistant)
      /\ Filtered(OpenAIOf(more), ByTool) = Filtered(o, ByTool) \o Filtered(made, ByTool)
    BY <1>2, FilteredConcat, ConcatProperties
<1>8. Mapped(ToolOf, ToldIn(more)) = Mapped(ToolOf, told) \o Mapped(ToolOf, t.results)
    <2> DEFINE r == t.results
               f == ToolOf
    <2>1. r \in Seq(Answer) /\ \A a \in Answer : f[a] \in Message
        BY <1>1 DEF ToolOf, Message
    <2> HIDE DEF r, f
    <2>2. ConcatMaps(f, told, r)
        BY <1>6, <2>1, MappedConcat
    <2> QED
        BY <1>6, <2>2 DEF ConcatMaps, r, f
<1>9. Mapped(PlainOf, Own(more)) =
          Mapped(PlainOf, own) \o IF t.role = "assistant" THEN <<Plain(t)>> ELSE <<>>
    <2> DEFINE mine == Mapped(PlainOf, own)
    <2>1. \A x \in Speech : PlainOf[x] = Plain(x) /\ PlainOf[x] \in Message
        BY DEF PlainOf, Message, Speech
    <2>2. mine \in Seq(Message)
        <3> DEFINE f == PlainOf
        <3>1. \A x \in Speech : f[x] \in Message
            BY <2>1
        <3> HIDE DEF f
        <3> QED
            BY <1>5, <3>1, MappedType DEF IsMapped, f
    <2> HIDE DEF mine
    <2>3. CASE t.role = "assistant"
        <3>1. Part(t, OwnKind) = <<t>> /\ own \o <<t>> = Append(own, t)
            BY <1>5, <2>3, AppendIsConcat DEF Part, OwnKind
        <3>2. AppendMaps(PlainOf, own, t)
            BY <1>5, MappedOneMore
        <3>3. Mapped(PlainOf, Append(own, t)) = Append(mine, Plain(t))
            BY <2>1, <3>2 DEF AppendMaps, mine
        <3>4. Append(mine, Plain(t)) = mine \o <<Plain(t)>>
            <4>1. Plain(t) \in Message
                BY <2>1
            <4> QED
                BY <2>2, <4>1, AppendIsConcat
        <3> QED
            BY <1>5, <2>3, <3>1, <3>3, <3>4 DEF mine
    <2>4. CASE t.role # "assistant"
        <3>1. Part(t, OwnKind) = <<>> /\ own \o <<>> = own /\ mine \o <<>> = mine
            BY <1>5, <2>2, <2>4, ConcatEmptySeq DEF Part, OwnKind
        <3> QED
            BY <1>5, <2>4, <3>1 DEF mine
    <2> QED
        BY <2>3, <2>4
<1>10. Carries(more)
    BY <1>3, <1>4, <1>7, <1>8, <1>9 DEF Carries
<1> QED
    BY <1>10 DEF more

LEMMA AllCarried ==
    ASSUME NEW ts \in Seq(Speech)
    PROVE  Carries(ts)
<1> DEFINE T == {s \in Seq(Speech) : Carries(s)}
<1>1. <<>> \in T
    <2> DEFINE none == <<>>
    <2>1. none \in Seq(Speech) /\ none \in Seq(Message) /\ OpenAIOf(none) = none
        BY OpenAIEmpty
    <2>2. Own(none) = none /\ Filtered(none, ByAssistant) = none /\ Filtered(none, ByTool) = none
        BY FilteredEmpty DEF Own
    <2>3. ToldIn(none) = none
        BY FlattenEmpty DEF ToldIn
    <2>4. Mapped(PlainOf, none) = none /\ Mapped(ToolOf, none) = none
        BY DEF Mapped
    <2> HIDE DEF none
    <2>5. none \in T
        BY <2>1, <2>2, <2>3, <2>4 DEF Carries
    <2> QED
        BY <2>5 DEF none
<1>2. \A s \in Seq(Speech) : \A t \in Speech : s \in T => Append(s, t) \in T
    BY CarriesNext
<1>3. Seq(Speech) \subseteq T
    <2> HIDE DEF T
    <2> QED
        BY <1>1, <1>2, ForAllSequences
<1> QED
    BY <1>3

(* What the blocks for Bedrock tell.                                          *)
TellsOf == [t \in Turn |-> Mapped(ResultOf, t.results)]

Tells(ts) == Flattened(TellsOf, ts) = Mapped(ResultOf, ToldIn(ts))

LEMMA AllTold ==
    ASSUME NEW ts \in Seq(Turn)
    PROVE  Tells(ts)
<1> DEFINE T == {s \in Seq(Turn) : Tells(s)}
<1>0. \A a \in Answer : ResultOf[a] \in Block
    BY DEF ResultOf, Block
<1>1. <<>> \in T
    <2> DEFINE none == <<>>
    <2>1. none \in Seq(Turn) /\ ToldIn(none) = none
        BY FlattenEmpty DEF ToldIn
    <2>2. Mapped(TellsOf, none) = none /\ Mapped(ResultOf, none) = none /\ FlattenSeq(none) = none
        BY FlattenEmpty DEF Mapped
    <2> HIDE DEF none
    <2>3. none \in T
        BY <2>1, <2>2 DEF Tells, Flattened
    <2> QED
        BY <2>3 DEF none
<1>2. ASSUME NEW s \in Seq(Turn), NEW t \in Turn, s \in T
      PROVE  Append(s, t) \in T
    <2>1. \A x \in Turn : TellsOf[x] = Mapped(ResultOf, x.results) /\ TellsOf[x] \in Seq(Block)
        <3>1. ASSUME NEW x \in Turn
              PROVE  TellsOf[x] = Mapped(ResultOf, x.results) /\ TellsOf[x] \in Seq(Block)
            <4> DEFINE r == x.results
                       f == ResultOf
            <4>1. TellsOf[x] = Mapped(f, r) /\ r \in Seq(Answer) /\ \A a \in Answer : f[a] \in Block
                BY <1>0 DEF TellsOf, Turn
            <4> HIDE DEF r, f
            <4>2. IsMapped(Mapped(f, r), f, r, Answer, Block)
                BY <4>1, MappedType
            <4> QED
                BY <4>1, <4>2 DEF IsMapped, r, f
        <3> QED
            BY <3>1
    <2> DEFINE v == s
               told == ToldIn(s)
               r == t.results
               f == ResultOf
    <2>2. v \in Seq(Turn) /\ Append(s, t) \in Seq(Turn) /\ Tells(v)
        BY <1>2
    <2>3. told \in Seq(Answer) /\ ToldIn(Append(s, t)) = told \o r
        BY TurnsAppend
    <2>4. r \in Seq(Answer) /\ \A a \in Answer : f[a] \in Block
        BY <1>0 DEF Turn
    <2> HIDE DEF v, told, r, f
    <2>5. OneMoreFlattened(TellsOf, v, t, Block)
        BY <2>1, <2>2, FlattenedAppend
    <2>6. Flattened(TellsOf, Append(v, t)) = Flattened(TellsOf, v) \o Mapped(f, r)
        BY <2>1, <2>5 DEF OneMoreFlattened, r, f
    <2>7. ConcatMaps(f, told, r)
        BY <2>3, <2>4, MappedConcat
    <2>8. Tells(Append(s, t))
        BY <2>2, <2>3, <2>6, <2>7 DEF Tells, ConcatMaps, v, told, f
    <2> QED
        BY <2>2, <2>8
<1>3. Seq(Turn) \subseteq T
    <2> HIDE DEF T
    <2> QED
        BY <1>1, <1>2, ForAllSequences
<1> QED
    BY <1>3

LEMMA OfRoleIs ==
    ASSUME NEW E, NEW msgs \in Seq(E), NEW role
    PROVE  OfRole(msgs, role) = Filtered(msgs, {m \in E : m.role = role})
<1> DEFINE S == {m \in Contents(msgs) : m.role = role}
           U == {m \in E : m.role = role}
<1>1. \A m \in Contents(msgs) : m \in E
    BY DEF Contents
<1>2. \A m \in Contents(msgs) : m \in S <=> m \in U
    BY <1>1
<1>3. OfRole(msgs, role) = Filtered(msgs, S)
    BY DEF OfRole
<1> HIDE DEF S, U
<1>4. Filtered(msgs, S) = Filtered(msgs, U)
    BY <1>2, FilteredSame
<1> QED
    BY <1>3, <1>4 DEF U

Heard(t) == [text |-> t.text, calls |-> t.calls]

(* _parse_converse reads what _turn_to_converse wrote.                        *)
LEMMA ReadsBack ==
    ASSUME NEW t \in Turn, NEW m, Says(m, t)
    PROVE  ParseConverse(m.content) = Heard(t)
<1> DEFINE uses == OfBlock(m.content, "toolUse")
           texts == OfBlock(m.content, "text")
           s == t.calls
           f == UseOf
<1>1. uses = Mapped(f, s) /\ texts = TextPart(t) /\ s \in Seq(Call) /\ t.text \in BOOLEAN
    BY DEF Says, IsSaid, Turn
<1>2. \A c \in Call : f[c] = ToolUse(c) /\ f[c] \in Block
    BY DEF UseOf, Block
<1>3. ParseConverse(m.content) =
          [text |-> texts # <<>>,
           calls |-> [i \in 1..Len(uses) |-> [id |-> uses[i].id, call |-> uses[i].call]]]
    BY DEF ParseConverse
<1>4. (texts # <<>>) = t.text
    <2>1. <<TextBlock>> # <<>>
        OBVIOUS
    <2> HIDE DEF texts
    <2> QED
        BY <1>1, <2>1 DEF TextPart
<1> HIDE DEF uses, texts, s, f
<1>5. IsMapped(uses, f, s, Call, Block)
    BY <1>1, <1>2, MappedType
<1>6. Len(uses) = Len(s) /\ \A i \in 1..Len(s) : uses[i] = ToolUse(s[i]) /\ s[i] \in Call
    BY <1>2, <1>5 DEF IsMapped
<1>7. \A i \in 1..Len(s) : [id |-> uses[i].id, call |-> uses[i].call] = s[i]
    <2>1. \A c \in Call : [id |-> ToolUse(c).id, call |-> ToolUse(c).call] = c
        BY DEF ToolUse, Call
    <2> QED
        BY <1>6, <2>1
<1>8. [i \in 1..Len(uses) |-> [id |-> uses[i].id, call |-> uses[i].call]] = s
    <2>1. s = [i \in 1..Len(s) |-> s[i]]
        BY <1>1
    <2>2. [i \in 1..Len(uses) |-> [id |-> uses[i].id, call |-> uses[i].call]]
              = [i \in 1..Len(s) |-> s[i]]
        BY <1>6, <1>7
    <2> QED
        BY <2>1, <2>2
<1> QED
    BY <1>3, <1>4, <1>8 DEF Heard, s

(* The two readings of the model's turn i, and of result k.                   *)
LEMMA SaidSame ==
    ASSUME NEW ts \in Seq(Speech), NEW msgs, msgs = Mapped(ConverseOf, ts)
    PROVE  LET said == OfRole(msgs, "assistant")
               saidOpenAI == OfRole(OpenAIOf(ts), "assistant")
               own == OfRole(ts, "assistant")
           IN  /\ Len(said) = Len(own) /\ Len(saidOpenAI) = Len(own)
               /\ \A i \in 1..Len(own) :
                     /\ ParseConverse(said[i].content) = Heard(own[i])
                     /\ ParseOpenAI(saidOpenAI[i]) = Heard(own[i])
<1> DEFINE said == OfRole(msgs, "assistant")
           saidOpenAI == OfRole(OpenAIOf(ts), "assistant")
           own == OfRole(ts, "assistant")
           D == {TurnToConverse(t) : t \in Turn}
           f == ConverseOf
           g == PlainOf
<1>1. /\ \A t \in Speech : /\ t \in Turn /\ f[t] = TurnToConverse(t) /\ f[t] \in D
                           /\ g[t] = Plain(t) /\ g[t] \in Message
    BY DEF Speech, ConverseOf, PlainOf, Message
<1>2. own = Own(ts) /\ own \in Seq(Speech)
    BY OfRoleIs, FilteredType DEF Own, OwnKind
<1>3. saidOpenAI = Mapped(g, own)
    <2>1. Carries(ts)
        BY AllCarried
    <2>2. OpenAIOf(ts) \in Seq(Message)
        BY <2>1 DEF Carries
    <2>3. saidOpenAI = Filtered(OpenAIOf(ts), ByAssistant)
        BY <2>2, OfRoleIs DEF ByAssistant
    <2> QED
        BY <1>2, <2>1, <2>3 DEF Carries
<1> HIDE DEF f, g, D, own, said, saidOpenAI
<1>4. said = Mapped(f, own)
    <2> DEFINE S == {m \in D : m.role = "assistant"}
    <2>1. IsMapped(Mapped(f, ts), f, ts, Speech, D)
        BY <1>1, MappedType
    <2>2. msgs \in Seq(D) /\ msgs = Mapped(f, ts)
        BY <2>1 DEF IsMapped, f
    <2>3. said = Filtered(msgs, S)
        BY <2>2, OfRoleIs DEF said
    <2>4. \A t \in Speech : f[t] \in S <=> t \in OwnKind
        <3>1. \A t : TurnToConverse(t).role = t.role
            BY DEF TurnToConverse
        <3> QED
            BY <1>1, <3>1 DEF OwnKind
    <2> HIDE DEF S
    <2>5. Filtered(Mapped(f, ts), S) = Mapped(f, Filtered(ts, OwnKind))
        BY <2>4, FilteredMapped
    <2> QED
        BY <1>2, <2>2, <2>3, <2>5 DEF Own
<1>5. IsMapped(said, f, own, Speech, D) /\ IsMapped(saidOpenAI, g, own, Speech, Message)
    BY <1>1, <1>2, <1>3, <1>4, MappedType
<1>6. ASSUME NEW i \in 1..Len(own)
      PROVE  /\ ParseConverse(said[i].content) = Heard(own[i])
             /\ ParseOpenAI(saidOpenAI[i]) = Heard(own[i])
    <2>1. own[i] \in Speech /\ said[i] = f[own[i]] /\ saidOpenAI[i] = g[own[i]]
        BY <1>5 DEF IsMapped
    <2>2. own[i] \in Turn /\ said[i] = TurnToConverse(own[i]) /\ saidOpenAI[i] = Plain(own[i])
        BY <1>1, <2>1
    <2>3. Says(said[i], own[i])
        BY <2>2, Converses
    <2>4. ParseConverse(said[i].content) = Heard(own[i])
        BY <2>2, <2>3, ReadsBack
    <2> QED
        BY <2>2, <2>4 DEF ParseOpenAI, Plain, Heard
<1> QED
    BY <1>5, <1>6 DEF IsMapped, said, saidOpenAI, own

LEMMA ToldSame ==
    ASSUME NEW ts \in Seq(Speech)
    PROVE  LET told == Flattened(TellsOf, ts)
               toldOpenAI == OfRole(OpenAIOf(ts), "tool")
           IN  [i \in 1..Len(told) |-> <<told[i].id, told[i].value>>]
                   = [i \in 1..Len(toldOpenAI) |-> <<toldOpenAI[i].id, toldOpenAI[i].value>>]
<1> DEFINE told == Flattened(TellsOf, ts)
           toldOpenAI == OfRole(OpenAIOf(ts), "tool")
           r == ToldIn(ts)
           f == ResultOf
           g == ToolOf
<1>1. ts \in Seq(Turn)
    <2>1. Speech \subseteq Turn
        BY DEF Speech
    <2> QED
        BY <2>1, SeqMonotonic
<1>2. r \in Seq(Answer)
    <2>1. Question \in Turn
        BY DEF Question, TurnOf, Turn
    <2> QED
        BY <1>1, <2>1, TurnsAppend
<1>3. \A a \in Answer : /\ f[a] \in Block /\ f[a].id = a.id /\ f[a].value = a.value
                        /\ g[a] \in Message /\ g[a].id = a.id /\ g[a].value = a.value
    <2>1. \A a : /\ ToolResult(a).id = a.id /\ ToolResult(a).value = a.value
                 /\ ToolMessage(a).id = a.id /\ ToolMessage(a).value = a.value
        BY DEF ToolResult, ToolMessage
    <2>2. \A a \in Answer : f[a] = ToolResult(a) /\ f[a] \in Block
                            /\ g[a] = ToolMessage(a) /\ g[a] \in Message
        BY DEF ResultOf, ToolOf, Block, Message
    <2> HIDE DEF f, g
    <2> QED
        BY <2>1, <2>2
<1>4. told = Mapped(f, r)
    BY <1>1, AllTold DEF Tells
<1>5. toldOpenAI = Mapped(g, r)
    <2>1. Carries(ts)
        BY AllCarried
    <2>2. OpenAIOf(ts) \in Seq(Message)
        BY <2>1 DEF Carries
    <2>3. toldOpenAI = Filtered(OpenAIOf(ts), ByTool)
        BY <2>2, OfRoleIs DEF ByTool
    <2> QED
        BY <2>1, <2>3 DEF Carries
<1> HIDE DEF told, toldOpenAI, r, f, g
<1>6. IsMapped(told, f, r, Answer, Block) /\ IsMapped(toldOpenAI, g, r, Answer, Message)
    BY <1>2, <1>3, <1>4, <1>5, MappedType
<1>7. /\ Len(told) = Len(toldOpenAI)
      /\ \A i \in 1..Len(told) : /\ told[i].id = toldOpenAI[i].id
                                 /\ told[i].value = toldOpenAI[i].value
    BY <1>3, <1>6 DEF IsMapped
<1>8. [i \in 1..Len(told) |-> <<told[i].id, told[i].value>>]
          = [i \in 1..Len(toldOpenAI) |-> <<toldOpenAI[i].id, toldOpenAI[i].value>>]
    BY <1>7
<1> QED
    BY <1>8 DEF told, toldOpenAI

(* Swapping one adapter for the other (openai_compat.py:1-9) changes nothing  *)
(* of what the model reads: what it said itself, as either adapter would      *)
(* parse it (bedrock.py:86-111, openai_compat.py:81-104), and which result    *)
(* answers which of its calls, in which order.                                *)
THEOREM SaysTheSame == Spec => []SameConversation
<1>1. IInv /\ TurnsOneSided => SameConversation
    <2> SUFFICES ASSUME IInv, TurnsOneSided
                 PROVE  SameConversation
        OBVIOUS
    <2> DEFINE msgs == BedrockMessages
               blocks == [i \in 1..Len(turns) |-> OfBlock(msgs[i].content, "toolResult")]
    <2>1. turns \in Seq(Speech) /\ \A i \in 1..Len(turns) : turns[i] \in Turn
        BY ElementOfSeq DEF TurnsOneSided, Speech
    <2>2. \A i \in 1..Len(turns) : msgs[i] = TurnToConverse(turns[i])
        BY DEF BedrockMessages
    <2>3. msgs = Mapped(ConverseOf, turns)
        BY <2>1 DEF BedrockMessages, Mapped, ConverseOf
    <2>4. blocks = Mapped(TellsOf, turns)
        <3>1. ASSUME NEW i \in 1..Len(turns)
              PROVE  OfBlock(msgs[i].content, "toolResult") = TellsOf[turns[i]]
            <4>1. Says(msgs[i], turns[i])
                BY <2>1, <2>2, Converses
            <4> QED
                BY <2>1, <4>1 DEF Says, IsSaid, TellsOf
        <3> HIDE DEF msgs
        <3> QED
            BY <3>1 DEF Mapped
    <2>5. FlattenSeq(blocks) = Flattened(TellsOf, turns) /\ OpenAIMessages = OpenAIOf(turns)
        BY <2>4 DEF Flattened, OpenAIMessages, OpenAIOf
    <2> HIDE DEF msgs
    <2> DEFINE said == OfRole(msgs, "assistant")
               saidOpenAI == OfRole(OpenAIOf(turns), "assistant")
               own == OfRole(turns, "assistant")
               told == Flattened(TellsOf, turns)
               toldOpenAI == OfRole(OpenAIOf(turns), "tool")
    <2>6. /\ Len(said) = Len(own) /\ Len(saidOpenAI) = Len(own)
          /\ \A i \in 1..Len(own) :
                /\ ParseConverse(said[i].content) = Heard(own[i])
                /\ ParseOpenAI(saidOpenAI[i]) = Heard(own[i])
        BY <2>1, <2>3, SaidSame
    <2>7. [i \in 1..Len(told) |-> <<told[i].id, told[i].value>>]
              = [i \in 1..Len(toldOpenAI) |-> <<toldOpenAI[i].id, toldOpenAI[i].value>>]
        BY <2>1, ToldSame
    <2> HIDE DEF said, saidOpenAI, own, told, toldOpenAI
    <2>8. \A i \in 1..Len(own) :
              /\ ParseConverse(said[i].content) = [text |-> own[i].text, calls |-> own[i].calls]
              /\ ParseOpenAI(saidOpenAI[i]) = ParseConverse(said[i].content)
        BY <2>6 DEF Heard
    <2> QED
        BY <2>5, <2>6, <2>7, <2>8 DEF SameConversation, msgs, said, saidOpenAI, own, told, toldOpenAI
<1> QED
    BY <1>1, Invariant, SpeechInvariant, PTL
==============================================================================
