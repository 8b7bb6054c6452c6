--------------------------- MODULE LiveReplayProofs ---------------------------
(* What is proved of the whole loop, for agents, replayed models, redactions  *)
(* and outages of any size: that what the explorer reads is what the agent    *)
(* did, at any moment it may read it, that what a replay then tells the model *)
(* and gives up for want of is true to that, and so is the verdict on the two *)
(* runs. First of the session and its readers: which rows there can be, and   *)
(* that every way to read them finds what the agent did.                      *)
EXTENDS LiveReplay, SubsequenceLemmas

------------------------------------------------------------------------------
(* Spans, as the session makes them and as it writes them.                    *)

Event ==
    {LlmSpan(n, finish, ts) : n \in Nat, finish \in Finish, ts \in Nat}
    \cup {ToolSpan(n, call, result, ts) :
            n \in Nat, call \in Calls, result \in Values \cup {NoResult}, ts \in Nat}
    \cup {StepSpan(n, ts) : n \in Nat, ts \in Nat}

Row == {Redacted(s) : s \in Event} \cup {RootSpan}

LEMMA EventFields ==
    ASSUME NEW s \in Event
    PROVE  /\ s.n \in Nat /\ s.ts \in Nat
           /\ s.kind \in {"llm_call", "tool_call", "reasoning"}
           /\ s.finish \in {<<>>, <<"continuing">>, <<"ending">>}
           /\ s.kind = "tool_call" => s.call \in Calls /\ s.result \in Values \cup {NoResult}
           /\ s = SpanOf(s.n, s.kind, s.call, s.result, s.finish, s.ts)
BY DEF Event, LlmSpan, ToolSpan, StepSpan, SpanOf, Finish, FinishReasons, None

LEMMA RedactedFields ==
    ASSUME NEW s \in Event
    PROVE  /\ Redacted(s).n = s.n /\ Redacted(s).ts = s.ts
           /\ Redacted(s).kind = s.kind /\ Redacted(s).finish = s.finish
           /\ s.kind = "tool_call" =>
                 /\ Redacted(s).call = Redact[s.call]
                 /\ Redacted(s).result = IF s.result = NoResult THEN NoResult
                                                                ELSE Redact[s.result]
<1>1. s = SpanOf(s.n, s.kind, s.call, s.result, s.finish, s.ts)
    BY EventFields
<1>2. s.kind = "tool_call" => s.call # None
    BY EventFields, SessionAssumption
<1> QED
    BY <1>1, <1>2 DEF Redacted, SpanOf

LEMMA RootFields ==
    /\ RootSpan.n = 0 /\ RootSpan.ts = 0 /\ RootSpan.kind = "session"
    /\ RootSpan \in Row
BY DEF RootSpan, SpanOf, Row

LEMMA RowFields ==
    ASSUME NEW r \in Row
    PROVE  /\ r.n \in Nat /\ r.ts \in Nat
           /\ r.kind \in {"session", "llm_call", "tool_call", "reasoning"}
           /\ r.kind = "llm_call" => r.finish \in {<<>>, <<"continuing">>, <<"ending">>}
           /\ r.kind = "tool_call" =>
                 /\ r.call \in {Redact[c] : c \in Calls}
                 /\ r.result \in {Redact[v] : v \in Values} \cup {NoResult}
<1>1. CASE r = RootSpan
    BY <1>1, RootFields
<1>2. CASE r # RootSpan
    <2>1. PICK s \in Event : r = Redacted(s)
        BY <1>2 DEF Row
    <2> QED
        BY <2>1, EventFields, RedactedFields
<1> QED
    BY <1>1, <1>2

------------------------------------------------------------------------------
(* Every row, committed or not, is the n-th thing the agent did, redacted,    *)
(* and rows come in the order in which these happened, though some may be     *)
(* missing; the root span comes last and only when the session is over. As    *)
(* long as the clock was not set back, the n-th thing has the time n.         *)

DidOK ==
    /\ did \in Seq(Event)
    /\ \A i \in 1..Len(did) : did[i].n = i
    /\ setBack \in BOOLEAN
    /\ ~setBack => clock = Len(did) /\ \A i \in 1..Len(did) : did[i].ts = i

IsRowOf(r, done) == r.n \in 1..Len(done) /\ r = Redacted(done[r.n])

LogOf(log, done, over) ==
    /\ log \in Seq(Row)
    /\ \A i \in 1..Len(log) :
          IsRowOf(log[i], done) \/ (log[i] = RootSpan /\ i = Len(log) /\ over)
    /\ \A i, j \in 1..Len(log) : i < j /\ log[j] # RootSpan => log[i].n < log[j].n

SessionInv ==
    /\ session \in {"open", "raising", "closed"}
    /\ DidOK
    /\ rows \in Seq(Row) /\ txn \in Seq(Row)
    /\ LogOf(rows \o txn, did, session = "closed")

LEMMA SessionInvInit == SessionInit => SessionInv
<1> SUFFICES ASSUME SessionInit PROVE SessionInv
    OBVIOUS
<1> DEFINE none == <<>>
<1>1. none \in Seq(Row) /\ none \in Seq(Event) /\ Len(none) = 0 /\ none \o none = none
    OBVIOUS
<1>2. rows = none /\ txn = none /\ did = none /\ session = "open" /\ clock = 0 /\ setBack = FALSE
    BY DEF SessionInit, StoreInit
<1> HIDE DEF none
<1>3. LogOf(none, none, FALSE)
    BY <1>1 DEF LogOf
<1>4. DidOK
    <2>1. did \in Seq(Event) /\ Len(did) = 0
        BY <1>1, <1>2
    <2>2. \A i \in 1..Len(did) : FALSE
        BY <2>1
    <2> QED
        BY <1>2, <2>1, <2>2 DEF DidOK
<1>5. LogOf(rows \o txn, did, session = "closed")
    BY <1>1, <1>2, <1>3
<1> QED
    BY <1>1, <1>2, <1>4, <1>5 DEF SessionInv

(* A part of the log from its beginning.                                      *)
LEMMA LogPrefix ==
    ASSUME NEW u \in Seq(Row), NEW t \in Seq(Row), NEW done, NEW over,
           LogOf(u \o t, done, over)
    PROVE  LogOf(u, done, over)
<1>1. /\ Len(u) \in Nat /\ Len(t) \in Nat /\ Len(u \o t) = Len(u) + Len(t)
      /\ \A i \in 1..Len(u) : (u \o t)[i] = u[i] /\ i \in 1..Len(u \o t)
    OBVIOUS
<1>2. \A i \in 1..Len(u) : i = Len(u \o t) => i = Len(u)
    BY <1>1
<1> DEFINE w == u \o t
<1> HIDE DEF w
<1>3. /\ \A i \in 1..Len(w) :
             IsRowOf(w[i], done) \/ (w[i] = RootSpan /\ i = Len(w) /\ over)
      /\ \A i, j \in 1..Len(w) : i < j /\ w[j] # RootSpan => w[i].n < w[j].n
    BY DEF LogOf, w
<1>4. \A i \in 1..Len(u) : w[i] = u[i] /\ i \in 1..Len(w) /\ (i = Len(w) => i = Len(u))
    BY <1>1, <1>2 DEF w
<1> QED
    BY <1>3, <1>4 DEF LogOf

LEMMA RowsLogged ==
    ASSUME SessionInv
    PROVE  LogOf(rows, did, session = "closed")
BY LogPrefix DEF SessionInv

(* Once the session is over nothing need be written.                          *)
LEMMA LogOver ==
    ASSUME NEW log, NEW done, NEW over, LogOf(log, done, over)
    PROVE  LogOf(log, done, TRUE)
BY DEF LogOf

(* One more thing done, written or not.                                       *)
LEMMA LogStands ==
    ASSUME NEW done \in Seq(Event), NEW s \in Event, NEW log, LogOf(log, done, FALSE)
    PROVE  /\ LogOf(log, Append(done, s), FALSE)
           /\ \A i \in 1..Len(log) : log[i].n \in 1..Len(done)
<1> DEFINE more == Append(done, s)
<1>1. Len(more) = Len(done) + 1 /\ Len(done) \in Nat /\ \A i \in 1..Len(done) : more[i] = done[i]
    OBVIOUS
<1> HIDE DEF more
<1>2. \A i \in 1..Len(log) : IsRowOf(log[i], done)
    BY DEF LogOf
<1>3. \A i \in 1..Len(log) : IsRowOf(log[i], more) /\ log[i].n \in 1..Len(done)
    BY <1>1, <1>2 DEF IsRowOf
<1>4. LogOf(log, more, FALSE)
    BY <1>3 DEF LogOf
<1> QED
    BY <1>3, <1>4 DEF more

LEMMA LogGrows ==
    ASSUME NEW done \in Seq(Event), NEW s \in Event, s.n = Len(done) + 1,
           NEW log, LogOf(log, done, FALSE)
    PROVE  LogOf(Append(log, Redacted(s)), Append(done, s), FALSE)
<1> DEFINE more == Append(done, s)
           r == Redacted(s)
           longer == Append(log, r)
<1>1. Len(more) = Len(done) + 1 /\ Len(done) \in Nat /\ more[Len(done) + 1] = s
    OBVIOUS
<1>2. r \in Row /\ r.n = Len(done) + 1
    BY RedactedFields DEF Row
<1>3. IsRowOf(r, more)
    BY <1>1, <1>2 DEF IsRowOf
<1>4. LogOf(log, more, FALSE) /\ \A i \in 1..Len(log) : log[i].n \in 1..Len(done)
    BY LogStands
<1>5. log \in Seq(Row) /\ Len(log) \in Nat
    BY DEF LogOf
<1> HIDE DEF more, r
<1>6. /\ longer \in Seq(Row) /\ Len(longer) = Len(log) + 1 /\ longer[Len(log) + 1] = r
      /\ \A i \in 1..Len(log) : longer[i] = log[i]
    BY <1>2, <1>5
<1> HIDE DEF longer
<1>7. \A i \in 1..Len(longer) : i \in 1..Len(log) \/ i = Len(log) + 1
    BY <1>5, <1>6
<1>8. \A i \in 1..Len(longer) : IsRowOf(longer[i], more)
    BY <1>3, <1>4, <1>6, <1>7 DEF LogOf
<1>9. ASSUME NEW i \in 1..Len(longer), NEW j \in 1..Len(longer), i < j, longer[j] # RootSpan
      PROVE  longer[i].n < longer[j].n
    <2>1. i \in 1..Len(log)
        BY <1>5, <1>6, <1>9
    <2>2. CASE j \in 1..Len(log)
        BY <1>4, <1>6, <1>9, <2>1, <2>2 DEF LogOf
    <2>3. CASE j = Len(log) + 1
        BY <1>1, <1>2, <1>4, <1>6, <2>1, <2>3
    <2> QED
        BY <1>7, <2>2, <2>3
<1>10. LogOf(longer, more, FALSE)
    BY <1>6, <1>8, <1>9 DEF LogOf
<1> QED
    BY <1>10 DEF longer, more, r

LEMMA LogEnds ==
    ASSUME NEW done, NEW log, LogOf(log, done, FALSE)
    PROVE  LogOf(Append(log, RootSpan), done, TRUE)
<1> DEFINE longer == Append(log, RootSpan)
<1>1. log \in Seq(Row) /\ Len(log) \in Nat
    BY DEF LogOf
<1>2. /\ longer \in Seq(Row) /\ Len(longer) = Len(log) + 1 /\ longer[Len(log) + 1] = RootSpan
      /\ \A i \in 1..Len(log) : longer[i] = log[i]
    BY <1>1, RootFields
<1> HIDE DEF longer
<1>3. \A i \in 1..Len(longer) : i \in 1..Len(log) \/ i = Len(longer)
    BY <1>1, <1>2
<1>4. LogOf(longer, done, TRUE)
    BY <1>1, <1>2, <1>3 DEF LogOf
<1> QED
    BY <1>4 DEF longer

LEMMA DidNext ==
    ASSUME DidOK, NEW s \in Event, s.n = Len(did) + 1, NEW ts, s.ts = ts,
           Reports(ts), did' = Append(did, s)
    PROVE  DidOK'
<1>1. /\ did' \in Seq(Event) /\ Len(did') = Len(did) + 1 /\ Len(did) \in Nat
      /\ did'[Len(did) + 1] = s /\ \A i \in 1..Len(did) : did'[i] = did[i]
    BY DEF DidOK
<1>2. \A i \in 1..Len(did') : i \in 1..Len(did) \/ i = Len(did) + 1
    BY <1>1
<1>3. setBack \in BOOLEAN /\ setBack' \in BOOLEAN /\ clock' = ts
    BY DEF DidOK, Reports
<1>4. \A i \in 1..Len(did') : did'[i].n = i
    BY <1>1, <1>2 DEF DidOK
<1>5. ASSUME ~setBack'
      PROVE  clock' = Len(did') /\ \A i \in 1..Len(did') : did'[i].ts = i
    <2>1. ts = clock + 1 /\ ~setBack
        BY <1>3, <1>5 DEF Reports
    <2>2. clock = Len(did) /\ \A i \in 1..Len(did) : did[i].ts = i
        BY <2>1 DEF DidOK
    <2> QED
        BY <1>1, <1>2, <1>3, <2>1, <2>2
<1> QED
    BY <1>1, <1>3, <1>4, <1>5 DEF DidOK

(* What write does to the log.                                                *)
LEMMA LogOfWrite ==
    ASSUME rows \in Seq(Row), txn \in Seq(Row), NEW s \in Row, WriteOk(s) \/ WriteRaises(s)
    PROVE  /\ rows' \in Seq(Row) /\ txn' \in Seq(Row)
           /\ rows' \o txn' \in {rows \o txn, Append(rows \o txn, s)}
<1>1. rows \o Append(txn, s) = Append(rows \o txn, s) /\ Append(txn, s) \in Seq(Row)
    OBVIOUS
<1>2. CASE WriteOk(s)
    <2> DEFINE longer == rows \o Append(txn, s)
    <2>1. longer \in Seq(Row) /\ longer \o <<>> = longer /\ <<>> \in Seq(Row)
        BY <1>1, ConcatEmptySeq
    <2>2. rows' = longer /\ txn' = <<>>
        BY <1>2 DEF WriteOk
    <2> HIDE DEF longer
    <2>3. rows' \o txn' = longer
        BY <2>1, <2>2
    <2> QED
        BY <1>1, <2>1, <2>2, <2>3 DEF longer
<1>3. CASE InsertRaises(s)
    BY <1>3 DEF InsertRaises
<1>4. CASE CommitRaises(s)
    BY <1>1, <1>4 DEF CommitRaises
<1> QED
    BY <1>2, <1>3, <1>4 DEF WriteRaises

LEMMA RecordsNext ==
    ASSUME SessionInv, NEW s \in Event, s.n = NextId, NEW ts, s.ts = ts,
           Reports(ts), Records(s)
    PROVE  SessionInv'
<1>1. session = "open" /\ session' \in {"open", "raising"} /\ did' = Append(did, s)
    BY DEF Reports, Records
<1>2. DidOK'
    BY <1>1, DidNext DEF SessionInv, NextId
<1>3. Redacted(s) \in Row
    BY DEF Row
<1>4. /\ rows' \in Seq(Row) /\ txn' \in Seq(Row)
      /\ rows' \o txn' \in {rows \o txn, Append(rows \o txn, Redacted(s))}
    BY <1>3, LogOfWrite DEF SessionInv, Records
<1>5. did \in Seq(Event) /\ LogOf(rows \o txn, did, FALSE)
    BY <1>1 DEF SessionInv, DidOK
<1>6. /\ LogOf(rows \o txn, did', FALSE)
      /\ LogOf(Append(rows \o txn, Redacted(s)), did', FALSE)
    BY <1>1, <1>5, LogStands, LogGrows DEF NextId
<1>7. LogOf(rows' \o txn', did', FALSE)
    BY <1>4, <1>6
<1>8. (session' = "closed") = FALSE
    BY <1>1
<1> QED
    BY <1>1, <1>2, <1>4, <1>7, <1>8 DEF SessionInv

LEMMA SessionInvNext ==
    ASSUME SessionInv, SessionNext \/ UNCHANGED sessionVars
    PROVE  SessionInv'
<1>1. ASSUME NEW ts \in Nat, NEW finish \in Finish
      PROVE  /\ LlmSpan(NextId, finish, ts) \in Event
             /\ LlmSpan(NextId, finish, ts).n = NextId /\ LlmSpan(NextId, finish, ts).ts = ts
    BY DEF SessionInv, DidOK, Event, NextId, LlmSpan, SpanOf
<1>2. ASSUME NEW ts \in Nat, NEW call \in Calls, NEW result \in Values \cup {NoResult}
      PROVE  /\ ToolSpan(NextId, call, result, ts) \in Event
             /\ ToolSpan(NextId, call, result, ts).n = NextId
             /\ ToolSpan(NextId, call, result, ts).ts = ts
    BY DEF SessionInv, DidOK, Event, NextId, ToolSpan, SpanOf
<1>3. ASSUME NEW ts \in Nat
      PROVE  /\ StepSpan(NextId, ts) \in Event
             /\ StepSpan(NextId, ts).n = NextId /\ StepSpan(NextId, ts).ts = ts
    BY DEF SessionInv, DidOK, Event, NextId, StepSpan, SpanOf
<1>4. 0..MaxEvents \subseteq Nat
    BY SessionAssumption
<1>5. CASE LlmCall
    <2>1. PICK ts \in 0..MaxEvents, finish \in Finish :
              Reports(ts) /\ Records(LlmSpan(NextId, finish, ts))
        BY <1>5 DEF LlmCall
    <2> QED
        BY <1>1, <1>4, <2>1, RecordsNext
<1>6. CASE ToolCall
    <2>1. PICK ts \in 0..MaxEvents, call \in Calls, result \in Values \cup {NoResult} :
              Reports(ts) /\ Records(ToolSpan(NextId, call, result, ts))
        BY <1>6 DEF ToolCall
    <2> QED
        BY <1>2, <1>4, <2>1, RecordsNext
<1>7. CASE ReasoningStep
    <2>1. PICK ts \in 0..MaxEvents : Reports(ts) /\ Records(StepSpan(NextId, ts))
        BY <1>7 DEF ReasoningStep
    <2> QED
        BY <1>3, <1>4, <2>1, RecordsNext
<1>8. CASE SessionEnds
    <2>1. session # "closed" /\ session' = "closed" /\ UNCHANGED <<clock, setBack, did>>
        BY <1>8 DEF SessionEnds
    <2>2. /\ rows' \in Seq(Row) /\ txn' \in Seq(Row)
          /\ rows' \o txn' \in {rows \o txn, Append(rows \o txn, RootSpan)}
        BY <1>8, LogOfWrite, RootFields DEF SessionEnds, SessionInv
    <2>3. LogOf(rows \o txn, did, FALSE)
        BY <2>1 DEF SessionInv
    <2>4. LogOf(rows' \o txn', did', TRUE)
        BY <2>1, <2>2, <2>3, LogOver, LogEnds
    <2>5. (session' = "closed") = TRUE
        BY <2>1
    <2>6. DidOK'
        BY <2>1 DEF SessionInv, DidOK
    <2> QED
        BY <2>1, <2>2, <2>4, <2>5, <2>6 DEF SessionInv
<1>9. CASE StoreCloses
    <2> DEFINE none == <<>>
    <2>1. session' = "closed" /\ UNCHANGED <<rows, clock, setBack, did>> /\ txn' = none
        BY <1>9 DEF StoreCloses, CloseStore
    <2>2. rows \o none = rows /\ none \in Seq(Row) /\ rows \in Seq(Row)
        BY ConcatEmptySeq DEF SessionInv
    <2> HIDE DEF none
    <2>3. LogOf(rows', did', TRUE)
        BY <2>1, RowsLogged, LogOver
    <2>4. rows' \o txn' = rows' /\ (session' = "closed") = TRUE
        BY <2>1, <2>2
    <2>5. DidOK'
        BY <2>1 DEF SessionInv, DidOK
    <2> QED
        BY <2>1, <2>2, <2>3, <2>4, <2>5 DEF SessionInv
<1>10. CASE UNCHANGED sessionVars
    BY <1>10 DEF sessionVars, storeVars, SessionInv, DidOK
<1> QED
    BY <1>5, <1>6, <1>7, <1>8, <1>9, <1>10 DEF SessionNext

------------------------------------------------------------------------------
(* What a reader finds.                                                       *)

RowNumber == [r \in Row |-> r.n]

Kinds == {"llm_call", "tool_call"}

LEMMA OfKindType ==
    ASSUME NEW E, NEW seq \in Seq(E), NEW kind
    PROVE  /\ OfKind(seq, kind) \in Seq(E)
           /\ Contents(OfKind(seq, kind)) = {s \in Contents(seq) : s.kind = kind}
<1> DEFINE S == {s \in Contents(seq) : s.kind = kind}
<1>1. OfKind(seq, kind) = Filtered(seq, S)
    BY DEF OfKind
<1> HIDE DEF S
<1>2. Filtered(seq, S) \in Seq(E) /\ Contents(Filtered(seq, S)) = Contents(seq) \cap S
    BY FilteredType
<1>3. Contents(seq) \cap S = S
    BY DEF S
<1> QED
    BY <1>1, <1>2, <1>3 DEF S

LEMMA OfKindOrder ==
    ASSUME NEW E, NEW seq \in Seq(E), NEW kind
    PROVE  /\ InOrderOf(OfKind(seq, kind), seq)
           /\ \A k \in 1..Len(OfKind(seq, kind)) : OfKind(seq, kind)[k].kind = kind
<1>1. InOrderOf(OfKind(seq, kind), seq)
    BY FilteredOrder DEF OfKind
<1> DEFINE f == OfKind(seq, kind)
<1>2. Contents(f) = {s \in Contents(seq) : s.kind = kind}
    BY OfKindType
<1> HIDE DEF f
<1>3. \A k \in 1..Len(f) : f[k].kind = kind
    BY <1>2, ContentsMembers
<1> QED
    BY <1>1, <1>3 DEF f

LEMMA LogElements ==
    ASSUME NEW log, NEW done \in Seq(Event), NEW over, LogOf(log, done, over),
           NEW i \in 1..Len(log)
    PROVE  /\ log[i] \in Row
           /\ log[i].kind \in Kinds =>
                 log[i] # RootSpan /\ IsRowOf(log[i], done)
           /\ log[i] # RootSpan <=> log[i].kind # "session"
<1>1. log[i] \in Row
    BY ElementOfSeq DEF LogOf
<1>2. log[i] = RootSpan \/ IsRowOf(log[i], done)
    BY DEF LogOf
<1>3. ASSUME IsRowOf(log[i], done)
      PROVE  log[i].kind # "session"
    <2>1. PICK s \in Event : log[i] = Redacted(s)
        BY <1>3, ElementOfSeq DEF IsRowOf
    <2> QED
        BY <2>1, EventFields, RedactedFields
<1> QED
    BY <1>1, <1>2, <1>3, RootFields DEF Kinds

LEMMA LogNoRepeats ==
    ASSUME NEW log, NEW done \in Seq(Event), NEW over, LogOf(log, done, over)
    PROVE  NoRepeats(log)
<1>1. log \in Seq(Row) /\ Len(log) \in Nat
    BY DEF LogOf
<1>2. ASSUME NEW i \in 1..Len(log), NEW j \in 1..Len(log), i < j
      PROVE  log[i] # log[j]
    <2>1. CASE log[j] = RootSpan
        <3>1. i # Len(log)
            BY <1>1, <1>2
        <3>2. log[i].n \in 1..Len(done)
            BY <3>1 DEF LogOf, IsRowOf
        <3> QED
            BY <2>1, <3>2, RootFields
    <2>2. CASE log[j] # RootSpan
        <3>1. log[i].n < log[j].n /\ log[i].n \in Nat /\ log[j].n \in Nat
            BY <1>2, <2>2, LogElements, RowFields DEF LogOf
        <3> QED
            BY <3>1
    <2> QED
        BY <2>1, <2>2
<1>3. \A i, j \in 1..Len(log) : i # j => i < j \/ j < i
    BY <1>1
<1> QED
    BY <1>2, <1>3 DEF NoRepeats

(* Model calls, and tool calls, are found in the order of their numbers: in   *)
(* the rows, and in the rows sorted by time unless the clock was set back.    *)
LEMMA LogOfKindRises ==
    ASSUME NEW log, NEW done \in Seq(Event), NEW over, LogOf(log, done, over),
           NEW kind \in Kinds
    PROVE  RisingBy(OfKind(log, kind), RowNumber)
<1> DEFINE f == OfKind(log, kind)
<1>1. log \in Seq(Row)
    BY DEF LogOf
<1>2. f \in Seq(Row)
    BY <1>1, OfKindType
<1>3. InOrderOf(f, log) /\ \A k \in 1..Len(f) : f[k].kind = kind
    BY <1>1, OfKindOrder
<1> HIDE DEF f
<1>4. ASSUME NEW k \in 1..Len(f), NEW l \in 1..Len(f), k < l
      PROVE  RowNumber[f[k]] < RowNumber[f[l]]
    <2>1. PICK i \in 1..Len(log), j \in 1..Len(log) :
              i < j /\ f[k] = log[i] /\ f[l] = log[j]
        BY <1>3, <1>4 DEF InOrderOf
    <2>2. log[j].kind = kind /\ log[j] # RootSpan
        BY <1>3, <2>1, LogElements
    <2>3. log[i].n < log[j].n
        BY <2>1, <2>2 DEF LogOf
    <2>4. f[k] \in Row /\ f[l] \in Row
        BY <2>1, LogElements
    <2> QED
        BY <2>1, <2>3, <2>4 DEF RowNumber
<1>5. RisingBy(f, RowNumber)
    BY <1>4 DEF RisingBy
<1> QED
    BY <1>5 DEF f

LEMMA SortedType ==
    ASSUME NEW log \in Seq(Row)
    PROVE  /\ SpansForTrace(log) \in Seq(Row)
           /\ Contents(SpansForTrace(log)) = Contents(log)
           /\ [i \in 1..Len(log) |-> log[i].ts] \in [1..Len(log) -> Nat]
<1>1. \A i \in 1..Len(log) : log[i].ts \in Nat
    BY ElementOfSeq, RowFields
<1>2. [i \in 1..Len(log) |-> log[i].ts] \in [1..Len(log) -> Nat]
    BY <1>1
<1> QED
    BY <1>2, OrderedType DEF SpansForTrace

LEMMA SortedOfKindRises ==
    ASSUME NEW log, NEW done \in Seq(Event), NEW over, LogOf(log, done, over),
           \A i \in 1..Len(done) : done[i].n = i /\ done[i].ts = i,
           NEW kind \in Kinds
    PROVE  RisingBy(OfKind(SpansForTrace(log), kind), RowNumber)
<1> DEFINE key == [i \in 1..Len(log) |-> log[i].ts]
           o == SpansForTrace(log)
           f == OfKind(o, kind)
<1>1. log \in Seq(Row)
    BY DEF LogOf
<1>2. o \in Seq(Row) /\ key \in [1..Len(log) -> Nat] /\ o = OrderedBy(log, key)
    BY <1>1, SortedType DEF SpansForTrace
<1>3. /\ Len(o) = Len(log)
      /\ SortedFrom(o, log, key)
    <2> HIDE DEF key, o
    <2> QED
        BY <1>1, <1>2, OrderedType, OrderedOrder
<1>4. \A i \in 1..Len(log) : key[i] = log[i].ts
    OBVIOUS
<1> HIDE DEF key, o
<1>5. InOrderOf(f, o) /\ \A k \in 1..Len(f) : f[k].kind = kind
    BY <1>2, OfKindOrder
<1> HIDE DEF f
<1>6. ASSUME NEW i \in 1..Len(log), log[i].kind = kind
      PROVE  log[i] \in Row /\ log[i] # RootSpan /\ log[i].ts = log[i].n /\ log[i].n \in Nat
    <2>1. log[i] \in Row /\ log[i] # RootSpan /\ IsRowOf(log[i], done)
        BY <1>6, LogElements
    <2>2. log[i].n \in 1..Len(done) /\ log[i] = Redacted(done[log[i].n])
        BY <2>1 DEF IsRowOf
    <2>3. done[log[i].n] \in Event /\ done[log[i].n].ts = log[i].n
        BY <2>2, ElementOfSeq
    <2>4. log[i].ts = log[i].n
        BY <2>2, <2>3, RedactedFields
    <2> QED
        BY <2>1, <2>4, RowFields
<1>7. ASSUME NEW k \in 1..Len(f), NEW l \in 1..Len(f), k < l
      PROVE  RowNumber[f[k]] < RowNumber[f[l]]
    <2>1. PICK x \in 1..Len(o), y \in 1..Len(o) :
              x < y /\ f[k] = o[x] /\ f[l] = o[y]
        BY <1>5, <1>7 DEF InOrderOf
    <2>2. PICK i \in 1..Len(log), j \in 1..Len(log) :
              Before(key, i, j) /\ o[x] = log[i] /\ o[y] = log[j]
        BY <1>3, <2>1 DEF SortedFrom
    <2>3. /\ log[i] \in Row /\ log[i].ts = log[i].n /\ log[i].n \in Nat
          /\ log[j] \in Row /\ log[j].ts = log[j].n /\ log[j].n \in Nat /\ log[j] # RootSpan
        BY <1>5, <1>6, <2>1, <2>2
    <2>4. log[i].n < log[j].n
        <3>1. CASE i < j
            BY <2>3, <3>1 DEF LogOf
        <3>2. CASE ~(i < j)
            BY <1>4, <2>2, <2>3, <3>2 DEF Before
        <3> QED
            BY <3>1, <3>2
    <2>5. f[k] = log[i] /\ f[l] = log[j]
        BY <2>1, <2>2
    <2> QED
        BY <2>3, <2>4, <2>5 DEF RowNumber
<1>8. RisingBy(f, RowNumber)
    BY <1>7 DEF RisingBy
<1> QED
    BY <1>8 DEF f, o

(* Sorted or not, a reader finds the same ones, and as many.                  *)
LEMMA SortedFinds ==
    ASSUME NEW log, NEW done \in Seq(Event), NEW over, LogOf(log, done, over), NEW kind
    PROVE  /\ OfKind(log, kind) \in Seq(Row)
           /\ OfKind(SpansForTrace(log), kind) \in Seq(Row)
           /\ Contents(OfKind(log, kind)) = {r \in Contents(log) : r.kind = kind}
           /\ Contents(OfKind(SpansForTrace(log), kind)) = Contents(OfKind(log, kind))
           /\ Len(OfKind(SpansForTrace(log), kind)) = Len(OfKind(log, kind))
<1> DEFINE o == SpansForTrace(log)
           f == OfKind(log, kind)
           g == OfKind(o, kind)
<1>1. log \in Seq(Row)
    BY DEF LogOf
<1>2. o \in Seq(Row) /\ Contents(o) = Contents(log)
    BY <1>1, SortedType
<1>3. f \in Seq(Row) /\ Contents(f) = {r \in Contents(log) : r.kind = kind}
    BY <1>1, OfKindType
<1> HIDE DEF o
<1>4. g \in Seq(Row) /\ Contents(g) = {r \in Contents(o) : r.kind = kind}
    BY <1>2, OfKindType
<1>5. NoRepeats(log)
    BY LogNoRepeats
<1>6. NoRepeats(o)
    <2>1. [i \in 1..Len(log) |-> log[i].ts] \in [1..Len(log) -> Nat]
        BY <1>1, SortedType
    <2> QED
        BY <1>1, <1>5, <2>1, NoRepeatsOrdered DEF o, SpansForTrace
<1>7. NoRepeats(f) /\ NoRepeats(g)
    BY <1>1, <1>2, <1>5, <1>6, NoRepeatsFiltered DEF OfKind
<1> HIDE DEF f, g
<1>8. Contents(f) = Contents(g)
    BY <1>2, <1>3, <1>4
<1>9. Cardinality(Contents(f)) = Len(f) /\ Cardinality(Contents(g)) = Len(g)
    BY <1>3, <1>4, <1>7, CountsElements
<1>10. Len(f) = Len(g)
    BY <1>8, <1>9
<1> QED
    BY <1>3, <1>4, <1>8, <1>10 DEF f, g, o

LEMMA SortedSame ==
    ASSUME NEW log, NEW done \in Seq(Event), NEW over, LogOf(log, done, over),
           \A i \in 1..Len(done) : done[i].n = i /\ done[i].ts = i,
           NEW kind \in Kinds
    PROVE  OfKind(SpansForTrace(log), kind) = OfKind(log, kind)
<1>1. /\ RisingBy(OfKind(log, kind), RowNumber)
      /\ RisingBy(OfKind(SpansForTrace(log), kind), RowNumber)
    BY LogOfKindRises, SortedOfKindRises
<1>2. RowNumber \in [Row -> Nat]
    BY RowFields DEF RowNumber
<1>3. /\ OfKind(log, kind) \in Seq(Row) /\ OfKind(SpansForTrace(log), kind) \in Seq(Row)
      /\ Contents(OfKind(SpansForTrace(log), kind)) = Contents(OfKind(log, kind))
    BY SortedFinds
<1> DEFINE f == OfKind(log, kind)
           g == OfKind(SpansForTrace(log), kind)
<1> HIDE DEF f, g
<1>4. f = g
    BY <1>1, <1>2, <1>3, RisingByUnique DEF f, g
<1> QED
    BY <1>4 DEF f, g

------------------------------------------------------------------------------
(* The recording has the calls that were answered, and no other, each with a  *)
(* result it had.                                                             *)

AnsweredRows(log) == {r \in Contents(log) : r.kind = "tool_call" /\ r.result # NoResult}

LEMMA LastIndex ==
    ASSUME NEW n \in Nat, NEW T \in SUBSET (1..n), T # {}
    PROVE  \E i \in T : \A j \in T : j <= i
<1> DEFINE U == {n - i : i \in T}
<1>1. U \in SUBSET Nat /\ U # {}
    <2>1. \A i \in T : n - i \in Nat
        OBVIOUS
    <2>2. \E i \in T : n - i \in U
        OBVIOUS
    <2> QED
        BY <2>1, <2>2
<1>2. PICK m \in U : \A k \in U : m <= k
    <2> HIDE DEF U
    <2> QED
        BY <1>1, LeastElement
<1>3. PICK i \in T : m = n - i
    BY <1>2
<1>4. \A j \in T : n - i <= n - j
    BY <1>2, <1>3
<1> QED
    BY <1>4

LEMMA LastResultsIs ==
    ASSUME NEW answered \in Seq(Row)
    PROVE  /\ DOMAIN LastResults(answered) = {r.call : r \in Contents(answered)}
           /\ \A c \in DOMAIN LastResults(answered) :
                 \E r \in Contents(answered) : r.call = c /\ r.result = LastResults(answered)[c]
<1> DEFINE n == Len(answered)
           last(c) == CHOOSE i \in 1..n : /\ answered[i].call = c
                                          /\ \A j \in i + 1 .. n : answered[j].call # c
           C == {answered[i].call : i \in 1..n}
           L == [c \in C |-> answered[last(c)].result]
<1>1. LastResults(answered) = L
    BY DEF LastResults
<1>2. C = {r.call : r \in Contents(answered)}
    BY ContentsMembers
<1>3. n \in Nat
    OBVIOUS
<1>4. ASSUME NEW c \in C
      PROVE  last(c) \in 1..n /\ answered[last(c)].call = c
    <2> DEFINE T == {i \in 1..n : answered[i].call = c}
    <2>1. T \in SUBSET (1..n) /\ T # {}
        BY <1>4
    <2>2. PICK i \in T : \A j \in T : j <= i
        <3> HIDE DEF T, n
        <3> QED
            BY <1>3, <2>1, LastIndex
    <2>3. i \in 1..n /\ answered[i].call = c
        BY <2>2
    <2>4. \A j \in i + 1 .. n : answered[j].call # c
        BY <1>3, <2>2
    <2> HIDE DEF n
    <2> QED
        BY <2>3, <2>4
<1> HIDE DEF last
<1>5. DOMAIN L = C /\ \A c \in C : L[c] = answered[last(c)].result
    OBVIOUS
<1> HIDE DEF L, C, n
<1>6. \A c \in C : \E r \in Contents(answered) : r.call = c /\ r.result = L[c]
    BY <1>4, <1>5, ContentsMembers DEF n
<1> QED
    BY <1>1, <1>2, <1>5, <1>6

LEMMA RecordingIs ==
    ASSUME NEW log \in Seq(Row)
    PROVE  /\ DOMAIN RecordingFrom(log) = {r.call : r \in AnsweredRows(log)}
           /\ \A c \in DOMAIN RecordingFrom(log) :
                 \E r \in AnsweredRows(log) : r.call = c /\ r.result = RecordingFrom(log)[c]
<1> DEFINE o == SpansForTrace(log)
           calls == OfKind(o, "tool_call")
           S == {s \in Contents(calls) : s.result # NoResult}
           answered == Answered(calls)
<1>1. o \in Seq(Row) /\ Contents(o) = Contents(log)
    BY SortedType
<1> HIDE DEF o
<1>2. calls \in Seq(Row) /\ Contents(calls) = {s \in Contents(o) : s.kind = "tool_call"}
    BY <1>1, OfKindType
<1> HIDE DEF calls
<1>3. answered = Filtered(calls, S)
    BY DEF Answered
<1>4. answered \in Seq(Row) /\ Contents(answered) = Contents(calls) \cap S
    <2> HIDE DEF S, answered
    <2> QED
        BY <1>2, <1>3, FilteredType
<1>5. Contents(answered) = AnsweredRows(log)
    BY <1>1, <1>2, <1>4 DEF AnsweredRows
<1> HIDE DEF answered
<1>6. RecordingFrom(log) = LastResults(answered)
    BY DEF RecordingFrom, answered, calls, o
<1>7. /\ DOMAIN LastResults(answered) = {r.call : r \in Contents(answered)}
      /\ \A c \in DOMAIN LastResults(answered) :
            \E r \in Contents(answered) : r.call = c /\ r.result = LastResults(answered)[c]
    BY <1>4, LastResultsIs
<1> QED
    BY <1>5, <1>6, <1>7

------------------------------------------------------------------------------
(* The trajectory has the calls that are found, and a final step if the last  *)
(* model call that is found gave another reason than that there is more.      *)

CallStepsOf(log) ==
    LET calls == OfKind(SpansForTrace(log), "tool_call")
    IN  [k \in 1..Len(calls) |-> CallDecision(calls[k].call)]

LastStepOf(log) == IF Ended(SpansForTrace(log)) THEN <<FinalDecision>> ELSE <<>>

LEMMA TrajectoryIs ==
    ASSUME NEW log
    PROVE  CapturedTrajectory(log) = [steps |-> CallStepsOf(log) \o LastStepOf(log), stopped |-> None]
BY DEF CapturedTrajectory, CallStepsOf, LastStepOf

LEMMA EndedIs ==
    ASSUME NEW log \in Seq(Row)
    PROVE  LET told == OfKind(SpansForTrace(log), "llm_call")
           IN  Ended(SpansForTrace(log)) <=>
                   told # <<>> /\ told[Len(told)].finish = <<"ending">>
<1> DEFINE o == SpansForTrace(log)
           told == OfKind(o, "llm_call")
<1>1. o \in Seq(Row)
    BY SortedType
<1> HIDE DEF o
<1>2. told \in Seq(Row) /\ \A k \in 1..Len(told) : told[k].kind = "llm_call"
    BY <1>1, OfKindType, OfKindOrder
<1>3. LastReasons(o) = IF told = <<>> THEN <<>> ELSE told[Len(told)].finish
    BY DEF LastReasons
<1>4. Ended(o) <=> LastReasons(o) # <<>> /\ "continuing" \notin Contents(LastReasons(o))
    BY DEF Ended
<1> HIDE DEF told
<1>5. CASE told = <<>>
    BY <1>3, <1>4, <1>5 DEF told, o
<1>6. CASE told # <<>>
    <2>1. Len(told) \in 1..Len(told)
        BY <1>2, <1>6, EmptySeq
    <2>2. told[Len(told)] \in Row /\ told[Len(told)].kind = "llm_call"
        BY <1>2, <2>1, ElementOfSeq
    <2> DEFINE f == told[Len(told)].finish
    <2>3. f \in {<<>>, <<"continuing">>, <<"ending">>}
        BY <2>2, RowFields
    <2>4. f = LastReasons(o)
        BY <1>3, <1>6
    <2> HIDE DEF f
    <2>5. Contents(<<"continuing">>) = {"continuing"} /\ Contents(<<"ending">>) = {"ending"}
        BY DEF Contents
    <2>6. <<"continuing">> # <<>> /\ <<"ending">> # <<>> /\ <<"continuing">> # <<"ending">>
        OBVIOUS
    <2>7. Ended(o) <=> f = <<"ending">>
        BY <1>4, <2>3, <2>4, <2>5, <2>6
    <2> QED
        BY <1>6, <2>7 DEF f, told, o
<1> QED
    BY <1>5, <1>6

------------------------------------------------------------------------------
(* The loop.                                                                  *)

Recordings == UNION {[S -> Results] : S \in SUBSET Asked}

(* The theorems about the engine, for the engine of this loop.                *)
E == INSTANCE ReplayEngineProofs WITH
    Calls <- Asked, Values <- Results, Narrates <- {FALSE}

LEMMA EngineAssumption == E!ReplayAssumption
<1>1. Results \subseteq DOMAIN Redact /\ Stub \notin Results
    BY ReplayAssumption DEF Results
<1>2. \A r \in Recordings : DOMAIN r \subseteq Asked /\ r \in [DOMAIN r -> Results]
    BY DEF Recordings
<1> QED
    BY <1>1, <1>2, ReplayAssumption DEF E!ReplayAssumption

LEMMA SameCall ==
    /\ Engine!Handling <=> E!Handling
    /\ Engine!Current = E!Current
    /\ Engine!Found <=> E!Found
    /\ \A way : Engine!Fork(way) <=> E!Fork(way)
    /\ Engine!CallStep(Engine!Current.call) = E!CallStep(E!Current.call)
<1>1. Engine!Handling <=> E!Handling
    BY DEF Engine!Handling, E!Handling
<1>2. Engine!Current = E!Current
    BY DEF Engine!Current, E!Current
<1>3. Engine!Found <=> E!Found
    BY <1>2 DEF Engine!Found, E!Found
<1>4. \A way : Engine!Fork(way) <=> E!Fork(way)
    BY <1>3 DEF Engine!Fork, E!Fork
<1>5. Engine!CallStep(Engine!Current.call) = E!CallStep(E!Current.call)
    BY <1>2 DEF Engine!CallStep, E!CallStep, Engine!None, E!None
<1> QED
    BY <1>1, <1>2, <1>3, <1>4, <1>5

LEMMA SameAnswers ==
    ASSUME NEW v, NEW how, Engine!Answers(v, how)
    PROVE  E!Answers(v, how)
<1>1. Engine!ResultStep(v, how) = E!ResultStep(v, how)
    BY DEF Engine!ResultStep, E!ResultStep
<1> QED
    BY <1>1, SameCall DEF Engine!Answers, E!Answers, Engine!inputs, E!inputs

LEMMA SameStep == Engine!Step => E!Step
<1>1. Engine!RefusesPolicy => E!RefusesPolicy
    BY DEF Engine!RefusesPolicy, E!RefusesPolicy, Engine!Forks, E!Forks,
           Engine!inputs, E!inputs
<1>2. Engine!Start => E!Start
    BY DEF Engine!Start, E!Start, Engine!Forks, E!Forks, Engine!inputs, E!inputs,
           Engine!Question, E!Question, Engine!TurnOf, E!TurnOf
<1>3. Engine!FinalAnswer => E!FinalAnswer
    BY DEF Engine!FinalAnswer, E!FinalAnswer, Engine!inputs, E!inputs,
           Engine!Asks, E!Asks, Engine!RoundsLeft, E!RoundsLeft, Engine!Said, E!Said,
           Engine!Text, E!Text, Engine!Final, E!Final, Engine!None, E!None
<1>4. Engine!RequestsTools => E!RequestsTools
    <2>1. Engine!Asks <=> E!Asks
        BY DEF Engine!Asks, E!Asks, Engine!RoundsLeft, E!RoundsLeft
    <2>2. \A n : Engine!Batches(n) = E!Batches(n)
        BY DEF Engine!Batches, E!Batches
    <2>3. \A text : Engine!Said(text) = E!Said(text)
        BY DEF Engine!Said, E!Said, Engine!Text, E!Text, Engine!None, E!None
    <2>4. \A text, calls : Engine!AssistantTurn(text, calls) = E!AssistantTurn(text, calls)
        BY DEF Engine!AssistantTurn, E!AssistantTurn, Engine!TurnOf, E!TurnOf
    <2> QED
        BY <2>1, <2>2, <2>3, <2>4
        DEF Engine!RequestsTools, E!RequestsTools, Engine!inputs, E!inputs
<1>5. Engine!AdapterRaises => E!AdapterRaises
    BY DEF Engine!AdapterRaises, E!AdapterRaises, Engine!inputs, E!inputs,
           Engine!Asks, E!Asks, Engine!RoundsLeft, E!RoundsLeft
<1>6. Engine!OutOfSteps => E!OutOfSteps
    BY DEF Engine!OutOfSteps, E!OutOfSteps, Engine!inputs, E!inputs,
           Engine!RoundsSpent, E!RoundsSpent
<1>7. Engine!AnswerRecorded => E!AnswerRecorded
    BY SameCall, SameAnswers DEF Engine!AnswerRecorded, E!AnswerRecorded
<1>8. Engine!AnswerStub => E!AnswerStub
    BY SameCall, SameAnswers DEF Engine!AnswerStub, E!AnswerStub
<1>9. Engine!AnswerLive => E!AnswerLive
    BY SameCall, SameAnswers DEF Engine!AnswerLive, E!AnswerLive
<1>10. Engine!LiveRaises => E!LiveRaises
    BY SameCall DEF Engine!LiveRaises, E!LiveRaises, Engine!inputs, E!inputs
<1>11. Engine!StopAtFork => E!StopAtFork
    BY SameCall
    DEF Engine!StopAtFork, E!StopAtFork, Engine!inputs, E!inputs, Engine!MissingStep,
        E!MissingStep, Engine!GivesUp, E!GivesUp, Engine!None, E!None
<1>12. Engine!BatchAnswered => E!BatchAnswered
    BY DEF Engine!BatchAnswered, E!BatchAnswered, Engine!inputs, E!inputs,
           Engine!ShowsResults, E!ShowsResults, Engine!ResultTurn, E!ResultTurn,
           Engine!TurnOf, E!TurnOf
<1> QED
    BY <1>1, <1>2, <1>3, <1>4, <1>5, <1>6, <1>7, <1>8, <1>9, <1>10, <1>11, <1>12
    DEF Engine!Step, E!Step, Engine!Converse, E!Converse,
        Engine!HandleCall, E!HandleCall

LEMMA SameType == Engine!TypeOK <=> E!TypeOK
<1>1. Engine!Call = E!Call /\ Engine!Answer = E!Answer /\ Engine!PC = E!PC
    BY DEF Engine!Call, E!Call, Engine!Answer, E!Answer, Engine!PC, E!PC
<1>2. Engine!Turn = E!Turn
    BY <1>1 DEF Engine!Turn, E!Turn
<1> QED
    BY <1>1, <1>2 DEF Engine!TypeOK, E!TypeOK, Engine!None, E!None, Recordings

------------------------------------------------------------------------------
(* The state of the explorer's request. Until the replay starts the engine    *)
(* has done nothing; from then on its own invariant holds. The recording has  *)
(* the calls answered among the rows there were when it was read.             *)

EngineStarts ==
    /\ pc = "start" /\ round = 0 /\ stopped = None
    /\ turns = <<>> /\ batch = <<>> /\ results = <<>> /\ steps = <<>> /\ executed = <<>>

RecordingOK ==
    /\ recording \in Recordings
    /\ DOMAIN recording = AnswersThere
    /\ \A c \in DOMAIN recording : \E i \in 1..complete :
          /\ rows[i].kind = "tool_call" /\ rows[i].result # NoResult
          /\ rows[i].call = c /\ rows[i].result = recording[c]

RequestInv ==
    /\ ui \in {"idle", "rebuilt", "replaying", "failed"}
    /\ complete \in 0..Len(rows)
    /\ captured \in [steps : Seq(Decision), stopped : {None}]
    /\ executor = FALSE
    /\ RecordingOK
    /\ ui \in {"rebuilt", "replaying"} => policy \in Policies
    /\ ui = "replaying" => E!IInv /\ captured = CapturedTrajectory(rows)
    /\ ui # "replaying" => EngineStarts

Inv == SessionInv /\ RequestInv

LEMMA NoRecording ==
    ASSUME recording = <<>>, complete = 0
    PROVE  RecordingOK
<1>1. recording \in [{} -> Results] /\ DOMAIN recording = {}
    OBVIOUS
<1>2. recording \in Recordings
    BY <1>1 DEF Recordings
<1>3. 1..complete = {}
    OBVIOUS
<1> QED
    BY <1>1, <1>2, <1>3 DEF RecordingOK, AnswersThere

LEMMA InvInit == Init => Inv
<1> SUFFICES ASSUME Init PROVE Inv
    OBVIOUS
<1>1. SessionInv
    BY SessionInvInit DEF Init
<1>2. captured \in [steps : Seq(Decision), stopped : {None}]
    BY DEF Init
<1>3. RecordingOK
    BY NoRecording DEF Init
<1>4. complete \in 0..Len(rows)
    <2>1. Len(rows) \in Nat
        BY <1>1 DEF SessionInv
    <2> QED
        BY <2>1 DEF Init
<1> QED
    BY <1>1, <1>2, <1>3, <1>4 DEF Init, Inv, RequestInv, EngineStarts

(* Rows are only ever added.                                                  *)
LEMMA RowsGrow ==
    ASSUME SessionInv, SessionNext \/ UNCHANGED sessionVars
    PROVE  \E more \in Seq(Row) : rows' = rows \o more
<1>1. rows \in Seq(Row) /\ txn \in Seq(Row) /\ rows' \in Seq(Row)
    BY SessionInvNext DEF SessionInv
<1>2. ASSUME rows' = rows
      PROVE  \E more \in Seq(Row) : rows' = rows \o more
    <2>1. rows' = rows \o <<>> /\ <<>> \in Seq(Row)
        BY <1>1, <1>2, ConcatEmptySeq
    <2> QED
        BY <2>1
<1>3. ASSUME NEW s \in Row, WriteOk(s) \/ WriteRaises(s)
      PROVE  \E more \in Seq(Row) : rows' = rows \o more
    <2>1. CASE WriteOk(s)
        <3>1. rows' = rows \o Append(txn, s) /\ Append(txn, s) \in Seq(Row)
            BY <1>1, <2>1 DEF WriteOk
        <3> QED
            BY <3>1
    <2>2. CASE WriteRaises(s)
        BY <1>2, <2>2 DEF WriteRaises, InsertRaises, CommitRaises
    <2> QED
        BY <1>3, <2>1, <2>2
<1>4. ASSUME NEW s \in Event, Records(s)
      PROVE  \E more \in Seq(Row) : rows' = rows \o more
    BY <1>3, <1>4 DEF Records, Row
<1>5. NextId \in Nat /\ 0..MaxEvents \subseteq Nat
    BY SessionAssumption DEF SessionInv, DidOK, NextId
<1>6. CASE LlmCall
    <2>1. PICK ts \in 0..MaxEvents, finish \in Finish : Records(LlmSpan(NextId, finish, ts))
        BY <1>6 DEF LlmCall
    <2>2. LlmSpan(NextId, finish, ts) \in Event
        BY <1>5, <2>1 DEF Event
    <2> QED
        BY <1>4, <2>1, <2>2
<1>7. CASE ToolCall
    <2>1. PICK ts \in 0..MaxEvents, call \in Calls, result \in Values \cup {NoResult} :
              Records(ToolSpan(NextId, call, result, ts))
        BY <1>7 DEF ToolCall
    <2>2. ToolSpan(NextId, call, result, ts) \in Event
        BY <1>5, <2>1 DEF Event
    <2> QED
        BY <1>4, <2>1, <2>2
<1>8. CASE ReasoningStep
    <2>1. PICK ts \in 0..MaxEvents : Records(StepSpan(NextId, ts))
        BY <1>8 DEF ReasoningStep
    <2>2. StepSpan(NextId, ts) \in Event
        BY <1>5, <2>1 DEF Event
    <2> QED
        BY <1>4, <2>1, <2>2
<1>9. CASE SessionEnds
    BY <1>3, <1>9, RootFields DEF SessionEnds
<1>10. CASE StoreCloses
    BY <1>2, <1>10 DEF StoreCloses, CloseStore
<1>11. CASE UNCHANGED sessionVars
    BY <1>2, <1>11 DEF sessionVars, storeVars
<1> QED
    BY <1>6, <1>7, <1>8, <1>9, <1>10, <1>11 DEF SessionNext

(* Rows that come after what was read change nothing about it.                *)
LEMMA RecordingStands ==
    ASSUME SessionInv, RecordingOK, complete \in 0..Len(rows),
           NEW more \in Seq(Row), rows' = rows \o more, UNCHANGED <<recording, complete>>
    PROVE  RecordingOK' /\ complete' \in 0..Len(rows')
<1>1. rows \in Seq(Row)
    BY DEF SessionInv
<1>2. /\ Len(rows) \in Nat /\ Len(more) \in Nat /\ Len(rows') = Len(rows) + Len(more)
      /\ \A i \in 1..Len(rows) : rows'[i] = rows[i]
    BY <1>1
<1>3. \A i \in 1..complete : rows'[i] = rows[i]
    BY <1>2
<1>4. AnswersThere' = AnswersThere
    <2>1. {i \in 1..complete : rows'[i].kind = "tool_call" /\ rows'[i].result # NoResult}
          = {i \in 1..complete : rows[i].kind = "tool_call" /\ rows[i].result # NoResult}
        BY <1>3
    <2> QED
        BY <1>3, <2>1 DEF AnswersThere
<1>5. RecordingOK'
    BY <1>3, <1>4 DEF RecordingOK
<1> QED
    BY <1>2, <1>5

LEMMA RecordingRead ==
    ASSUME SessionInv, recording' = RecordingFrom(rows), complete' = Len(rows), rows' = rows
    PROVE  RecordingOK' /\ complete' \in 0..Len(rows')
<1>1. rows \in Seq(Row) /\ Len(rows) \in Nat
    BY DEF SessionInv
<1> DEFINE rec == RecordingFrom(rows)
<1>2. /\ DOMAIN rec = {r.call : r \in AnsweredRows(rows)}
      /\ \A c \in DOMAIN rec :
            \E r \in AnsweredRows(rows) : r.call = c /\ r.result = rec[c]
    BY <1>1, RecordingIs
<1>3. rec = [c \in DOMAIN rec |-> rec[c]]
    BY DEF RecordingFrom, LastResults
<1> HIDE DEF rec
<1>4. ASSUME NEW r \in AnsweredRows(rows)
      PROVE  /\ r.call \in Asked /\ r.result \in Results
             /\ \E i \in 1..Len(rows) : r = rows[i]
             /\ r.kind = "tool_call" /\ r.result # NoResult
    <2>1. r \in Contents(rows) /\ r.kind = "tool_call" /\ r.result # NoResult
        BY DEF AnsweredRows
    <2>2. PICK i \in 1..Len(rows) : r = rows[i]
        BY <2>1, ContentsMembers
    <2>3. r \in Row
        BY <1>1, <2>2, ElementOfSeq
    <2>4. r.call \in {Redact[c] : c \in Calls} /\ r.result \in {Redact[v] : v \in Values}
        BY <2>1, <2>3, RowFields
    <2>5. r.call \in Asked
        BY <2>4, ReplayAssumption
    <2> QED
        BY <2>1, <2>2, <2>4, <2>5 DEF Results
<1>5. DOMAIN rec \in SUBSET Asked /\ \A c \in DOMAIN rec : rec[c] \in Results
    BY <1>2, <1>4
<1>6. rec \in [DOMAIN rec -> Results]
    BY <1>3, <1>5
<1>7. rec \in Recordings
    BY <1>5, <1>6 DEF Recordings
<1>8. DOMAIN rec = {rows[i].call : i \in {k \in 1..Len(rows) :
                        rows[k].kind = "tool_call" /\ rows[k].result # NoResult}}
    <2>1. ASSUME NEW i \in 1..Len(rows), rows[i].kind = "tool_call", rows[i].result # NoResult
          PROVE  rows[i] \in AnsweredRows(rows)
        BY <2>1, ContentsMembers DEF AnsweredRows
    <2> QED
        BY <1>2, <1>4, <2>1
<1>9. \A c \in DOMAIN rec : \E i \in 1..Len(rows) :
          /\ rows[i].kind = "tool_call" /\ rows[i].result # NoResult
          /\ rows[i].call = c /\ rows[i].result = rec[c]
    BY <1>2, <1>4
<1>10. recording' = rec
    BY DEF rec
<1>11. RecordingOK'
    BY <1>7, <1>8, <1>9, <1>10 DEF RecordingOK, AnswersThere
<1> QED
    BY <1>1, <1>11

LEMMA CapturedType ==
    ASSUME NEW log, NEW done \in Seq(Event), NEW over, LogOf(log, done, over)
    PROVE  /\ CapturedTrajectory(log) \in [steps : Seq(Decision), stopped : {None}]
           /\ CallStepsOf(log) \in Seq(Decision) /\ LastStepOf(log) \in Seq(Decision)
<1> DEFINE calls == OfKind(SpansForTrace(log), "tool_call")
<1>2. /\ calls \in Seq(Row)
      /\ Contents(calls) = Contents(OfKind(log, "tool_call"))
      /\ Contents(OfKind(log, "tool_call")) = {r \in Contents(log) : r.kind = "tool_call"}
    BY SortedFinds
<1>3. CallStepsOf(log) = [k \in 1..Len(calls) |-> CallDecision(calls[k].call)]
    BY DEF CallStepsOf
<1> HIDE DEF calls
<1>4. ASSUME NEW k \in 1..Len(calls)
      PROVE  CallDecision(calls[k].call) \in Decision
    <2>1. calls[k] \in Row /\ calls[k] \in Contents(calls)
        BY <1>2, ElementOfSeq, ContentsMembers
    <2>2. calls[k].kind = "tool_call"
        BY <1>2, <2>1
    <2>3. calls[k].call \in {Redact[x] : x \in Calls}
        BY <2>1, <2>2, RowFields
    <2> QED
        BY <2>3 DEF Decision
<1>5. CallStepsOf(log) \in Seq(Decision)
    <2>1. Len(calls) \in Nat
        BY <1>2
    <2> QED
        BY <1>3, <1>4, <2>1
<1>6. LastStepOf(log) \in Seq(Decision)
    <2>1. FinalDecision \in Decision
        BY DEF Decision
    <2>2. <<FinalDecision>> \in Seq(Decision) /\ <<>> \in Seq(Decision)
        BY <2>1
    <2> QED
        BY <2>2 DEF LastStepOf
<1>7. CallStepsOf(log) \o LastStepOf(log) \in Seq(Decision)
    BY <1>5, <1>6
<1> QED
    BY <1>5, <1>6, <1>7, TrajectoryIs

LEMMA EngineReady ==
    ASSUME EngineStarts, policy \in Policies, recording \in Recordings, executor = FALSE
    PROVE  E!IInv
<1>1. E!Init
    BY DEF E!Init, EngineStarts, None, E!None
<1> QED
    BY <1>1, E!IInvInit, EngineAssumption

LEMMA RecordingKept ==
    ASSUME RecordingOK, UNCHANGED <<rows, recording, complete>>
    PROVE  RecordingOK'
BY DEF RecordingOK, AnswersThere

LEMMA InvNext == Inv /\ [Next]_vars => Inv'
<1> SUFFICES ASSUME Inv, [Next]_vars PROVE Inv'
    OBVIOUS
<1> USE DEF Inv
<1>1. CASE UNCHANGED vars
    <2>1. SessionInv'
        BY <1>1, SessionInvNext DEF vars
    <2>2. /\ UNCHANGED <<rows, recording, complete, ui, captured, executor, policy>>
          /\ UNCHANGED engineVars
        BY <1>1 DEF vars, sessionVars, storeVars, engineVars
    <2>3. RecordingOK'
        BY <2>2, RecordingKept DEF RequestInv
    <2>4. ui = "replaying" => E!IInv'
        <3>1. UNCHANGED E!vars
            BY <2>2 DEF engineVars, E!vars
        <3> QED
            BY <3>1, E!IInvNext, EngineAssumption DEF RequestInv
    <2>5. RequestInv'
        BY <2>2, <2>3, <2>4 DEF RequestInv, engineVars, EngineStarts
    <2> QED
        BY <2>1, <2>5
<1>2. CASE AgentRuns
    <2>1. SessionInv'
        BY <1>2, SessionInvNext DEF AgentRuns
    <2>2. PICK more \in Seq(Row) : rows' = rows \o more
        BY <1>2, RowsGrow DEF AgentRuns
    <2>3. RecordingOK' /\ complete' \in 0..Len(rows')
        BY <1>2, <2>2, RecordingStands DEF AgentRuns, RequestInv, engineVars
    <2>4. RequestInv'
        BY <1>2, <2>3 DEF AgentRuns, RequestInv, engineVars, EngineStarts
    <2> QED
        BY <2>1, <2>4
<1>3. CASE LockedOut \/ CannotRebuild
    <2>1. SessionInv'
        BY <1>3, SessionInvNext DEF LockedOut, CannotRebuild
    <2>2. /\ UNCHANGED <<rows, recording, complete, captured, executor, policy>>
          /\ UNCHANGED engineVars
          /\ ui \in {"idle", "rebuilt"} /\ ui' = "failed"
        BY <1>3 DEF LockedOut, CannotRebuild, sessionVars, storeVars, engineVars
    <2>3. RecordingOK'
        BY <2>2, RecordingKept DEF RequestInv
    <2>4. RequestInv'
        BY <2>2, <2>3 DEF RequestInv, engineVars, EngineStarts
    <2> QED
        BY <2>1, <2>4
<1>4. CASE Rebuilds
    <2>1. SessionInv'
        BY <1>4, SessionInvNext DEF Rebuilds
    <2>2. rows' = rows
        BY <1>4 DEF Rebuilds, sessionVars, storeVars
    <2>3. RecordingOK' /\ complete' \in 0..Len(rows')
        BY <1>4, <2>2, RecordingRead DEF Rebuilds
    <2>4. RequestInv'
        BY <1>4, <2>2, <2>3 DEF Rebuilds, RequestInv, EngineStarts
    <2> QED
        BY <2>1, <2>4
<1>5. CASE ReadsTrajectory
    <2>1. SessionInv' /\ rows' = rows
        BY <1>5, SessionInvNext DEF ReadsTrajectory, sessionVars, storeVars
    <2>2. captured' = CapturedTrajectory(rows')
        BY <1>5, <2>1 DEF ReadsTrajectory
    <2>3. captured' \in [steps : Seq(Decision), stopped : {None}]
        BY <1>5, RowsLogged, CapturedType DEF ReadsTrajectory, SessionInv, DidOK
    <2>4. E!IInv
        BY <1>5, EngineReady DEF ReadsTrajectory, RequestInv, RecordingOK
    <2>5. E!IInv'
        <3>1. UNCHANGED E!vars
            BY <1>5 DEF ReadsTrajectory, engineVars, E!vars
        <3> QED
            BY <2>4, <3>1, E!IInvNext, EngineAssumption
    <2>6. RecordingOK'
        BY <1>5, <2>1 DEF ReadsTrajectory, engineVars, RequestInv, RecordingOK, AnswersThere
    <2>7. RequestInv'
        BY <1>5, <2>1, <2>2, <2>3, <2>5, <2>6 DEF ReadsTrajectory, engineVars, RequestInv
    <2> QED
        BY <2>1, <2>7
<1>6. CASE Replays
    <2>1. SessionInv' /\ rows' = rows
        BY <1>6, SessionInvNext DEF Replays, sessionVars, storeVars
    <2>2. ui = "replaying" /\ E!Next
        BY <1>6, SameStep DEF Replays, E!Next
    <2>3. E!IInv'
        BY <2>2, E!IInvNext, EngineAssumption DEF RequestInv
    <2>4. UNCHANGED <<recording, policy, executor>>
        BY <2>2, E!ExecutedGrows, EngineAssumption DEF RequestInv, E!IInv
    <2>5. RecordingOK'
        BY <1>6, <2>1, <2>4 DEF Replays, RequestInv, RecordingOK, AnswersThere
    <2>6. RequestInv'
        BY <1>6, <2>1, <2>2, <2>3, <2>4, <2>5 DEF Replays, RequestInv
    <2> QED
        BY <2>1, <2>6
<1> QED
    BY <1>1, <1>2, <1>3, <1>4, <1>5, <1>6 DEF Next

(* The inductive invariant of the loop holds in every reachable state.        *)
THEOREM Invariant == Spec => []Inv
BY InvInit, InvNext, PTL DEF Spec

(* The types of the explorer's request (ui/app.py:95-152), for agents,       *)
(* models and redactions of any kind.                                         *)
THEOREM TypeCorrect == Spec => []TypeOK
<1>1. ASSUME Inv PROVE TypeOK
    <2>1. E!IInv => Engine!TypeOK
        BY SameType DEF E!IInv
    <2>2. ui # "idle" => ui = "failed" \/ Engine!TypeOK
        BY <1>1, <2>1, EngineReady DEF Inv, RequestInv, RecordingOK
    <2> QED
        BY <1>1, <2>2 DEF Inv, RequestInv, SessionInv, TypeOK
<1> QED
    BY <1>1, Invariant, PTL

------------------------------------------------------------------------------
(* What happened, as far as it was written: the rows, in the order of their   *)
(* numbers and without the root span.                                         *)

LEMMA HappenedIs ==
    ASSUME SessionInv
    PROVE  /\ Happened \in Seq(Row) /\ RisingBy(Happened, RowNumber)
           /\ Contents(Happened) = Contents(rows) \ {RootSpan}
<1> DEFINE S == {s \in Contents(did) : Kept(s.n)}
           kept == Filtered(did, S)
<1>1. LogOf(rows, did, session = "closed") /\ rows \in Seq(Row)
    BY RowsLogged DEF SessionInv
<1>2. did \in Seq(Event) /\ \A i \in 1..Len(did) : did[i].n = i
    BY DEF SessionInv, DidOK
<1>3. /\ kept \in Seq(Event) /\ Contents(kept) = Contents(did) \cap S
      /\ InOrderOf(kept, did)
    <2> HIDE DEF S
    <2> QED
        BY <1>2, FilteredType, FilteredOrder
<1>4. Happened = [i \in 1..Len(kept) |-> Redacted(kept[i])]
    BY DEF Happened
<1> HIDE DEF kept
<1>5. Len(kept) \in Nat /\ \A i \in 1..Len(kept) : kept[i] \in Event /\ Redacted(kept[i]) \in Row
    BY <1>3 DEF Row
<1>6. Happened \in Seq(Row) /\ Len(Happened) = Len(kept)
    BY <1>4, <1>5
<1>7. ASSUME NEW k \in 1..Len(Happened), NEW l \in 1..Len(Happened), k < l
      PROVE  RowNumber[Happened[k]] < RowNumber[Happened[l]]
    <2>1. PICK i \in 1..Len(did), j \in 1..Len(did) :
              i < j /\ kept[k] = did[i] /\ kept[l] = did[j]
        BY <1>3, <1>6, <1>7 DEF InOrderOf
    <2>2. kept[k].n < kept[l].n
        BY <1>2, <2>1
    <2>3. Redacted(kept[k]).n = kept[k].n /\ Redacted(kept[l]).n = kept[l].n
        BY <1>5, <1>6, RedactedFields
    <2> QED
        BY <1>4, <1>5, <1>6, <2>2, <2>3 DEF RowNumber
<1>8. RisingBy(Happened, RowNumber)
    BY <1>7 DEF RisingBy
<1>9. ASSUME NEW r \in Contents(Happened)
      PROVE  r \in Contents(rows) \ {RootSpan}
    <2>1. PICK i \in 1..Len(kept) : r = Redacted(kept[i])
        BY <1>4, <1>6, <1>9, ContentsMembers
    <2>2. kept[i] \in Contents(did) /\ Kept(kept[i].n)
        BY <1>3, <2>1, ContentsMembers
    <2>3. PICK n \in 1..Len(did) : kept[i] = did[n]
        BY <2>2, ContentsMembers
    <2>4. kept[i].n = n
        BY <1>2, <2>3
    <2>5. PICK k \in 1..Len(rows) : rows[k].n = n
        BY <2>2, <2>4 DEF Kept
    <2>6. rows[k] # RootSpan
        BY <2>5, RootFields
    <2>7. rows[k] = r
        BY <1>1, <2>1, <2>3, <2>5, <2>6 DEF LogOf, IsRowOf
    <2> QED
        BY <2>6, <2>7, ContentsMembers
<1>10. ASSUME NEW r \in Contents(rows) \ {RootSpan}
       PROVE  r \in Contents(Happened)
    <2>1. PICK k \in 1..Len(rows) : r = rows[k]
        BY ContentsMembers
    <2>2. r.n \in 1..Len(did) /\ r = Redacted(did[r.n])
        BY <1>1, <1>10, <2>1 DEF LogOf, IsRowOf
    <2>3. did[r.n] \in S
        BY <1>2, <2>1, <2>2, ContentsMembers DEF Kept
    <2>4. did[r.n] \in Contents(kept)
        BY <1>3, <2>3
    <2>5. PICK i \in 1..Len(kept) : did[r.n] = kept[i]
        BY <2>4, ContentsMembers
    <2>6. Happened[i] = r /\ i \in 1..Len(Happened)
        BY <1>4, <1>6, <2>2, <2>5
    <2> QED
        BY <2>6, ContentsMembers
<1> QED
    BY <1>6, <1>8, <1>9, <1>10

LEMMA HappenedOfKind ==
    ASSUME SessionInv, NEW kind \in Kinds
    PROVE  OfKind(Happened, kind) = OfKind(rows, kind)
<1> DEFINE h == Happened
           f == OfKind(h, kind)
           g == OfKind(rows, kind)
<1>1. LogOf(rows, did, session = "closed") /\ rows \in Seq(Row) /\ did \in Seq(Event)
    BY RowsLogged DEF SessionInv, DidOK
<1>2. h \in Seq(Row) /\ RisingBy(h, RowNumber) /\ Contents(h) = Contents(rows) \ {RootSpan}
    BY HappenedIs
<1> HIDE DEF h
<1>3. RowNumber \in [Row -> Nat]
    BY RowFields DEF RowNumber
<1>4. f \in Seq(Row) /\ Contents(f) = {r \in Contents(h) : r.kind = kind}
    BY <1>2, OfKindType
<1>5. g \in Seq(Row) /\ Contents(g) = {r \in Contents(rows) : r.kind = kind}
    BY <1>1, OfKindType
<1>6. RisingBy(f, RowNumber)
    BY <1>2, <1>3, RisingByFiltered DEF OfKind
<1>7. RisingBy(g, RowNumber)
    BY <1>1, LogOfKindRises
<1> HIDE DEF f, g
<1>8. RootSpan.kind # kind
    BY RootFields DEF Kinds
<1>9. Contents(f) = Contents(g)
    BY <1>2, <1>4, <1>5, <1>8
<1>10. f = g
    BY <1>3, <1>4, <1>5, <1>6, <1>7, <1>9, RisingByUnique
<1> QED
    BY <1>10 DEF f, g, h

------------------------------------------------------------------------------
(* The theorems about the diff, for what it compares here.                    *)

T == INSTANCE TrajectoryDiffProofs WITH
    Keys <- Asked, MaxSteps <- MaxEvents,
    traj <- [s \in {"a", "b"} |-> IF s = "a" THEN captured ELSE Replayed]

LEMMA DiffAssumption == T!DiffAssumption
BY ReplayAssumption, SessionAssumption DEF T!DiffAssumption

LEMMA SameDecisions ==
    ASSUME NEW t
    PROVE  /\ Diffs!Decisions(t) = T!Decisions(t)
           /\ Diffs!HasTerminal(t) <=> T!HasTerminal(t)
<1>1. Diffs!Decisions(t) = T!Decisions(t)
    BY DEF Diffs!Decisions, T!Decisions, Diffs!DecisionsUpTo, T!DecisionsUpTo,
           Diffs!IsDecision, T!IsDecision
<1> QED
    BY <1>1 DEF Diffs!HasTerminal, T!HasTerminal

LEMMA DecisionTypes ==
    /\ Decision \subseteq T!Decision /\ T!Decision \subseteq T!StepType
    /\ \A s \in Decision : T!IsDecision(s)
<1>1. \A c \in {Redact[x] : x \in Calls} : CallDecision(c) \in T!Decision
    <2>1. \A c \in {Redact[x] : x \in Calls} : c \in Asked
        BY ReplayAssumption
    <2>2. \A c : CallDecision(c) = T!CallStep(c, c \in Tokens) /\ (c \in Tokens) \in BOOLEAN
        BY DEF T!CallStep, CallDecision
    <2>3. \A k \in Asked, token \in BOOLEAN : T!CallStep(k, token) \in T!Decision
        BY DEF T!Decision
    <2> QED
        BY <2>1, <2>2, <2>3
<1>2. FinalDecision \in T!Decision
    BY DEF T!Decision, T!FinalStep, FinalDecision
<1>3. T!Decision \subseteq T!StepType
    BY DEF T!Decision, T!StepType
<1>4. \A s \in T!Decision : T!IsDecision(s)
    BY DEF T!Decision, T!CallStep, T!FinalStep, T!IsDecision
<1> QED
    BY <1>1, <1>2, <1>3, <1>4 DEF Decision

(* A trajectory of calls, and of an answer if it ended.                       *)
LEMMA CallsAndEnd ==
    ASSUME NEW calls \in Seq(Decision), NEW ends \in BOOLEAN, NEW t,
           \A i \in 1..Len(calls) : calls[i].kind = "tool_call",
           t.steps = calls \o IF ends THEN <<FinalDecision>> ELSE <<>>
    PROVE  /\ T!Decisions(t) = t.steps
           /\ T!HasTerminal(t) <=> ends
           /\ OfKind(t.steps, "tool_call") = calls
<1> DEFINE end == IF ends THEN <<FinalDecision>> ELSE <<>>
           seq == t.steps
           S == {s \in Contents(seq) : s.kind = "tool_call"}
<1>1. FinalDecision \in Decision /\ FinalDecision.kind = "final"
    BY DEF Decision, FinalDecision
<1>2. end \in Seq(Decision) /\ Contents(end) \subseteq {FinalDecision} /\ Len(end) \in Nat
    <2>1. <<FinalDecision>> \in Seq(Decision) /\ <<>> \in Seq(Decision)
        BY <1>1
    <2>2. Contents(<<FinalDecision>>) = {FinalDecision}
        BY DEF Contents
    <2> QED
        BY <2>1, <2>2, ContentsEmpty
<1> HIDE DEF end
<1>3. seq = calls \o end /\ seq \in Seq(Decision) /\ Len(seq) \in Nat
    BY <1>2, SMTT(40) DEF end
<1>4. T!Decisions(t) = seq
    <2>1. \A i \in 1..Len(seq) : seq[i] \in Decision
        BY <1>3, ElementOfSeq
    <2>2. \A i \in 1..Len(seq) : seq[i] \in Decision <=> T!IsDecision(seq[i])
        BY <2>1, DecisionTypes
    <2>3. T!Decisions(t) = T!Filtered(seq, Decision)
        BY <1>3, <2>2, T!DecisionsFiltered, DiffAssumption
    <2>4. Contents(seq) \subseteq Decision
        <3> HIDE DEF seq
        <3> QED
            BY <2>1, ContentsMembers
    <2>5. Filtered(seq, Decision) = seq
        <3> HIDE DEF seq
        <3> QED
            BY <1>3, <2>4, FilteredAll
    <2> QED
        BY <2>3, <2>5 DEF Filtered, T!Filtered
<1>5. T!HasTerminal(t) <=> ends
    <2>1. CASE ends
        <3>1. seq = Append(calls, FinalDecision)
            BY <1>3, <2>1 DEF end
        <3>2. seq # <<>> /\ seq[Len(seq)] = FinalDecision
            BY <1>1, <3>1
        <3> QED
            BY <1>1, <1>4, <2>1, <3>2 DEF T!HasTerminal
    <2>2. CASE ~ends
        <3>1. seq = calls
            BY <1>3, <2>2 DEF end
        <3>2. calls # <<>> => Len(calls) \in 1..Len(calls)
            BY EmptySeq
        <3>3. calls # <<>> => calls[Len(calls)].kind = "tool_call"
            BY <3>2
        <3> QED
            BY <1>4, <2>2, <3>1, <3>3 DEF T!HasTerminal
    <2> QED
        BY <2>1, <2>2
<1>6. OfKind(seq, "tool_call") = calls
    <2>1. Contents(seq) = Contents(calls) \cup Contents(end)
        BY <1>2, <1>3, ContentsConcat
    <2>2. \A s \in Contents(calls) : s.kind = "tool_call"
        BY ContentsMembers
    <2>3. Contents(calls) \subseteq S /\ Contents(end) \cap S = {}
        BY <1>1, <1>2, <2>1, <2>2
    <2>4. Filtered(seq, S) = Filtered(calls, S) \o Filtered(end, S)
        <3> HIDE DEF S, seq
        <3>1. Filtered(calls \o end, S) = Filtered(calls, S) \o Filtered(end, S)
            BY <1>2, FilteredConcat
        <3> QED
            BY <1>3, <3>1
    <2>5. Filtered(calls, S) = calls /\ Filtered(end, S) = <<>>
        <3> HIDE DEF S
        <3> QED
            BY <1>2, <2>3, FilteredAll, FilteredNone
    <2>6. Filtered(seq, S) = calls
        <3> HIDE DEF S
        <3> QED
            BY <2>4, <2>5, ConcatEmptySeq
    <2> QED
        BY <2>6 DEF OfKind
<1> QED
    BY <1>4, <1>5, <1>6

(* The captured trajectory, by the rows found.                                *)
FoundOf(log, kind) == OfKind(SpansForTrace(log), kind)

LEMMA CapturedReads ==
    ASSUME NEW log, NEW done \in Seq(Event), NEW over, LogOf(log, done, over)
    PROVE  LET seen == CapturedTrajectory(log)
           IN  /\ T!Decisions(seen) = seen.steps
               /\ seen.steps \in Seq(Decision) /\ seen.stopped = None
               /\ T!HasTerminal(seen) <=> Ended(SpansForTrace(log))
               /\ CallsOf(seen) = [i \in 1..Len(FoundOf(log, "tool_call")) |->
                                      FoundOf(log, "tool_call")[i].call]
<1> DEFINE seen == CapturedTrajectory(log)
           found == FoundOf(log, "tool_call")
           calls == CallStepsOf(log)
           ends == Ended(SpansForTrace(log))
<1>1. /\ seen = [steps |-> calls \o LastStepOf(log), stopped |-> None]
      /\ calls \in Seq(Decision) /\ calls \o LastStepOf(log) \in Seq(Decision)
    BY CapturedType, TrajectoryIs
<1>2. calls = [k \in 1..Len(found) |-> CallDecision(found[k].call)]
    BY DEF CallStepsOf, FoundOf
<1>3. Len(found) \in Nat
    BY SortedFinds DEF FoundOf
<1>4. LastStepOf(log) = IF ends THEN <<FinalDecision>> ELSE <<>>
    BY DEF LastStepOf
<1>5. ends \in BOOLEAN
    BY DEF Ended
<1> HIDE DEF seen, found, calls, ends
<1>6. Len(calls) = Len(found) /\ \A i \in 1..Len(calls) : calls[i] = CallDecision(found[i].call)
    BY <1>2, <1>3
<1>7. \A i \in 1..Len(calls) : calls[i].kind = "tool_call" /\ calls[i].key = found[i].call
    <2>1. \A c : CallDecision(c).kind = "tool_call" /\ CallDecision(c).key = c
        BY DEF CallDecision
    <2> QED
        BY <1>6, <2>1
<1>8. /\ T!Decisions(seen) = seen.steps
      /\ T!HasTerminal(seen) <=> ends
      /\ OfKind(seen.steps, "tool_call") = calls
    <2>1. seen.steps = calls \o IF ends THEN <<FinalDecision>> ELSE <<>>
        BY <1>1, <1>4
    <2> QED
        BY <1>1, <1>5, <1>7, <2>1, CallsAndEnd
<1>9. CallsOf(seen) = [i \in 1..Len(found) |-> found[i].call]
    BY <1>6, <1>7, <1>8 DEF CallsOf
<1>10. seen.steps \in Seq(Decision) /\ seen.stopped = None
    BY <1>1
<1> QED
    BY <1>8, <1>9, <1>10 DEF seen, found, ends

LEMMA CapturedIs ==
    ASSUME SessionInv
    PROVE  CapturedIsWhatHappened
<1> DEFINE seen == CapturedTrajectory(rows)
           calls == CallsOf(seen)
           found == FoundOf(rows, "tool_call")
           asked == OfKind(Happened, "tool_call")
           told == OfKind(Happened, "llm_call")
<1>1. LogOf(rows, did, session = "closed") /\ did \in Seq(Event) /\ rows \in Seq(Row)
    BY RowsLogged DEF SessionInv, DidOK
<1>2. asked = OfKind(rows, "tool_call") /\ told = OfKind(rows, "llm_call")
    BY HappenedOfKind DEF Kinds
<1>3. asked \in Seq(Row) /\ found \in Seq(Row) /\ Len(found) = Len(asked)
    BY <1>1, <1>2, SortedFinds DEF FoundOf
<1>4. calls = [i \in 1..Len(found) |-> found[i].call]
    BY <1>1, CapturedReads
<1>5. Truth = [i \in 1..Len(asked) |-> asked[i].call]
    BY DEF Truth
<1>6. /\ Listed(rows).calls = Len(asked)
      /\ Listed(rows).named <=> OfKind(rows, "session") # <<>>
    BY <1>2 DEF Listed
<1> HIDE DEF asked, found, calls
<1>7. Len(calls) = Len(found) /\ Len(Truth) = Len(asked)
    BY <1>3, <1>4, <1>5
<1>8. Listed(rows).named => session = "closed"
    <2> SUFFICES ASSUME OfKind(rows, "session") # <<>> PROVE session = "closed"
        BY <1>6
    <2> DEFINE roots == OfKind(rows, "session")
    <2>1. roots \in Seq(Row) /\ Contents(roots) = {r \in Contents(rows) : r.kind = "session"}
        BY <1>1, OfKindType
    <2> HIDE DEF roots
    <2>2. roots[1] \in Contents(roots)
        <3>1. 1 \in 1..Len(roots)
            BY <2>1, EmptySeq DEF roots
        <3> QED
            BY <3>1, ContentsMembers
    <2>3. PICK i \in 1..Len(rows) : rows[i].kind = "session"
        BY <2>1, <2>2, ContentsMembers
    <2>4. rows[i] = RootSpan
        BY <1>1, <2>3, LogElements
    <2>5. ~IsRowOf(rows[i], did)
        BY <2>4, RootFields DEF IsRowOf
    <2> QED
        BY <1>1, <2>5 DEF LogOf
<1>9. ASSUME ~setBack
      PROVE  calls = Truth /\ (Diffs!HasTerminal(seen) <=>
                                  told # <<>> /\ told[Len(told)].finish = <<"ending">>)
    <2>1. \A i \in 1..Len(did) : did[i].n = i /\ did[i].ts = i
        BY <1>9 DEF SessionInv, DidOK
    <2>2. found = asked /\ FoundOf(rows, "llm_call") = told
        BY <1>1, <1>2, <2>1, SortedSame DEF Kinds, FoundOf, found
    <2>3. Ended(SpansForTrace(rows)) <=> told # <<>> /\ told[Len(told)].finish = <<"ending">>
        BY <1>1, <2>2, EndedIs DEF FoundOf
    <2>4. Diffs!HasTerminal(seen) <=> Ended(SpansForTrace(rows))
        BY <1>1, CapturedReads, SameDecisions
    <2> QED
        BY <1>4, <1>5, <2>2, <2>3, <2>4
<1> QED
    BY <1>3, <1>6, <1>7, <1>8, <1>9 DEF CapturedIsWhatHappened, calls

(* Whenever a reader comes, while the agent runs, after an outage or after a  *)
(* crash, captured_trajectory (capture.py:57-110) finds every call that was   *)
(* written, in order, and an end only if the agent's last model call said so. *)
THEOREM CapturesTruly == Spec => []CapturedIsWhatHappened
<1>1. Inv => CapturedIsWhatHappened
    BY CapturedIs DEF Inv
<1> QED
    BY <1>1, Invariant, PTL

------------------------------------------------------------------------------
(* What a reader saw of a trace it need not take back.                        *)

LEMMA OfKindConcat ==
    ASSUME NEW r \in Seq(Row), NEW t \in Seq(Row), NEW kind
    PROVE  OfKind(r \o t, kind) = OfKind(r, kind) \o OfKind(t, kind)
<1> DEFINE S == {s \in Contents(r \o t) : s.kind = kind}
           R == {s \in Contents(r) : s.kind = kind}
           U == {s \in Contents(t) : s.kind = kind}
<1>1. Contents(r \o t) = Contents(r) \cup Contents(t)
    BY ContentsConcat
<1>2. /\ \A e \in Contents(r) : e \in S <=> e \in R
      /\ \A e \in Contents(t) : e \in S <=> e \in U
    BY <1>1
<1>3. OfKind(r \o t, kind) = Filtered(r \o t, S) /\ OfKind(r, kind) = Filtered(r, R)
      /\ OfKind(t, kind) = Filtered(t, U)
    BY DEF OfKind
<1> HIDE DEF S, R, U
<1>4. Filtered(r, S) = Filtered(r, R) /\ Filtered(t, S) = Filtered(t, U)
    BY <1>2, FilteredSame
<1>5. Filtered(r \o t, S) = Filtered(r, S) \o Filtered(t, S)
    BY FilteredConcat
<1> QED
    BY <1>3, <1>4, <1>5

CallsIn(log) ==
    [i \in 1..Len(OfKind(log, "tool_call")) |-> OfKind(log, "tool_call")[i].call]

LEMMA CapturedInOrder ==
    ASSUME NEW log, NEW done \in Seq(Event), NEW over, LogOf(log, done, over),
           \A i \in 1..Len(done) : done[i].n = i /\ done[i].ts = i
    PROVE  CallsOf(CapturedTrajectory(log)) = CallsIn(log)
<1>1. FoundOf(log, "tool_call") = OfKind(log, "tool_call")
    BY SortedSame DEF FoundOf, Kinds
<1> QED
    BY <1>1, CapturedReads DEF CallsIn

LEMMA CallsInGrow ==
    ASSUME NEW r \in Seq(Row), NEW t \in Seq(Row)
    PROVE  IsPrefix(CallsIn(r), CallsIn(r \o t))
<1> DEFINE a == OfKind(r, "tool_call")
           b == OfKind(r \o t, "tool_call")
           c == OfKind(t, "tool_call")
           ca == [i \in 1..Len(a) |-> a[i].call]
           cb == [i \in 1..Len(b) |-> b[i].call]
<1>1. a \in Seq(Row) /\ c \in Seq(Row) /\ b = a \o c
    BY OfKindType, OfKindConcat
<1>2. CallsIn(r) = ca /\ CallsIn(r \o t) = cb
    BY DEF CallsIn
<1> HIDE DEF a, b, c
<1>3. /\ Len(a) \in Nat /\ Len(b) \in Nat /\ Len(a) <= Len(b)
      /\ \A i \in 1..Len(a) : b[i] = a[i]
    BY <1>1
<1>4. Len(ca) = Len(a) /\ Len(cb) = Len(b) /\ \A i \in 1..Len(a) : ca[i] = cb[i]
    BY <1>3
<1>5. SubSeq(ca, 1, Len(ca)) = [i \in 1..Len(a) |-> ca[i]]
    BY <1>3, <1>4
<1>6. SubSeq(cb, 1, Len(ca)) = [i \in 1..Len(a) |-> cb[i]]
    BY <1>3, <1>4
<1> HIDE DEF ca, cb
<1>7. [i \in 1..Len(a) |-> ca[i]] = [i \in 1..Len(a) |-> cb[i]]
    BY <1>4
<1> QED
    BY <1>2, <1>3, <1>4, <1>5, <1>6, <1>7 DEF IsPrefix

LEMMA NeverSetForth ==
    ASSUME SessionInv, SessionNext \/ UNCHANGED sessionVars, ~setBack'
    PROVE  ~setBack
<1>1. ASSUME NEW ts, Reports(ts) PROVE ~setBack
    BY <1>1 DEF Reports
<1>2. CASE LlmCall \/ ToolCall \/ ReasoningStep
    BY <1>1, <1>2 DEF LlmCall, ToolCall, ReasoningStep
<1>3. CASE SessionEnds \/ StoreCloses \/ UNCHANGED sessionVars
    BY <1>3 DEF SessionEnds, StoreCloses, sessionVars
<1> QED
    BY <1>2, <1>3 DEF SessionNext

(* A trace that is read while it is written (ui/app.py reads through a        *)
(* connection of its own) only gains calls, at its end.                       *)
THEOREM CaptureOnlyGrows == Spec => CapturedGrows
<1>1. ASSUME Inv, Inv', [Next]_vars, ~setBack'
      PROVE  IsPrefix(CallsOf(CapturedTrajectory(rows)), CallsOf(CapturedTrajectory(rows')))
    <2>1. SessionInv /\ SessionInv'
        BY <1>1 DEF Inv
    <2>2. SessionNext \/ UNCHANGED sessionVars
        BY <1>1 DEF Next, AgentRuns, LockedOut, CannotRebuild, Rebuilds, ReadsTrajectory,
            Replays, vars
    <2>3. PICK more \in Seq(Row) : rows' = rows \o more
        BY <2>1, <2>2, RowsGrow
    <2>4. ~setBack
        BY <1>1, <2>1, <2>2, NeverSetForth
    <2>5. CallsOf(CapturedTrajectory(rows)) = CallsIn(rows)
        <3>1. LogOf(rows, did, session = "closed") /\ did \in Seq(Event)
            BY <2>1, RowsLogged DEF SessionInv, DidOK
        <3>2. \A i \in 1..Len(did) : did[i].n = i /\ did[i].ts = i
            BY <2>1, <2>4 DEF SessionInv, DidOK
        <3> QED
            BY <3>1, <3>2, CapturedInOrder
    <2>6. CallsOf(CapturedTrajectory(rows')) = CallsIn(rows')
        <3>1. /\ LogOf(rows' \o txn', did', session' = "closed")
              /\ rows' \in Seq(Row) /\ txn' \in Seq(Row) /\ did' \in Seq(Event)
            BY <2>1 DEF SessionInv, DidOK
        <3>2. LogOf(rows', did', session' = "closed")
            BY <3>1, LogPrefix
        <3>3. \A i \in 1..Len(did') : did'[i].n = i /\ did'[i].ts = i
            BY <1>1, <2>1 DEF SessionInv, DidOK
        <3> QED
            BY <3>1, <3>2, <3>3, CapturedInOrder
    <2>7. rows \in Seq(Row)
        BY <2>1 DEF SessionInv
    <2> QED
        BY <2>3, <2>5, <2>6, <2>7, CallsInGrow
<1>2. Inv /\ Inv' /\ [Next]_vars
          => [~setBack' => IsPrefix(CallsOf(CapturedTrajectory(rows)),
                                    CallsOf(CapturedTrajectory(rows')))]_vars
    BY <1>1
<1> QED
    BY <1>2, Invariant, PTL DEF Spec, CapturedGrows

------------------------------------------------------------------------------
(* What the replayed model is told, and what it is refused.                   *)

LEMMA NothingLive ==
    ASSUME Inv, ui = "replaying"
    PROVE  executed = <<>>
BY DEF Inv, RequestInv, E!IInv, E!LiveIsLastResort

LEMMA ToldIs ==
    ASSUME Inv
    PROVE  ToldWhatTheAgentWasTold
<1> SUFFICES ASSUME NEW i \in 1..Len(turns), NEW j \in 1..Len(turns[i].results),
                    turns[i].results[j].value # Stub
             PROVE  \E s \in Contents(Happened) :
                        /\ s.call = turns[i - 1].calls[j].call
                        /\ s.result = turns[i].results[j].value
    BY DEF ToldWhatTheAgentWasTold
<1> DEFINE told == turns[i].results[j].value
           call == turns[i - 1].calls[j].call
<1>1. ui = "replaying"
    BY DEF Inv, RequestInv, EngineStarts
<1>2. E!Legitimate(told, call)
    BY <1>1 DEF Inv, RequestInv, E!IInv, E!NothingFabricated
<1>3. executed = <<>>
    BY <1>1, NothingLive
<1> HIDE DEF told, call
<1>4. call \in DOMAIN recording /\ told = recording[call]
    BY <1>2, <1>3 DEF E!Legitimate, told
<1>5. PICK k \in 1..complete :
          /\ rows[k].kind = "tool_call" /\ rows[k].call = call /\ rows[k].result = recording[call]
    BY <1>4 DEF Inv, RequestInv, RecordingOK
<1>6. k \in 1..Len(rows)
    <2>1. complete \in 0..Len(rows) /\ Len(rows) \in Nat
        BY DEF Inv, RequestInv, SessionInv
    <2> QED
        BY <2>1
<1>7. rows[k] \in Contents(rows) /\ rows[k] # RootSpan
    BY <1>5, <1>6, ContentsMembers, RootFields
<1>8. rows[k] \in Contents(Happened)
    BY <1>7, HappenedIs DEF Inv
<1> QED
    BY <1>4, <1>5, <1>8 DEF told, call

(* Every result a replay tells the model, but for the stub, is one the agent  *)
(* was told for the same call (recording.py:37-50, 90-116; engine.py:81-112). *)
THEOREM TellsWhatWasTold == Spec => []ToldWhatTheAgentWasTold
<1>1. Inv => ToldWhatTheAgentWasTold
    BY ToldIs
<1> QED
    BY <1>1, Invariant, PTL

(* The engine stubs a call, or gives up on it, exactly if the recording does  *)
(* not cover it: the stub is never recorded.                                  *)
LEMMA StubbedIs ==
    ASSUME Inv, ui = "replaying", NEW told, NEW call, E!Legitimate(told, call)
    PROVE  told = Stub <=> call \notin AnswersThere
<1>1. executed = <<>>
    BY NothingLive
<1>2. DOMAIN recording = AnswersThere
    BY DEF Inv, RequestInv, RecordingOK
<1>3. ASSUME call \in DOMAIN recording
      PROVE  recording[call] # Stub
    <2>1. PICK S \in SUBSET Asked : recording \in [S -> Results]
        BY DEF Inv, RequestInv, RecordingOK, Recordings
    <2>2. recording[call] \in Results
        BY <1>3, <2>1
    <2> QED
        BY <2>2, ReplayAssumption DEF Results
<1> QED
    BY <1>1, <1>2, <1>3 DEF E!Legitimate

LEMMA Uncovered ==
    ASSUME Inv
    PROVE  ForkIsUncovered
<1>1. CASE ui = "replaying"
    <2>1. E!NothingFabricated /\ E!ForkOK /\ DOMAIN recording = AnswersThere
        BY <1>1 DEF Inv, RequestInv, E!IInv, RecordingOK
    <2>2. ASSUME NEW i \in 1..Len(turns), NEW j \in 1..Len(turns[i].results)
          PROVE  turns[i].results[j].value = Stub
                     <=> turns[i - 1].calls[j].call \notin AnswersThere
        BY <1>1, <2>1, StubbedIs DEF E!NothingFabricated
    <2>3. ASSUME NEW j \in 1..Len(results)
          PROVE  results[j].value = Stub <=> batch[j].call \notin AnswersThere
        BY <1>1, <2>1, StubbedIs DEF E!NothingFabricated
    <2>4. GivesUpBranch => GivenUp \notin AnswersThere
        BY <2>1 DEF E!ForkOK, GivesUpBranch, GivenUp
    <2> QED
        BY <2>2, <2>3, <2>4 DEF ForkIsUncovered
<1>2. CASE ui # "replaying"
    <2>1. turns = <<>> /\ results = <<>> /\ stopped = None
        BY <1>2 DEF Inv, RequestInv, EngineStarts
    <2>2. Len(turns) = 0 /\ Len(results) = 0 /\ ~GivesUpBranch
        BY <2>1 DEF GivesUpBranch, None
    <2> QED
        BY <2>2 DEF ForkIsUncovered
<1> QED
    BY <1>1, <1>2

(* What a replay does with a call (engine.py:81-112) is decided by the rows   *)
(* the recording was read from (recording.py:52-71, 90-116): it is stubbed,   *)
(* or the branch given up on it, exactly if they hold no answer to the call   *)
(* in the words the model has for it.                                         *)
THEOREM ForksOnlyWhereUncovered == Spec => []ForkIsUncovered
<1>1. Inv => ForkIsUncovered
    BY Uncovered
<1> QED
    BY <1>1, Invariant, PTL

------------------------------------------------------------------------------
(* What the user is told of the two runs.                                     *)

LEMMA SameDiff ==
    ASSUME NEW a, NEW b
    PROVE  Diffs!Diff(a, b) = T!Diff(a, b)
<1>1. \A t : Diffs!Decisions(t) = T!Decisions(t) /\ Diffs!HasTerminal(t) = T!HasTerminal(t)
    <2>1. \A t : Diffs!Decisions(t) = T!Decisions(t)
        BY SameDecisions
    <2> QED
        BY <2>1 DEF Diffs!HasTerminal, T!HasTerminal
<1>2. \A t, n : Diffs!DecisionsUpTo(t, n) = T!DecisionsUpTo(t, n)
    BY DEF Diffs!DecisionsUpTo, T!DecisionsUpTo, Diffs!IsDecision, T!IsDecision
<1>3. \A da, db : Diffs!Conflicts(da, db) = T!Conflicts(da, db)
    BY DEF Diffs!Conflicts, T!Conflicts, Diffs!KeyAt, T!KeyAt, Diffs!Longest, T!Longest
<1>4. \A da, db : Diffs!FirstConflict(da, db) = T!FirstConflict(da, db)
    BY <1>3 DEF Diffs!FirstConflict, T!FirstConflict
<1>5. \A i, da, db, x, y : Diffs!RanOut(i, da, db, x, y) = T!RanOut(i, da, db, x, y)
    BY DEF Diffs!RanOut, T!RanOut
<1>6. \A i : Diffs!RedactionInPlay(a, b, i) = T!RedactionInPlay(a, b, i)
    <2>1. \A t, i : Diffs!StepsThrough(t, i) = T!StepsThrough(t, i)
        BY <1>2 DEF Diffs!StepsThrough, T!StepsThrough
    <2> QED
        BY <2>1 DEF Diffs!RedactionInPlay, T!RedactionInPlay, Diffs!TokenThrough, T!TokenThrough
<1>7. \A kind, first, until, suspect :
          Diffs!Verdict(kind, first, until, suspect) = T!Verdict(kind, first, until, suspect)
    BY DEF Diffs!Verdict, T!Verdict
<1>8. \A i : Diffs!ConflictVerdict(a, b, i) = T!ConflictVerdict(a, b, i)
    BY <1>1, <1>5, <1>6, <1>7
    DEF Diffs!ConflictVerdict, T!ConflictVerdict, Diffs!Forked, T!Forked
<1>9. Diffs!MatchVerdict(a, b) = T!MatchVerdict(a, b)
    BY <1>1, <1>7 DEF Diffs!MatchVerdict, T!MatchVerdict
<1> QED
    BY <1>1, <1>3, <1>4, <1>8, <1>9 DEF Diffs!Diff, T!Diff

(* The keys of calls, with that of the answer if there is one.                *)
HaveKeys(S, calls, keys) ==
    /\ calls \in Seq(S) /\ keys \in Seq(Asked) /\ Len(calls) = Len(keys)
    /\ \A i \in 1..Len(calls) : calls[i].key = keys[i]

EndsWith(ds, calls, ends, final) == ds = calls \o IF ends THEN <<final>> ELSE <<>>

AreKeys(ds, keys, ends) == [i \in 1..Len(ds) |-> ds[i].key] = WithEnd(keys, ends)

LEMMA KeysWithEnd ==
    ASSUME NEW S, NEW calls, NEW keys, HaveKeys(S, calls, keys),
           NEW final \in S, final.key = FinalKey, NEW ends \in BOOLEAN,
           NEW ds, EndsWith(ds, calls, ends, final)
    PROVE  AreKeys(ds, keys, ends)
<1>0. /\ calls \in Seq(S) /\ keys \in Seq(Asked) /\ Len(calls) = Len(keys)
      /\ \A i \in 1..Len(calls) : calls[i].key = keys[i]
      /\ ds = calls \o IF ends THEN <<final>> ELSE <<>>
    BY DEF HaveKeys, EndsWith
<1>1. CASE ends
    <2>1. ds = Append(calls, final) /\ WithEnd(keys, ends) = Append(keys, FinalKey)
        BY <1>0, <1>1, AppendIsConcat DEF WithEnd
    <2>2. /\ Len(ds) = Len(calls) + 1 /\ Len(calls) \in Nat /\ ds[Len(calls) + 1] = final
          /\ \A i \in 1..Len(calls) : ds[i] = calls[i]
        BY <1>0, <2>1
    <2> DEFINE all == Append(keys, FinalKey)
    <2>3. /\ Len(all) = Len(keys) + 1 /\ all[Len(keys) + 1] = FinalKey
          /\ \A i \in 1..Len(keys) : all[i] = keys[i]
          /\ all = [i \in 1..Len(all) |-> all[i]]
        <3>1. keys \in Seq(Asked \cup {FinalKey})
            BY <1>0, SeqMonotonic
        <3>2. /\ all \in Seq(Asked \cup {FinalKey})
              /\ Len(all) = Len(keys) + 1 /\ all[Len(keys) + 1] = FinalKey
              /\ \A i \in 1..Len(keys) : all[i] = keys[i]
            BY <3>1
        <3> HIDE DEF all
        <3>3. all = [i \in 1..Len(all) |-> all[i]]
            BY <3>2
        <3> QED
            BY <3>2, <3>3
    <2> HIDE DEF all
    <2>4. \A i \in 1..Len(ds) : ds[i].key = all[i]
        BY <1>0, <2>2, <2>3
    <2> QED
        BY <1>0, <2>1, <2>2, <2>3, <2>4 DEF all, AreKeys
<1>2. CASE ~ends
    <2>1. ds = calls /\ WithEnd(keys, ends) = keys
        BY <1>0, <1>2, ConcatEmptySeq DEF WithEnd
    <2>2. keys = [i \in 1..Len(keys) |-> keys[i]]
        BY <1>0
    <2> QED
        BY <1>0, <2>1, <2>2 DEF AreKeys
<1> QED
    BY <1>1, <1>2

(* What Replayed makes of a step of the engine, and of all of them.           *)
Shown(s) ==
    [kind |-> s.kind,
     key |-> CASE s.kind = "tool_call" -> s.of
               [] s.kind = "final" -> FinalKey
               [] OTHER -> NoKey,
     token |-> s.of \in Tokens]

ShowAll == [s \in E!AnyStep |-> Shown(s)]

LEMMA ShownFits ==
    ASSUME NEW s \in E!AnyStep
    PROVE  /\ Shown(s) \in T!StepType
           /\ T!IsDecision(Shown(s)) <=> s \in E!DecisionKind
           /\ s \in E!CallKind => Shown(s).key = s.of
           /\ s = E!Final => Shown(s).key = FinalKey
<1>1. /\ Shown(s).kind = s.kind
      /\ s.kind = "tool_call" => Shown(s).key = s.of
      /\ s.kind = "final" => Shown(s).key = FinalKey
    BY DEF Shown
<1>2. Shown(s) \in T!StepType
    <2>1. ~E!Narrating
        BY Zenon DEF E!Narrating
    <2>2. CASE \E c \in Asked : s = E!CallStep(c)
        <3>1. PICK c \in Asked : s = E!CallStep(c)
            BY <2>2
        <3> DEFINE token == Redact[c] \in Tokens
        <3>2. Shown(s) = T!CallStep(Redact[c], token)
            BY <3>1 DEF Shown, E!CallStep, T!CallStep
        <3>3. Redact[c] \in Asked /\ token \in BOOLEAN
            BY ReplayAssumption
        <3> HIDE DEF token
        <3> QED
            BY <3>2, <3>3 DEF T!StepType
    <2>3. CASE \E v \in Results \cup {Stub}, how \in {"recorded", "stubbed", "live"} :
                   s = E!ResultStep(v, how)
        <3>1. PICK v, how : s = E!ResultStep(v, how)
            BY <2>3
        <3> DEFINE token == Redact[v] \in Tokens
        <3>2. Shown(s) = T!ResultStep(token)
            BY <3>1 DEF Shown, E!ResultStep, T!ResultStep
        <3>3. token \in BOOLEAN
            OBVIOUS
        <3> HIDE DEF token
        <3> QED
            BY <3>2, <3>3 DEF T!StepType
    <2>4. CASE s = E!Final
        <3>1. (None \in Tokens) = FALSE /\ s.of = None
            BY <2>4, ReplayAssumption DEF E!Final, E!None, None
        <3>2. Shown(s) = T!FinalStep
            BY <2>4, <3>1 DEF Shown, E!Final, T!FinalStep
        <3> QED
            BY <3>2 DEF T!StepType
    <2>5. CASE s = E!MissingStep
        <3> DEFINE token == s.of \in Tokens
        <3>1. Shown(s) = T!ResultStep(token)
            BY <2>5 DEF Shown, E!MissingStep, T!ResultStep
        <3>2. token \in BOOLEAN
            OBVIOUS
        <3> HIDE DEF token
        <3> QED
            BY <3>1, <3>2 DEF T!StepType
    <2> QED
        BY <2>1, <2>2, <2>3, <2>4, <2>5 DEF E!AnyStep, E!OngoingStep
<1>3. T!IsDecision(Shown(s)) <=> s \in E!DecisionKind
    BY <1>1 DEF T!IsDecision, E!DecisionKind
<1>4. s \in E!CallKind => Shown(s).key = s.of
    BY <1>1 DEF E!CallKind
<1>5. s = E!Final => Shown(s).key = FinalKey
    BY <1>1 DEF E!Final
<1> QED
    BY <1>2, <1>3, <1>4, <1>5

(* The model's side: the calls it was listened to for, as it asked for them.  *)
LEMMA AskedIs ==
    ASSUME Inv, Responds
    PROVE  LET calls == E!CallsShown(steps)
           IN  /\ calls \in Seq(E!AnyStep)
               /\ Decided \in Seq(Asked) /\ Len(Decided) = Len(calls)
               /\ \A i \in 1..Len(calls) : calls[i] \in E!CallKind /\ calls[i].of = Decided[i]
               /\ Len(AskedFor) = Len(Decided)
               /\ GivesUpBranch => Len(AskedFor) # 0 /\ AskedFor[Len(AskedFor)] = GivenUp
<1> DEFINE calls == E!CallsShown(steps)
           asked == E!AskedIn(turns)
           cut == IF stopped = "unrecorded_tool_call" THEN Len(batch) - Len(results) - 1 ELSE 0
<1>1. E!IInv /\ pc = "returned"
    BY DEF Inv, RequestInv, Responds
<1>2. /\ calls \in Seq(E!AnyStep) /\ asked \in Seq(E!Call)
      /\ Len(calls) = Len(asked) - cut /\ Len(calls) <= Len(asked)
      /\ \A i \in 1..Len(calls) : calls[i] \in E!CallKind /\ calls[i].of = Redact[asked[i].call]
      /\ GivesUpBranch => Len(calls) # 0 /\ asked[Len(calls)] = batch[Len(results) + 1]
    BY <1>1, E!Listened, EngineAssumption DEF GivesUpBranch
<1>3. Engine!AskedSoFar = asked
    BY DEF Engine!AskedSoFar, E!AskedIn, Engine!FlattenSeq, E!FlattenSeq
<1> HIDE DEF calls, asked
<1>4. Len(asked) - cut = Len(calls) /\ Len(calls) \in Nat
    BY <1>2
<1>5. AskedFor = [i \in 1 .. Len(asked) - cut |-> asked[i].call]
    BY <1>3 DEF AskedFor, GivesUpBranch
<1>6. AskedFor = [i \in 1..Len(calls) |-> asked[i].call]
    BY <1>4, <1>5
<1>7. \A i \in 1..Len(calls) : asked[i].call \in Asked
    <2>1. \A i \in 1..Len(calls) : i \in 1..Len(asked)
        BY <1>2
    <2>2. \A call \in E!Call : call.call \in Asked
        BY DEF E!Call
    <2>3. \A i \in 1..Len(calls) : asked[i] \in E!Call
        <3> SUFFICES ASSUME NEW i \in 1..Len(calls)
                     PROVE  asked[i] \in E!Call
            OBVIOUS
        <3> QED
            BY <1>2, <2>1, ElementOfSeq
    <2> QED
        BY <2>2, <2>3
<1>8. Len(AskedFor) = Len(calls) /\ \A i \in 1..Len(calls) : AskedFor[i] = asked[i].call
    BY <1>4, <1>6
<1>9. Decided = [i \in 1..Len(calls) |-> Redact[asked[i].call]]
    BY <1>8 DEF Decided
<1>10. \A i \in 1..Len(calls) : Redact[asked[i].call] \in Asked
    BY <1>7, ReplayAssumption
<1>11. Decided \in Seq(Asked) /\ Len(Decided) = Len(calls)
       /\ \A i \in 1..Len(calls) : Decided[i] = Redact[asked[i].call]
    BY <1>4, <1>9, <1>10
<1>12. ASSUME GivesUpBranch
       PROVE  Len(AskedFor) # 0 /\ AskedFor[Len(AskedFor)] = GivenUp
    <2>1. Len(calls) \in 1..Len(calls)
        BY <1>2, <1>4, <1>12
    <2> QED
        BY <1>2, <1>8, <1>12, <2>1 DEF GivenUp
<1> QED
    BY <1>2, <1>8, <1>11, <1>12 DEF calls

LEMMA ModelIs ==
    ASSUME Inv, Responds
    PROVE  /\ Replayed \in T!Trajectory
           /\ T!KeysOf(Replayed) = WithEnd(Decided, stopped = None)
           /\ T!HasTerminal(Replayed) <=> stopped = None
           /\ T!Forked(Replayed) <=> stopped = "unrecorded_tool_call"
<1> DEFINE calls == E!CallsShown(steps)
           end == IF stopped = None THEN <<E!Final>> ELSE <<>>
           shown == Mapped(ShowAll, calls)
           ds == T!Decisions(Replayed)
           S == {s \in T!StepType : T!IsDecision(s)}
<1>1. E!IInv /\ pc = "returned"
    BY DEF Inv, RequestInv, Responds
<1>2. /\ steps \in Seq(E!AnyStep)
      /\ stopped \in {None, "max_steps", "unrecorded_tool_call"}
    BY <1>1 DEF E!IInv, E!StepsOK, E!TypeOK, E!None, None
<1>3. /\ calls \in Seq(E!AnyStep) /\ Decided \in Seq(Asked) /\ Len(Decided) = Len(calls)
      /\ \A i \in 1..Len(calls) : calls[i] \in E!CallKind /\ calls[i].of = Decided[i]
    BY AskedIs
<1>4. Replayed = [steps |-> Mapped(ShowAll, steps), stopped |-> stopped]
    <2>1. Replayed = [steps |-> [i \in 1..Len(steps) |-> Shown(steps[i])], stopped |-> stopped]
        BY DEF Replayed, Shown
    <2>2. \A i \in 1..Len(steps) : Shown(steps[i]) = ShowAll[steps[i]]
        BY <1>2, ElementOfSeq DEF ShowAll
    <2> QED
        BY <2>1, <2>2 DEF Mapped
<1>5. \A s \in E!AnyStep : ShowAll[s] = Shown(s)
    BY DEF ShowAll
<1>6. Replayed \in T!Trajectory /\ Len(Replayed.steps) \in Nat
    <2>1. Mapped(ShowAll, steps) \in [1..Len(steps) -> T!StepType]
        <3>1. \A i \in 1..Len(steps) : ShowAll[steps[i]] \in T!StepType
            BY <1>2, <1>5, ElementOfSeq, ShownFits
        <3> QED
            BY <3>1 DEF Mapped
    <2>2. Mapped(ShowAll, steps) \in Seq(T!StepType)
        BY <1>2, <2>1
    <2> QED
        BY <1>2, <1>4, <2>2 DEF T!Trajectory, T!StoppedReason, T!None, None
<1>7. ds = Mapped(ShowAll, Filtered(steps, E!DecisionKind))
    <2>1. \A s \in E!AnyStep : ShowAll[s] \in S <=> s \in E!DecisionKind
        BY <1>5, ShownFits
    <2>2. \A i \in 1..Len(Replayed.steps) :
              Replayed.steps[i] \in S <=> T!IsDecision(Replayed.steps[i])
        BY <1>6, ElementOfSeq DEF T!Trajectory
    <2> HIDE DEF S
    <2>3. ds = T!Filtered(Replayed.steps, S)
        BY <1>6, <2>2, T!DecisionsFiltered, DiffAssumption
    <2>4. Filtered(Mapped(ShowAll, steps), S) = Mapped(ShowAll, Filtered(steps, E!DecisionKind))
        BY <1>2, <2>1, FilteredMapped
    <2> QED
        BY <1>4, <2>3, <2>4 DEF Filtered, T!Filtered
<1>8. Filtered(steps, E!DecisionKind) = calls \o end
    <2>1. E!Filtered(steps, E!DecisionKind)
              = calls \o IF stopped = E!None THEN <<E!Final>> ELSE <<>>
        BY <1>1, E!ShownDecisions, EngineAssumption
    <2> QED
        BY <2>1 DEF Filtered, E!Filtered, E!None, None
<1>9. /\ shown \in Seq(ImageOf(ShowAll, E!AnyStep)) /\ Len(shown) = Len(calls)
      /\ \A i \in 1..Len(calls) : shown[i] = Shown(calls[i]) /\ shown[i].key = Decided[i]
    <2>1. \A i \in 1..Len(calls) : calls[i] \in E!AnyStep
        BY <1>3, ElementOfSeq
    <2>2. \A i \in 1..Len(calls) : ShowAll[calls[i]] = Shown(calls[i])
                                      /\ Shown(calls[i]).key = Decided[i]
        BY <1>3, <1>5, <2>1, ShownFits
    <2>3. E!Final \in E!AnyStep
        BY DEF E!AnyStep
    <2>4. shown \in Seq(ImageOf(ShowAll, E!AnyStep))
        BY <1>3, <2>3, MappedAppend
    <2> HIDE DEF calls
    <2>5. Len(shown) = Len(calls) /\ \A i \in 1..Len(calls) : shown[i] = ShowAll[calls[i]]
        BY <1>3 DEF Mapped
    <2> QED
        BY <2>2, <2>4, <2>5
<1> HIDE DEF calls, shown
<1>10. /\ ds = shown \o IF stopped = None THEN <<Shown(E!Final)>> ELSE <<>>
       /\ Shown(E!Final) \in ImageOf(ShowAll, E!AnyStep) /\ Shown(E!Final).key = FinalKey
    <2>1. E!Final \in E!AnyStep
        BY DEF E!AnyStep
    <2>2. Shown(E!Final).key = FinalKey /\ ShowAll[E!Final] = Shown(E!Final)
        BY <1>5, <2>1, ShownFits
    <2>3. Shown(E!Final) \in ImageOf(ShowAll, E!AnyStep)
        BY <2>1, <2>2 DEF ImageOf
    <2>4. CASE stopped = None
        <3>1. calls \o end = Append(calls, E!Final)
            BY <1>3, <2>1, <2>4, AppendIsConcat
        <3>2. Mapped(ShowAll, Append(calls, E!Final)) = Append(shown, Shown(E!Final))
            <4> DEFINE steps0 == E!AnyStep
                       show0 == ShowAll
                       seq0 == calls
                       last0 == E!Final
            <4>1. seq0 \in Seq(steps0) /\ last0 \in steps0
                BY <1>3, <2>1
            <4>2. show0[last0] = Shown(E!Final) /\ shown = Mapped(show0, seq0)
                BY <2>2 DEF shown
            <4> HIDE DEF steps0, show0, seq0, last0
            <4>3. AppendMaps(show0, seq0, last0)
                BY <4>1, MappedOneMore
            <4>4. Mapped(show0, Append(seq0, last0)) = Append(shown, Shown(E!Final))
                BY <4>2, <4>3 DEF AppendMaps
            <4> QED
                BY <4>4 DEF show0, seq0, last0
        <3>3. Append(shown, Shown(E!Final)) = shown \o <<Shown(E!Final)>>
            BY <1>9, <2>3, AppendIsConcat
        <3> QED
            BY <1>7, <1>8, <2>2, <2>3, <2>4, <3>1, <3>2, <3>3
    <2>5. CASE stopped # None
        <3>1. calls \o end = calls /\ shown \o <<>> = shown
            BY <1>3, <1>9, <2>5, ConcatEmptySeq
        <3> QED
            BY <1>7, <1>8, <2>2, <2>3, <2>5, <3>1 DEF shown
    <2> QED
        BY <2>4, <2>5
<1>11. T!KeysOf(Replayed) = WithEnd(Decided, stopped = None)
    <2> DEFINE over == stopped = None
               in0 == ImageOf(ShowAll, E!AnyStep)
               last0 == Shown(E!Final)
               keys0 == Decided
               ds0 == ds
    <2>1. /\ last0 \in in0 /\ last0.key = FinalKey /\ over \in BOOLEAN
          /\ HaveKeys(in0, shown, keys0) /\ EndsWith(ds0, shown, over, last0)
        BY <1>3, <1>9, <1>10 DEF HaveKeys, EndsWith
    <2> HIDE DEF over, in0, last0, keys0, ds0
    <2>2. AreKeys(ds0, keys0, over)
        BY <2>1, KeysWithEnd
    <2> QED
        BY <2>2 DEF T!KeysOf, AreKeys, over, ds0, keys0
<1>12. T!HasTerminal(Replayed) <=> stopped = None
    <2>1. Shown(E!Final).kind = "final"
        BY DEF Shown, E!Final
    <2>2. CASE stopped = None
        <3>1. ds # <<>> /\ ds[Len(ds)] = Shown(E!Final)
            <4>1. ds = Append(shown, Shown(E!Final))
                BY <1>9, <1>10, <2>2, AppendIsConcat
            <4> HIDE DEF ds
            <4> QED
                BY <1>9, <1>10, <4>1
        <3> QED
            BY <2>1, <2>2, <3>1 DEF T!HasTerminal
    <2>3. CASE stopped # None
        <3>1. ds = shown
            BY <1>9, <1>10, <2>3, ConcatEmptySeq
        <3>2. shown # <<>> => Len(shown) \in 1..Len(shown)
            BY <1>9, EmptySeq
        <3>3. \A i \in 1..Len(shown) : shown[i].kind = "tool_call"
            <4>1. \A s : Shown(s).kind = s.kind
                BY DEF Shown
            <4>2. \A i \in 1..Len(calls) : calls[i].kind = "tool_call"
                BY <1>3 DEF E!CallKind
            <4> QED
                BY <1>9, <4>1, <4>2
        <3> QED
            BY <2>3, <3>1, <3>2, <3>3 DEF T!HasTerminal
    <2> QED
        BY <2>2, <2>3
<1>13. T!Forked(Replayed) <=> stopped = "unrecorded_tool_call"
    BY <1>4 DEF T!Forked
<1> QED
    BY <1>6, <1>11, <1>12, <1>13

(* The agent's side: the calls it made, and its end if it was seen.           *)
LEMMA AgentIs ==
    ASSUME Inv, ui = "replaying", ~setBack
    PROVE  /\ captured \in T!Trajectory /\ ~T!Forked(captured)
           /\ T!KeysOf(captured) = WithEnd(Truth, T!HasTerminal(captured))
           /\ Truth \in Seq(Asked)
<1> DEFINE found == FoundOf(rows, "tool_call")
           calls == CallStepsOf(rows)
           keys == [i \in 1..Len(found) |-> found[i].call]
           ends == Ended(SpansForTrace(rows))
           ds == T!Decisions(captured)
<1>1. /\ LogOf(rows, did, session = "closed") /\ did \in Seq(Event) /\ rows \in Seq(Row)
      /\ captured = CapturedTrajectory(rows)
    BY RowsLogged DEF Inv, SessionInv, DidOK, RequestInv
<1>2. /\ ds = captured.steps /\ captured.steps \in Seq(Decision) /\ captured.stopped = None
      /\ T!HasTerminal(captured) <=> ends
      /\ CallsOf(captured) = keys
    BY <1>1, CapturedReads
<1>3. Truth = keys
    <2>1. CallsOf(CapturedTrajectory(rows)) = Truth
        BY CapturedIs DEF Inv, CapturedIsWhatHappened
    <2> QED
        BY <1>1, <1>2, <2>1
<1>4. captured \in T!Trajectory /\ ~T!Forked(captured)
    <2>1. Decision \subseteq T!StepType
        BY DecisionTypes
    <2>2. captured.steps \in Seq(T!StepType)
        BY <1>2, <2>1, SeqMonotonic
    <2>3. captured = [steps |-> captured.steps, stopped |-> captured.stopped]
        BY DEF Inv, RequestInv
    <2> QED
        BY <1>2, <2>2, <2>3 DEF T!Trajectory, T!StoppedReason, T!Forked, T!None, None
<1>5. /\ captured.steps = calls \o LastStepOf(rows)
      /\ calls = [k \in 1..Len(found) |-> CallDecision(found[k].call)]
      /\ calls \in Seq(Decision)
    BY <1>1, CapturedType, TrajectoryIs DEF CallStepsOf, FoundOf
<1>6. found \in Seq(Row) /\ Len(found) \in Nat
    BY <1>1, SortedFinds DEF FoundOf
<1>7. \A i \in 1..Len(found) : found[i].call \in Asked
    <2> SUFFICES ASSUME NEW i \in 1..Len(found) PROVE found[i].call \in Asked
        OBVIOUS
    <2> HIDE DEF found, calls
    <2>1. Len(calls) = Len(found) /\ calls[i] = CallDecision(found[i].call)
        BY <1>5, <1>6
    <2>2. calls[i] \in Decision
        BY <1>5, <2>1, ElementOfSeq
    <2>3. CallDecision(found[i].call).kind = "tool_call" /\ CallDecision(found[i].call).key = found[i].call
        BY DEF CallDecision
    <2>4. CallDecision(found[i].call) # FinalDecision
        BY <2>3 DEF FinalDecision
    <2>5. PICK c \in {Redact[x] : x \in Calls} : calls[i] = CallDecision(c)
        BY <2>1, <2>2, <2>4 DEF Decision
    <2>6. found[i].call = c
        BY <2>1, <2>3, <2>5 DEF CallDecision
    <2> QED
        BY <2>6, ReplayAssumption
<1>8. ends \in BOOLEAN /\ LastStepOf(rows) = IF ends THEN <<FinalDecision>> ELSE <<>>
    BY DEF Ended, LastStepOf
<1> HIDE DEF found, calls, ends, ds
<1>9. keys \in Seq(Asked) /\ Len(keys) = Len(found)
    BY <1>6, <1>7
<1>10. HaveKeys(Decision, calls, keys)
    <2>1. \A c : CallDecision(c).key = c
        BY DEF CallDecision
    <2> QED
        BY <1>5, <1>6, <1>9, <2>1 DEF HaveKeys
<1>11. FinalDecision \in Decision /\ FinalDecision.key = FinalKey
    BY DEF Decision, FinalDecision
<1>12. EndsWith(ds, calls, ends, FinalDecision)
    BY <1>2, <1>5, <1>8 DEF EndsWith
<1> HIDE DEF keys
<1>13. AreKeys(ds, keys, ends)
    BY <1>8, <1>10, <1>11, <1>12, KeysWithEnd
<1>14. T!KeysOf(captured) = WithEnd(keys, ends)
    BY <1>13 DEF T!KeysOf, AreKeys, ds
<1>15. T!HasTerminal(captured) = ends
    BY <1>2, <1>8 DEF T!HasTerminal
<1> QED
    BY <1>3, <1>4, <1>9, <1>14, <1>15

(* A final answer is the last decision, if there is one, and no call.         *)
LEMMA EndIsLast ==
    ASSUME NEW calls \in Seq(Asked), NEW ends \in BOOLEAN
    PROVE  LET x == WithEnd(calls, ends)
           IN  /\ Len(x) \in Nat /\ Len(x) = Len(calls) + IF ends THEN 1 ELSE 0
               /\ \A i \in 1..Len(x) : x[i] = FinalKey <=> ends /\ i = Len(x)
<1> DEFINE x == WithEnd(calls, ends)
<1>1. FinalKey \notin Asked /\ calls \in Seq(Asked \cup {FinalKey}) /\ Len(calls) \in Nat
    BY ReplayAssumption, SeqMonotonic
<1>2. \A i \in 1..Len(calls) : calls[i] # FinalKey
    BY <1>1, ElementOfSeq
<1>3. /\ ends => x = Append(calls, FinalKey)
      /\ ~ends => x = calls
    BY <1>1, AppendIsConcat, ConcatEmptySeq DEF WithEnd
<1> HIDE DEF x
<1>4. /\ Len(x) = Len(calls) + IF ends THEN 1 ELSE 0
      /\ \A i \in 1..Len(calls) : x[i] = calls[i]
      /\ ends => x[Len(calls) + 1] = FinalKey
    BY <1>1, <1>3
<1>5. /\ Len(x) \in Nat /\ Len(x) = Len(calls) + IF ends THEN 1 ELSE 0
      /\ \A i \in 1..Len(x) : x[i] = FinalKey <=> ends /\ i = Len(x)
    BY <1>1, <1>2, <1>4
<1> QED
    BY <1>5 DEF x

(* Where two runs part and one is over: if it ended with an answer the other  *)
(* would have answered there too, and be over as well.                        *)
LEMMA EndedTogether ==
    ASSUME NEW d, NEW c \in Seq(Asked), NEW e \in Seq(Asked),
           NEW cEnds \in BOOLEAN, NEW eEnds \in BOOLEAN,
           T!Parting(d, WithEnd(c, cEnds), WithEnd(e, eEnds))
    PROVE  /\ d.first = Len(WithEnd(c, cEnds)) => ~cEnds
           /\ d.first = Len(WithEnd(e, eEnds)) => ~eEnds
<1> DEFINE x == WithEnd(c, cEnds)
           y == WithEnd(e, eEnds)
<1>1. /\ Len(x) \in Nat /\ Len(c) \in Nat /\ Len(x) = Len(c) + IF cEnds THEN 1 ELSE 0
      /\ \A i \in 1..Len(x) : x[i] = FinalKey <=> cEnds /\ i = Len(x)
      /\ Len(y) \in Nat /\ Len(e) \in Nat /\ Len(y) = Len(e) + IF eEnds THEN 1 ELSE 0
      /\ \A i \in 1..Len(y) : y[i] = FinalKey <=> eEnds /\ i = Len(y)
    BY EndIsLast
<1>2. T!Parting(d, x, y)
    OBVIOUS
<1> HIDE DEF x, y
<1>3. ASSUME d.first = Len(x), cEnds PROVE FALSE
    <2>1. Len(x) \in 1..Len(x) /\ Len(x) \in 1..Len(y) /\ Len(x) < Len(y)
        BY <1>1, <1>2, <1>3 DEF T!Parting
    <2>2. x[Len(x)] = y[Len(x)]
        BY <1>2, <1>3, <2>1 DEF T!Parting
    <2> QED
        BY <1>1, <1>3, <2>1, <2>2
<1>4. ASSUME d.first = Len(y), eEnds PROVE FALSE
    <2>1. Len(y) \in 1..Len(y) /\ Len(y) \in 1..Len(x) /\ Len(y) < Len(x)
        BY <1>1, <1>2, <1>4 DEF T!Parting
    <2>2. x[Len(y)] = y[Len(y)]
        BY <1>2, <1>4, <2>1 DEF T!Parting
    <2> QED
        BY <1>1, <1>4, <2>1, <2>2
<1> QED
    BY <1>3, <1>4 DEF x, y

LEMMA VerdictTold ==
    ASSUME Inv
    PROVE  VerdictIsTrue
<1> DEFINE agent == WithEnd(Truth, Diffs!HasTerminal(captured))
           model == WithEnd(Decided, stopped = None)
           n == D.first
           Agree == \A i \in 1..n : agent[i] = model[i]
           Differ == n < Len(agent) /\ n < Len(model) /\ agent[n + 1] # model[n + 1]
           TraceStops == n = Len(agent) /\ n < Len(model) /\ ~Diffs!HasTerminal(captured)
           CutOff == /\ n = Len(model) /\ n < Len(agent)
                     /\ n = Len(AskedFor) /\ n # 0
                     /\ AskedFor[n] \notin AnswersThere
<1> SUFFICES ASSUME Responds, ~setBack
             PROVE  /\ D.kind = "diverged" => Agree /\ Differ /\ ~GivesUpBranch
                    /\ D.kind = "unresolvable_fork" =>
                          Agree /\ GivesUpBranch /\ (Differ \/ TraceStops \/ CutOff)
                    /\ D.kind = "aligned" => agent = model
                    /\ Decided = Truth /\ stopped = None =>
                          D.kind = IF Diffs!HasTerminal(captured) THEN "aligned"
                                                                  ELSE "unknown_terminal"
    BY DEF VerdictIsTrue
<1> DEFINE a == captured
           b == Replayed
           x == T!KeysOf(a)
           y == T!KeysOf(b)
           ended == T!HasTerminal(a)
<1>1. /\ a \in T!Trajectory /\ ~T!Forked(a) /\ x = WithEnd(Truth, ended) /\ Truth \in Seq(Asked)
    BY AgentIs DEF Responds
<1>2. /\ b \in T!Trajectory /\ y = WithEnd(Decided, stopped = None)
      /\ T!HasTerminal(b) <=> stopped = None
      /\ T!Forked(b) <=> stopped = "unrecorded_tool_call"
    BY ModelIs
<1>3. D = T!Diff(a, b)
    <2>1. Diffs!D = Diffs!Diff(a, b)
        BY DEF Diffs!D
    <2> QED
        BY <2>1, SameDiff DEF D
<1>4. Diffs!HasTerminal(captured) = ended
    BY SameDecisions DEF Diffs!HasTerminal, T!HasTerminal
<1> HIDE DEF a, b
<1>5. /\ D.kind = "diverged" =>
            /\ T!Parting(D, x, y) /\ ~T!Forked(a) /\ ~T!Forked(b)
            /\ D.first = Len(x) => T!HasTerminal(a)
            /\ D.first = Len(y) => T!HasTerminal(b)
      /\ D.kind = "unresolvable_fork" =>
            T!Parting(D, x, y) /\ (T!Forked(a) \/ T!Forked(b))
      /\ D.kind = "aligned" => x = y
      /\ ~T!Forked(a) /\ ~T!Forked(b) /\ T!HasTerminal(b) /\ T!CouldBe(y, a)
            => D.kind = IF ended THEN "aligned" ELSE "unknown_terminal"
    BY <1>1, <1>2, <1>3, T!ToldOfKeys, DiffAssumption
<1>6. ASSUME Decided = Truth, stopped = None
      PROVE  T!CouldBe(y, a)
    <2>1. CASE ended
        BY <1>1, <1>2, <1>6, <2>1 DEF T!CouldBe, WithEnd
    <2>2. CASE ~ended
        <3>1. x = Truth /\ y = Append(Truth, FinalKey)
            <4>1. y = Truth \o <<FinalKey>> /\ x = Truth \o <<>>
                BY <1>1, <1>2, <1>6, <2>2 DEF WithEnd
            <4> QED
                BY <1>1, <4>1, AppendIsConcat, ConcatEmptySeq
        <3>2. T!Extends(y, x)
            <4> HIDE DEF x, y
            <4>1. Truth \in Seq(Asked \cup {FinalKey})
                BY <1>1, SeqMonotonic
            <4>2. Len(y) = Len(x) + 1 /\ \A i \in 1..Len(x) : y[i] = x[i]
                BY <3>1, <4>1
            <4>3. Len(x) \in Nat
                BY <1>1, <3>1
            <4> QED
                BY <4>2, <4>3 DEF T!Extends
        <3> QED
            BY <2>2, <3>2 DEF T!CouldBe
    <2> QED
        BY <2>1, <2>2
<1>7. ASSUME Decided = Truth, stopped = None
      PROVE  D.kind = IF ended THEN "aligned" ELSE "unknown_terminal"
    <2>1. ~T!Forked(b) /\ T!HasTerminal(b) /\ T!CouldBe(y, a)
        BY <1>2, <1>6, <1>7 DEF None
    <2> QED
        BY <1>1, <1>5, <2>1
<1>8. /\ Decided \in Seq(Asked) /\ Len(AskedFor) = Len(Decided)
      /\ GivesUpBranch => Len(AskedFor) # 0 /\ AskedFor[Len(AskedFor)] = GivenUp
    BY AskedIs
<1>9. ended \in BOOLEAN /\ x = agent /\ y = model
    BY <1>1, <1>2, <1>4 DEF T!HasTerminal
<1> HIDE DEF ended, agent, model, x, y
<1>10. ASSUME T!Parting(D, agent, model)
       PROVE  /\ n \in Nat /\ Agree
              /\ Differ \/ (n = Len(agent) /\ n < Len(model)) \/ (n = Len(model) /\ n < Len(agent))
    <2>1. Len(agent) \in Nat /\ Len(model) \in Nat
        BY <1>1, <1>4, <1>8, <1>9, EndIsLast DEF agent, model
    <2> QED
        BY <1>10, <2>1 DEF T!Parting
<1>11. ASSUME T!Parting(D, agent, model)
       PROVE  /\ n = Len(agent) => ~ended
              /\ n = Len(model) => stopped # None
    BY <1>1, <1>4, <1>8, <1>9, <1>11, EndedTogether DEF agent, model
<1>12. ASSUME D.kind = "diverged"
       PROVE  Agree /\ Differ /\ ~GivesUpBranch
    <2>1. T!Parting(D, agent, model) /\ ~T!Forked(b)
          /\ (n = Len(agent) => ended) /\ (n = Len(model) => T!HasTerminal(b))
        BY <1>5, <1>9, <1>12 DEF ended
    <2> QED
        BY <1>2, <1>10, <1>11, <2>1 DEF GivesUpBranch
<1>13. ASSUME D.kind = "unresolvable_fork"
       PROVE  Agree /\ GivesUpBranch /\ (Differ \/ TraceStops \/ CutOff)
    <2>1. T!Parting(D, agent, model) /\ GivesUpBranch
        BY <1>1, <1>2, <1>5, <1>9, <1>13 DEF GivesUpBranch
    <2>2. CASE n = Len(agent) /\ n < Len(model)
        BY <1>4, <1>10, <1>11, <2>1, <2>2
    <2>3. CASE n = Len(model) /\ n < Len(agent)
        <3>1. Len(model) = Len(Decided)
            <4> DEFINE over == stopped = None
            <4>1. over = FALSE /\ model = WithEnd(Decided, over)
                BY <2>1 DEF GivesUpBranch, None, model
            <4> HIDE DEF over
            <4>2. model = Decided
                BY <1>8, <4>1, ConcatEmptySeq DEF WithEnd
            <4> QED
                BY <4>2
        <3>2. GivenUp \notin AnswersThere
            BY <2>1, Uncovered DEF ForkIsUncovered
        <3> QED
            BY <1>8, <1>10, <2>1, <2>3, <3>1, <3>2
    <2> QED
        BY <1>10, <2>1, <2>2, <2>3
<1> QED
    BY <1>4, <1>5, <1>7, <1>9, <1>12, <1>13

(* What /api/replay (ui/app.py:94-152) reports with diff_trajectories         *)
(* (diff.py:109-206) is true of the two runs: they decided the same before    *)
(* the place it names and, at a divergence, not the same at it; at a fork the *)
(* agent's trace may stop there, or the model may have been given up on the   *)
(* decision before, for want of a recorded answer in its words. A model that  *)
(* repeats the agent's calls and answers is never said to diverge.            *)
THEOREM VerdictsAreTrue == Spec => []VerdictIsTrue
<1>1. Inv => VerdictIsTrue
    BY VerdictTold
<1> QED
    BY <1>1, Invariant, PTL
==============================================================================
