-------------------------- MODULE ProxiedTraceProofs --------------------------
(* What is proved of the trace a proxy leaves, for any number of lines and    *)
(* any peers, whatever the calls ask for: that a reader finds the client's    *)
(* calls in the order they were made, each once and but for those that are    *)
(* missing, that a recording answers what was asked with the last answer to   *)
(* it, and that a diff speaks of a divergence for no other reason than a      *)
(* missing call.                                                              *)
EXTENDS ProxiedTrace, StdioProxyProofs

------------------------------------------------------------------------------
(* A request that still waits is in no row. Unwritten says so of every span   *)
(* while the proxy runs; a flush that fails leaves the request waiting and    *)
(* its span lost, but the rows as they are.                                   *)

RowsAnswered ==
    \A d \in Dir : \A k \in Waiting(d) :
        \A s \in Contents(rows) : s.dir = d => s.req # pending[d][k]

LEMMA RowsAnsweredStep ==
    ASSUME IInv, TapInv, TapInv', RowsAnswered, [Next]_vars
    PROVE  RowsAnswered'
<1>1. Running' => RowsAnswered'
    BY DEF RowsAnswered, TapInv, TapOK, Unwritten, Written
<1>2. ASSUME rows' = rows, pending' = pending
      PROVE  RowsAnswered'
    BY <1>2 DEF RowsAnswered, Waiting
<1>3. ASSUME ~Running'
      PROVE  rows' = rows /\ pending' = pending
    <2>1. CASE main' = main
        <3>1. ~Running
            BY <1>3, <2>1 DEF Running
        <3> QED
            BY <2>1, <3>1
            DEF Next, Main, GatherReturns, GatherRaises, Flush, FlushFails, FlushReturns,
                WaitReturns, Killed, Ended, vars, tapVars, Running
    <2>2. CASE main' # main
        <3>1. \A d \in Dir : ~Peer(d) /\ ~Transport(d) /\ ~Pump(d)
            BY <2>2
            DEF Peer, PeerSends, PeerReads, PeerCloses, PeerExits, Transport,
                TransportWrites, TransportCloses, Pump, PumpForwards, PumpSuspends,
                PumpResumes, PumpEnds, PumpRaises
        <3> QED
            BY <1>3, <2>2, <3>1
            DEF Next, Main, GatherReturns, GatherRaises, Flush, FlushFails, FlushRaises,
                FlushReturns, WaitReturns, Killed, Ended, vars, tapVars, Running, CloseStore,
                WriteRaisesThenCloses, storeVars
    <2> QED
        BY <2>1, <2>2
<1> QED
    BY <1>1, <1>2, <1>3

(* No request waits while a row has it, whatever ended the session.           *)
(* In every reachable state, no request that waits in _pending has a row      *)
(* (tap.py:69-94).                                                            *)
THEOREM RowsInvariant == Spec => []RowsAnswered
<1>1. Init => RowsAnswered
    BY ContentsEmpty DEF Init, TapInit, StoreInit, RowsAnswered
<1>2. IInv /\ TapInv /\ TapInv' /\ RowsAnswered /\ [Next]_vars => RowsAnswered'
    BY RowsAnsweredStep
<1> QED
    BY <1>1, <1>2, Invariant, TapInvariant, PTL DEF Spec

------------------------------------------------------------------------------
(* The rows of the client's calls: each has its own request.                  *)

CallRows == {s \in Contents(rows) : IsToolCall(s)}

LEMMA CallRow ==
    ASSUME IInv, TapInv, NEW s \in CallRows
    PROVE  /\ s \in SpanType /\ s.dir = C2S /\ SpanOK(s)
           /\ s.req \in 1..seen[C2S] /\ s.req \in Nat \ {0}
           /\ s.req <= Len(sent[C2S])
           /\ sent[C2S][s.req].type = "request"
<1>1. s \in Written /\ s.dir = C2S /\ s.req # 0 /\ sent[s.dir][s.req].type = "request"
    BY DEF CallRows, Written, IsToolCall, IsRequest
<1>2. s \in SpanType /\ SpanOK(s)
    BY <1>1, WrittenTypes DEF TapInv, TapOK, SpansOK, IInv, TypeOK
<1>3. C2S \in Dir /\ seen[C2S] \in Nat /\ seen[C2S] <= Len(sent[C2S]) /\ Len(sent[C2S]) \in Nat
    BY Bounds DEF Dir
<1>4. s.req \in 1..seen[C2S]
    BY <1>1, <1>2 DEF SpanOK
<1> QED
    BY <1>1, <1>2, <1>3, <1>4

AtPlace(s, t, whole) ==
    /\ Len(whole) = Len(s) + Len(t)
    /\ \A i \in 1..Len(s) : whole[i] = s[i]
    /\ \A i \in 1..Len(t) : whole[Len(s) + i] = t[i]

LEMMA Joined ==
    ASSUME NEW S, NEW s \in Seq(S), NEW t \in Seq(S)
    PROVE  AtPlace(s, t, s \o t)
BY DEF AtPlace

LEMMA LogIndex ==
    ASSUME IInv
    PROVE  /\ rows \in Seq(SpanType) /\ txn \in Seq(SpanType) /\ lost \in Seq(SpanType)
           /\ Len(rows) \in Nat /\ Len(txn) \in Nat /\ Len(lost) \in Nat
           /\ Len(Log) = Len(rows) + Len(txn) + Len(lost)
           /\ \A i \in 1..Len(rows) : Log[i] = rows[i]
           /\ \A i \in 1..Len(txn) : Log[Len(rows) + i] = txn[i]
           /\ \A i \in 1..Len(lost) : Log[Len(rows) + Len(txn) + i] = lost[i]
<1>1. rows \in Seq(SpanType) /\ txn \in Seq(SpanType) /\ lost \in Seq(SpanType)
    BY DEF IInv, TypeOK, TapTypeOK
<1> DEFINE first == rows \o txn
<1>2. /\ first \in Seq(SpanType) /\ Len(first) = Len(rows) + Len(txn)
      /\ \A i \in 1..Len(rows) : first[i] = rows[i]
      /\ \A i \in 1..Len(txn) : first[Len(rows) + i] = txn[i]
    BY <1>1
<1> DEFINE all == first \o lost
<1>3. Log = all
    BY DEF Log
<1> HIDE DEF first
<1>4. Len(rows) \in Nat /\ Len(txn) \in Nat /\ Len(lost) \in Nat
    BY <1>1
<1>5. /\ Len(all) = Len(first) + Len(lost)
      /\ \A i \in 1..Len(first) : all[i] = first[i]
      /\ \A i \in 1..Len(lost) : all[Len(first) + i] = lost[i]
    <2>1. first \in Seq(SpanType) /\ lost \in Seq(SpanType)
        BY <1>1, <1>2
    <2>2. AtPlace(first, lost, all)
        BY <2>1, Joined
    <2> QED
        BY <2>2 DEF AtPlace
<1> HIDE DEF all
<1> QED
    BY <1>1, <1>2, <1>3, <1>4, <1>5

LEMMA OneRowEach ==
    ASSUME IInv, TapInv, NEW i \in 1..Len(rows), NEW j \in 1..Len(rows), i # j,
           IsToolCall(rows[i]), IsToolCall(rows[j])
    PROVE  rows[i].req # rows[j].req
<1>1. i \in 1..Len(Log) /\ j \in 1..Len(Log) /\ Log[i] = rows[i] /\ Log[j] = rows[j]
    BY LogIndex
<1> QED
    BY <1>1 DEF TapInv, TapOK, Once, IsToolCall, IsRequest

LEMMA NowhereElse ==
    ASSUME IInv, TapInv, NEW s \in CallRows,
           NEW t \in Contents(txn) \cup Contents(lost), t.dir = C2S
    PROVE  t.req # s.req
<1>1. PICK i \in 1..Len(rows) : s = rows[i]
    BY ContentsMembers DEF CallRows
<1>2. i \in 1..Len(Log) /\ Log[i] = s
    BY <1>1, LogIndex
<1>3. PICK j \in 1..Len(Log) : j # i /\ Log[j] = t
    <2>1. CASE t \in Contents(txn)
        <3>1. PICK k \in 1..Len(txn) : t = txn[k]
            BY <2>1, ContentsMembers
        <3>2. PICK m \in 1..Len(Log) : m = Len(rows) + k /\ m # i
            BY <1>1, <3>1, LogIndex
        <3> QED
            BY <3>1, <3>2, LogIndex
    <2>2. CASE t \in Contents(lost)
        <3>1. PICK k \in 1..Len(lost) : t = lost[k]
            BY <2>2, ContentsMembers
        <3>2. PICK m \in 1..Len(Log) : m = Len(rows) + Len(txn) + k /\ m # i
            BY <1>1, <3>1, LogIndex
        <3> QED
            BY <3>1, <3>2, LogIndex
    <2> QED
        BY <2>1, <2>2
<1> QED
    BY <1>2, <1>3, CallRow DEF TapInv, TapOK, Once

------------------------------------------------------------------------------
(* The calls a reader finds, in the order of the requests.                    *)

Numbers(calls) == [k \in 1..Len(calls) |-> calls[k].req]

LEMMA ToolCallsAre ==
    ASSUME IInv, TapInv
    PROVE  /\ ToolCalls(rows) \in Seq(SpanType)
           /\ Contents(ToolCalls(rows)) = CallRows
           /\ Rising(Numbers(ToolCalls(rows)))
<1> DEFINE key == [k \in 1..Len(rows) |-> rows[k].req]
           o == SpansForTrace(rows)
           S == CallRows
           calls == ToolCalls(rows)
<1>1. rows \in Seq(SpanType) /\ Len(rows) \in Nat
    BY LogIndex
<1>2. key \in [1..Len(rows) -> Nat] /\ \A k \in 1..Len(rows) : key[k] = rows[k].req
    <2>1. \A k \in 1..Len(rows) : rows[k].req \in Nat
        <3>1. \A s \in SpanType : s.req \in Nat
            BY DEF SpanType
        <3> QED
            BY <1>1, <3>1, ElementOfSeq
    <2> QED
        BY <2>1
<1>3. o = OrderedBy(rows, key) /\ calls = Filtered(o, S)
    BY DEF SpansForTrace, ToolCalls, CallRows
<1> HIDE DEF key, o, S, calls
<1>4. o \in Seq(SpanType) /\ Len(o) = Len(rows) /\ Contents(o) = Contents(rows)
      /\ SortedFrom(o, rows, key)
    BY <1>1, <1>2, <1>3, OrderedType, OrderedOrder
<1>5. calls \in Seq(SpanType) /\ Contents(calls) = Contents(o) \cap S /\ InOrderOf(calls, o)
    BY <1>3, <1>4, FilteredType, FilteredOrder
<1>6. Contents(calls) = S
    BY <1>4, <1>5 DEF S, CallRows
<1>7. ASSUME NEW k \in 1..Len(calls), NEW l \in 1..Len(calls), k < l
      PROVE  calls[k].req < calls[l].req
    <2>1. calls[k] \in S /\ calls[l] \in S
        BY <1>6, ContentsMembers
    <2>2. PICK x \in 1..Len(o), y \in 1..Len(o) :
              x < y /\ calls[k] = o[x] /\ calls[l] = o[y]
        BY <1>5, <1>7 DEF InOrderOf
    <2>3. PICK i \in 1..Len(rows), j \in 1..Len(rows) :
              Before(key, i, j) /\ o[x] = rows[i] /\ o[y] = rows[j]
        BY <1>4, <2>2 DEF SortedFrom
    <2>4. i # j /\ IsToolCall(rows[i]) /\ IsToolCall(rows[j])
        <3>1. rows[i] \in S /\ rows[j] \in S
            BY <2>1, <2>2, <2>3
        <3>2. key[i] \in Nat /\ i \in Nat
            BY <1>2
        <3> QED
            BY <2>3, <3>1, <3>2 DEF Before, S, CallRows
    <2>5. rows[i].req # rows[j].req /\ rows[i].req \in Nat /\ rows[j].req \in Nat
        BY <1>2, <2>4, OneRowEach
    <2> QED
        BY <1>2, <2>2, <2>3, <2>5 DEF Before
<1>8. Rising(Numbers(calls))
    <2>1. Len(Numbers(calls)) = Len(calls) /\ \A k \in 1..Len(calls) : Numbers(calls)[k] = calls[k].req
        BY <1>5 DEF Numbers
    <2> QED
        BY <1>7, <2>1 DEF Rising
<1> QED
    BY <1>5, <1>6, <1>8 DEF calls, S

LEMMA FilteredRises ==
    ASSUME NEW p \in Seq(Nat), Rising(p), NEW S
    PROVE  /\ Filtered(p, S) \in Seq(Nat) /\ Rising(Filtered(p, S))
           /\ Contents(Filtered(p, S)) = Contents(p) \cap S
<1> DEFINE f == Filtered(p, S)
<1>1. f \in Seq(Nat) /\ Contents(f) = Contents(p) \cap S /\ InOrderOf(f, p)
    BY FilteredType, FilteredOrder
<1> HIDE DEF f
<1>2. ASSUME NEW k \in 1..Len(f), NEW l \in 1..Len(f), k < l
      PROVE  f[k] < f[l]
    <2>1. PICK i \in 1..Len(p), j \in 1..Len(p) : i < j /\ f[k] = p[i] /\ f[l] = p[j]
        BY <1>1, <1>2 DEF InOrderOf
    <2> QED
        BY <2>1 DEF Rising
<1>3. Rising(f)
    BY <1>2 DEF Rising
<1> QED
    BY <1>1, <1>3 DEF f

(* The calls the tap was shown, and those among them that are not missing.    *)
LEMMA AskedAre ==
    ASSUME IInv
    PROVE  /\ Asked \in Seq(Nat) /\ Rising(Asked)
           /\ Contents(Asked) = {i \in 1..seen[C2S] : sent[C2S][i].type = "request"}
           /\ Kept \in Seq(Nat) /\ Rising(Kept)
           /\ Contents(Kept) = {i \in Contents(Asked) : ~Missing(i)}
<1> DEFINE n == seen[C2S]
           all == [i \in 1..n |-> i]
           A == {i \in 1..n : sent[C2S][i].type = "request"}
           S == {i \in 1..n : ~Missing(i)}
<1>1. n \in Nat
    BY Bounds DEF Dir
<1>2. Asked = Filtered(all, A) /\ Kept = Filtered(Asked, S) /\ A \subseteq 1..n
      /\ S = {i \in 1..n : ~Missing(i)}
    BY DEF Asked, Kept
<1> HIDE DEF n, A, S
<1>3. all \in Seq(Nat) /\ Len(all) = n /\ \A i \in 1..n : all[i] = i
    BY <1>1
<1> HIDE DEF all
<1>4. Rising(all) /\ Contents(all) = 1..n
    BY <1>1, <1>3 DEF Rising, Contents
<1>5. Asked \in Seq(Nat) /\ Rising(Asked) /\ Contents(Asked) = A
    <2>1. Contents(all) \cap A = A
        BY <1>2, <1>4
    <2> QED
        BY <1>2, <1>3, <1>4, <2>1, FilteredRises
<1>6. Kept \in Seq(Nat) /\ Rising(Kept) /\ Contents(Kept) = Contents(Asked) \cap S
    <2> DEFINE p == Asked
    <2>1. p \in Seq(Nat) /\ Rising(p) /\ Kept = Filtered(p, S)
        BY <1>2, <1>5
    <2> HIDE DEF p
    <2>2. Kept \in Seq(Nat) /\ Rising(Kept) /\ Contents(Kept) = Contents(p) \cap S
        BY <2>1, FilteredRises
    <2> QED
        BY <2>2 DEF p
<1>7. Contents(Asked) \cap S = {i \in Contents(Asked) : ~Missing(i)}
    BY <1>2, <1>5
<1> QED
    BY <1>5, <1>6, <1>7 DEF A, n

LEMMA KeptAreFound ==
    ASSUME IInv, TapInv, RowsAnswered, DistinctKeys
    PROVE  Numbers(ToolCalls(rows)) = Kept
<1> DEFINE calls == ToolCalls(rows)
           found == Numbers(calls)
<1>1. calls \in Seq(SpanType) /\ Contents(calls) = CallRows /\ Rising(found)
    BY ToolCallsAre
<1>2. Kept \in Seq(Nat) /\ Rising(Kept)
      /\ Contents(Kept) = {i \in 1..seen[C2S] : sent[C2S][i].type = "request" /\ ~Missing(i)}
    BY AskedAre
<1> HIDE DEF calls
<1>3. found \in Seq(Nat) /\ Contents(found) = {s.req : s \in CallRows}
    <2>1. /\ Len(found) = Len(calls) /\ Len(calls) \in Nat
          /\ \A k \in 1..Len(calls) : found[k] = calls[k].req
        BY <1>1 DEF Numbers
    <2>2. \A k \in 1..Len(calls) : calls[k].req \in Nat
        <3>1. \A s \in SpanType : s.req \in Nat
            BY DEF SpanType
        <3> QED
            BY <1>1, <3>1, ElementOfSeq
    <2>3. found \in Seq(Nat)
        BY <2>1, <2>2 DEF Numbers
    <2>4. Contents(found) = {s.req : s \in Contents(calls)}
        BY <2>1 DEF Contents
    <2> QED
        BY <1>1, <2>3, <2>4
<1>4. ASSUME NEW s \in CallRows
      PROVE  /\ s.req \in 1..seen[C2S] /\ sent[C2S][s.req].type = "request"
             /\ ~Missing(s.req)
    <2>1. s.req \in 1..seen[C2S] /\ sent[C2S][s.req].type = "request" /\ s.dir = C2S
        BY CallRow
    <2>2. ~Waits(C2S, s.req)
        BY <2>1 DEF RowsAnswered, Waits, CallRows, Dir
    <2>3. \A t \in Contents(txn) \cup Contents(lost) : t.dir = C2S => t.req # s.req
        BY NowhereElse
    <2> QED
        BY <2>1, <2>2, <2>3 DEF Missing
<1>5. ASSUME NEW i \in 1..seen[C2S], sent[C2S][i].type = "request", ~Missing(i)
      PROVE  \E s \in CallRows : s.req = i
    <2>1. Recorded(C2S, i)
        BY <1>5 DEF Missing, TapInv, TapOK, Keyed, Accounted, Dir
    <2>2. PICK s \in Written : s.dir = C2S /\ s.req = i
        BY <2>1 DEF Recorded
    <2>3. s \in Contents(rows)
        BY <1>5, <2>2 DEF Missing, Written
    <2>4. i # 0
        BY Bounds DEF Dir
    <2> QED
        BY <1>5, <2>2, <2>3, <2>4 DEF CallRows, IsToolCall, IsRequest
<1>6. Contents(found) = Contents(Kept)
    BY <1>2, <1>3, <1>4, <1>5
<1> HIDE DEF found
<1> QED
    BY <1>1, <1>2, <1>3, <1>6, RisingUnique DEF found, calls

(* The explorer's list counts the rows without sorting them.                  *)
LEMMA CountIs ==
    ASSUME IInv, TapInv
    PROVE  CallCount(rows) = Len(ToolCalls(rows))
<1> DEFINE calls == ToolCalls(rows)
           here == {k \in 1..Len(rows) : IsToolCall(rows[k])}
           plain == Filtered(rows, CallRows)
<1>1. rows \in Seq(SpanType) /\ Len(rows) \in Nat
    BY LogIndex
<1>2. \A k \in 1..Len(rows) : rows[k] \in CallRows <=> IsToolCall(rows[k])
    BY ContentsMembers DEF CallRows
<1>3. PICK p : IsPositions(p, rows, CallRows)
    BY <1>1, FilteredPositions
<1>4. /\ p \in Seq(Nat) /\ Rising(p) /\ Contents(p) = here /\ Len(p) = Len(plain)
      /\ \A k \in 1..Len(p) : plain[k] = rows[p[k]]
    BY <1>2, <1>3 DEF IsPositions
<1>5. NoRepeats(p)
    <2>1. \A i, j \in 1..Len(p) : i # j => i < j \/ j < i
        BY <1>4
    <2>2. \A i \in 1..Len(p) : p[i] \in Nat
        BY <1>4, ElementOfSeq
    <2> QED
        BY <2>1, <2>2, <1>4 DEF Rising, NoRepeats
<1>6. Cardinality(here) = Len(plain)
    BY <1>4, <1>5, CountsElements
<1>7. plain \in Seq(SpanType) /\ Contents(plain) = CallRows
    <2>1. CallRows \subseteq Contents(rows)
        BY DEF CallRows
    <2>2. plain \in Seq(SpanType) /\ Contents(plain) = Contents(rows) \cap CallRows
        BY <1>1, FilteredType
    <2> QED
        BY <2>1, <2>2
<1>8. NoRepeats(plain)
    <2> HIDE DEF plain, here
    <2>1. ASSUME NEW k \in 1..Len(plain), NEW l \in 1..Len(plain), k # l
          PROVE  plain[k] # plain[l]
        <3>1. p[k] \in 1..Len(rows) /\ p[l] \in 1..Len(rows) /\ p[k] # p[l]
            <4>1. p[k] \in here /\ p[l] \in here
                BY <1>4, <2>1, ContentsMembers
            <4> QED
                BY <1>4, <1>5, <2>1, <4>1 DEF NoRepeats, here
        <3>2. IsToolCall(rows[p[k]]) /\ IsToolCall(rows[p[l]])
            BY <1>2, <1>4, <1>7, <2>1, <3>1, ContentsMembers
        <3>3. rows[p[k]].req # rows[p[l]].req
            BY <3>1, <3>2, OneRowEach
        <3> QED
            BY <1>4, <2>1, <3>3
    <2> QED
        BY <2>1 DEF NoRepeats
<1>9. calls \in Seq(SpanType) /\ Contents(calls) = CallRows /\ Rising(Numbers(calls))
    BY ToolCallsAre
<1> HIDE DEF calls, plain
<1>10. NoRepeats(calls)
    <2>1. Len(Numbers(calls)) = Len(calls) /\ \A k \in 1..Len(calls) : Numbers(calls)[k] = calls[k].req
        BY <1>9 DEF Numbers
    <2>2. \A k \in 1..Len(calls) : calls[k].req \in Nat
        <3>1. \A s \in SpanType : s.req \in Nat
            BY DEF SpanType
        <3> QED
            BY <1>9, <3>1, ElementOfSeq
    <2>3. \A k, l \in 1..Len(calls) : k # l => k < l \/ l < k
        BY <1>9
    <2> QED
        BY <1>9, <2>1, <2>2, <2>3 DEF Rising, NoRepeats
<1>11. Cardinality(CallRows) = Len(plain) /\ Cardinality(CallRows) = Len(calls)
    BY <1>7, <1>8, <1>9, <1>10, CountsElements
<1> QED
    BY <1>6, <1>11 DEF CallCount, here, calls

(* The calls that were answered, in the order they were made: those whose row *)
(* has a response that is no error.                                           *)
Answered(errors) ==
    Filtered(ToolCalls(rows), {s \in Contents(rows) : s.resp # 0 /\ s.resp \notin errors})

LEMMA AnsweredAre ==
    ASSUME IInv, TapInv, NEW errors
    PROVE  /\ Answered(errors) \in Seq(SpanType) /\ Len(Answered(errors)) \in Nat
           /\ Contents(Answered(errors)) =
                 {s \in CallRows : s.resp # 0 /\ s.resp \notin errors}
           /\ \A k, l \in 1..Len(Answered(errors)) :
                 k < l => Answered(errors)[k].req < Answered(errors)[l].req
<1> DEFINE calls == ToolCalls(rows)
           S == {s \in Contents(rows) : s.resp # 0 /\ s.resp \notin errors}
           answered == Filtered(calls, S)
<1>1. calls \in Seq(SpanType) /\ Contents(calls) = CallRows /\ Rising(Numbers(calls))
    BY ToolCallsAre
<1>2. Answered(errors) = answered
    BY DEF Answered
<1> HIDE DEF calls
<1>3. /\ answered \in Seq(SpanType) /\ Contents(answered) = Contents(calls) \cap S
      /\ InOrderOf(answered, calls)
    BY <1>1, FilteredType, FilteredOrder
<1>4. Contents(calls) \cap S = {s \in CallRows : s.resp # 0 /\ s.resp \notin errors}
    BY <1>1 DEF CallRows
<1> HIDE DEF S, answered
<1>5. Len(calls) \in Nat /\ Len(answered) \in Nat
    BY <1>1, <1>3
<1>6. ASSUME NEW k \in 1..Len(answered), NEW l \in 1..Len(answered), k < l
      PROVE  answered[k].req < answered[l].req
    <2>1. PICK x \in 1..Len(calls), y \in 1..Len(calls) :
              x < y /\ answered[k] = calls[x] /\ answered[l] = calls[y]
        BY <1>3, <1>6 DEF InOrderOf
    <2>2. /\ Len(Numbers(calls)) = Len(calls)
          /\ \A m \in 1..Len(calls) : Numbers(calls)[m] = calls[m].req
        BY <1>5 DEF Numbers
    <2> QED
        BY <1>1, <2>1, <2>2 DEF Rising
<1> QED
    BY <1>2, <1>3, <1>4, <1>5, <1>6

(* The rows of answered calls are those of the calls a reader finds whose     *)
(* answer the tap was shown, and each has that answer.                        *)
LEMMA AnsweredRows ==
    ASSUME IInv, TapInv, RowsAnswered, DistinctKeys, NEW errors,
           NEW s \in CallRows, s.resp # 0, s.resp \notin errors
    PROVE  /\ s.req \in Contents(Kept) /\ AnsweredWell(s.req, errors)
           /\ sent[S2C][s.resp].re = s.req
<1>1. s \in SpanType /\ s.dir = C2S /\ SpanOK(s) /\ s.req # 0
    BY CallRow
<1>2. /\ s.resp \in 1..seen[S2C] /\ sent[S2C][s.resp].type = "response"
      /\ sent[S2C][s.resp].re = s.req
    <2>1. sent[Opposite(s.dir)][s.resp].re = s.req
        BY <1>1, PairIsTrue DEF TapInv
    <2> QED
        BY <1>1, <2>1 DEF SpanOK, Opposite
<1>3. s.req \in Contents(Kept)
    <2> DEFINE calls == ToolCalls(rows)
    <2>1. calls \in Seq(SpanType) /\ Contents(calls) = CallRows /\ Numbers(calls) = Kept
        BY ToolCallsAre, KeptAreFound
    <2> HIDE DEF calls
    <2>2. Len(calls) \in Nat
        BY <2>1
    <2>3. PICK k \in 1..Len(calls) : s = calls[k]
        BY <2>1, ContentsMembers
    <2>4. k \in 1..Len(Kept) /\ Kept[k] = s.req
        BY <2>1, <2>2, <2>3 DEF Numbers
    <2> QED
        BY <2>4, ContentsMembers
<1> QED
    BY <1>2, <1>3 DEF AnsweredWell

LEMMA GoodHaveRows ==
    ASSUME IInv, TapInv, DistinctKeys, NEW errors,
           NEW i \in Contents(Kept), AnsweredWell(i, errors)
    PROVE  \E s \in CallRows : s.req = i /\ s.resp # 0 /\ s.resp \notin errors
<1>1. i \in 1..seen[C2S] /\ sent[C2S][i].type = "request" /\ ~Missing(i)
    BY AskedAre
<1>2. PICK j \in 1..seen[S2C] :
          sent[S2C][j].type = "response" /\ sent[S2C][j].re = i /\ j \notin errors
    BY DEF AnsweredWell
<1>3. Accounted /\ AnsweredPaired
    BY DEF TapInv, TapOK, Keyed
<1>4. PICK s \in Written : s.dir = C2S /\ s.resp = j
    BY <1>2, <1>3 DEF Accounted, Dir, Opposite
<1>5. i # 0 /\ j # 0
    BY <1>1, <1>2, Bounds DEF Dir
<1>6. s.req = i
    BY <1>1, <1>2, <1>3, <1>4, <1>5 DEF AnsweredPaired, Opposite
<1>7. s \in Contents(rows)
    BY <1>1, <1>4, <1>6 DEF Missing, Written
<1> QED
    BY <1>1, <1>2, <1>4, <1>5, <1>6, <1>7 DEF CallRows, IsToolCall, IsRequest

LEMMA GreatestIndex ==
    ASSUME NEW n \in Nat, NEW T \in SUBSET (1..n), T # {}
    PROVE  \E m \in T : \A k \in T : k <= m
<1> DEFINE U == {n - k : k \in T}
<1>1. U \in SUBSET Nat /\ U # {}
    <2>1. \A k \in T : n - k \in Nat
        OBVIOUS
    <2>2. PICK k : k \in T
        OBVIOUS
    <2>3. n - k \in U
        BY <2>2
    <2> QED
        BY <2>1, <2>3
<1>2. PICK u \in U : \A v \in U : u <= v
    <2> HIDE DEF U
    <2> QED
        BY <1>1, LeastElement
<1>3. PICK m \in T : u = n - m
    BY <1>2
<1>4. \A k \in T : n - m <= n - k
    BY <1>2, <1>3
<1> QED
    BY <1>3, <1>4

(* What was asked for more than once is answered with what came last.         *)
LEMMA LastAnswerWins ==
    ASSUME IInv, TapInv, RowsAnswered, DistinctKeys, NEW ask, NEW errors
    PROVE  LastAnswerKept(ask, errors)
<1> DEFINE rec == RecordingFrom(rows, ask, errors)
           good == {i \in Contents(Kept) : AnsweredWell(i, errors)}
           answered == Answered(errors)
           Latest(call, k) == ask[answered[k].req] = call /\ IsLatest(k, answered, ask)
           latest(call) == CHOOSE k \in 1..Len(answered) : Latest(call, k)
<1>1. /\ answered \in Seq(SpanType) /\ Len(answered) \in Nat
      /\ Contents(answered) = {s \in CallRows : s.resp # 0 /\ s.resp \notin errors}
      /\ \A k, l \in 1..Len(answered) : k < l => answered[k].req < answered[l].req
    BY AnsweredAre
<1>2. rec = [call \in {ask[answered[k].req] : k \in 1..Len(answered)} |->
                answered[latest(call)].resp]
    BY DEF RecordingFrom, Answered
<1>3. ASSUME NEW k \in 1..Len(answered)
      PROVE  /\ answered[k].req \in good /\ answered[k].req \in Nat
             /\ sent[S2C][answered[k].resp].re = answered[k].req
             /\ answered[k].resp \notin errors
    <2>1. answered[k] \in CallRows /\ answered[k].resp # 0 /\ answered[k].resp \notin errors
        BY <1>1, ContentsMembers
    <2> QED
        BY <2>1, AnsweredRows, CallRow
<1>4. ASSUME NEW i \in good
      PROVE  \E k \in 1..Len(answered) : answered[k].req = i
    <2>1. PICK s \in CallRows : s.req = i /\ s.resp # 0 /\ s.resp \notin errors
        BY GoodHaveRows
    <2>2. s \in Contents(answered)
        BY <1>1, <2>1
    <2> QED
        BY <2>1, <2>2, ContentsMembers
<1> HIDE DEF answered, good, rec
<1>5. DOMAIN rec = {ask[answered[k].req] : k \in 1..Len(answered)}
    BY <1>2
<1>6. DOMAIN rec = {ask[i] : i \in good}
    BY <1>3, <1>4, <1>5
<1>7. ASSUME NEW call \in DOMAIN rec
      PROVE  \E i \in good : /\ ask[i] = call /\ sent[S2C][rec[call]].re = i
                             /\ rec[call] \notin errors
                             /\ \A j \in good : ask[j] = call => j <= i
    <2> DEFINE places == {k \in 1..Len(answered) : ask[answered[k].req] = call}
               m == latest(call)
    <2>1. PICK last \in places : \A k \in places : k <= last
        <3>1. places \in SUBSET (1..Len(answered)) /\ places # {}
            BY <1>5, <1>7
        <3> HIDE DEF places
        <3> QED
            BY <1>1, <3>1, GreatestIndex
    <2>2. Latest(call, last)
        <3>1. \A l \in last + 1 .. Len(answered) : l \in 1..Len(answered) /\ ~(l <= last)
            BY <1>1, <2>1
        <3>2. \A l \in last + 1 .. Len(answered) : ask[answered[l].req] # call
            BY <2>1, <3>1
        <3> QED
            BY <2>1, <3>2 DEF IsLatest
    <2>3. m \in 1..Len(answered) /\ Latest(call, m)
        <3> HIDE DEF Latest
        <3> QED
            BY <2>1, <2>2
    <2>4. rec[call] = answered[m].resp
        BY <1>2, <1>5, <1>7
    <2> HIDE DEF m
    <2>5. ASSUME NEW j \in good, ask[j] = call
          PROVE  j <= answered[m].req
        <3>1. PICK l \in 1..Len(answered) : answered[l].req = j
            BY <1>4
        <3>2. ~(l > m)
            <4>1. l > m => l \in m + 1 .. Len(answered)
                BY <1>1, <2>3, <3>1
            <4> QED
                BY <2>3, <2>5, <3>1, <4>1 DEF IsLatest
        <3> QED
            BY <1>1, <1>3, <2>3, <3>1, <3>2
    <2> QED
        BY <1>3, <2>3, <2>4, <2>5
<1> QED
    BY <1>6, <1>7 DEF LastAnswerKept, rec, good

LEMMA CapturedReads ==
    ASSUME IInv, TapInv, NEW ask, Numbers(ToolCalls(rows)) = Kept
    PROVE  LET captured == ProxiedTrajectory(rows, ask).steps
           IN  /\ captured = [k \in 1..Len(Kept) |-> CallDecision(ask[Kept[k]])]
               /\ [k \in 1..Len(captured) |-> captured[k].key]
                      = [k \in 1..Len(Kept) |-> ask[Kept[k]]]
               /\ Len(captured) = Len(ToolCalls(rows))
<1> DEFINE calls == ToolCalls(rows)
           captured == ProxiedTrajectory(rows, ask).steps
<1>1. Len(calls) \in Nat /\ Numbers(calls) = Kept
    BY ToolCallsAre
<1>2. captured = [k \in 1..Len(calls) |-> CallDecision(ask[calls[k].req])]
    BY DEF ProxiedTrajectory
<1> HIDE DEF calls, captured
<1>3. Len(Kept) = Len(calls) /\ \A k \in 1..Len(calls) : Kept[k] = calls[k].req
    BY <1>1 DEF Numbers
<1>4. captured = [k \in 1..Len(Kept) |-> CallDecision(ask[Kept[k]])]
    BY <1>2, <1>3
<1>5. Len(captured) = Len(Kept)
      /\ \A k \in 1..Len(Kept) : captured[k] = CallDecision(ask[Kept[k]])
    BY <1>1, <1>3, <1>4
<1>6. \A k \in 1..Len(Kept) : captured[k].key = ask[Kept[k]]
    <2>1. \A i : CallDecision(i).key = i
        BY DEF CallDecision
    <2> QED
        BY <1>5, <2>1
<1>7. [k \in 1..Len(captured) |-> captured[k].key] = [k \in 1..Len(Kept) |-> ask[Kept[k]]]
    BY <1>5, <1>6
<1> QED
    BY <1>3, <1>4, <1>5, <1>7 DEF calls, captured

(* captured_trajectory, list_traces and from_trace_store find in a proxy      *)
(* trace, at any moment, the client's calls in the order they were made, each *)
(* once, but for those that wait for an answer or could not be written; and a *)
(* recording answers what they asked for and got an answer to, with the       *)
(* server's answer to the last call that asked for it (capture.py:57-110,     *)
(* sqlite.py:106-149, recording.py:37-38,62-71).                              *)
THEOREM CapturesAsAsked == Spec => [](DistinctKeys => CapturedAsAsked)
<1>1. ASSUME IInv, TapInv, RowsAnswered, DistinctKeys
      PROVE  CapturedAsAsked
    <2>1. Numbers(ToolCalls(rows)) = Kept
        BY <1>1, KeptAreFound
    <2>2. CallCount(rows) = Len(ToolCalls(rows))
        BY <1>1, CountIs
    <2>3. \A ask : CallsInOrder(ask)
        BY <1>1, <2>1, <2>2, CapturedReads DEF CallsInOrder
    <2>4. \A ask, errors : LastAnswerKept(ask, errors)
        BY <1>1, LastAnswerWins
    <2> QED
        BY <2>3, <2>4 DEF CapturedAsAsked
<1> QED
    BY <1>1, Invariant, TapInvariant, RowsInvariant, PTL

------------------------------------------------------------------------------
(* Two rising lists of numbers, one the other less the numbers in M: they     *)
(* first differ, where both have an element, exactly if a number in M comes   *)
(* before one that is not.                                                    *)

Gap(all, M) == \E i, j \in Contents(all) : i < j /\ i \in M /\ j \notin M

LessThose(all, kept, M) ==
    /\ all \in Seq(Nat) /\ Rising(all)
    /\ kept \in Seq(Nat) /\ Rising(kept)
    /\ Contents(kept) = {i \in Contents(all) : i \notin M}

LEMMA Places ==
    ASSUME NEW all, NEW kept, NEW M, LessThose(all, kept, M)
    PROVE  /\ Len(all) \in Nat /\ Len(kept) \in Nat
           /\ \A i \in 1..Len(all) : all[i] \in Nat /\ all[i] \in Contents(all)
           /\ \A i \in 1..Len(kept) : kept[i] \in Nat /\ kept[i] \notin M
           /\ \A i \in 1..Len(kept) : \E q \in 1..Len(all) : kept[i] = all[q]
           /\ \A i \in 1..Len(all) :
                 all[i] \notin M => \E q \in 1..Len(kept) : kept[q] = all[i]
<1>1. all \in Seq(Nat) /\ kept \in Seq(Nat)
    BY DEF LessThose
<1>2. /\ Len(all) \in Nat /\ \A i \in 1..Len(all) : all[i] \in Nat
      /\ Len(kept) \in Nat /\ \A i \in 1..Len(kept) : kept[i] \in Nat
    BY <1>1, ElementOfSeq
<1>3. \A x : x \in Contents(kept) <=> x \in Contents(all) /\ x \notin M
    BY DEF LessThose
<1> QED
    BY <1>2, <1>3, ContentsMembers

LEMMA PartAtGap ==
    ASSUME NEW all, NEW kept, NEW M, LessThose(all, kept, M),
           NEW f \in Nat, f \in 1..Len(kept), f \in 1..Len(all), kept[f] # all[f],
           \A j \in 1 .. f - 1 : kept[j] = all[j]
    PROVE  Gap(all, M)
<1>1. Rising(all) /\ Rising(kept)
    BY DEF LessThose
<1>2. PICK q \in 1..Len(all) : kept[f] = all[q]
    BY Places
<1>3. q > f
    <2>1. ASSUME q < f PROVE FALSE
        <3>1. q \in 1 .. f - 1 /\ q \in 1..Len(kept)
            BY <2>1, Places
        <3>2. kept[q] = kept[f] /\ kept[q] < kept[f] /\ kept[f] \in Nat
            BY <1>1, <1>2, <2>1, <3>1, Places DEF Rising
        <3> QED
            BY <3>2
    <2> QED
        BY <1>2, <2>1
<1>4. all[f] < kept[f] /\ all[f] \in Nat /\ kept[f] \in Nat
    BY <1>1, <1>2, <1>3, Places DEF Rising
<1>5. all[f] \in M
    <2> SUFFICES ASSUME all[f] \notin M PROVE FALSE
        OBVIOUS
    <2>1. PICK r \in 1..Len(kept) : kept[r] = all[f]
        BY Places
    <2>2. r < f
        <3>1. ASSUME f < r PROVE FALSE
            BY <1>1, <1>4, <2>1, <3>1 DEF Rising
        <3> QED
            BY <2>1, <3>1
    <2>3. r \in 1 .. f - 1 /\ r \in 1..Len(all)
        BY <2>2, Places
    <2>4. all[r] = all[f] /\ all[r] < all[f]
        BY <1>1, <2>1, <2>2, <2>3 DEF Rising
    <2> QED
        BY <1>4, <2>4
<1>6. all[f] \in Contents(all) /\ kept[f] \in Contents(all) /\ kept[f] \notin M
    BY <1>2, Places
<1> QED
    BY <1>4, <1>5, <1>6 DEF Gap

LEMMA GapParts ==
    ASSUME NEW all, NEW kept, NEW M, LessThose(all, kept, M), Gap(all, M)
    PROVE  \E p \in Nat : p \in 1..Len(kept) /\ p \in 1..Len(all) /\ kept[p] # all[p]
<1> SUFFICES ASSUME \A p \in Nat : p \in 1..Len(kept) /\ p \in 1..Len(all) => kept[p] = all[p]
             PROVE  FALSE
    OBVIOUS
<1>1. PICK x \in 1..Len(all), y \in 1..Len(all) :
          all[x] < all[y] /\ all[x] \in M /\ all[y] \notin M
    BY ContentsMembers DEF Gap
<1>2. PICK p \in 1..Len(kept) : kept[p] = all[y]
    BY <1>1, Places
<1>3. x \in 1..Len(kept)
    <2>1. CASE p \in 1..Len(all)
        <3>1. all[p] = all[y]
            BY <1>2, <2>1
        <3>2. ~(p < y) /\ ~(y < p)
            BY <2>1, <3>1, Places DEF LessThose, Rising
        <3>3. ~(y < x)
            BY <1>1, Places DEF LessThose, Rising
        <3> QED
            BY <2>1, <3>2, <3>3, Places
    <2>2. CASE p \notin 1..Len(all)
        BY <2>2, Places
    <2> QED
        BY <2>1, <2>2
<1>4. kept[x] = all[x]
    BY <1>3
<1> QED
    BY <1>1, <1>3, <1>4, Places

------------------------------------------------------------------------------
(* The theorems about the diff, for the two trajectories compared here.       *)

T == INSTANCE TrajectoryDiffProofs WITH
    Keys <- 1..MaxSent[C2S], FinalKey <- 0, NoKey <- -1, NoIndex <- -1,
    MaxSteps <- MaxSent[C2S], traj <- <<>>

LEMMA DiffAssumption == T!DiffAssumption
BY ProxyAssumption DEF T!DiffAssumption, Dir

LEMMA SameDiff ==
    ASSUME NEW a, NEW b
    PROVE  Diffs!Diff(a, b) = T!Diff(a, b)
<1>1. \A t : Diffs!Decisions(t) = T!Decisions(t) /\ Diffs!HasTerminal(t) = T!HasTerminal(t)
    <2>1. \A t : Diffs!Decisions(t) = T!Decisions(t)
        BY DEF Diffs!Decisions, T!Decisions, Diffs!DecisionsUpTo, T!DecisionsUpTo,
               Diffs!IsDecision, T!IsDecision
    <2> QED
        BY <2>1 DEF Diffs!HasTerminal, T!HasTerminal
<1>2. \A t, n : Diffs!DecisionsUpTo(t, n) = T!DecisionsUpTo(t, n)
    BY DEF Diffs!DecisionsUpTo, T!DecisionsUpTo, Diffs!IsDecision, T!IsDecision
<1>3. \A da, db : Diffs!Conflicts(da, db) = T!Conflicts(da, db)
    BY DEF Diffs!Conflicts, T!Conflicts, Diffs!KeyAt, T!KeyAt, Diffs!Longest, T!Longest
<1>4. \A da, db : Diffs!FirstConflict(da, db) = T!FirstConflict(da, db)
    BY <1>3 DEF Diffs!FirstConflict, T!FirstConflict
<1>5. \A i, da, db, x, y : Diffs!RanOut(i, da, db, x, y) = T!RanOut(i, da, db, x, y)
    BY DEF Diffs!RanOut, T!RanOut
<1>6. \A i : Diffs!RedactionInPlay(a, b, i) = T!RedactionInPlay(a, b, i)
    <2>1. \A t, i : Diffs!StepsThrough(t, i) = T!StepsThrough(t, i)
        BY <1>2 DEF Diffs!StepsThrough, T!StepsThrough
    <2> QED
        BY <2>1 DEF Diffs!RedactionInPlay, T!RedactionInPlay, Diffs!TokenThrough, T!TokenThrough
<1>7. \A kind, first, until, suspect :
          Diffs!Verdict(kind, first, until, suspect) = T!Verdict(kind, first, until, suspect)
    BY DEF Diffs!Verdict, T!Verdict
<1>8. \A i : Diffs!ConflictVerdict(a, b, i) = T!ConflictVerdict(a, b, i)
    BY <1>1, <1>5, <1>6, <1>7
    DEF Diffs!ConflictVerdict, T!ConflictVerdict, Diffs!Forked, T!Forked
<1>9. Diffs!MatchVerdict(a, b) = T!MatchVerdict(a, b)
    BY <1>1, <1>7 DEF Diffs!MatchVerdict, T!MatchVerdict
<1> QED
    BY <1>1, <1>3, <1>4, <1>8, <1>9 DEF Diffs!Diff, T!Diff

(* A trajectory of calls alone: every step is a decision, and none the last.  *)
OfCalls(t, p) == t = [steps |-> [k \in 1..Len(p) |-> CallDecision(p[k])], stopped |-> "none"]

LEMMA CallsAlone ==
    ASSUME NEW p \in Seq(1..MaxSent[C2S]), NEW t, OfCalls(t, p)
    PROVE  /\ t \in T!Trajectory /\ ~T!HasTerminal(t) /\ ~T!Forked(t)
           /\ T!Decisions(t) \in Seq(T!Decision) /\ Len(T!Decisions(t)) = Len(p)
           /\ \A k \in 1..Len(p) : T!Decisions(t)[k].key = p[k]
<1> DEFINE seq == [k \in 1..Len(p) |-> CallDecision(p[k])]
           S == T!Decision
<1>1. Len(p) \in Nat /\ \A k \in 1..Len(p) : p[k] \in 1..MaxSent[C2S]
    <2> DEFINE K == 1..MaxSent[C2S]
    <2>1. p \in Seq(K)
        OBVIOUS
    <2> HIDE DEF K
    <2>2. Len(p) \in Nat /\ \A k \in 1..Len(p) : p[k] \in K
        BY <2>1, ElementOfSeq
    <2> QED
        BY <2>2 DEF K
<1>2. \A i \in 1..MaxSent[C2S] :
          /\ CallDecision(i) \in S /\ CallDecision(i).key = i
          /\ CallDecision(i).kind = "tool_call"
    <2>1. \A i : CallDecision(i) = T!CallStep(i, FALSE) /\ CallDecision(i).key = i
                 /\ CallDecision(i).kind = "tool_call"
        BY DEF CallDecision, T!CallStep
    <2>2. \A i \in 1..MaxSent[C2S], token \in BOOLEAN : T!CallStep(i, token) \in T!Decision
        BY DEF T!Decision
    <2>3. FALSE \in BOOLEAN
        OBVIOUS
    <2> QED
        BY <2>1, <2>2, <2>3
<1>3. S \subseteq T!StepType
    BY DEF T!Decision, T!StepType
<1> HIDE DEF S
<1>4. seq \in Seq(S) /\ Len(seq) = Len(p)
      /\ \A k \in 1..Len(p) : seq[k].key = p[k] /\ seq[k].kind = "tool_call" /\ seq[k] \in S
    BY <1>1, <1>2
<1>5. t.steps = seq /\ t.stopped = "none" /\ t = [steps |-> seq, stopped |-> "none"]
    BY DEF OfCalls
<1> HIDE DEF seq
<1>6. t \in T!Trajectory /\ ~T!Forked(t)
    <2>1. seq \in Seq(T!StepType)
        BY <1>1, <1>3, <1>4
    <2> QED
        BY <1>5, <2>1 DEF T!Trajectory, T!StoppedReason, T!None, T!Forked
<1>7. T!Decisions(t) = seq
    <2>1. \A i \in 1..Len(seq) : seq[i] \in S <=> T!IsDecision(seq[i])
        BY <1>4 DEF T!IsDecision
    <2>2. T!Decisions(t) = T!Filtered(seq, S)
        BY <1>1, <1>4, <1>5, <2>1, T!DecisionsFiltered, DiffAssumption
    <2>3. Contents(seq) \subseteq S
        BY <1>4, ContentsMembers
    <2>4. Filtered(seq, S) = seq
        BY <1>4, <2>3, FilteredAll
    <2> QED
        BY <2>2, <2>4 DEF Filtered, T!Filtered
<1>8. ~T!HasTerminal(t)
    <2>1. seq # <<>> => Len(seq) \in 1..Len(seq)
        BY <1>4, EmptySeq
    <2>2. seq # <<>> => seq[Len(seq)].kind = "tool_call"
        BY <1>4, <2>1
    <2> QED
        BY <1>7, <2>2 DEF T!HasTerminal
<1> QED
    BY <1>1, <1>4, <1>6, <1>7, <1>8 DEF S

(* What the numbered calls ask for.                                           *)
Values(ask, p) == [k \in 1..Len(p) |-> ask[p[k]]]

LEMMA ValuesType ==
    ASSUME NEW ask \in Asks, NEW p \in Seq(1..MaxSent[C2S])
    PROVE  /\ Values(ask, p) \in Seq(1..MaxSent[C2S]) /\ Len(Values(ask, p)) = Len(p)
           /\ \A k \in 1..Len(p) : Values(ask, p)[k] = ask[p[k]] /\ p[k] \in 1..MaxSent[C2S]
<1> DEFINE K == 1..MaxSent[C2S]
<1>1. p \in Seq(K) /\ ask \in [K -> K]
    BY DEF Asks
<1> HIDE DEF K
<1>2. Len(p) \in Nat /\ \A k \in 1..Len(p) : p[k] \in K
    BY <1>1, ElementOfSeq
<1>3. /\ Values(ask, p) \in Seq(K) /\ Len(Values(ask, p)) = Len(p)
      /\ \A k \in 1..Len(p) : Values(ask, p)[k] = ask[p[k]]
    BY <1>1, <1>2 DEF Values
<1> QED
    BY <1>2, <1>3 DEF K

LEMMA Verdicts ==
    ASSUME NEW kept \in Seq(1..MaxSent[C2S]), NEW all \in Seq(1..MaxSent[C2S]),
           NEW ask \in Asks, NEW a, OfCalls(a, Values(ask, kept)),
           NEW b, OfCalls(b, Values(ask, all)), NEW M, LessThose(all, kept, M)
    PROVE  /\ T!Diff(a, b).kind = "diverged" => Gap(all, M)
           /\ Gap(all, M) /\ T!Diff(a, b).kind # "diverged" =>
                 \E i, j \in Contents(all) : i # j /\ ask[i] = ask[j]
           /\ T!Diff(a, b).kind \in {"diverged", "unknown_terminal"}
           /\ Contents(all) \cap M = {} =>
                 /\ T!Diff(a, b).kind = "unknown_terminal"
                 /\ T!Diff(a, b).until = Len(all)
<1> DEFINE da == T!Decisions(a)
           db == T!Decisions(b)
           d == T!Diff(a, b)
           ka == Values(ask, kept)
           kb == Values(ask, all)
<1>0. /\ ka \in Seq(1..MaxSent[C2S]) /\ Len(ka) = Len(kept)
      /\ \A k \in 1..Len(kept) : ka[k] = ask[kept[k]]
      /\ kb \in Seq(1..MaxSent[C2S]) /\ Len(kb) = Len(all)
      /\ \A k \in 1..Len(all) : kb[k] = ask[all[k]]
    BY ValuesType
<1>b. OfCalls(a, ka) /\ OfCalls(b, kb)
    OBVIOUS
<1> HIDE DEF ka, kb
<1>1. /\ a \in T!Trajectory /\ ~T!HasTerminal(a) /\ ~T!Forked(a)
      /\ b \in T!Trajectory /\ ~T!HasTerminal(b) /\ ~T!Forked(b)
      /\ da \in Seq(T!Decision) /\ Len(da) = Len(kept)
      /\ db \in Seq(T!Decision) /\ Len(db) = Len(all)
      /\ \A k \in 1..Len(kept) : da[k].key = ka[k]
      /\ \A k \in 1..Len(all) : db[k].key = kb[k]
    BY <1>0, <1>b, CallsAlone
<1>2. Len(kept) \in Nat /\ Len(all) \in Nat
    BY Places
<1>3. T!Match(a, b) => d.kind = "unknown_terminal" /\ d.until = Len(da)
    BY <1>1, T!MatchKind, DiffAssumption
<1>4. T!Match(a, b) <=> Len(kept) = Len(all) /\ \A i \in 1..Len(kept) : ka[i] = kb[i]
    <2>1. T!Conflicts(da, db) = {} <=>
              Len(da) = Len(db) /\ \A i \in 1..Len(da) : da[i].key = db[i].key
        BY <1>1, T!NoConflict, DiffAssumption
    <2> HIDE DEF da, db
    <2>2. T!Conflicts(da, db) = {} <=>
              Len(kept) = Len(all) /\ \A i \in 1..Len(kept) : ka[i] = kb[i]
        BY <1>1, <2>1
    <2> QED
        BY <2>2 DEF T!Match, da, db
<1>5. ASSUME NEW i, T!PartAt(a, b, i)
      PROVE  /\ i \in Nat \ {0}
             /\ d.kind \in {"diverged", "unknown_terminal"}
             /\ d.kind = "diverged" <=> i <= Len(kept) /\ i <= Len(all)
             /\ i <= Len(kept) /\ i <= Len(all) => ka[i] # kb[i]
             /\ \A j \in 1 .. i - 1 : j <= Len(kept) /\ j <= Len(all) => ka[j] = kb[j]
    <2>1. i \in Nat \ {0} /\ T!KeyAt(da, i) # T!KeyAt(db, i)
          /\ \A j \in 1 .. i - 1 : T!KeyAt(da, j) = T!KeyAt(db, j)
        BY <1>5 DEF T!PartAt
    <2>2. /\ T!RanOut(i, da, db, T!HasTerminal(a), T!HasTerminal(b)) => d.kind = "unknown_terminal"
          /\ ~T!RanOut(i, da, db, T!HasTerminal(a), T!HasTerminal(b)) => d.kind = "diverged"
        BY <1>1, <1>5, T!ConflictKind, DiffAssumption
    <2> HIDE DEF da, db, d
    <2>3. T!RanOut(i, da, db, T!HasTerminal(a), T!HasTerminal(b)) <=> i > Len(kept) \/ i > Len(all)
        BY <1>1 DEF T!RanOut
    <2>4. \A j \in Nat \ {0} : j <= Len(kept) /\ j <= Len(all) =>
              T!KeyAt(da, j) = ka[j] /\ T!KeyAt(db, j) = kb[j]
        BY <1>1, <1>2 DEF T!KeyAt
    <2> QED
        BY <1>2, <2>1, <2>2, <2>3, <2>4
<1>6. T!Match(a, b) \/ \E i : T!PartAt(a, b, i)
    BY <1>1, T!PartOrMatch, DiffAssumption
<1> HIDE DEF da, db, d
<1>7. ASSUME d.kind = "diverged"
      PROVE  Gap(all, M)
    <2> DEFINE P == {i \in Nat : i \in 1..Len(kept) /\ i \in 1..Len(all) /\ kept[i] # all[i]}
    <2>1. PICK i : T!PartAt(a, b, i)
        BY <1>3, <1>6, <1>7
    <2>2. i \in Nat /\ i \in 1..Len(kept) /\ i \in 1..Len(all) /\ ka[i] # kb[i]
        BY <1>2, <1>5, <1>7, <2>1
    <2>3. i \in P
        BY <1>0, <2>2
    <2>4. PICK f \in P : \A k \in P : f <= k
        <3>1. P \in SUBSET Nat /\ P # {}
            BY <2>3
        <3> HIDE DEF P
        <3> QED
            BY <3>1, LeastElement
    <2>5. \A j \in 1 .. f - 1 : kept[j] = all[j]
        <3> SUFFICES ASSUME NEW j \in 1 .. f - 1, kept[j] # all[j] PROVE FALSE
            OBVIOUS
        <3>1. j \in P
            BY <1>2, <2>4
        <3> QED
            BY <2>4, <3>1
    <2> QED
        BY <2>4, <2>5, PartAtGap
<1>8. ASSUME Gap(all, M), \A i, j \in Contents(all) : ask[i] = ask[j] => i = j
      PROVE  d.kind = "diverged"
    <2>1. PICK p \in Nat : p \in 1..Len(kept) /\ p \in 1..Len(all) /\ kept[p] # all[p]
        BY <1>8, GapParts
    <2>2. kept[p] \in Contents(all) /\ all[p] \in Contents(all)
        BY <2>1, Places
    <2>3. ka[p] # kb[p]
        BY <1>0, <1>8, <2>1, <2>2
    <2>4. PICK i : T!PartAt(a, b, i)
        BY <1>4, <1>6, <2>1, <2>3
    <2>5. ~(i > p)
        BY <1>2, <1>5, <2>1, <2>3, <2>4
    <2> QED
        BY <1>2, <1>5, <2>1, <2>4, <2>5
<1>9. d.kind \in {"diverged", "unknown_terminal"}
    BY <1>3, <1>5, <1>6
<1>10. ASSUME Contents(all) \cap M = {}
       PROVE  d.kind = "unknown_terminal" /\ d.until = Len(all)
    <2>1. Contents(kept) = Contents(all)
        BY <1>10 DEF LessThose
    <2>2. kept = all
        BY <2>1, RisingUnique DEF LessThose
    <2>3. ka = kb
        BY <2>2 DEF ka, kb
    <2> QED
        BY <1>1, <1>3, <1>4, <2>2, <2>3
<1> QED
    BY <1>7, <1>8, <1>9, <1>10 DEF d

LEMMA FoundIsCalls ==
    ASSUME IInv, TapInv, Numbers(ToolCalls(rows)) = Kept, NEW ask
    PROVE  OfCalls(ProxiedTrajectory(rows, ask), Values(ask, Kept))
<1> DEFINE v == Values(ask, Kept)
           t == ProxiedTrajectory(rows, ask)
<1>1. t.steps = [k \in 1..Len(Kept) |-> CallDecision(ask[Kept[k]])]
    BY CapturedReads
<1>2. t = [steps |-> t.steps, stopped |-> "none"]
    BY DEF ProxiedTrajectory
<1> HIDE DEF t
<1>3. Len(Kept) \in Nat
    BY AskedAre
<1>4. Len(v) = Len(Kept) /\ \A k \in 1..Len(Kept) : v[k] = ask[Kept[k]]
    BY <1>3 DEF Values
<1> HIDE DEF v
<1>5. t.steps = [k \in 1..Len(v) |-> CallDecision(v[k])]
    BY <1>1, <1>4
<1> QED
    BY <1>2, <1>5 DEF OfCalls, t, v

LEMMA AskedIsCalls ==
    ASSUME IInv, NEW ask
    PROVE  OfCalls(FullTrajectory(ask), Values(ask, Asked))
<1> DEFINE v == Values(ask, Asked)
<1>1. Len(Asked) \in Nat
    BY AskedAre
<1>2. Len(v) = Len(Asked) /\ \A k \in 1..Len(Asked) : v[k] = ask[Asked[k]]
    BY <1>1 DEF Values
<1> HIDE DEF v
<1>3. [k \in 1..Len(Asked) |-> CallDecision(ask[Asked[k]])]
          = [k \in 1..Len(v) |-> CallDecision(v[k])]
    BY <1>2
<1> QED
    BY <1>3 DEF FullTrajectory, OfCalls, v

LEMMA InRange ==
    ASSUME NEW n \in Nat, NEW p \in Seq(Nat), Contents(p) \subseteq 1..n
    PROVE  p \in Seq(1..n)
<1>1. \A k \in 1..Len(p) : p[k] \in 1..n
    BY ContentsMembers
<1> QED
    BY <1>1

(* /api/diff says that a proxy trace diverges from a session that made the    *)
(* same calls only if a call that is missing comes before one that is not,    *)
(* and always then unless two calls ask for the same; otherwise the trace     *)
(* merely stops, and once the session has ended well with everything written, *)
(* it has all the calls (app.py:72-92, diff.py:52-54,109-206, tap.py:88-94,   *)
(* stdio.py:70-75).                                                           *)
THEOREM DivergesForGaps == Spec => [](DistinctKeys => DivergesOnlyOverGaps)
<1>1. ASSUME IInv, TapInv, RowsAnswered, DistinctKeys, NEW ask \in Asks
      PROVE  LET d == Diffs!Diff(ProxiedTrajectory(rows, ask), FullTrajectory(ask))
                 gap == \E i, j \in Contents(Asked) : i < j /\ Missing(i) /\ ~Missing(j)
                 alike == \E i, j \in Contents(Asked) : i # j /\ ask[i] = ask[j]
             IN  /\ d.kind = "diverged" => gap
                 /\ gap => d.kind = "diverged" \/ alike
                 /\ d.kind \in {"diverged", "unknown_terminal"}
                 /\ main \in {"wait", "returned"} /\ lost = <<>> /\ txn = <<>> =>
                       d.kind = "unknown_terminal" /\ d.until = Len(Asked)
    <2> DEFINE a == ProxiedTrajectory(rows, ask)
               b == FullTrajectory(ask)
               n == MaxSent[C2S]
               M == {i \in Contents(Asked) : Missing(i)}
    <2>1. Diffs!Diff(a, b) = T!Diff(a, b)
        BY SameDiff
    <2>2. OfCalls(a, Values(ask, Kept))
        BY <1>1, KeptAreFound, FoundIsCalls
    <2>3. OfCalls(b, Values(ask, Asked))
        BY <1>1, AskedIsCalls
    <2>4. LessThose(Asked, Kept, M)
        BY <1>1, AskedAre DEF LessThose
    <2>5. Asked \in Seq(1..n) /\ Kept \in Seq(1..n)
        <3>1. n \in Nat /\ seen[C2S] \in Nat /\ seen[C2S] <= n
            BY <1>1, Bounds, ProxyAssumption, SMTT(30) DEF IInv, WireOK, Dir
        <3>2. /\ Asked \in Seq(Nat) /\ Contents(Asked) \subseteq 1..seen[C2S]
              /\ Kept \in Seq(Nat) /\ Contents(Kept) \subseteq 1..seen[C2S]
            BY <1>1, AskedAre
        <3> HIDE DEF n
        <3>3. Contents(Asked) \subseteq 1..n /\ Contents(Kept) \subseteq 1..n
            BY <3>1, <3>2
        <3> QED
            BY <3>1, <3>2, <3>3, InRange
    <2> HIDE DEF a, b, M
    <2>6. /\ T!Diff(a, b).kind = "diverged" => Gap(Asked, M)
          /\ Gap(Asked, M) /\ T!Diff(a, b).kind # "diverged" =>
                \E i, j \in Contents(Asked) : i # j /\ ask[i] = ask[j]
          /\ T!Diff(a, b).kind \in {"diverged", "unknown_terminal"}
          /\ Contents(Asked) \cap M = {} =>
                /\ T!Diff(a, b).kind = "unknown_terminal"
                /\ T!Diff(a, b).until = Len(Asked)
        BY <2>2, <2>3, <2>4, <2>5, Verdicts
    <2>7. Gap(Asked, M) <=> \E i, j \in Contents(Asked) : i < j /\ Missing(i) /\ ~Missing(j)
        BY DEF Gap, M
    <2>8. ASSUME main \in {"wait", "returned"}, lost = <<>>, txn = <<>>
          PROVE  M = {}
        <3>1. NothingToFlush
            BY <1>1, <2>8 DEF TapInv, OrderOK, Stage
        <3>2. \A i : ~Waits(C2S, i)
            BY <3>1 DEF NothingToFlush, Waits, Dir
        <3>3. Contents(txn) \cup Contents(lost) = {}
            BY <2>8, ContentsEmpty
        <3> QED
            BY <3>2, <3>3 DEF M, Missing
    <2>9. /\ T!Diff(a, b).kind = "diverged" =>
                \E i, j \in Contents(Asked) : i < j /\ Missing(i) /\ ~Missing(j)
          /\ (\E i, j \in Contents(Asked) : i < j /\ Missing(i) /\ ~Missing(j)) =>
                \/ T!Diff(a, b).kind = "diverged"
                \/ \E i, j \in Contents(Asked) : i # j /\ ask[i] = ask[j]
        BY <2>6, <2>7
    <2> QED
        BY <2>1, <2>6, <2>8, <2>9 DEF a, b
<1>2. ASSUME IInv, TapInv, RowsAnswered, DistinctKeys
      PROVE  DivergesOnlyOverGaps
    BY <1>1, <1>2 DEF DivergesOnlyOverGaps
<1> QED
    BY <1>2, Invariant, TapInvariant, RowsInvariant, PTL

(* With ids that Str keeps apart (jsonrpc.py:62), both hold without a         *)
(* condition.                                                                 *)
THEOREM ReadsKeptApart ==
    ASSUME \A r, q \in RawIds : Str[r] = Str[q] => r = q
    PROVE  Spec => [](CapturedAsAsked /\ DivergesOnlyOverGaps)
<1>1. IInv /\ TapInv => DistinctKeys
    BY DistinctIds
<1> QED
    BY <1>1, Invariant, TapInvariant, CapturesAsAsked, DivergesForGaps, PTL
==============================================================================
