-------------------------- MODULE StdioProxyProofs ---------------------------
(* What is proved of the stdio proxy for every value of its constants. First  *)
(* the wire: its types, that the tap follows it, and that the two directions  *)
(* are FIFO channels (Channel) whatever the tap and the store do. Then the    *)
(* spans the tap makes of what it is shown: no message is in two spans, and   *)
(* in a session whose requests are all different keys to the tap, pairs are   *)
(* true pairs, nothing observed is forgotten, an answered request is one span *)
(* with its answer, and a proxy that gets past its flush has kept everything. *)
EXTENDS StdioProxy, SubsequenceLemmas

(* The identified lines carry an id.                                          *)
LinesOK ==
    \A d \in Dir : \A i \in 1..Len(sent[d]) :
        sent[d][i].type \in {"request", "bad_request", "response"}
            => sent[d][i].id \in RawIds

(* What was forwarded is a prefix of what was sent; a pump is done only when  *)
(* the sender is and nothing is left to forward, and while the proxy runs the *)
(* pipe is closed only behind the last line.                                  *)
WireOK ==
    \A d \in Dir :
        /\ Len(sent[d]) <= MaxSent[d]
        /\ Len(wire[d]) <= Len(sent[d])
        /\ \A i \in 1..Len(wire[d]) : wire[d][i] = sent[d][i]
        /\ pump[d] = "done" => ~open[d] /\ Len(wire[d]) = Len(sent[d])
        /\ eof[d] /\ Running => pump[d] = "done" /\ piped[d] = Len(wire[d])

IInv == TypeOK /\ LinesOK /\ WireOK /\ TapFollowsWire

------------------------------------------------------------------------------
(* The store and the tap alone.                                               *)

LEMMA WriteTypes ==
    ASSUME TapTypeOK, NEW s \in SpanType, WriteOk(s) \/ WriteRaises(s)
    PROVE  rows' \in Seq(SpanType) /\ txn' \in Seq(SpanType) /\ lost' \in Seq(SpanType)
<1>1. CASE WriteOk(s)
    <2>1. Append(txn, s) \in Seq(SpanType)
        BY DEF TapTypeOK
    <2> QED
        BY <1>1, <2>1 DEF TapTypeOK, WriteOk
<1>2. CASE InsertRaises(s)
    BY <1>2 DEF TapTypeOK, InsertRaises
<1>3. CASE CommitRaises(s)
    BY <1>3 DEF TapTypeOK, CommitRaises
<1> QED
    BY <1>1, <1>2, <1>3 DEF WriteRaises

LEMMA CloseTypes ==
    ASSUME TapTypeOK, CloseStore
    PROVE  rows' \in Seq(SpanType) /\ txn' \in Seq(SpanType) /\ lost' \in Seq(SpanType)
BY DEF TapTypeOK, CloseStore

(* One call of observe keeps the tap's types, for a line whose id is there    *)
(* when its type needs one.                                                   *)
LEMMA ObserveTypes ==
    ASSUME TapTypeOK, NEW d \in Dir, NEW i \in Nat, NEW l \in Line,
           l.type \in {"request", "response"} => l.id \in RawIds,
           Observe(d, i, l)
    PROVE  TapTypeOK'
<1>1. CASE ObserveNothing(l)
    BY <1>1 DEF TapTypeOK, ObserveNothing, tapVars
<1>2. CASE ObserveRequest(d, i, l)
    BY <1>2 DEF TapTypeOK, ObserveRequest, storeVars
<1>3. CASE ObserveNotification(d, i, l)
    <2>1. Span(d, i, 0) \in SpanType
        BY DEF Span, SpanType
    <2> QED
        BY <1>3, <2>1, WriteTypes DEF TapTypeOK, ObserveNotification
<1>4. CASE ObserveResponse(d, i, l)
    <2> DEFINE asked == Origin(d)
               key == Str[l.id]
               span == Span(asked, pending[asked][key], i)
    <2>1. asked \in Dir /\ key \in Keys
        BY <1>4, TapAssumption DEF Origin, Dir, ObserveResponse
    <2>2. span \in SpanType
        BY <2>1 DEF Span, SpanType, TapTypeOK
    <2>3. WriteOk(span) \/ WriteRaises(span)
        BY <1>4 DEF ObserveResponse
    <2>4. pending' \in [Dir -> [Keys -> Nat]]
        BY <1>4, <2>1 DEF ObserveResponse, TapTypeOK
    <2> QED
        BY <2>2, <2>3, <2>4, WriteTypes DEF TapTypeOK
<1> QED
    BY <1>1, <1>2, <1>3, <1>4 DEF Observe

(* So do one turn of flush and the closing of the store.                      *)
LEMMA FlushTypes ==
    ASSUME TapTypeOK, NEW d \in Dir, NEW k \in Keys,
           FlushWrites(d, k) \/ FlushRaises(d, k)
    PROVE  TapTypeOK'
<1> DEFINE s == Span(d, pending[d][k], 0)
<1>1. s \in SpanType
    BY DEF Span, SpanType, TapTypeOK
<1>2. CASE FlushWrites(d, k)
    <2>1. WriteOk(s)
        BY <1>2 DEF FlushWrites
    <2>2. pending' \in [Dir -> [Keys -> Nat]]
        BY <1>2 DEF FlushWrites, TapTypeOK
    <2> QED
        BY <1>1, <2>1, <2>2, WriteTypes DEF TapTypeOK
<1>3. CASE FlushRaises(d, k)
    <2>1. Append(txn, s) \in Seq(SpanType)
        BY <1>1 DEF TapTypeOK
    <2> QED
        BY <1>3, <2>1 DEF FlushRaises, WriteRaisesThenCloses, TapTypeOK
<1> QED
    BY <1>2, <1>3

------------------------------------------------------------------------------
(* The peers.                                                                 *)

LEMMA OppositeDir == ASSUME NEW d \in Dir PROVE Opposite(d) \in Dir /\ Origin(d) \in Dir
BY DEF Opposite, Origin, Dir, C2S, S2C

(* What a peer may send is a line, with an id if it has to have one.          *)
LEMMA NewLine ==
    ASSUME IInv, NEW d \in Dir, NEW l \in Request(d) \cup Response(d) \cup Other(d)
    PROVE  /\ l \in Line
           /\ l.type \in {"request", "bad_request", "response"} => l.id \in RawIds
<1> DEFINE o == Opposite(d)
           max == MaxSent[C2S] + MaxSent[S2C]
<1>1. max \in Nat /\ MaxSent[o] \in 0..max /\ o \in Dir
    BY OppositeDir, ProxyAssumption DEF Dir, C2S, S2C
<1>2. CASE l \in Request(d)
    BY <1>1, <1>2 DEF Request, Line, LineType
<1>3. CASE l \in Response(d)
    <2>1. PICK i \in Unanswered(o) : l = [type |-> "response", id |-> sent[o][i].id, re |-> i]
        BY <1>3 DEF Response
    <2>2. i \in 1..got[o] /\ sent[o][i].type \in {"request", "bad_request"}
        BY <2>1 DEF Unanswered
    <2>3. got[o] <= Len(sent[o]) /\ Len(sent[o]) <= MaxSent[o]
          /\ got[o] \in Nat /\ Len(sent[o]) \in Nat
        BY <1>1 DEF IInv, TypeOK, WireOK
    <2>4. i \in 1..Len(sent[o]) /\ i \in 0..max
        <3>1. MaxSent[o] \in Nat /\ MaxSent[o] <= max
            BY <1>1
        <3>2. i \in Nat /\ i >= 1 /\ i <= got[o]
            BY <2>2, <2>3
        <3> HIDE DEF max
        <3> QED
            BY <1>1, <2>3, <3>1, <3>2
    <2>5. sent[o][i].id \in RawIds
        BY <1>1, <2>2, <2>4 DEF IInv, LinesOK
    <2> HIDE DEF o
    <2> QED
        BY <2>1, <2>4, <2>5 DEF Line, LineType
<1>4. CASE l \in Other(d)
    BY <1>1, <1>4 DEF Other, Line, LineType
<1> QED
    BY <1>2, <1>3, <1>4

(* Steps of the environment. Only PeerSends touches a line, and only at the   *)
(* end of what was sent by a peer that has not closed.                        *)
LEMMA PeerStep ==
    ASSUME IInv, NEW d \in Dir, Peer(d)
    PROVE  IInv'
<1> USE DEF IInv
<1>1. CASE PeerSends(d)
    <2>1. PICK l \in Request(d) \cup Response(d) \cup Other(d) :
              sent' = [sent EXCEPT ![d] = Append(@, l)]
        BY <1>1 DEF PeerSends
    <2>2. l \in Line /\ (l.type \in {"request", "bad_request", "response"} => l.id \in RawIds)
        BY <2>1, NewLine
    <2>3. UNCHANGED <<open, got, gone, wire, piped, eof, pending, rows, txn, lost, seen, pump, main>>
        BY <1>1 DEF PeerSends, wireVars, tapVars
    <2>4. /\ sent' \in [Dir -> Seq(Line)]
          /\ \A e \in Dir : e # d => sent'[e] = sent[e]
          /\ Len(sent'[d]) = Len(sent[d]) + 1
          /\ \A i \in 1..Len(sent[d]) : sent'[d][i] = sent[d][i]
          /\ sent'[d][Len(sent[d]) + 1] = l
        BY <2>1, <2>2 DEF TypeOK
    <2>5. TypeOK'
        BY <2>3, <2>4 DEF TypeOK, TapTypeOK
    <2>6. LinesOK'
        <3> SUFFICES ASSUME NEW e \in Dir, NEW i \in 1..Len(sent'[e]),
                            sent'[e][i].type \in {"request", "bad_request", "response"}
                     PROVE  sent'[e][i].id \in RawIds
            BY DEF LinesOK
        <3>1. Len(sent[d]) \in Nat
            BY DEF TypeOK
        <3>2. CASE e # d
            BY <2>4, <3>2 DEF LinesOK
        <3>3. CASE e = d /\ i = Len(sent[d]) + 1
            BY <2>2, <2>4, <3>3
        <3>4. CASE e = d /\ i \in 1..Len(sent[d])
            BY <2>4, <3>4 DEF LinesOK
        <3> QED
            BY <2>4, <3>1, <3>2, <3>3, <3>4
    <2>7. open[d] /\ Len(sent[d]) < MaxSent[d] /\ MaxSent[d] \in Nat
        BY <1>1, ProxyAssumption DEF PeerSends
    <2>8. WireOK'
        <3> SUFFICES ASSUME NEW e \in Dir
                     PROVE  /\ Len(sent'[e]) <= MaxSent[e]
                            /\ Len(wire'[e]) <= Len(sent'[e])
                            /\ \A i \in 1..Len(wire'[e]) : wire'[e][i] = sent'[e][i]
                            /\ pump'[e] = "done" =>
                                  ~open'[e] /\ Len(wire'[e]) = Len(sent'[e])
                            /\ eof'[e] /\ Running' =>
                                  pump'[e] = "done" /\ piped'[e] = Len(wire'[e])
            BY DEF WireOK
        <3>1. CASE e = d
            <4>1. Len(sent[d]) \in Nat /\ Len(wire[d]) \in Nat
                BY DEF TypeOK
            <4>2. Len(wire[d]) <= Len(sent[d])
                BY DEF WireOK
            <4>3. pump[d] # "done" /\ ~(eof[d] /\ Running)
                BY <2>7 DEF WireOK
            <4>4. \A i \in 1..Len(wire[d]) : wire[d][i] = sent'[d][i]
                BY <2>4, <4>1, <4>2, SMTT(20) DEF WireOK
            <4> QED
                BY <2>3, <2>4, <2>7, <3>1, <4>1, <4>2, <4>3, <4>4, SMTT(30) DEF Running
        <3>2. CASE e # d
            <4>1. sent'[e] = sent[e]
                BY <2>4, <3>2
            <4>2. /\ wire'[e] = wire[e] /\ pump'[e] = pump[e] /\ open'[e] = open[e]
                  /\ eof'[e] = eof[e] /\ piped'[e] = piped[e] /\ Running' = Running
                BY <2>3 DEF Running
            <4>3. /\ Len(sent[e]) <= MaxSent[e] /\ Len(wire[e]) <= Len(sent[e])
                  /\ \A i \in 1..Len(wire[e]) : wire[e][i] = sent[e][i]
                  /\ pump[e] = "done" => ~open[e] /\ Len(wire[e]) = Len(sent[e])
                  /\ eof[e] /\ Running => pump[e] = "done" /\ piped[e] = Len(wire[e])
                BY DEF WireOK
            <4> HIDE DEF IInv
            <4> QED
                BY <4>1, <4>2, <4>3
        <3> QED
            BY <3>1, <3>2
    <2>9. TapFollowsWire'
        BY <2>3 DEF TapFollowsWire
    <2> QED
        BY <2>5, <2>6, <2>8, <2>9
<1>2. CASE PeerReads(d)
    <2>1. UNCHANGED <<sent, open, gone, wire, piped, eof, pending, rows, txn, lost, seen, pump, main>>
        BY <1>2 DEF PeerReads, wireVars, tapVars
    <2>2. got' \in [Dir -> Nat] /\ \A e \in Dir : got'[e] <= piped[e]
        BY <1>2 DEF PeerReads, TypeOK
    <2>3. TypeOK'
        BY <2>1, <2>2 DEF TypeOK, TapTypeOK
    <2> QED
        BY <2>1, <2>3 DEF LinesOK, WireOK, Running, TapFollowsWire
<1>3. CASE PeerCloses(d)
    <2>1. UNCHANGED <<sent, got, gone, wire, piped, eof, pending, rows, txn, lost, seen, pump, main>>
        BY <1>3 DEF PeerCloses, wireVars, tapVars
    <2>2. open' \in [Dir -> BOOLEAN] /\ \A e \in Dir : open'[e] => open[e]
        BY <1>3 DEF PeerCloses, TypeOK
    <2>3. TypeOK'
        BY <2>1, <2>2 DEF TypeOK, TapTypeOK
    <2> QED
        BY <2>1, <2>2, <2>3 DEF LinesOK, WireOK, Running, TapFollowsWire
<1>4. CASE PeerExits(d)
    <2>1. UNCHANGED <<sent, got, wire, piped, eof, pending, rows, txn, lost, seen, pump, main>>
        BY <1>4 DEF PeerExits, wireVars, tapVars
    <2>2. /\ open' \in [Dir -> BOOLEAN] /\ \A e \in Dir : open'[e] => open[e]
          /\ gone' \in [Dir -> BOOLEAN]
        BY <1>4 DEF PeerExits, TypeOK
    <2>3. TypeOK'
        BY <2>1, <2>2 DEF TypeOK, TapTypeOK
    <2> QED
        BY <2>1, <2>2, <2>3 DEF LinesOK, WireOK, Running, TapFollowsWire
<1> QED
    BY <1>1, <1>2, <1>3, <1>4 DEF Peer

LEMMA TransportStep ==
    ASSUME IInv, NEW d \in Dir, Transport(d)
    PROVE  IInv'
<1> USE DEF IInv
<1>1. CASE TransportWrites(d)
    <2>1. UNCHANGED <<sent, open, got, gone, wire, eof, pending, rows, txn, lost, seen, pump, main>>
        BY <1>1 DEF TransportWrites, peerVars, tapVars
    <2>2. /\ piped' \in [Dir -> Nat]
          /\ \A e \in Dir : piped[e] <= piped'[e] /\ piped'[e] <= Len(wire[e])
        BY <1>1 DEF TransportWrites, Buffered, TypeOK
    <2>3. TypeOK'
        BY <2>1, <2>2 DEF TypeOK, TapTypeOK
    <2>4. WireOK'
        BY <2>1, <2>2 DEF WireOK, Running, TypeOK
    <2> QED
        BY <2>1, <2>3, <2>4 DEF LinesOK, TapFollowsWire
<1>2. CASE TransportCloses(d)
    <2>1. UNCHANGED <<sent, open, got, gone, wire, piped, pending, rows, txn, lost, seen, pump, main>>
        BY <1>2 DEF TransportCloses, peerVars, tapVars
    <2>2. /\ eof' = [eof EXCEPT ![d] = TRUE]
          /\ pump[d] = "done" /\ piped[d] = Len(wire[d])
        BY <1>2 DEF TransportCloses, Buffered, TypeOK
    <2>3. TypeOK'
        BY <2>1, <2>2 DEF TypeOK, TapTypeOK
    <2>4. WireOK'
        BY <2>1, <2>2 DEF WireOK, Running, TypeOK
    <2> QED
        BY <2>1, <2>3, <2>4 DEF LinesOK, TapFollowsWire
<1> QED
    BY <1>1, <1>2 DEF Transport

------------------------------------------------------------------------------
(* The pumps.                                                                 *)

(* What forwarding a line does to the wire, whether or not the pump suspends. *)
LEMMA ForwardWire ==
    ASSUME IInv, NEW d \in Dir, Forwards(d)
    PROVE  /\ NextLine(d) \in Line
           /\ NextLine(d).type \in {"request", "response"} => NextLine(d).id \in RawIds
           /\ wire' \in [Dir -> Seq(Line)]
           /\ Len(wire'[d]) = Len(wire[d]) + 1
           /\ Len(wire'[d]) <= Len(sent[d])
           /\ \A i \in 1..Len(wire'[d]) : wire'[d][i] = sent[d][i]
           /\ \A e \in Dir : e # d => wire'[e] = wire[e]
           /\ piped' \in [Dir -> Nat]
           /\ \A e \in Dir : piped[e] <= piped'[e] /\ piped'[e] <= Len(wire'[e])
           /\ \A e \in Dir : e # d => piped'[e] = piped[e]
<1> USE DEF IInv
<1> DEFINE n == Len(wire[d]) + 1
           l == NextLine(d)
<1>1. Len(wire[d]) \in Nat /\ Len(sent[d]) \in Nat /\ n \in 1..Len(sent[d])
    BY DEF Forwards, HasLine, TypeOK
<1>2. l = sent[d][n] /\ l \in Line
    BY <1>1 DEF NextLine, TypeOK
<1>3. l.type \in {"request", "response"} => l.id \in RawIds
    BY <1>1, <1>2 DEF LinesOK
<1>4. wire' = [wire EXCEPT ![d] = Append(@, l)]
    BY DEF Forwards
<1> HIDE DEF l
<1>5. /\ wire' \in [Dir -> Seq(Line)]
      /\ Len(wire'[d]) = n
      /\ \A e \in Dir : e # d => wire'[e] = wire[e]
      /\ wire'[d][n] = l
      /\ \A i \in 1..Len(wire[d]) : wire'[d][i] = wire[d][i]
    BY <1>2, <1>4 DEF TypeOK
<1>6. \A i \in 1..n : wire'[d][i] = sent[d][i]
    <2> TAKE i \in 1..n
    <2>1. CASE i = n
        BY <1>2, <1>5, <2>1
    <2>2. CASE i \in 1..Len(wire[d])
        BY <1>5, <2>2 DEF WireOK
    <2> QED
        BY <1>1, <2>1, <2>2
<1>7. /\ piped' \in [Dir -> Nat]
      /\ \A e \in Dir : piped[e] <= piped'[e]
      /\ \A e \in Dir : e # d => piped'[e] = piped[e]
      /\ piped'[d] <= piped[d] + 1
    BY DEF Forwards, TypeOK
<1>8. \A e \in Dir : piped'[e] <= Len(wire'[e])
    <2> TAKE e \in Dir
    <2>1. CASE e = d
        BY <1>1, <1>5, <1>7, <2>1 DEF TypeOK
    <2>2. CASE e # d
        BY <1>5, <1>7, <2>2 DEF TypeOK
    <2> QED
        BY <2>1, <2>2
<1> QED
    BY <1>1, <1>2, <1>3, <1>5, <1>6, <1>7, <1>8 DEF l

(* The invariant of the wire after a line was forwarded, if nothing but wire  *)
(* and piped changed in it.                                                   *)
LEMMA ForwardKeepsWireOK ==
    ASSUME IInv, NEW d \in Dir, Forwards(d),
           UNCHANGED <<sent, open, eof, main>>,
           \A e \in Dir : pump'[e] = "done" <=> pump[e] = "done"
    PROVE  WireOK'
<1> USE DEF IInv
<1> SUFFICES ASSUME NEW e \in Dir
             PROVE  /\ Len(sent[e]) <= MaxSent[e]
                    /\ Len(wire'[e]) <= Len(sent[e])
                    /\ \A i \in 1..Len(wire'[e]) : wire'[e][i] = sent[e][i]
                    /\ pump'[e] = "done" => ~open[e] /\ Len(wire'[e]) = Len(sent[e])
                    /\ eof[e] /\ Running => pump'[e] = "done" /\ piped'[e] = Len(wire'[e])
    BY DEF WireOK, Running
<1>1. CASE e = d
    <2>1. pump[d] # "done"
        BY DEF Forwards
    <2> QED
        BY <1>1, <2>1, ForwardWire DEF WireOK
<1>2. CASE e # d
    <2>1. wire'[e] = wire[e] /\ piped'[e] = piped[e]
        BY <1>2, ForwardWire
    <2> QED
        BY <1>2, <2>1 DEF WireOK
<1> QED
    BY <1>1, <1>2

LEMMA PumpStep ==
    ASSUME IInv, NEW d \in Dir, Pump(d)
    PROVE  IInv'
<1> USE DEF IInv
<1>a. /\ Len(wire[d]) \in Nat /\ Len(sent[d]) \in Nat
      /\ seen[d] \in Nat /\ seen[d] <= Len(wire[d])
    BY DEF TypeOK
<1>1. CASE PumpForwards(d)
    <2>1. /\ UNCHANGED <<sent, open, got, gone, eof, pump, main>>
          /\ Forwards(d)
          /\ seen' = [seen EXCEPT ![d] = @ + 1]
          /\ Observe(d, Len(wire[d]) + 1, NextLine(d))
        BY <1>1 DEF PumpForwards, peerVars
    <2>2. TapTypeOK'
        BY <1>a, <2>1, ForwardWire, ObserveTypes DEF TypeOK
    <2>3. seen[d] = Len(wire[d])
        BY <1>a, <2>1 DEF TapFollowsWire, Forwards
    <2>4. seen' \in [Dir -> Nat] /\ \A e \in Dir : seen'[e] <= Len(wire'[e])
        BY <1>a, <2>1, ForwardWire, SMTT(40) DEF TypeOK
    <2>5. TypeOK'
        <3>1. \A e \in Dir : got'[e] <= piped'[e]
            BY <2>1, ForwardWire, SMTT(40) DEF TypeOK
        <3> QED
            BY <2>1, <2>2, <2>4, <3>1, ForwardWire DEF TypeOK
    <2>6. LinesOK'
        BY <2>1 DEF LinesOK
    <2>7. WireOK'
        BY <2>1, ForwardKeepsWireOK
    <2>8. TapFollowsWire'
        <3> SUFFICES ASSUME NEW e \in Dir
                     PROVE  Len(wire'[e]) - seen'[e] \in
                                IF pump[e] \in {"reading", "done"} THEN {0}
                                ELSE IF pump[e] = "draining" THEN {1} ELSE {0, 1}
            BY <2>1 DEF TapFollowsWire
        <3>1. CASE e = d
            <4>1. seen'[d] = Len(wire[d]) + 1 /\ Len(wire'[d]) = Len(wire[d]) + 1
                BY <1>a, <2>1, <2>3, ForwardWire DEF TypeOK
            <4>2. Len(wire'[d]) - seen'[d] = 0
                BY <1>a, <4>1
            <4>3. pump[d] = "reading"
                BY <2>1 DEF Forwards
            <4> QED
                BY <3>1, <4>2, <4>3
        <3>2. CASE e # d
            BY <2>1, <3>2, ForwardWire DEF TapFollowsWire, TypeOK
        <3> QED
            BY <3>1, <3>2
    <2> QED
        BY <2>5, <2>6, <2>7, <2>8
<1>2. CASE PumpSuspends(d)
    <2>1. /\ UNCHANGED <<sent, open, got, gone, eof, seen, main>>
          /\ UNCHANGED <<pending, rows, txn, lost>>
          /\ Forwards(d)
          /\ pump' = [pump EXCEPT ![d] = "draining"]
        BY <1>2 DEF PumpSuspends, peerVars, tapVars
    <2>2. TapTypeOK'
        BY <2>1 DEF TypeOK, TapTypeOK
    <2>3. \A e \in Dir : seen'[e] <= Len(wire'[e]) /\ got'[e] <= piped'[e]
        <3> TAKE e \in Dir
        <3>1. got[e] \in Nat /\ piped[e] \in Nat /\ piped'[e] \in Nat
              /\ got[e] <= piped[e] /\ piped[e] <= piped'[e]
              /\ seen[e] \in Nat /\ Len(wire[e]) \in Nat /\ seen[e] <= Len(wire[e])
            BY ForwardWire, <2>1 DEF TypeOK
        <3>2. CASE e = d
            BY <1>a, <2>1, <3>1, <3>2, ForwardWire
        <3>3. CASE e # d
            BY <2>1, <3>1, <3>3, ForwardWire
        <3> QED
            BY <3>2, <3>3
    <2>4. pump' \in [Dir -> PumpState]
        BY <2>1 DEF TypeOK, PumpState
    <2>5. TypeOK'
        BY <2>1, <2>2, <2>3, <2>4, ForwardWire DEF TypeOK
    <2>6. LinesOK'
        BY <2>1 DEF LinesOK
    <2>7. WireOK'
        <3>1. \A e \in Dir : pump'[e] = "done" <=> pump[e] = "done"
            BY <2>1 DEF Forwards, TypeOK
        <3> QED
            BY <2>1, <3>1, ForwardKeepsWireOK
    <2>8. TapFollowsWire'
        <3> SUFFICES ASSUME NEW e \in Dir
                     PROVE  Len(wire'[e]) - seen[e] \in
                                IF pump'[e] \in {"reading", "done"} THEN {0}
                                ELSE IF pump'[e] = "draining" THEN {1} ELSE {0, 1}
            BY <2>1 DEF TapFollowsWire
        <3>1. CASE e = d
            <4>1. seen[d] = Len(wire[d])
                BY <1>a, <2>1 DEF TapFollowsWire, Forwards
            <4> QED
                BY <1>a, <2>1, <3>1, <4>1, ForwardWire DEF TypeOK
        <3>2. CASE e # d
            BY <2>1, <3>2, ForwardWire DEF TapFollowsWire, TypeOK
        <3> QED
            BY <3>1, <3>2
    <2> QED
        BY <2>5, <2>6, <2>7, <2>8
<1>3. CASE PumpResumes(d)
    <2>1. /\ UNCHANGED <<sent, open, got, gone, wire, piped, eof, main>>
          /\ pump[d] = "draining"
          /\ Observe(d, Len(wire[d]), wire[d][Len(wire[d])])
          /\ seen' = [seen EXCEPT ![d] = @ + 1]
          /\ pump' = [pump EXCEPT ![d] = "reading"]
        BY <1>3 DEF PumpResumes, Woken, peerVars, wireVars
    <2>2. seen[d] = Len(wire[d]) - 1
        BY <1>a, <2>1 DEF TapFollowsWire
    <2>3. TapTypeOK'
        <3> DEFINE n == Len(wire[d])
                   l == wire[d][n]
        <3>1. n \in 1..Len(wire[d]) /\ n \in Nat /\ n \in 1..Len(sent[d])
            BY <1>a, <2>2 DEF WireOK
        <3>2. l \in Line /\ l = sent[d][n]
            BY <3>1 DEF TypeOK, WireOK
        <3>3. l.type \in {"request", "response"} => l.id \in RawIds
            BY <3>1, <3>2 DEF LinesOK
        <3> QED
            BY <2>1, <3>1, <3>2, <3>3, ObserveTypes DEF TypeOK
    <2>4. seen' \in [Dir -> Nat] /\ \A e \in Dir : seen'[e] <= Len(wire[e])
        BY <1>a, <2>1, <2>2 DEF TypeOK
    <2>5. pump' \in [Dir -> PumpState]
        BY <2>1 DEF TypeOK, PumpState
    <2>6. TypeOK'
        BY <2>1, <2>3, <2>4, <2>5 DEF TypeOK
    <2>7. LinesOK' /\ WireOK'
        BY <2>1 DEF LinesOK, WireOK, Running, TypeOK
    <2>8. TapFollowsWire'
        <3>1. seen'[d] = Len(wire[d]) /\ pump'[d] = "reading"
            BY <1>a, <2>1, <2>2 DEF TypeOK
        <3>2. Len(wire[d]) - seen'[d] = 0
            BY <1>a, <3>1
        <3>3. \A e \in Dir : e # d => seen'[e] = seen[e] /\ pump'[e] = pump[e]
            BY <2>1 DEF TypeOK
        <3> QED
            BY <2>1, <3>1, <3>2, <3>3 DEF TapFollowsWire
    <2> QED
        BY <2>6, <2>7, <2>8
<1>4. CASE PumpEnds(d)
    <2>1. /\ UNCHANGED <<sent, open, got, gone, wire, piped, eof, seen, main>>
          /\ UNCHANGED <<pending, rows, txn, lost>>
          /\ pump[d] = "reading" /\ ~open[d] /\ ~HasLine(d)
          /\ pump' = [pump EXCEPT ![d] = "done"]
        BY <1>4 DEF PumpEnds, peerVars, wireVars, tapVars
    <2>2. TypeOK'
        BY <2>1 DEF TypeOK, TapTypeOK, PumpState
    <2>3. LinesOK' /\ TapFollowsWire'
        BY <2>1 DEF LinesOK, TapFollowsWire, TypeOK
    <2>4. Len(wire[d]) = Len(sent[d])
        BY <1>a, <2>1 DEF HasLine, WireOK
    <2>5. WireOK'
        BY <2>1, <2>4 DEF WireOK, Running, TypeOK
    <2> QED
        BY <2>2, <2>3, <2>5
<1>5. CASE PumpRaises(d)
    <2>1. /\ UNCHANGED <<sent, open, got, gone, wire, piped, eof, seen, main>>
          /\ UNCHANGED <<pending, rows, txn, lost>>
          /\ pump[d] \in {"reading", "draining"}
          /\ pump' = [pump EXCEPT ![d] = "raised"]
        BY <1>5 DEF PumpRaises, ReadRaises, DrainRaises, peerVars, wireVars, tapVars
    <2>2. TypeOK'
        BY <2>1 DEF TypeOK, TapTypeOK, PumpState
    <2>3. LinesOK' /\ TapFollowsWire'
        BY <2>1 DEF LinesOK, TapFollowsWire, TypeOK
    <2>4. WireOK'
        BY <2>1 DEF WireOK, Running, TypeOK
    <2> QED
        BY <2>2, <2>3, <2>4
<1> QED
    BY <1>1, <1>2, <1>3, <1>4, <1>5 DEF Pump

------------------------------------------------------------------------------
(* The coroutine around the pumps, and the end of the process.                *)

(* However the process ends its pipes close. A pump may be cancelled at any   *)
(* point; a pump that is done stays done.                                     *)
LEMMA CancelKeeps ==
    ASSUME IInv,
           UNCHANGED <<sent, open, got, gone, pending, seen>>,
           PipesClose, CloseStore, main' \in {"returned", "raised", "killed"},
           pump' \in [Dir -> PumpState],
           \A e \in Dir : pump'[e] = pump[e]
                          \/ (pump[e] # "done" /\ pump'[e] = "cancelled")
    PROVE  IInv'
<1> USE DEF IInv
<1>1. TypeOK'
    BY CloseTypes DEF TypeOK, TapTypeOK, PipesClose, MainState
<1>2. LinesOK' /\ WireOK'
    BY DEF LinesOK, WireOK, Running, PipesClose
<1>3. TapFollowsWire'
    <2> SUFFICES ASSUME NEW e \in Dir
                 PROVE  Len(wire[e]) - seen[e] \in
                            IF pump'[e] \in {"reading", "done"} THEN {0}
                            ELSE IF pump'[e] = "draining" THEN {1} ELSE {0, 1}
        BY DEF TapFollowsWire, PipesClose
    <2> QED
        BY DEF TapFollowsWire
<1> QED
    BY <1>1, <1>2, <1>3

LEMMA MainStep ==
    ASSUME IInv, Main \/ Killed
    PROVE  IInv'
<1> USE DEF IInv
<1>1. CASE GatherReturns \/ FlushReturns
    <2>1. /\ UNCHANGED <<sent, open, got, gone, wire, piped, eof, seen, pump>>
          /\ UNCHANGED tapVars
          /\ main' \in MainState /\ Running
        BY <1>1 DEF GatherReturns, FlushReturns, peerVars, wireVars, MainState, Running
    <2>2. TapTypeOK'
        BY <2>1 DEF tapVars, TypeOK, TapTypeOK
    <2>3. TypeOK'
        BY <2>1, <2>2 DEF TypeOK
    <2>4. LinesOK' /\ WireOK'
        BY <2>1 DEF LinesOK, WireOK
    <2>5. TapFollowsWire'
        BY <2>1 DEF TapFollowsWire
    <2> QED
        BY <2>3, <2>4, <2>5
<1>2. CASE GatherRaises
    BY <1>2, CancelKeeps
       DEF GatherRaises, peerVars, TypeOK, PumpState
<1>3. CASE WaitReturns
    BY <1>3, CancelKeeps DEF WaitReturns, peerVars, TypeOK
<1>4. CASE Killed
    BY <1>4, CancelKeeps DEF Killed, peerVars, TypeOK, PumpState
<1>5. ASSUME NEW d \in Dir, NEW k \in Keys, Flush(d, k) \/ FlushFails(d, k)
      PROVE  IInv'
    <2>1. /\ UNCHANGED <<sent, open, got, gone, wire, piped, seen, pump>>
          /\ eof' \in [Dir -> BOOLEAN] /\ main' \in MainState
          /\ (eof' = eof /\ Running) \/ ~Running'
          /\ FlushWrites(d, k) \/ FlushRaises(d, k)
        BY <1>5
        DEF Flush, FlushFails, PipesClose, peerVars, wireVars, TypeOK, MainState, Running
    <2>2. TypeOK'
        BY <2>1, FlushTypes DEF TypeOK
    <2>3. LinesOK' /\ WireOK'
        BY <2>1 DEF LinesOK, WireOK
    <2>4. TapFollowsWire'
        BY <2>1 DEF TapFollowsWire
    <2> QED
        BY <2>2, <2>3, <2>4
<1> QED
    BY <1>1, <1>2, <1>3, <1>4, <1>5 DEF Main

LEMMA IInvInit == Init => IInv
<1> SUFFICES ASSUME Init PROVE IInv
    OBVIOUS
<1>1. TapTypeOK
    BY DEF Init, TapInit, StoreInit, TapTypeOK
<1>2. TypeOK
    BY <1>1 DEF Init, TypeOK, PumpState, MainState
<1>3. LinesOK /\ WireOK /\ TapFollowsWire
    BY ProxyAssumption DEF Init, LinesOK, WireOK, TapFollowsWire
<1> QED
    BY <1>2, <1>3 DEF IInv

LEMMA IInvNext == IInv /\ [Next]_vars => IInv'
<1> SUFFICES ASSUME IInv, [Next]_vars PROVE IInv'
    OBVIOUS
<1>1. CASE UNCHANGED vars
    BY <1>1
    DEF vars, tapVars, IInv, TypeOK, TapTypeOK, LinesOK, WireOK, Running, TapFollowsWire
<1>2. CASE Next
    BY <1>1, <1>2, PeerStep, TransportStep, PumpStep, MainStep DEF Next, Ended
<1> QED
    BY <1>1, <1>2

(* Every reachable state satisfies the inductive invariant.                   *)
THEOREM Invariant == Spec => []IInv
<1> QED
    BY IInvInit, IInvNext, PTL DEF Spec

(* The types, and the order of the counters: nobody reads or taps what was    *)
(* not forwarded (stdio.py:39-41).                                            *)
THEOREM TypeCorrect == Spec => []TypeOK
<1> QED
    BY Invariant, PTL DEF IInv

(* "Forward first, observe second" (stdio.py:10): the tap is never ahead of   *)
(* the wire, and behind it only by the line whose drain has not returned.     *)
THEOREM TapFollows == Spec => []TapFollowsWire
<1> QED
    BY Invariant, PTL DEF IInv

------------------------------------------------------------------------------
(* The proxy implements the channel.                                          *)

Delivering(d) == SubSeq(wire[d], 1, piped[d])

(* Where the tap's and the pumps' own state is all that changes, the channel  *)
(* stutters.                                                                  *)
LEMMA ChannelStutters ==
    ASSUME UNCHANGED <<sent, open, wire, piped, eof>>, Running' = Running
    PROVE  UNCHANGED Wire!channelVars
BY DEF Wire!channelVars

LEMMA SameLines ==
    ASSUME NEW s \in Seq(Line), NEW t \in Seq(Line), Len(s) = Len(t),
           \A i \in 1..Len(s) : s[i] = t[i]
    PROVE  s = t
BY SeqEqual

(* A line that leaves the process is the next one its sender sent.            *)
LEMMA ChannelDelivers ==
    ASSUME IInv, IInv', NEW d \in Dir,
           Running, UNCHANGED <<sent, open, eof, main>>,
           ~eof[d],
           \A i \in 1..Len(wire[d]) : wire'[d][i] = wire[d][i],
           \A e \in Dir : e # d => wire'[e] = wire[e],
           piped' = [piped EXCEPT ![d] = @ + 1]
    PROVE  Wire!Deliver(d)
<1> USE DEF IInv
<1> DEFINE next == piped[d] + 1
<1>1. /\ piped[d] \in Nat /\ piped'[d] = next
      /\ Len(wire[d]) \in Nat /\ Len(wire'[d]) \in Nat /\ Len(sent[d]) \in Nat
      /\ piped[d] <= Len(wire[d]) /\ next <= Len(wire'[d]) /\ Len(wire'[d]) <= Len(sent[d])
      /\ wire[d] \in Seq(Line) /\ wire'[d] \in Seq(Line) /\ sent[d] \in Seq(Line)
    BY DEF TypeOK, WireOK
<1>2. Delivering(d) \in Seq(Line) /\ Len(Delivering(d)) = piped[d]
      /\ \A i \in 1..piped[d] : Delivering(d)[i] = wire[d][i]
    BY <1>1 DEF Delivering
<1>3. Delivering(d)' \in Seq(Line) /\ Len(Delivering(d)') = next
      /\ \A i \in 1..next : Delivering(d)'[i] = wire'[d][i]
    BY <1>1 DEF Delivering
<1>4. wire'[d][next] = sent[d][next]
    <2>1. next \in 1..Len(wire'[d])
        BY <1>1
    <2> HIDE DEF next
    <2> QED
        BY <2>1 DEF WireOK
<1>5. Delivering(d)' = Append(Delivering(d), sent[d][next])
    <2> DEFINE new == Append(Delivering(d), sent[d][next])
               after == SubSeq(wire'[d], 1, piped'[d])
    <2>1. new \in Seq(Line) /\ Len(new) = next
          /\ new[next] = sent[d][next]
          /\ \A i \in 1..piped[d] : new[i] = wire[d][i]
        BY <1>1, <1>2, SMTT(40)
    <2>2. \A i \in 1..next : new[i] = Delivering(d)'[i]
        <3> TAKE i \in 1..next
        <3>1. CASE i = next
            BY <1>1, <1>3, <1>4, <2>1, <3>1
        <3>2. CASE i \in 1..piped[d]
            BY <1>1, <1>3, <2>1, <3>2
        <3>3. i = next \/ i \in 1..piped[d]
            BY <1>1
        <3> QED
            BY ONLY <3>1, <3>2, <3>3
    <2>3. after = Delivering(d)'
        BY DEF Delivering
    <2> HIDE DEF new, after
    <2>4. /\ after \in Seq(Line) /\ new \in Seq(Line) /\ Len(new) = Len(after)
          /\ \A i \in 1..Len(new) : new[i] = after[i]
        BY <1>3, <2>1, <2>2, <2>3
    <2>5. new = after
        BY ONLY <2>4, SameLines
    <2> QED
        BY <2>3, <2>5 DEF new
<1>6. \A e \in Dir : e # d => Delivering(e)' = Delivering(e)
    BY DEF Delivering, TypeOK
<1> DEFINE out == [e \in Dir |-> SubSeq(wire[e], 1, piped[e])]
<1>7. out' = [out EXCEPT ![d] = Append(out[d], sent[d][Len(out[d]) + 1])]
    BY <1>2, <1>5, <1>6 DEF Delivering
<1>8. Len(out[d]) + 1 <= Len(sent[d])
    BY <1>1, <1>2 DEF Delivering
<1>9. Running /\ UNCHANGED <<~Running, sent, [e \in Dir |-> ~open[e]], eof>>
    BY DEF Running
<1> HIDE DEF out
<1> QED
    BY <1>7, <1>8, <1>9 DEF Wire!Deliver, out

(* Lines that only queue in the write transport are not yet delivered.        *)
LEMMA QueuedIsNotDelivered ==
    ASSUME IInv, IInv', NEW d \in Dir,
           UNCHANGED <<sent, open, eof, main, piped>>,
           \A i \in 1..Len(wire[d]) : wire'[d][i] = wire[d][i],
           Len(wire[d]) <= Len(wire'[d]),
           \A e \in Dir : e # d => wire'[e] = wire[e]
    PROVE  UNCHANGED Wire!channelVars
<1> USE DEF IInv
<1>1. \A e \in Dir : SubSeq(wire'[e], 1, piped[e]) = SubSeq(wire[e], 1, piped[e])
    <2> SUFFICES ASSUME NEW e \in Dir, e = d
                 PROVE  SubSeq(wire'[e], 1, piped[e]) = SubSeq(wire[e], 1, piped[e])
        OBVIOUS
    <2> DEFINE s == SubSeq(wire'[d], 1, piped[d])
               t == SubSeq(wire[d], 1, piped[d])
    <2>1. /\ piped[d] \in Nat /\ Len(wire[d]) \in Nat /\ Len(wire'[d]) \in Nat
          /\ piped[d] <= Len(wire[d])
          /\ wire[d] \in Seq(Line) /\ wire'[d] \in Seq(Line)
        BY DEF TypeOK
    <2>2. s \in Seq(Line) /\ Len(s) = piped[d]
          /\ \A i \in 1..piped[d] : s[i] = wire'[d][i]
        BY <2>1
    <2>3. t \in Seq(Line) /\ Len(t) = piped[d]
          /\ \A i \in 1..piped[d] : t[i] = wire[d][i]
        BY <2>1
    <2>4. \A i \in 1..piped[d] : wire'[d][i] = wire[d][i]
        BY <2>1
    <2> HIDE DEF s, t
    <2>5. s = t
        BY <2>2, <2>3, <2>4, SameLines
    <2> QED
        BY <2>5 DEF s, t
<1>2. [e \in Dir |-> SubSeq(wire'[e], 1, piped'[e])]
          = [e \in Dir |-> SubSeq(wire[e], 1, piped[e])]
    BY <1>1
<1> QED
    BY <1>2 DEF Wire!channelVars, Running

LEMMA PeerImplements ==
    ASSUME IInv, Running, NEW d \in Dir, Peer(d)
    PROVE  [Wire!Next]_(Wire!channelVars)
<1> USE DEF IInv, wireVars, Running
<1>1. CASE PeerSends(d)
    <2>1. Wire!Accept(d)
        BY <1>1, NewLine DEF PeerSends, Wire!Accept, TypeOK
    <2> QED
        BY <2>1 DEF Wire!Next
<1>2. CASE PeerReads(d)
    BY <1>2, ChannelStutters DEF PeerReads
<1>3. CASE PeerCloses(d)
    <2>1. Wire!Close(d)
        BY <1>3 DEF PeerCloses, Wire!Close, TypeOK
    <2> QED
        BY <2>1 DEF Wire!Next
<1>4. CASE PeerExits(d)
    <2> DEFINE o == Opposite(d)
    <2>1. o \in Dir
        BY OppositeDir
    <2>2. CASE open[o]
        <3>1. Wire!Close(o)
            BY <1>4, <2>1, <2>2 DEF PeerExits, Wire!Close, TypeOK
        <3> QED
            BY <2>1, <3>1 DEF Wire!Next
    <2>3. CASE ~open[o]
        <3>1. open' = open
            BY <1>4, <2>1, <2>3 DEF PeerExits, TypeOK
        <3> QED
            BY <1>4, <3>1, ChannelStutters DEF PeerExits
    <2> QED
        BY <2>2, <2>3
<1> QED
    BY <1>1, <1>2, <1>3, <1>4 DEF Peer

LEMMA TransportImplements ==
    ASSUME IInv, IInv', Running, NEW d \in Dir, Transport(d)
    PROVE  [Wire!Next]_(Wire!channelVars)
<1> USE DEF IInv
<1>1. CASE TransportWrites(d)
    <2>1. ~eof[d]
        BY <1>1 DEF TransportWrites, Buffered, WireOK, TypeOK
    <2>2. Wire!Deliver(d)
        BY <1>1, <2>1, ChannelDelivers DEF TransportWrites, peerVars
    <2> QED
        BY <2>2 DEF Wire!Next
<1>2. CASE TransportCloses(d)
    <2>1. /\ piped[d] = Len(wire[d]) /\ Len(wire[d]) = Len(sent[d])
          /\ ~open[d] /\ ~eof[d]
          /\ wire[d] \in Seq(Line) /\ piped[d] \in Nat
        BY <1>2 DEF TransportCloses, Buffered, WireOK, TypeOK
    <2>2. Len(SubSeq(wire[d], 1, piped[d])) = Len(sent[d])
        BY <2>1
    <2>3. Wire!End(d)
        BY <1>2, <2>1, <2>2 DEF TransportCloses, peerVars, Wire!End, Running
    <2> QED
        BY <2>3 DEF Wire!Next
<1> QED
    BY <1>1, <1>2 DEF Transport

(* A pump that forwards a line delivers it if it is written through, and      *)
(* queues it if not.                                                          *)
LEMMA ForwardImplements ==
    ASSUME IInv, IInv', Running, NEW d \in Dir, Forwards(d),
           UNCHANGED <<sent, open, eof, main>>
    PROVE  [Wire!Next]_(Wire!channelVars)
<1> USE DEF IInv
<1>1. /\ Len(wire[d]) <= Len(wire'[d])
      /\ \A i \in 1..Len(wire[d]) : wire'[d][i] = wire[d][i]
      /\ \A e \in Dir : e # d => wire'[e] = wire[e]
    <2>1. wire' = [wire EXCEPT ![d] = Append(@, NextLine(d))]
        BY DEF Forwards
    <2>2. wire'[d] = Append(wire[d], NextLine(d)) /\ \A e \in Dir : e # d => wire'[e] = wire[e]
        BY <2>1 DEF TypeOK
    <2>3. wire[d] \in Seq(Line)
        BY DEF TypeOK
    <2> QED
        BY <2>2, <2>3
<1>2. CASE WrittenThrough(d)
    <2>1. ~eof[d]
        BY DEF Forwards, WireOK
    <2>2. piped' = [piped EXCEPT ![d] = @ + 1]
        BY <1>2 DEF Forwards
    <2>3. Wire!Deliver(d)
        BY <1>1, <2>1, <2>2, ChannelDelivers
    <2> QED
        BY <2>3 DEF Wire!Next
<1>3. CASE ~WrittenThrough(d)
    <2>1. piped' = piped
        BY <1>3 DEF Forwards, TypeOK
    <2> QED
        BY <1>1, <2>1, QueuedIsNotDelivered
<1> QED
    BY <1>2, <1>3

LEMMA PumpImplements ==
    ASSUME IInv, IInv', Running, NEW d \in Dir, Pump(d)
    PROVE  [Wire!Next]_(Wire!channelVars)
<1>1. CASE PumpForwards(d) \/ PumpSuspends(d)
    BY <1>1, ForwardImplements DEF PumpForwards, PumpSuspends, peerVars
<1>2. CASE PumpResumes(d) \/ PumpEnds(d) \/ PumpRaises(d)
    BY <1>2, ChannelStutters
    DEF PumpResumes, Woken, PumpEnds, PumpRaises, peerVars, wireVars, Running
<1> QED
    BY <1>1, <1>2 DEF Pump

(* The end of the process breaks the channel; nothing else of the coroutine   *)
(* touches it.                                                                *)
LEMMA MainImplements ==
    ASSUME Main \/ Killed
    PROVE  [Wire!Next]_(Wire!channelVars)
<1>1. ASSUME UNCHANGED <<sent, open>>, PipesClose, Running, ~Running'
      PROVE  Wire!Next
    <2>1. Wire!Break
        BY <1>1 DEF Wire!Break, PipesClose
    <2> QED
        BY <2>1 DEF Wire!Next
<1>2. CASE GatherReturns \/ FlushReturns \/ \E d \in Dir, k \in Keys : Flush(d, k)
    BY <1>2, ChannelStutters
    DEF GatherReturns, FlushReturns, Flush, peerVars, wireVars, Running
<1>3. CASE GatherRaises \/ WaitReturns \/ Killed \/ \E d \in Dir, k \in Keys : FlushFails(d, k)
    BY <1>1, <1>3 DEF GatherRaises, WaitReturns, Killed, FlushFails, peerVars, Running
<1> QED
    BY <1>2, <1>3 DEF Main

LEMMA StepImplements ==
    IInv /\ IInv' /\ [Next]_vars => [Wire!Next]_(Wire!channelVars)
<1> SUFFICES ASSUME IInv, IInv', [Next]_vars PROVE [Wire!Next]_(Wire!channelVars)
    OBVIOUS
<1>1. CASE UNCHANGED vars
    BY <1>1, ChannelStutters DEF vars, Running
<1>2. CASE Next
    BY <1>1, <1>2, PeerImplements, TransportImplements, PumpImplements, MainImplements
       DEF Next, Ended
<1> QED
    BY <1>1, <1>2

LEMMA InitImplements == Init => Wire!Init
<1> SUFFICES ASSUME Init PROVE Wire!Init
    OBVIOUS
<1>1. \A d \in Dir : SubSeq(wire[d], 1, piped[d]) = << >>
    BY DEF Init
<1> QED
    BY <1>1 DEF Init, Wire!Init, Running

(* "Forwards raw JSON-RPC bytes unchanged in both directions" (stdio.py:3-5): *)
(* whatever the tap, the store, the peers and a signal do, each direction is  *)
(* a FIFO channel that skips and alters nothing, and ends before its last     *)
(* line only together with the proxy.                                         *)
THEOREM Implements == Spec => ImplementsChannel
<1> QED
    BY Invariant, InitImplements, StepImplements, PTL DEF Spec, ImplementsChannel, Wire!Spec
------------------------------------------------------------------------------
(* The spans. What follows is about the messages in them and in the tap's     *)
(* dictionaries.                                                              *)

Asking == {"request", "bad_request"}

(* No two requests of one direction are the same key to the tap. Ids differ,  *)
(* as MCP asks; so this says of Str that it keeps those apart that were used. *)
DistinctKeys ==
    \A d \in Dir : \A i, j \in 1..Len(sent[d]) :
        /\ sent[d][i].type \in Asking /\ sent[d][j].type \in Asking
        /\ Str[sent[d][i].id] = Str[sent[d][j].id]
        => i = j

------------------------------------------------------------------------------
(* The inductive invariant, in parts.                                         *)

(* The peers: ids of requests are fresh, an answer is to a request that was   *)
(* read and bears its id, and no request is answered twice.                   *)
FreshIds ==
    \A d \in Dir : \A i, j \in 1..Len(sent[d]) :
        /\ sent[d][i].type \in Asking /\ sent[d][j].type \in Asking
        /\ sent[d][i].id = sent[d][j].id
        => i = j

AnswersRead ==
    \A d \in Dir : \A j \in 1..Len(sent[d]) :
        sent[d][j].type = "response" =>
            LET o == Opposite(d)
                i == sent[d][j].re
            IN  /\ i \in 1..got[o]
                /\ sent[o][i].type \in Asking
                /\ sent[o][i].id = sent[d][j].id

AnswersOnce ==
    \A d \in Dir : \A i, j \in 1..Len(sent[d]) :
        /\ sent[d][i].type = "response" /\ sent[d][j].type = "response"
        /\ sent[d][i].re = sent[d][j].re
        => i = j

(* The tap: what it keeps are requests it was shown, under their keys, and    *)
(* until the end of the session without a span.                               *)
PendingOK ==
    \A d \in Dir : \A k \in Waiting(d) :
        LET i == pending[d][k] IN
        i \in 1..seen[d] /\ sent[d][i].type = "request" /\ Str[sent[d][i].id] = k

Unwritten ==
    Running => \A d \in Dir : \A k \in Waiting(d) :
                   \A s \in Written : s.dir = d => s.req # pending[d][k]

(* Spans are of lines the tap was shown; the halves of a pair have one key.   *)
SpanOK(s) ==
    LET o == Opposite(s.dir) IN
    /\ s.req # 0 => /\ s.req \in 1..seen[s.dir]
                    /\ sent[s.dir][s.req].type \in {"request", "notification"}
    /\ s.resp # 0 => /\ s.resp \in 1..seen[o]
                     /\ sent[o][s.resp].type = "response"
    /\ s.req # 0 /\ s.resp # 0 =>
           /\ sent[s.dir][s.req].type = "request"
           /\ Str[sent[s.dir][s.req].id] = Str[sent[o][s.resp].id]

SpansOK == \A s \in Written : SpanOK(s)

Once(seq) ==
    \A i, j \in 1..Len(seq) :
        i # j /\ seq[i].dir = seq[j].dir =>
            /\ seq[i].req = seq[j].req => seq[i].req = 0
            /\ seq[i].resp = seq[j].resp => seq[i].resp = 0

(* The order of the two pumps: an answer that was forwarded is to a request   *)
(* the tap has been shown.                                                    *)
AnswersFollow ==
    \A d \in Dir : \A j \in 1..Len(wire[d]) :
        sent[d][j].type = "response" => sent[d][j].re <= seen[Opposite(d)]

(* The line a pump failed on was not read by the receiver.                    *)
RaisedBehind ==
    \A d \in Dir : pump[d] = "raised" =>
        seen[d] = Len(wire[d]) \/ (gone[d] /\ got[d] <= seen[d])

(* What run_stdio_proxy may rely on at each of its awaits.                    *)
Stage ==
    /\ main = "gather" => \A d \in Dir : pump[d] # "cancelled"
    /\ main \in {"flush", "wait", "returned"} => \A d \in Dir : pump[d] = "done"
    /\ main \in {"wait", "returned"} => NothingToFlush

(* Requests become spans without an answer only when the pumps are done.      *)
FlushedLate ==
    main = "gather" => \A s \in Written :
        s.req # 0 /\ s.resp = 0 => sent[s.dir][s.req].type = "notification"

Keyed == DistinctKeys => Accounted /\ AnsweredPaired

PeersOK == FreshIds /\ AnswersRead /\ AnswersOnce

TapOK == PendingOK /\ Unwritten /\ SpansOK /\ Once(Log) /\ FlushedLate /\ Keyed

OrderOK == AnswersFollow /\ RaisedBehind /\ Stage

TapInv == PeersOK /\ TapOK /\ OrderOK

------------------------------------------------------------------------------
(* The store: what a write adds to the spans ever written, and in what order. *)

LEMMA WrittenTypes ==
    ASSUME TapTypeOK
    PROVE  \A s \in Written : s \in SpanType
BY DEF Written, Contents, TapTypeOK

Writes(s) == WriteOk(s) \/ WriteRaises(s) \/ WriteRaisesThenCloses(s)

LEMMA WrittenGrows ==
    ASSUME TapTypeOK, NEW s \in SpanType, Writes(s)
    PROVE  Written' = Written \cup {s}
<1>1. /\ rows \in Seq(SpanType) /\ txn \in Seq(SpanType) /\ lost \in Seq(SpanType)
      /\ Append(txn, s) \in Seq(SpanType) /\ Append(lost, s) \in Seq(SpanType)
      /\ Contents(Append(txn, s)) = Contents(txn) \cup {s}
      /\ Contents(Append(lost, s)) = Contents(lost) \cup {s}
    BY ContentsAppend DEF TapTypeOK
<1>2. CASE WriteOk(s)
    <2> DEFINE tail == Append(txn, s)
    <2>0. tail \in Seq(SpanType)
        BY <1>1
    <2> HIDE DEF tail
    <2>a. Contents(rows \o tail) = Contents(rows) \cup Contents(tail)
        BY <1>1, <2>0, ContentsConcat
    <2>1. Contents(rows') = Contents(rows) \cup Contents(txn) \cup {s}
        BY <1>1, <1>2, <2>a DEF WriteOk, tail
    <2>2. Contents(txn') = {} /\ lost' = lost
        BY <1>2, ContentsEmpty DEF WriteOk
    <2> QED
        BY <2>1, <2>2 DEF Written
<1>3. CASE InsertRaises(s)
    BY <1>1, <1>3 DEF InsertRaises, Written
<1>4. CASE CommitRaises(s)
    BY <1>1, <1>4 DEF CommitRaises, Written
<1>5. CASE WriteRaisesThenCloses(s)
    <2> DEFINE tail == Append(txn, s)
    <2>0. tail \in Seq(SpanType)
        BY <1>1
    <2> HIDE DEF tail
    <2>a. Contents(lost \o tail) = Contents(lost) \cup Contents(tail)
        BY <1>1, <2>0, ContentsConcat
    <2>1. Contents(lost') = Contents(lost) \cup Contents(txn) \cup {s}
        BY <1>1, <1>5, <2>a DEF WriteRaisesThenCloses, tail
    <2>2. Contents(txn') = {} /\ rows' = rows
        BY <1>5, ContentsEmpty DEF WriteRaisesThenCloses
    <2> QED
        BY <2>1, <2>2 DEF Written
<1> QED
    BY <1>2, <1>3, <1>4, <1>5 DEF Writes, WriteRaises

LEMMA WrittenAtClose ==
    ASSUME TapTypeOK, CloseStore
    PROVE  Written' = Written
<1>1. Contents(lost') = Contents(lost) \cup Contents(txn)
    BY ContentsConcat DEF TapTypeOK, CloseStore
<1>2. Contents(txn') = {} /\ rows' = rows
    BY ContentsEmpty DEF CloseStore
<1> QED
    BY <1>1, <1>2 DEF Written

(* No message twice: it does not matter in what order the spans are.          *)
LEMMA OncePermuted ==
    ASSUME NEW s \in Seq(SpanType), NEW t \in Seq(SpanType), Once(s),
           NEW f \in [1..Len(t) -> 1..Len(s)],
           \A i, j \in 1..Len(t) : f[i] = f[j] => i = j,
           \A i \in 1..Len(t) : t[i] = s[f[i]]
    PROVE  Once(t)
<1> SUFFICES ASSUME NEW i \in 1..Len(t), NEW j \in 1..Len(t),
                    i # j, t[i].dir = t[j].dir
             PROVE  /\ t[i].req = t[j].req => t[i].req = 0
                    /\ t[i].resp = t[j].resp => t[i].resp = 0
    BY DEF Once
<1>1. f[i] \in 1..Len(s) /\ f[j] \in 1..Len(s) /\ f[i] # f[j]
    OBVIOUS
<1>2. t[i] = s[f[i]] /\ t[j] = s[f[j]]
    OBVIOUS
<1> QED
    BY <1>1, <1>2 DEF Once

(* A span that shares no message with those of the log.                       *)
NewTo(s, seq) ==
    \A w \in Contents(seq) : w.dir = s.dir =>
        (w.req = s.req => s.req = 0) /\ (w.resp = s.resp => s.resp = 0)

LEMMA OnceAppended ==
    ASSUME NEW seq \in Seq(SpanType), NEW s \in SpanType, Once(seq), NewTo(s, seq)
    PROVE  Once(Append(seq, s))
<1> DEFINE t == Append(seq, s)
           n == Len(seq) + 1
<1>1. /\ Len(seq) \in Nat /\ Len(t) = n /\ t[n] = s
      /\ \A i \in 1..Len(seq) : t[i] = seq[i] /\ t[i] \in Contents(seq)
    BY DEF Contents
<1> SUFFICES ASSUME NEW i \in 1..n, NEW j \in 1..n,
                    i # j, t[i].dir = t[j].dir
             PROVE  /\ t[i].req = t[j].req => t[i].req = 0
                    /\ t[i].resp = t[j].resp => t[i].resp = 0
    BY <1>1 DEF Once
<1>2. CASE i \in 1..Len(seq) /\ j \in 1..Len(seq)
    BY <1>1, <1>2 DEF Once
<1>3. CASE i = n /\ j \in 1..Len(seq)
    BY <1>1, <1>3 DEF NewTo
<1>4. CASE j = n /\ i \in 1..Len(seq)
    BY <1>1, <1>4 DEF NewTo
<1> QED
    BY <1>1, <1>2, <1>3, <1>4

(* The log of all spans grows by one with every write, wherever it goes.      *)
LEMMA LogGrows ==
    ASSUME TapTypeOK, NEW s \in SpanType, Writes(s), Once(Append(Log, s))
    PROVE  Once(Log')
<1> DEFINE r == Len(rows)
           t == Len(txn)
           l == Len(lost)
           n == r + t + l
           all == Append(Log, s)
<1>1. /\ rows \in Seq(SpanType) /\ txn \in Seq(SpanType) /\ lost \in Seq(SpanType)
      /\ r \in Nat /\ t \in Nat /\ l \in Nat
    BY DEF TapTypeOK
<1>2. /\ all \in Seq(SpanType) /\ Len(all) = n + 1
      /\ \A i \in 1..r : all[i] = rows[i]
      /\ \A i \in 1..t : all[r + i] = txn[i]
      /\ \A i \in 1..l : all[r + t + i] = lost[i]
      /\ all[n + 1] = s
    BY <1>1 DEF Log
<1> HIDE DEF all
<1>3. CASE InsertRaises(s)
    <2> DEFINE new == rows \o txn \o Append(lost, s)
    <2>1. /\ new \in Seq(SpanType) /\ Len(new) = n + 1
          /\ \A i \in 1..n+1 : new[i] = all[i]
        BY <1>1 DEF all, Log
    <2>2. new = all
        BY <1>2, <2>1, SeqEqual
    <2> QED
        BY <1>3, <2>2 DEF InsertRaises, Log, all
<1>4. CASE WriteOk(s) \/ CommitRaises(s)
    <2> DEFINE new == rows \o Append(txn, s) \o lost
               p == r + t + 1
               f == [i \in 1..n+1 |-> IF i < p THEN i ELSE IF i = p THEN n + 1 ELSE i - 1]
    <2>1. /\ new \in Seq(SpanType) /\ Len(new) = n + 1
          /\ \A i \in 1..r : new[i] = rows[i]
          /\ \A i \in 1..t : new[r + i] = txn[i]
          /\ new[p] = s
          /\ \A i \in 1..l : new[p + i] = lost[i]
        BY <1>1
    <2>2. Log' = new
        <3>1. CASE WriteOk(s)
            <4>1. Log' = (rows \o Append(txn, s)) \o << >> \o lost
                BY <3>1 DEF WriteOk, Log
            <4>2. rows \o Append(txn, s) \in Seq(SpanType)
                BY <1>1
            <4>3. (rows \o Append(txn, s)) \o << >> = rows \o Append(txn, s)
                BY <4>2, ConcatEmptySeq
            <4> QED
                BY <4>1, <4>3
        <3>2. CASE CommitRaises(s)
            BY <3>2 DEF CommitRaises, Log
        <3> QED
            BY <1>4, <3>1, <3>2
    <2> HIDE DEF new
    <2>3. f \in [1..Len(new) -> 1..Len(all)] /\ \A i, j \in 1..Len(new) : f[i] = f[j] => i = j
        BY <1>1, <1>2, <2>1, SMTT(20)
    <2>4. \A i \in 1..Len(new) : new[i] = all[f[i]]
        <3> SUFFICES ASSUME NEW i \in 1..n+1 PROVE new[i] = all[f[i]]
            BY <2>1
        <3>1. CASE i \in 1..r
            BY <1>1, <1>2, <2>1, <3>1
        <3>2. CASE i \in r+1..r+t
            <4>1. PICK j \in 1..t : i = r + j /\ f[i] = r + j
                <5> i - r \in 1..t
                    BY <1>1, <3>2
                <5>1. i = r + (i - r) /\ f[i] = r + (i - r)
                    BY <1>1, <3>2
                <5> WITNESS i - r \in 1..t
                <5> QED
                    BY <5>1
            <4> QED
                BY <1>2, <2>1, <4>1
        <3>3. CASE i = p
            BY <1>1, <1>2, <2>1, <3>3
        <3>4. CASE i \in p+1..n+1
            <4>1. PICK j \in 1..l : i = p + j /\ f[i] = r + t + j
                <5> i - p \in 1..l
                    BY <1>1, <3>4
                <5>1. i = p + (i - p) /\ f[i] = r + t + (i - p)
                    BY <1>1, <3>4
                <5> WITNESS i - p \in 1..l
                <5> QED
                    BY <5>1
            <4> QED
                BY <1>2, <2>1, <4>1
        <3> QED
            BY <1>1, <3>1, <3>2, <3>3, <3>4
    <2> HIDE DEF f
    <2>5. Once(new)
        BY <1>2, <2>1, <2>3, <2>4, OncePermuted DEF all
    <2> QED
        BY <2>2, <2>5
<1>5. CASE WriteRaisesThenCloses(s)
    <2> DEFINE new == rows \o (lost \o Append(txn, s))
               f == [i \in 1..n+1 |-> IF i <= r THEN i
                                      ELSE IF i <= r + l THEN i + t
                                      ELSE IF i <= n THEN i - l ELSE n + 1]
    <2>1. /\ new \in Seq(SpanType) /\ Len(new) = n + 1
          /\ \A i \in 1..r : new[i] = rows[i]
          /\ \A i \in 1..l : new[r + i] = lost[i]
          /\ \A i \in 1..t : new[r + l + i] = txn[i]
          /\ new[n + 1] = s
        BY <1>1
    <2>2. Log' = new
        <3>1. Log' = rows \o << >> \o (lost \o Append(txn, s))
            BY <1>5 DEF WriteRaisesThenCloses, Log
        <3>2. rows \o << >> = rows
            BY <1>1, ConcatEmptySeq
        <3> QED
            BY <3>1, <3>2
    <2> HIDE DEF new
    <2>3. f \in [1..Len(new) -> 1..Len(all)] /\ \A i, j \in 1..Len(new) : f[i] = f[j] => i = j
        BY <1>1, <1>2, <2>1
    <2>4. \A i \in 1..Len(new) : new[i] = all[f[i]]
        <3> SUFFICES ASSUME NEW i \in 1..n+1 PROVE new[i] = all[f[i]]
            BY <2>1
        <3>1. CASE i \in 1..r
            BY <1>1, <1>2, <2>1, <3>1
        <3>2. CASE i \in r+1..r+l
            <4>1. PICK j \in 1..l : i = r + j /\ f[i] = r + t + j
                <5> i - r \in 1..l
                    BY <1>1, <3>2
                <5>1. i = r + (i - r) /\ f[i] = r + t + (i - r)
                    BY <1>1, <3>2
                <5> WITNESS i - r \in 1..l
                <5> QED
                    BY <5>1
            <4> QED
                BY <1>2, <2>1, <4>1
        <3>3. CASE i \in r+l+1..n
            <4>1. PICK j \in 1..t : i = r + l + j /\ f[i] = r + j
                <5> i - r - l \in 1..t
                    BY <1>1, <3>3
                <5>1. i = r + l + (i - r - l) /\ f[i] = r + (i - r - l)
                    BY <1>1, <3>3
                <5> WITNESS i - r - l \in 1..t
                <5> QED
                    BY <5>1
            <4> QED
                BY <1>2, <2>1, <4>1
        <3>4. CASE i = n + 1
            BY <1>1, <1>2, <2>1, <3>4
        <3> QED
            BY <1>1, <3>1, <3>2, <3>3, <3>4, SMTT(40)
    <2> HIDE DEF f
    <2>5. Once(new)
        BY <1>2, <2>1, <2>3, <2>4, OncePermuted DEF all
    <2> QED
        BY <2>2, <2>5
<1> QED
    BY <1>3, <1>4, <1>5 DEF Writes, WriteRaises

(* Closing the store only puts the spans in another order.                    *)
LEMMA LogAtClose ==
    ASSUME TapTypeOK, CloseStore, Once(Log)
    PROVE  Once(Log')
<1> DEFINE r == Len(rows)
           t == Len(txn)
           l == Len(lost)
           n == r + t + l
           new == rows \o (lost \o txn)
           f == [i \in 1..n |-> IF i <= r THEN i
                                ELSE IF i <= r + l THEN i + t ELSE i - l]
<1>1. /\ rows \in Seq(SpanType) /\ txn \in Seq(SpanType) /\ lost \in Seq(SpanType)
      /\ r \in Nat /\ t \in Nat /\ l \in Nat
    BY DEF TapTypeOK
<1>2. /\ Log \in Seq(SpanType) /\ Len(Log) = n
      /\ \A i \in 1..r : Log[i] = rows[i]
      /\ \A i \in 1..t : Log[r + i] = txn[i]
      /\ \A i \in 1..l : Log[r + t + i] = lost[i]
    BY <1>1 DEF Log
<1>3. /\ new \in Seq(SpanType) /\ Len(new) = n
      /\ \A i \in 1..r : new[i] = rows[i]
      /\ \A i \in 1..l : new[r + i] = lost[i]
      /\ \A i \in 1..t : new[r + l + i] = txn[i]
    BY <1>1
<1>4. Log' = new
    <2>1. Log' = rows \o << >> \o (lost \o txn)
        BY DEF CloseStore, Log
    <2>2. rows \o << >> = rows
        BY <1>1, ConcatEmptySeq
    <2> QED
        BY <2>1, <2>2
<1> HIDE DEF new
<1>5. f \in [1..Len(new) -> 1..Len(Log)] /\ \A i, j \in 1..Len(new) : f[i] = f[j] => i = j
    BY <1>1, <1>2, <1>3, SMTT(40)
<1>6. \A i \in 1..Len(new) : new[i] = Log[f[i]]
    <2> SUFFICES ASSUME NEW i \in 1..n PROVE new[i] = Log[f[i]]
        BY <1>3
    <2>1. CASE i \in 1..r
        BY <1>1, <1>2, <1>3, <2>1
    <2>2. CASE i \in r+1..r+l
        <3>1. PICK j \in 1..l : i = r + j /\ f[i] = r + t + j
            <4> i - r \in 1..l
                BY <1>1, <2>2
            <4>1. i = r + (i - r) /\ f[i] = r + t + (i - r)
                BY <1>1, <2>2
            <4> WITNESS i - r \in 1..l
            <4> QED
                BY <4>1
        <3> QED
            BY <1>2, <1>3, <3>1
    <2>3. CASE i \in r+l+1..n
        <3>1. PICK j \in 1..t : i = r + l + j /\ f[i] = r + j
            <4> i - r - l \in 1..t
                BY <1>1, <2>3
            <4>1. i = r + l + (i - r - l) /\ f[i] = r + (i - r - l)
                BY <1>1, <2>3
            <4> WITNESS i - r - l \in 1..t
            <4> QED
                BY <4>1
        <3> QED
            BY <1>2, <1>3, <3>1
    <2> QED
        BY <1>1, <2>1, <2>2, <2>3
<1> HIDE DEF f
<1>7. Once(new)
    BY <1>2, <1>3, <1>5, <1>6, OncePermuted
<1> QED
    BY <1>4, <1>7

------------------------------------------------------------------------------
(* The peers.                                                                 *)

LEMMA TwoDirections ==
    ASSUME NEW d \in Dir
    PROVE  /\ Opposite(d) \in Dir /\ Opposite(Opposite(d)) = d /\ Opposite(d) # d
           /\ Origin(d) = Opposite(d)
BY DEF Opposite, Origin, Dir, C2S, S2C

LEMMA Bounds ==
    ASSUME IInv, NEW d \in Dir
    PROVE  /\ Len(sent[d]) \in Nat /\ Len(wire[d]) \in Nat
           /\ got[d] \in Nat /\ seen[d] \in Nat /\ piped[d] \in Nat
           /\ got[d] <= piped[d] /\ piped[d] <= Len(wire[d]) /\ seen[d] <= Len(wire[d])
           /\ Len(wire[d]) <= Len(sent[d])
           /\ got[d] <= Len(sent[d]) /\ seen[d] <= Len(sent[d])
BY DEF IInv, TypeOK, WireOK

(* What is sent, read and observed stays so.                                  *)
Grows ==
    \A d \in Dir :
        /\ Len(sent[d]) <= Len(sent'[d])
        /\ \A i \in 1..Len(sent[d]) : sent'[d][i] = sent[d][i]
        /\ got[d] <= got'[d]
        /\ seen[d] <= seen'[d]

LEMMA SendsOneLine ==
    ASSUME IInv, NEW d \in Dir, PeerSends(d)
    PROVE  \E l \in Request(d) \cup Response(d) \cup Other(d) :
               /\ sent'[d] = Append(sent[d], l)
               /\ Len(sent'[d]) = Len(sent[d]) + 1
               /\ \A i \in 1..Len(sent[d]) : sent'[d][i] = sent[d][i]
               /\ sent'[d][Len(sent[d]) + 1] = l
               /\ \A e \in Dir : e # d => sent'[e] = sent[e]
<1>1. PICK l \in Request(d) \cup Response(d) \cup Other(d) :
          sent' = [sent EXCEPT ![d] = Append(@, l)]
    BY DEF PeerSends
<1>2. sent[d] \in Seq(Line) /\ l \in Line
    BY <1>1, NewLine DEF IInv, TypeOK
<1>3. sent'[d] = Append(sent[d], l) /\ \A e \in Dir : e # d => sent'[e] = sent[e]
    BY <1>1 DEF IInv, TypeOK
<1> QED
    BY <1>2, <1>3

LEMMA StepGrows ==
    ASSUME IInv, [Next]_vars
    PROVE  Grows
<1>1. ASSUME NEW d \in Dir, PeerSends(d) PROVE Grows
    <2>1. UNCHANGED <<got, seen>>
        BY <1>1 DEF PeerSends
    <2>2. \A e \in Dir : Len(sent[e]) \in Nat /\ got[e] \in Nat /\ seen[e] \in Nat
        BY Bounds
    <2> QED
        BY <1>1, <2>1, <2>2, SendsOneLine DEF Grows
<1>2. ASSUME NEW d \in Dir, PeerReads(d) PROVE Grows
    <2>1. UNCHANGED <<sent, seen>> /\ got' = [got EXCEPT ![d] = @ + 1]
        BY <1>2 DEF PeerReads
    <2> QED
        BY <2>1 DEF Grows, IInv, TypeOK
<1>3. ASSUME NEW d \in Dir, PumpForwards(d) \/ PumpResumes(d) PROVE Grows
    <2>1. UNCHANGED <<sent, got>> /\ seen' = [seen EXCEPT ![d] = @ + 1]
        BY <1>3 DEF PumpForwards, PumpResumes, peerVars
    <2> QED
        BY <2>1 DEF Grows, IInv, TypeOK
<1>4. CASE UNCHANGED <<sent, got, seen>>
    BY <1>4 DEF Grows, IInv, TypeOK
<1> QED
    BY <1>1, <1>2, <1>3, <1>4
       DEF Next, Peer, PeerCloses, PeerExits, Transport, TransportWrites, TransportCloses,
           Pump, PumpSuspends, PumpEnds, PumpRaises, Main, GatherReturns, GatherRaises,
           Flush, FlushFails, FlushReturns, WaitReturns, Killed, Ended, vars, peerVars

(* Only the peers' own steps matter to what is said of them.                  *)
LEMMA PeersStep ==
    ASSUME IInv, PeersOK, [Next]_vars
    PROVE  PeersOK'
<1> USE DEF PeersOK
<1>1. ASSUME NEW d \in Dir, PeerSends(d) PROVE PeersOK'
    <2> DEFINE n == Len(sent[d]) + 1
               o == Opposite(d)
    <2>1. PICK l \in Request(d) \cup Response(d) \cup Other(d) :
              /\ Len(sent'[d]) = n
              /\ \A i \in 1..Len(sent[d]) : sent'[d][i] = sent[d][i]
              /\ sent'[d][n] = l
              /\ \A e \in Dir : e # d => sent'[e] = sent[e]
        BY <1>1, SendsOneLine
    <2>2. got' = got
        BY <1>1 DEF PeerSends
    <2>3. /\ Len(sent[d]) \in Nat
          /\ \A i \in 1..n : i = n \/ i \in 1..Len(sent[d])
        BY Bounds
    <2>4. /\ l.type \in Asking => l.id \notin UsedIds(d)
          /\ l.type = "response" => \E i \in Unanswered(o) : l.re = i /\ l.id = sent[o][i].id
        BY DEF Request, Response, Other, Asking
    <2>5. FreshIds'
        <3> SUFFICES ASSUME NEW e \in Dir, NEW i \in 1..Len(sent'[e]), NEW j \in 1..Len(sent'[e]),
                            sent'[e][i].type \in Asking, sent'[e][j].type \in Asking,
                            sent'[e][i].id = sent'[e][j].id, i # j
                     PROVE  FALSE
            BY DEF FreshIds
        <3>1. CASE e # d
            BY <2>1, <3>1 DEF FreshIds
        <3>2. \A m \in 1..Len(sent[d]) : sent[d][m].id \in UsedIds(d)
            BY DEF UsedIds
        <3>3. CASE e = d /\ i = n
            BY <2>1, <2>3, <2>4, <3>2, <3>3
        <3>4. CASE e = d /\ j = n
            BY <2>1, <2>3, <2>4, <3>2, <3>4
        <3>5. CASE e = d /\ i # n /\ j # n
            BY <2>1, <2>3, <3>5 DEF FreshIds
        <3> QED
            BY <3>1, <3>3, <3>4, <3>5
    <2>6. AnswersRead'
        <3> SUFFICES ASSUME NEW e \in Dir, NEW j \in 1..Len(sent'[e]),
                            sent'[e][j].type = "response"
                     PROVE  /\ sent'[e][j].re \in 1..got[Opposite(e)]
                            /\ sent'[Opposite(e)][sent'[e][j].re].type \in Asking
                            /\ sent'[Opposite(e)][sent'[e][j].re].id = sent'[e][j].id
            BY <2>2 DEF AnswersRead
        <3>1. CASE e = d /\ j = n
            BY <2>1, <2>4, <3>1, TwoDirections DEF Unanswered, Asking
        <3>2. CASE e = d /\ j # n
            BY <2>1, <2>3, <3>2, TwoDirections, SMTT(40) DEF AnswersRead
        <3>3. CASE e # d
            <4>1. Opposite(e) = d /\ sent'[e] = sent[e]
                BY <2>1, <3>3 DEF Opposite, Dir
            <4>2. \A i \in 1..got[d] : sent'[d][i] = sent[d][i]
                BY <2>1, Bounds
            <4> QED
                BY <4>1, <4>2 DEF AnswersRead
        <3> QED
            BY <3>1, <3>2, <3>3
    <2>7. AnswersOnce'
        <3> SUFFICES ASSUME NEW e \in Dir, NEW i \in 1..Len(sent'[e]), NEW j \in 1..Len(sent'[e]),
                            sent'[e][i].type = "response", sent'[e][j].type = "response",
                            sent'[e][i].re = sent'[e][j].re, i # j
                     PROVE  FALSE
            BY DEF AnswersOnce
        <3>1. CASE e # d
            BY <2>1, <3>1 DEF AnswersOnce
        <3>2. l.type = "response" => \A m \in 1..Len(sent[d]) : sent[d][m].re # l.re
            BY <2>4, TwoDirections DEF Unanswered
        <3>3. CASE e = d /\ (i = n \/ j = n)
            BY <2>1, <2>3, <3>2, <3>3
        <3>4. CASE e = d /\ i # n /\ j # n
            BY <2>1, <2>3, <3>4 DEF AnswersOnce
        <3> QED
            BY <3>1, <3>3, <3>4
    <2> QED
        BY <2>5, <2>6, <2>7
<1>2. CASE UNCHANGED sent
    <2>1. \A e \in Dir : got[e] \in Nat /\ got'[e] \in Nat /\ got[e] <= got'[e]
        BY Bounds, IInvNext, StepGrows DEF Grows, IInv, TypeOK
    <2>2. FreshIds' /\ AnswersOnce'
        BY <1>2 DEF FreshIds, AnswersOnce
    <2>3. AnswersRead'
        BY <1>2, <2>1, TwoDirections DEF AnswersRead
    <2> QED
        BY <2>2, <2>3
<1> QED
    BY <1>1, <1>2
       DEF Next, Peer, PeerReads, PeerCloses, PeerExits, Transport, TransportWrites,
           TransportCloses, Pump, PumpForwards, PumpSuspends, PumpResumes, PumpEnds,
           PumpRaises, Main, GatherReturns, GatherRaises, Flush, FlushFails, FlushReturns,
           WaitReturns, Killed, Ended, vars, peerVars

------------------------------------------------------------------------------
(* The order of the two pumps.                                                *)

(* Unless its pump has a turn to come, the tap has been shown every line the  *)
(* receiver has read.                                                         *)
LEMMA ReadIsSeen ==
    ASSUME IInv, OrderOK, main = "gather", NEW d \in Dir, ~Woken(d)
    PROVE  got[d] <= seen[d]
<1>1. CASE pump[d] \in {"reading", "done"}
    <2>1. Len(wire[d]) - seen[d] = 0
        BY <1>1 DEF IInv, TapFollowsWire
    <2> QED
        BY <2>1, Bounds
<1>2. CASE pump[d] = "draining"
    <2>1. Len(wire[d]) - seen[d] = 1
        BY <1>2 DEF IInv, TapFollowsWire
    <2>2. Len(wire[d]) - piped[d] > LowWater[d] /\ LowWater[d] \in Nat
        BY <1>2, Bounds, ProxyAssumption DEF Woken, Buffered
    <2> QED
        BY <2>1, <2>2, Bounds
<1>3. CASE pump[d] = "raised"
    BY <1>3, Bounds DEF OrderOK, RaisedBehind
<1> QED
    BY <1>1, <1>2, <1>3 DEF OrderOK, Stage, IInv, TypeOK, PumpState

LEMMA AnswersFollowStep ==
    ASSUME IInv, PeersOK, OrderOK, [Next]_vars
    PROVE  AnswersFollow'
<1>1. Grows /\ IInv'
    BY StepGrows, IInvNext
<1>2. ASSUME NEW d \in Dir, NEW j \in 1..Len(wire[d])
      PROVE  /\ j \in 1..Len(sent[d]) /\ sent'[d][j] = sent[d][j]
             /\ sent[d][j].type = "response" => sent[d][j].re <= seen'[Opposite(d)]
    <2>1. j \in 1..Len(sent[d])
        BY Bounds
    <2>2. sent'[d][j] = sent[d][j]
        BY <1>1, <2>1 DEF Grows
    <2>3. ASSUME sent[d][j].type = "response" PROVE sent[d][j].re <= seen'[Opposite(d)]
        <3>1. sent[d][j].re <= seen[Opposite(d)] /\ sent[d][j].re \in Nat
            BY <2>1, <2>3, TwoDirections, Bounds DEF OrderOK, AnswersFollow, PeersOK, AnswersRead
        <3>2. seen[Opposite(d)] <= seen'[Opposite(d)] /\ seen'[Opposite(d)] \in Nat
            BY <1>1, TwoDirections DEF Grows, IInv, TypeOK
        <3> QED
            BY <3>1, <3>2, TwoDirections, Bounds
    <2> QED
        BY <2>1, <2>2, <2>3
<1>3. CASE UNCHANGED wire
    BY <1>2, <1>3 DEF AnswersFollow
<1>4. ASSUME NEW d \in Dir, Pump(d), Forwards(d) PROVE AnswersFollow'
    <2> DEFINE n == Len(wire[d]) + 1
               o == Opposite(d)
    <2>1. /\ n \in 1..Len(sent[d]) /\ Len(wire'[d]) = n
          /\ \A e \in Dir : e # d => wire'[e] = wire[e]
        <3>1. /\ Len(wire'[d]) = n
              /\ \A e \in Dir : e # d => wire'[e] = wire[e]
            BY <1>4, ForwardWire
        <3>2. Len(wire[d]) < Len(sent[d])
            BY <1>4 DEF Forwards, HasLine
        <3> QED
            BY <3>1, <3>2, Bounds
    <2>2. ASSUME sent[d][n].type = "response" PROVE sent[d][n].re <= seen'[o]
        <3>1. got[o] <= seen[o]
            BY <1>4, ReadIsSeen, TwoDirections DEF Pump, Forwards, HasTurn
        <3>2. sent[d][n].re \in 1..got[o]
            BY <2>1, <2>2 DEF PeersOK, AnswersRead
        <3>3. seen[o] <= seen'[o] /\ seen'[o] \in Nat
            BY <1>1, TwoDirections DEF Grows, IInv, TypeOK
        <3> QED
            BY <3>1, <3>2, <3>3, TwoDirections, Bounds
    <2>3. sent'[d][n] = sent[d][n]
        BY <1>1, <2>1 DEF Grows
    <2> SUFFICES ASSUME NEW e \in Dir, NEW j \in 1..Len(wire'[e])
                 PROVE  sent'[e][j].type = "response" => sent'[e][j].re <= seen'[Opposite(e)]
        BY DEF AnswersFollow
    <2>4. CASE e = d /\ j = n
        BY <2>2, <2>3, <2>4
    <2>5. CASE j \in 1..Len(wire[e])
        BY <1>2, <2>5
    <2> QED
        BY <2>1, <2>4, <2>5, Bounds
<1> QED
    BY <1>3, <1>4
       DEF Next, Peer, PeerSends, PeerReads, PeerCloses, PeerExits, Transport,
           TransportWrites, TransportCloses, Pump, PumpForwards, PumpSuspends, PumpResumes,
           PumpEnds, PumpRaises, Main, GatherReturns, GatherRaises, Flush, FlushFails,
           FlushReturns, WaitReturns, Killed, PipesClose, Ended, vars, wireVars

LEMMA RaisedBehindStep ==
    ASSUME IInv, OrderOK, [Next]_vars
    PROVE  RaisedBehind'
<1>1. IInv' /\ Grows
    BY IInvNext, StepGrows
<1>2. CASE UNCHANGED <<wire, seen, got, gone>> /\ \A d \in Dir : pump'[d] = "raised" => pump[d] = "raised"
    BY <1>2 DEF OrderOK, RaisedBehind
<1>3. ASSUME NEW d \in Dir, PeerReads(d) PROVE RaisedBehind'
    <2>1. /\ UNCHANGED <<wire, seen, gone, pump, piped>>
          /\ ~gone[d] /\ \A e \in Dir : e # d => got'[e] = got[e]
        BY <1>3 DEF PeerReads, wireVars, IInv, TypeOK
    <2> QED
        BY <2>1 DEF OrderOK, RaisedBehind
<1>4. ASSUME NEW d \in Dir, PeerExits(d) PROVE RaisedBehind'
    <2>1. /\ UNCHANGED <<wire, seen, got, pump>>
          /\ \A e \in Dir : gone[e] => gone'[e]
        BY <1>4 DEF PeerExits, wireVars, IInv, TypeOK
    <2> QED
        BY <2>1 DEF OrderOK, RaisedBehind
<1>5. ASSUME NEW d \in Dir, PumpForwards(d) \/ PumpSuspends(d) \/ PumpResumes(d)
      PROVE  RaisedBehind'
    <2>1. /\ UNCHANGED <<gone, got>>
          /\ pump'[d] # "raised"
          /\ \A e \in Dir : e # d => /\ wire'[e] = wire[e] /\ seen'[e] = seen[e]
                                     /\ pump'[e] = pump[e]
        BY <1>5 DEF PumpForwards, PumpSuspends, PumpResumes, Forwards, Woken, peerVars,
                    wireVars, IInv, TypeOK
    <2> QED
        BY <2>1 DEF OrderOK, RaisedBehind
<1>6. ASSUME NEW d \in Dir, Pump(d), PumpRaises(d) PROVE RaisedBehind'
    <2>1. /\ UNCHANGED <<wire, seen, gone, got>>
          /\ \A e \in Dir : e # d => pump'[e] = pump[e]
          /\ pump[d] = "reading" \/ (gone[d] /\ ~Woken(d))
          /\ main = "gather"
        BY <1>6 DEF PumpRaises, ReadRaises, DrainRaises, peerVars, wireVars, IInv, TypeOK, Pump
    <2>2. pump[d] = "reading" => seen[d] = Len(wire[d])
        BY Bounds DEF IInv, TapFollowsWire
    <2>3. ~Woken(d) => got[d] <= seen[d]
        BY <2>1, ReadIsSeen
    <2> QED
        BY <2>1, <2>2, <2>3 DEF OrderOK, RaisedBehind
<1>7. CASE Main \/ Killed
    BY <1>2, <1>7 DEF Main, Killed, GatherReturns, GatherRaises, Flush, FlushFails,
                      FlushReturns, WaitReturns, PipesClose, peerVars, wireVars
<1>8. ASSUME NEW d \in Dir, PeerSends(d) \/ PeerCloses(d) \/ Transport(d) \/ PumpEnds(d)
      PROVE  RaisedBehind'
    BY <1>2, <1>8 DEF PeerSends, PeerCloses, Transport, TransportWrites, TransportCloses,
                      PumpEnds, peerVars, wireVars, IInv, TypeOK
<1>9. CASE UNCHANGED vars
    BY <1>2, <1>9 DEF vars
<1> QED
    BY <1>3, <1>4, <1>5, <1>6, <1>7, <1>8, <1>9 DEF Next, Peer, Pump, Ended

LEMMA StageStep ==
    ASSUME IInv, OrderOK, [Next]_vars
    PROVE  Stage'
<1>1. CASE UNCHANGED <<main, pump, pending>>
    BY <1>1 DEF OrderOK, Stage, NothingToFlush, Waiting
<1>2. ASSUME NEW d \in Dir, Pump(d) PROVE Stage'
    <2>1. /\ main = "gather" /\ main' = "gather"
          /\ pump'[d] # "cancelled" \/ pump' = pump
          /\ \A e \in Dir : e # d => pump'[e] = pump[e]
        BY <1>2 DEF Pump, PumpForwards, PumpSuspends, PumpResumes, PumpEnds, PumpRaises,
                    IInv, TypeOK
    <2> QED
        BY <2>1 DEF OrderOK, Stage
<1>3. CASE GatherReturns
    BY <1>3 DEF GatherReturns, Stage
<1>4. CASE GatherRaises \/ Killed
    BY <1>4 DEF GatherRaises, Killed, Stage
<1>5. ASSUME NEW d \in Dir, NEW k \in Keys, Flush(d, k) \/ FlushFails(d, k) PROVE Stage'
    BY <1>5 DEF Flush, FlushFails, OrderOK, Stage
<1>6. CASE FlushReturns
    BY <1>6 DEF FlushReturns, tapVars, OrderOK, Stage, NothingToFlush, Waiting
<1>7. CASE WaitReturns
    BY <1>7 DEF WaitReturns, OrderOK, Stage, NothingToFlush, Waiting
<1>8. ASSUME NEW d \in Dir, Peer(d) \/ Transport(d) PROVE Stage'
    BY <1>1, <1>8 DEF Peer, PeerSends, PeerReads, PeerCloses, PeerExits, Transport,
                      TransportWrites, TransportCloses, tapVars
<1> QED
    BY <1>1, <1>2, <1>3, <1>4, <1>5, <1>6, <1>7, <1>8 DEF Next, Main, Ended, vars, tapVars

------------------------------------------------------------------------------
(* The spans: steps that leave the tap alone, or only close the store.        *)

LEMMA KeptLines ==
    ASSUME IInv, IInv', Grows, NEW d \in Dir
    PROVE  \A i \in 1..seen[d] : /\ i \in 1..Len(sent[d]) /\ i \in 1..seen'[d]
                                 /\ sent'[d][i] = sent[d][i]
<1> TAKE i \in 1..seen[d]
<1>1. i \in 1..Len(sent[d])
    BY Bounds
<1>2. i <= seen'[d]
    <2>1. seen[d] <= seen'[d] /\ seen'[d] \in Nat
        BY DEF Grows, IInv, TypeOK
    <2> QED
        BY <2>1, Bounds
<1> QED
    BY <1>1, <1>2 DEF Grows

LEMMA SpanKept ==
    ASSUME IInv, IInv', Grows, NEW s \in SpanType, SpanOK(s)
    PROVE  SpanOK(s)'
<1> DEFINE d == s.dir
           o == Opposite(d)
<1>1. d \in Dir /\ o \in Dir
    BY TwoDirections DEF SpanType
<1>2. s.req # 0 => s.req \in 1..seen'[d] /\ sent'[d][s.req] = sent[d][s.req]
    BY <1>1, KeptLines DEF SpanOK
<1>3. s.resp # 0 => s.resp \in 1..seen'[o] /\ sent'[o][s.resp] = sent[o][s.resp]
    BY <1>1, KeptLines DEF SpanOK
<1> QED
    BY <1>2, <1>3 DEF SpanOK

LEMMA KeysEarlier ==
    ASSUME IInv, IInv', Grows, DistinctKeys'
    PROVE  DistinctKeys
<1> SUFFICES ASSUME NEW d \in Dir, NEW i \in 1..Len(sent[d]), NEW j \in 1..Len(sent[d]),
                    sent[d][i].type \in Asking /\ sent[d][j].type \in Asking,
                    Str[sent[d][i].id] = Str[sent[d][j].id]
             PROVE  i = j
    BY DEF DistinctKeys
<1>1. Len(sent[d]) \in Nat /\ Len(sent'[d]) \in Nat
    BY Bounds, SMTT(20) DEF IInv, TypeOK
<1>2. i \in 1..Len(sent'[d]) /\ j \in 1..Len(sent'[d])
      /\ sent'[d][i] = sent[d][i] /\ sent'[d][j] = sent[d][j]
    BY <1>1 DEF Grows
<1> QED
    BY <1>2 DEF DistinctKeys

(* An answer the tap was shown, and the request it answers, are still there.  *)
LEMMA PairKept ==
    ASSUME IInv, IInv', Grows, PeersOK, NEW s \in SpanType, SpanOK(s), s.resp # 0
    PROVE  LET o == Opposite(s.dir)
               i == sent[o][s.resp].re
           IN  /\ sent'[o][s.resp] = sent[o][s.resp]
               /\ i \in 1..got[s.dir]
               /\ sent'[s.dir][i] = sent[s.dir][i]
<1> DEFINE d == s.dir
           o == Opposite(d)
           i == sent[o][s.resp].re
<1>1. d \in Dir /\ o \in Dir /\ Opposite(o) = d
    BY TwoDirections DEF SpanType
<1>2. s.resp \in 1..seen[o] /\ sent[o][s.resp].type = "response"
    BY DEF SpanOK
<1>3. s.resp \in 1..Len(sent[o]) /\ sent'[o][s.resp] = sent[o][s.resp]
    BY <1>1, <1>2, KeptLines
<1>4. i \in 1..got[d]
    BY <1>1, <1>2, <1>3 DEF PeersOK, AnswersRead
<1>5. i \in 1..Len(sent[d])
    BY <1>1, <1>4, Bounds
<1>6. sent'[d][i] = sent[d][i]
    BY <1>1, <1>5 DEF Grows
<1> QED
    BY <1>3, <1>4, <1>6

LEMMA QuietStep ==
    ASSUME IInv, IInv', Grows, PeersOK, TapOK,
           UNCHANGED <<pending, seen>>, Written' = Written, Once(Log'),
           Running' => Running, main' = "gather" => main = "gather"
    PROVE  TapOK'
<1> USE DEF TapOK
<1>1. \A d \in Dir : \A i \in 1..seen[d] : sent'[d][i] = sent[d][i]
    BY KeptLines
<1>2. PendingOK'
    BY <1>1 DEF PendingOK, Waiting
<1>3. Unwritten'
    BY DEF Unwritten, Waiting
<1>4. \A s \in Written : s \in SpanType
    BY WrittenTypes DEF IInv, TypeOK
<1>5. SpansOK'
    BY <1>4, SpanKept DEF SpansOK
<1>6. FlushedLate'
    <2> SUFFICES ASSUME main' = "gather", NEW s \in Written, s.req # 0, s.resp = 0
                 PROVE  sent'[s.dir][s.req].type = "notification"
        BY DEF FlushedLate
    <2>1. s.dir \in Dir /\ s.req \in 1..seen[s.dir]
        BY <1>4 DEF SpansOK, SpanOK, SpanType
    <2> QED
        BY <1>1, <2>1 DEF FlushedLate
<1>7. Keyed'
    <2> SUFFICES ASSUME DistinctKeys' PROVE Accounted' /\ AnsweredPaired'
        BY DEF Keyed
    <2>1. Accounted /\ AnsweredPaired
        BY KeysEarlier DEF Keyed
    <2>2. Accounted'
        BY <1>1, <2>1 DEF Accounted, Recorded, Waits, Waiting
    <2>3. AnsweredPaired'
        <3> SUFFICES ASSUME NEW s \in Written, s.resp # 0,
                            sent'[s.dir][sent'[Opposite(s.dir)][s.resp].re].type = "request"
                     PROVE  s.req = sent'[Opposite(s.dir)][s.resp].re
            BY DEF AnsweredPaired
        <3>1. s \in SpanType /\ SpanOK(s)
            BY <1>4 DEF SpansOK
        <3> QED
            BY <2>1, <3>1, PairKept DEF AnsweredPaired
    <2> QED
        BY <2>2, <2>3
<1> QED
    BY <1>2, <1>3, <1>5, <1>6, <1>7

------------------------------------------------------------------------------
(* The spans: the tap is shown a line.                                        *)

LEMMA LogContents ==
    ASSUME TapTypeOK
    PROVE  Log \in Seq(SpanType) /\ Contents(Log) = Written
<1>1. rows \o txn \in Seq(SpanType) /\ lost \in Seq(SpanType)
    BY DEF TapTypeOK
<1>2. Contents(rows \o txn) = Contents(rows) \cup Contents(txn)
    BY ContentsConcat DEF TapTypeOK
<1> DEFINE first == rows \o txn
<1> HIDE DEF first
<1>3. Contents(first \o lost) = Contents(first) \cup Contents(lost)
    BY <1>1, ContentsConcat DEF first
<1> QED
    BY <1>1, <1>2, <1>3 DEF Log, Written, first

LEMMA OnceWritten ==
    ASSUME TapTypeOK, Once(Log), NEW s \in SpanType, Writes(s),
           \A w \in Written : w.dir = s.dir =>
               (w.req = s.req => s.req = 0) /\ (w.resp = s.resp => s.resp = 0)
    PROVE  Once(Log')
<1>1. NewTo(s, Log)
    BY LogContents DEF NewTo
<1> QED
    BY <1>1, LogContents, OnceAppended, LogGrows

(* With distinct keys a pair is a true pair.                                  *)
LEMMA PairIsTrue ==
    ASSUME IInv, PeersOK, DistinctKeys,
           NEW s \in SpanType, SpanOK(s), s.req # 0, s.resp # 0
    PROVE  /\ s.resp \in 1..Len(sent[Opposite(s.dir)])
           /\ sent[Opposite(s.dir)][s.resp].re = s.req
<1> DEFINE d == s.dir
           o == Opposite(d)
           i == sent[o][s.resp].re
<1>1. d \in Dir /\ o \in Dir /\ Opposite(o) = d
    BY TwoDirections DEF SpanType
<1>2. /\ s.req \in 1..seen[d] /\ s.resp \in 1..seen[o]
      /\ sent[d][s.req].type = "request" /\ sent[o][s.resp].type = "response"
      /\ Str[sent[d][s.req].id] = Str[sent[o][s.resp].id]
    BY DEF SpanOK
<1>3. s.req \in 1..Len(sent[d]) /\ s.resp \in 1..Len(sent[o])
    BY <1>1, <1>2, Bounds
<1>4. i \in 1..got[d] /\ sent[d][i].type \in Asking /\ sent[d][i].id = sent[o][s.resp].id
    BY <1>1, <1>2, <1>3 DEF PeersOK, AnswersRead
<1>5. i \in 1..Len(sent[d])
    BY <1>1, <1>4, Bounds
<1>6. i = s.req
    BY <1>1, <1>2, <1>3, <1>4, <1>5 DEF DistinctKeys, Asking
<1> QED
    BY <1>3, <1>6

(* What every call of observe has in common: the tap is shown the next line,  *)
(* and if that is an answer it has been shown the request before.             *)
Shown(d) ==
    /\ main = "gather"
    /\ UNCHANGED <<sent, got, main>>
    /\ seen' = [seen EXCEPT ![d] = @ + 1]
    /\ seen[d] + 1 <= Len(sent[d])
    /\ LET l == sent[d][seen[d] + 1]
       IN  /\ Observe(d, seen[d] + 1, l)
           /\ l.type = "response" => l.re <= seen[Opposite(d)]

LEMMA ShownNothing ==
    ASSUME IInv, IInv', Grows, PeersOK, TapOK, NEW d \in Dir, Shown(d),
           ObserveNothing(sent[d][seen[d] + 1])
    PROVE  TapOK'
<1> USE DEF TapOK
<1> DEFINE n == seen[d] + 1
           l == sent[d][n]
<1>1. /\ UNCHANGED <<sent, pending, rows, txn, lost, main>>
      /\ l.type \in {"opaque", "bad_request"}
    BY DEF Shown, ObserveNothing, tapVars
<1>2. \A e \in Dir : \A i \in 1..seen'[e] : i \in 1..seen[e] \/ (e = d /\ i = n)
    BY Bounds DEF Shown, IInv, TypeOK
<1>3. PendingOK'
    BY <1>1, KeptLines DEF PendingOK, Waiting
<1>4. Unwritten' /\ FlushedLate' /\ Once(Log')
    BY <1>1 DEF Unwritten, FlushedLate, Waiting, Written, Running, Log
<1>5. SpansOK'
    BY <1>1, SpanKept, WrittenTypes DEF SpansOK, Written, IInv, TypeOK
<1>6. Keyed'
    <2> SUFFICES ASSUME DistinctKeys PROVE Accounted' /\ AnsweredPaired'
        BY <1>1 DEF Keyed, DistinctKeys
    <2>1. AnsweredPaired'
        BY <1>1 DEF Keyed, AnsweredPaired, Written
    <2>2. Accounted'
        <3> SUFFICES ASSUME NEW e \in Dir, NEW i \in 1..seen'[e]
                     PROVE  /\ sent[e][i].type = "request" => Recorded(e, i)' \/ Waits(e, i)'
                            /\ sent[e][i].type = "notification" => Recorded(e, i)'
                            /\ sent[e][i].type = "response" =>
                                  \E s \in Written' : s.dir = Opposite(e) /\ s.resp = i
            BY <1>1 DEF Accounted
        <3>1. CASE e = d /\ i = n
            BY <1>1, <3>1
        <3>2. CASE i \in 1..seen[e]
            BY <1>1, <3>2 DEF Keyed, Accounted, Recorded, Waits, Waiting, Written
        <3> QED
            BY <1>2, <3>1, <3>2
    <2> QED
        BY <2>1, <2>2
<1> QED
    BY <1>3, <1>4, <1>5, <1>6

LEMMA ShownRequest ==
    ASSUME IInv, IInv', Grows, PeersOK, TapOK, NEW d \in Dir, Shown(d),
           ObserveRequest(d, seen[d] + 1, sent[d][seen[d] + 1])
    PROVE  TapOK'
<1> USE DEF TapOK
<1> DEFINE n == seen[d] + 1
           l == sent[d][n]
           k == Str[l.id]
<1>1. /\ UNCHANGED <<sent, rows, txn, lost, main>>
      /\ l.type = "request"
      /\ pending' = [pending EXCEPT ![d][k] = n]
      /\ seen' = [seen EXCEPT ![d] = n]
    BY DEF Shown, ObserveRequest, storeVars
<1>2. n \in 1..Len(sent[d]) /\ n \in Nat /\ n # 0
    BY Bounds DEF Shown
<1>3. k \in Keys
    BY <1>1, <1>2, TapAssumption DEF IInv, LinesOK
<1>4. /\ pending \in [Dir -> [Keys -> Nat]]
      /\ pending'[d][k] = n
      /\ \A e \in Dir : \A q \in Keys : e # d \/ q # k => pending'[e][q] = pending[e][q]
    BY <1>1, <1>3 DEF IInv, TypeOK, TapTypeOK
<1>5. /\ seen'[d] = n
      /\ \A e \in Dir : \A i \in 1..seen'[e] : i \in 1..seen[e] \/ (e = d /\ i = n)
    BY <1>1, Bounds DEF IInv, TypeOK
<1> HIDE DEF k, n, l
<1>6. PendingOK'
    <2> SUFFICES ASSUME NEW e \in Dir, NEW q \in Keys, pending'[e][q] # 0
                 PROVE  /\ pending'[e][q] \in 1..seen'[e]
                        /\ sent[e][pending'[e][q]].type = "request"
                        /\ Str[sent[e][pending'[e][q]].id] = q
        BY <1>1 DEF PendingOK, Waiting
    <2>1. CASE e = d /\ q = k
        <3>1. n \in 1..n
            BY <1>2
        <3> QED
            BY <1>1, <1>4, <1>5, <2>1, <3>1, SMTT(20) DEF l, k
    <2>2. CASE e # d \/ q # k
        BY <1>4, <2>2, KeptLines, SMTT(50) DEF PendingOK, Waiting
    <2> QED
        BY <2>1, <2>2
<1>7. Unwritten'
    <2> SUFFICES ASSUME NEW e \in Dir, NEW q \in Keys, pending'[e][q] # 0,
                        NEW s \in Written, s.dir = e
                 PROVE  s.req # pending'[e][q]
        BY <1>1 DEF Unwritten, Waiting, Written
    <2>1. CASE e = d /\ q = k
        BY <1>2, <1>4, <2>1, Bounds DEF SpansOK, SpanOK, n
    <2>2. CASE e # d \/ q # k
        BY <1>4, <2>2 DEF Unwritten, Waiting, Running, Shown
    <2> QED
        BY <2>1, <2>2
<1>8. FlushedLate' /\ Once(Log')
    BY <1>1 DEF FlushedLate, Written, Log
<1>9. SpansOK'
    BY <1>1, SpanKept, WrittenTypes DEF SpansOK, Written, IInv, TypeOK
<1>10. Keyed'
    <2> SUFFICES ASSUME DistinctKeys PROVE Accounted' /\ AnsweredPaired'
        BY <1>1 DEF Keyed, DistinctKeys
    <2>1. AnsweredPaired'
        BY <1>1 DEF Keyed, AnsweredPaired, Written
    <2>2. ASSUME NEW e \in Dir, NEW i \in 1..seen[e], Waits(e, i) PROVE Waits(e, i)'
        <3>1. PICK q \in Keys : pending[e][q] # 0 /\ pending[e][q] = i
            BY <2>2 DEF Waits, Waiting
        <3>2. CASE e = d /\ q = k
            <4>1. sent[d][i].type = "request" /\ Str[sent[d][i].id] = k
                BY <3>1, <3>2 DEF PendingOK, Waiting
            <4>2. i \in 1..Len(sent[d]) /\ i # n
                BY <3>2, Bounds DEF n
            <4> QED
                BY <1>1, <1>2, <4>1, <4>2 DEF DistinctKeys, Asking, k, l
        <3>3. CASE e # d \/ q # k
            BY <1>4, <3>1, <3>3 DEF Waits, Waiting
        <3> QED
            BY <3>2, <3>3
    <2>3. \E q \in Keys : pending'[d][q] # 0 /\ pending'[d][q] = n
        BY <1>2, <1>3, <1>4
    <2>4. Accounted'
        <3> SUFFICES ASSUME NEW e \in Dir, NEW i \in 1..seen'[e]
                     PROVE  /\ sent[e][i].type = "request" => Recorded(e, i)' \/ Waits(e, i)'
                            /\ sent[e][i].type = "notification" => Recorded(e, i)'
                            /\ sent[e][i].type = "response" =>
                                  \E s \in Written' : s.dir = Opposite(e) /\ s.resp = i
            BY <1>1 DEF Accounted
        <3>1. CASE e = d /\ i = n
            BY <1>1, <2>3, <3>1 DEF l, Waits, Waiting
        <3>2. CASE i \in 1..seen[e]
            BY <1>1, <2>2, <3>2 DEF Keyed, Accounted, Recorded, Written
        <3> QED
            BY <1>5, <3>1, <3>2
    <2> QED
        BY <2>1, <2>4
<1> QED
    BY <1>6, <1>7, <1>8, <1>9, <1>10

LEMMA ShownNotification ==
    ASSUME IInv, IInv', Grows, PeersOK, TapOK, NEW d \in Dir, Shown(d),
           ObserveNotification(d, seen[d] + 1, sent[d][seen[d] + 1])
    PROVE  TapOK'
<1> USE DEF TapOK
<1>0. PICK n \in Nat : n = seen[d] + 1
    BY Bounds
<1>s. PICK s \in SpanType : s = Span(d, n, 0)
    BY DEF Span, SpanType
<1> DEFINE l == sent[d][n]
<1>1. /\ UNCHANGED <<sent, pending, main>>
      /\ l.type = "notification"
      /\ Writes(s)
      /\ seen' = [seen EXCEPT ![d] = n]
    BY <1>0, <1>s DEF Shown, ObserveNotification, Writes
<1>2. n \in 1..Len(sent[d]) /\ n # 0 /\ n \notin 1..seen[d]
    BY <1>0, Bounds DEF Shown
<1>3. s.dir = d /\ s.req = n /\ s.resp = 0
    BY <1>s DEF Span
<1>4. /\ seen'[d] = n
      /\ \A e \in Dir : \A i \in 1..seen'[e] : i \in 1..seen[e] \/ (e = d /\ i = n)
    BY <1>0, <1>1, Bounds DEF IInv, TypeOK
<1>5. Written' = Written \cup {s} /\ TapTypeOK
    BY <1>1, WrittenGrows DEF IInv, TypeOK
<1>6. \A w \in Written : w \in SpanType /\ SpanOK(w)
    BY <1>5, WrittenTypes DEF SpansOK
<1>7. \A w \in Written : w.dir = d => w.req # n
    BY <1>2, <1>6 DEF SpanOK
<1>8. PendingOK'
    BY <1>1, KeptLines DEF PendingOK, Waiting
<1>9. Unwritten'
    <2> SUFFICES ASSUME Running, NEW e \in Dir, NEW q \in Waiting(e),
                        NEW w \in Written \cup {s}, w.dir = e
                 PROVE  w.req # pending[e][q]
        BY <1>1, <1>5 DEF Unwritten, Waiting, Running
    <2>1. CASE w \in Written
        BY <2>1 DEF Unwritten
    <2>2. CASE w = s
        BY <1>2, <1>3, <2>2 DEF PendingOK
    <2> QED
        BY <2>1, <2>2
<1>10. SpansOK'
    <2>1. SpanOK(s)'
        BY <1>1, <1>2, <1>3, <1>4 DEF SpanOK
    <2> QED
        BY <1>5, <1>6, <2>1, SpanKept DEF SpansOK
<1>11. Once(Log')
    BY <1>1, <1>3, <1>5, <1>7, OnceWritten
<1>12. FlushedLate'
    BY <1>1, <1>3, <1>5 DEF FlushedLate
<1>13. Keyed'
    <2> SUFFICES ASSUME DistinctKeys PROVE Accounted' /\ AnsweredPaired'
        BY <1>1 DEF Keyed, DistinctKeys
    <2>1. AnsweredPaired'
        BY <1>1, <1>3, <1>5 DEF Keyed, AnsweredPaired
    <2>2. Accounted'
        <3> SUFFICES ASSUME NEW e \in Dir, NEW i \in 1..seen'[e]
                     PROVE  /\ sent[e][i].type = "request" => Recorded(e, i)' \/ Waits(e, i)'
                            /\ sent[e][i].type = "notification" => Recorded(e, i)'
                            /\ sent[e][i].type = "response" =>
                                  \E w \in Written' : w.dir = Opposite(e) /\ w.resp = i
            BY <1>1 DEF Accounted
        <3>1. CASE e = d /\ i = n
            BY <1>1, <1>3, <1>5, <3>1 DEF Recorded
        <3>2. CASE i \in 1..seen[e]
            BY <1>1, <1>5, <3>2 DEF Keyed, Accounted, Recorded, Waits, Waiting
        <3> QED
            BY <1>4, <3>1, <3>2
    <2> QED
        BY <2>1, <2>2
<1> QED
    BY <1>8, <1>9, <1>10, <1>11, <1>12, <1>13

(* With distinct keys the request an answer is to is still waiting for it.    *)
LEMMA StillWaiting ==
    ASSUME IInv, PeersOK, TapOK, DistinctKeys, main = "gather",
           NEW d \in Dir, NEW n \in 1..Len(sent[d]), n > seen[d],
           sent[d][n].type = "response",
           sent[d][n].re <= seen[Opposite(d)],
           sent[Opposite(d)][sent[d][n].re].type = "request"
    PROVE  pending[Opposite(d)][Str[sent[d][n].id]] = sent[d][n].re
<1> USE DEF TapOK
<1> DEFINE o == Opposite(d)
           i == sent[d][n].re
<1>1. o \in Dir /\ Opposite(o) = d
    BY TwoDirections
<1>2. i \in 1..got[o] /\ sent[o][i].id = sent[d][n].id
    BY DEF PeersOK, AnswersRead
<1>3. i \in 1..seen[o] /\ i \in 1..Len(sent[o]) /\ i # 0
    BY <1>1, <1>2, Bounds
<1>4. CASE Waits(o, i)
    <2>1. PICK q \in Waiting(o) : pending[o][q] = i
        BY <1>4 DEF Waits
    <2>2. q = Str[sent[o][i].id]
        BY <1>1, <2>1 DEF PendingOK
    <2> QED
        BY <1>2, <2>1, <2>2
<1>5. CASE Recorded(o, i)
    <2>1. PICK w \in Written : w.dir = o /\ w.req = i
        BY <1>5 DEF Recorded
    <2>2. w \in SpanType /\ SpanOK(w) /\ w.resp # 0
        BY <1>3, <2>1, WrittenTypes DEF SpansOK, FlushedLate, IInv, TypeOK
    <2>3. w.resp \in 1..Len(sent[d]) /\ sent[d][w.resp].re = i
        BY <1>1, <1>3, <2>1, <2>2, PairIsTrue
    <2>4. w.resp \in 1..seen[d] /\ sent[d][w.resp].type = "response"
        BY <1>1, <2>1, <2>2 DEF SpanOK
    <2>5. w.resp = n
        BY <2>3, <2>4 DEF PeersOK, AnswersOnce
    <2> QED
        BY <2>4, <2>5, Bounds
<1> QED
    BY <1>1, <1>3, <1>4, <1>5 DEF Keyed, Accounted

LEMMA ShownResponse ==
    ASSUME IInv, IInv', Grows, PeersOK, TapOK, NEW d \in Dir, Shown(d),
           ObserveResponse(d, seen[d] + 1, sent[d][seen[d] + 1])
    PROVE  TapOK'
<1> USE DEF TapOK
<1>0. PICK n \in Nat : n = seen[d] + 1
    BY Bounds
<1>o. PICK o \in Dir : o = Opposite(d) /\ o # d /\ Opposite(o) = d /\ Origin(d) = o
    BY TwoDirections
<1>2. n \in 1..Len(sent[d]) /\ n # 0 /\ n \notin 1..seen[d] /\ n > seen[d]
    BY <1>0, Bounds DEF Shown
<1>l. PICK l \in Line : l = sent[d][n] /\ l.type = "response" /\ l.id \in RawIds
    <2>1. sent[d][n].type = "response"
        BY <1>0 DEF ObserveResponse
    <2>2. sent[d][n] \in Line
        <3>1. sent[d] \in Seq(Line)
            BY DEF IInv, TypeOK
        <3> QED
            BY <1>2, <3>1
    <2>3. sent[d][n].id \in RawIds
        BY <1>2, <2>1 DEF IInv, LinesOK
    <2> QED
        BY <2>1, <2>2, <2>3
<1>k. PICK k \in Keys : k = Str[l.id]
    BY <1>l, TapAssumption
<1>p. PICK p \in Nat : p = pending[o][k]
    BY DEF IInv, TypeOK, TapTypeOK
<1>s. PICK s \in SpanType : s = Span(o, p, n)
    BY DEF Span, SpanType
<1>1. /\ UNCHANGED <<sent, main>>
      /\ pending' = [pending EXCEPT ![o][k] = 0]
      /\ Writes(s)
      /\ seen' = [seen EXCEPT ![d] = n]
      /\ main = "gather" /\ l.re <= seen[o]
    BY <1>0, <1>o, <1>l, <1>k, <1>p, <1>s DEF Shown, ObserveResponse, Writes
<1>3. s.dir = o /\ s.req = p /\ s.resp = n
    BY <1>s DEF Span
<1>4. /\ seen'[d] = n
      /\ \A e \in Dir : \A i \in 1..seen'[e] : i \in 1..seen[e] \/ (e = d /\ i = n)
    BY <1>0, <1>1, Bounds, SMTT(40) DEF IInv, TypeOK
<1>5. Written' = Written \cup {s} /\ TapTypeOK
    BY <1>1, WrittenGrows DEF IInv, TypeOK
<1>6. \A w \in Written : w \in SpanType /\ SpanOK(w)
    BY <1>5, WrittenTypes DEF SpansOK
<1>7. /\ pending'[o][k] = 0
      /\ \A e \in Dir : \A q \in Keys : e # o \/ q # k => pending'[e][q] = pending[e][q]
    BY <1>1 DEF IInv, TypeOK, TapTypeOK
<1>a. p # 0 => /\ p \in 1..seen[o] /\ sent[o][p].type = "request" /\ Str[sent[o][p].id] = k
               /\ \A w \in Written : w.dir = o => w.req # p
    BY <1>1, <1>p DEF PendingOK, Unwritten, Waiting, Running
<1>8. PendingOK'
    <2> SUFFICES ASSUME NEW e \in Dir, NEW q \in Keys, pending'[e][q] # 0
                 PROVE  /\ pending'[e][q] \in 1..seen'[e]
                        /\ sent[e][pending'[e][q]].type = "request"
                        /\ Str[sent[e][pending'[e][q]].id] = q
        BY <1>1 DEF PendingOK, Waiting
    <2> QED
        BY <1>7, KeptLines DEF PendingOK, Waiting
<1>9. Unwritten'
    <2> SUFFICES ASSUME NEW e \in Dir, NEW q \in Keys, pending'[e][q] # 0,
                        NEW w \in Written \cup {s}, w.dir = e
                 PROVE  w.req # pending'[e][q]
        BY <1>5 DEF Unwritten, Waiting
    <2>1. pending'[e][q] = pending[e][q] /\ (e # o \/ q # k)
        BY <1>7
    <2>2. CASE w \in Written
        BY <1>1, <2>1, <2>2 DEF Unwritten, Waiting, Running
    <2>3. CASE w = s
        BY <1>3, <1>a, <2>1, <2>3 DEF PendingOK, Waiting
    <2> QED
        BY <2>2, <2>3
<1>10. SpansOK'
    <2>1. p # 0 => p \in 1..seen'[o]
        BY <1>a, KeptLines
    <2>2. n \in 1..seen'[d]
        BY <1>2, <1>4
    <2>3. SpanOK(s)'
        BY <1>1, <1>3, <1>a, <1>o, <1>l, <1>k, <2>1, <2>2 DEF SpanOK
    <2> QED
        BY <1>5, <1>6, <2>3, SpanKept DEF SpansOK
<1>11. Once(Log')
    <2>1. \A w \in Written : w.dir = o => w.resp # n
        BY <1>2, <1>6, <1>o DEF SpanOK
    <2>2. \A w \in Written : w.dir = o => (w.req = p => p = 0)
        BY <1>a
    <2> QED
        BY <1>1, <1>3, <1>5, <2>1, <2>2, OnceWritten
<1>12. FlushedLate'
    BY <1>1, <1>2, <1>3, <1>5 DEF FlushedLate
<1>13. Keyed'
    <2> SUFFICES ASSUME DistinctKeys PROVE Accounted' /\ AnsweredPaired'
        BY <1>1 DEF Keyed, DistinctKeys
    <2>1. AnsweredPaired'
        <3> SUFFICES ASSUME NEW w \in Written \cup {s}, w.resp # 0,
                            sent[w.dir][sent[Opposite(w.dir)][w.resp].re].type = "request"
                     PROVE  w.req = sent[Opposite(w.dir)][w.resp].re
            BY <1>1, <1>5 DEF AnsweredPaired
        <3>1. CASE w \in Written
            BY <3>1 DEF Keyed, AnsweredPaired
        <3>2. CASE w = s
            BY <1>1, <1>2, <1>3, <1>o, <1>l, <1>k, <1>p, <3>2, StillWaiting
        <3> QED
            BY <3>1, <3>2
    <2>2. ASSUME NEW e \in Dir, NEW i \in 1..seen[e], Waits(e, i)
          PROVE  Waits(e, i)' \/ Recorded(e, i)'
        <3>1. PICK q \in Keys : pending[e][q] # 0 /\ pending[e][q] = i
            BY <2>2 DEF Waits, Waiting
        <3>2. CASE e = o /\ q = k
            BY <1>3, <1>5, <1>p, <3>1, <3>2 DEF Recorded
        <3>3. CASE e # o \/ q # k
            BY <1>7, <3>1, <3>3 DEF Waits, Waiting
        <3> QED
            BY <3>2, <3>3
    <2>3. Accounted'
        <3> SUFFICES ASSUME NEW e \in Dir, NEW i \in 1..seen'[e]
                     PROVE  /\ sent[e][i].type = "request" => Recorded(e, i)' \/ Waits(e, i)'
                            /\ sent[e][i].type = "notification" => Recorded(e, i)'
                            /\ sent[e][i].type = "response" =>
                                  \E w \in Written' : w.dir = Opposite(e) /\ w.resp = i
            BY <1>1 DEF Accounted
        <3>1. CASE e = d /\ i = n
            BY <1>3, <1>5, <1>o, <1>l, <3>1
        <3>2. CASE i \in 1..seen[e]
            <4>1. Recorded(e, i) => Recorded(e, i)'
                BY <1>5 DEF Recorded
            <4> QED
                BY <1>5, <2>2, <3>2, <4>1 DEF Keyed, Accounted
        <3> QED
            BY <1>4, <3>1, <3>2
    <2> QED
        BY <2>1, <2>3
<1> QED
    BY <1>8, <1>9, <1>10, <1>11, <1>12, <1>13

LEMMA ShownKeeps ==
    ASSUME IInv, IInv', Grows, PeersOK, TapOK, NEW d \in Dir, Shown(d)
    PROVE  TapOK'
BY ShownNothing, ShownRequest, ShownNotification, ShownResponse DEF Shown, Observe

(* Both ways a pump has of showing the tap a line are of this kind.           *)
LEMMA PumpShows ==
    ASSUME IInv, AnswersFollow, AnswersFollow', NEW d \in Dir, Pump(d),
           PumpForwards(d) \/ PumpResumes(d)
    PROVE  Shown(d)
<1> DEFINE n == seen[d] + 1
<1>1. /\ main = "gather" /\ UNCHANGED <<sent, got, main>>
      /\ seen' = [seen EXCEPT ![d] = @ + 1]
    BY DEF Pump, PumpForwards, PumpResumes, peerVars
<1>2. CASE PumpForwards(d)
    <2>1. seen[d] = Len(wire[d])
        BY <1>2, Bounds DEF PumpForwards, Forwards, IInv, TapFollowsWire
    <2>2. n <= Len(sent[d]) /\ NextLine(d) = sent[d][n]
        BY <1>2, <2>1, Bounds DEF PumpForwards, Forwards, HasLine, NextLine
    <2>3. Observe(d, n, sent[d][n])
        BY <1>2, <2>1, <2>2 DEF PumpForwards
    <2>4. n \in 1..Len(wire'[d])
        <3>1. Len(wire'[d]) = n
            BY <1>2, <2>1, ForwardWire DEF PumpForwards
        <3> QED
            BY <3>1, Bounds
    <2>5. seen'[Opposite(d)] = seen[Opposite(d)]
        BY <1>1, TwoDirections DEF IInv, TypeOK
    <2>6. sent[d][n].type = "response" => sent[d][n].re <= seen[Opposite(d)]
        BY <1>1, <2>4, <2>5 DEF AnswersFollow
    <2> QED
        BY <1>1, <2>2, <2>3, <2>6 DEF Shown
<1>3. CASE PumpResumes(d)
    <2>1. Len(wire[d]) - seen[d] = 1
        BY <1>3 DEF PumpResumes, Woken, IInv, TapFollowsWire
    <2>2. n = Len(wire[d]) /\ n <= Len(sent[d]) /\ n \in 1..Len(wire[d])
        BY <2>1, Bounds
    <2>3. wire[d][n] = sent[d][n]
        BY <2>2 DEF IInv, WireOK
    <2>4. Observe(d, n, sent[d][n])
        BY <1>3, <2>2, <2>3 DEF PumpResumes
    <2>5. sent[d][n].type = "response" => sent[d][n].re <= seen[Opposite(d)]
        BY <2>2 DEF AnswersFollow
    <2> QED
        BY <1>1, <2>2, <2>4, <2>5 DEF Shown
<1> QED
    BY <1>2, <1>3

------------------------------------------------------------------------------
(* The spans: one turn of flush.                                              *)

LEMMA FlushKeeps ==
    ASSUME IInv, IInv', Grows, PeersOK, TapOK, NEW d \in Dir, NEW k \in Keys,
           Flush(d, k) \/ FlushFails(d, k)
    PROVE  TapOK'
<1> USE DEF TapOK
<1>p. PICK p \in Nat : p = pending[d][k]
    BY DEF IInv, TypeOK, TapTypeOK
<1>s. PICK s \in SpanType : s = Span(d, p, 0)
    BY DEF Span, SpanType
<1>1. /\ UNCHANGED <<sent, seen>>
      /\ Writes(s)
      /\ p # 0 /\ k \in Waiting(d)
      /\ main = "flush" /\ main' \in {"flush", "raised"}
      /\ \/ pending' = [pending EXCEPT ![d][k] = 0]
         \/ pending' = pending /\ main' = "raised"
    BY <1>p, <1>s DEF Flush, FlushFails, FlushWrites, FlushRaises, NextToFlush, Waiting,
                      Writes, peerVars
<1>2. s.dir = d /\ s.req = p /\ s.resp = 0
    BY <1>s DEF Span
<1>3. Written' = Written \cup {s} /\ TapTypeOK
    BY <1>1, WrittenGrows DEF IInv, TypeOK
<1>4. \A w \in Written : w \in SpanType /\ SpanOK(w)
    BY <1>3, WrittenTypes DEF SpansOK
<1>5. /\ p \in 1..seen[d] /\ sent[d][p].type = "request" /\ Str[sent[d][p].id] = k
      /\ \A w \in Written : w.dir = d => w.req # p
    BY <1>1, <1>p DEF PendingOK, Unwritten, Running
<1>6. \A e \in Dir : \A q \in Keys :
          pending'[e][q] = pending[e][q] \/ (e = d /\ q = k /\ pending'[e][q] = 0)
    <2>1. pending \in [Dir -> [Keys -> Nat]]
        BY DEF IInv, TypeOK, TapTypeOK
    <2>2. CASE pending' = [pending EXCEPT ![d][k] = 0]
        BY <2>1, <2>2
    <2>3. CASE pending' = pending
        BY <2>3
    <2> QED
        BY <1>1, <2>2, <2>3
<1>7. PendingOK'
    <2> SUFFICES ASSUME NEW e \in Dir, NEW q \in Keys, pending'[e][q] # 0
                 PROVE  /\ pending'[e][q] \in 1..seen[e]
                        /\ sent[e][pending'[e][q]].type = "request"
                        /\ Str[sent[e][pending'[e][q]].id] = q
        BY <1>1 DEF PendingOK, Waiting
    <2> QED
        BY <1>6 DEF PendingOK, Waiting
<1>8. Unwritten'
    <2> SUFFICES ASSUME main' = "flush", NEW e \in Dir, NEW q \in Keys, pending'[e][q] # 0,
                        NEW w \in Written \cup {s}, w.dir = e
                 PROVE  w.req # pending'[e][q]
        BY <1>1, <1>3 DEF Unwritten, Waiting, Running
    <2>1. pending'[d][k] = 0
        BY <1>1 DEF IInv, TypeOK, TapTypeOK
    <2>2. pending'[e][q] = pending[e][q] /\ (e # d \/ q # k)
        BY <1>6, <2>1
    <2>3. CASE w \in Written
        BY <1>1, <2>2, <2>3 DEF Unwritten, Waiting, Running
    <2>4. CASE w = s
        BY <1>2, <1>5, <2>2, <2>4 DEF PendingOK, Waiting
    <2> QED
        BY <2>3, <2>4
<1>9. SpansOK'
    <2>1. SpanOK(s)'
        BY <1>1, <1>2, <1>5 DEF SpanOK
    <2> QED
        BY <1>3, <1>4, <2>1, SpanKept DEF SpansOK
<1>10. Once(Log')
    BY <1>1, <1>2, <1>3, <1>5, OnceWritten
<1>11. FlushedLate'
    BY <1>1 DEF FlushedLate
<1>12. Keyed'
    <2> SUFFICES ASSUME DistinctKeys PROVE Accounted' /\ AnsweredPaired'
        BY <1>1 DEF Keyed, DistinctKeys
    <2>1. AnsweredPaired'
        BY <1>1, <1>2, <1>3 DEF Keyed, AnsweredPaired
    <2>2. ASSUME NEW e \in Dir, NEW i \in 1..seen[e], Waits(e, i)
          PROVE  Waits(e, i)' \/ Recorded(e, i)'
        <3>1. PICK q \in Keys : pending[e][q] # 0 /\ pending[e][q] = i
            BY <2>2 DEF Waits, Waiting
        <3>2. CASE e = d /\ q = k
            BY <1>2, <1>3, <1>p, <3>1, <3>2 DEF Recorded
        <3>3. CASE e # d \/ q # k
            BY <1>6, <3>1, <3>3 DEF Waits, Waiting
        <3> QED
            BY <3>2, <3>3
    <2>3. Accounted'
        <3> SUFFICES ASSUME NEW e \in Dir, NEW i \in 1..seen[e]
                     PROVE  /\ sent[e][i].type = "request" => Recorded(e, i)' \/ Waits(e, i)'
                            /\ sent[e][i].type = "notification" => Recorded(e, i)'
                            /\ sent[e][i].type = "response" =>
                                  \E w \in Written' : w.dir = Opposite(e) /\ w.resp = i
            BY <1>1 DEF Accounted
        <3>1. Recorded(e, i) => Recorded(e, i)'
            BY <1>3 DEF Recorded
        <3> QED
            BY <1>3, <2>2, <3>1 DEF Keyed, Accounted
    <2> QED
        BY <2>1, <2>3
<1> QED
    BY <1>7, <1>8, <1>9, <1>10, <1>11, <1>12

------------------------------------------------------------------------------
(* Every step, and what follows.                                              *)

LEMMA TapStep ==
    ASSUME IInv, TapInv, [Next]_vars
    PROVE  TapOK'
<1> USE DEF TapInv
<1>1. IInv' /\ Grows
    BY IInvNext, StepGrows
<1>2. AnswersFollow /\ AnswersFollow'
    BY AnswersFollowStep DEF OrderOK
<1>3. Once(Log)
    BY DEF TapOK
<1>4. CASE /\ UNCHANGED <<pending, rows, txn, lost, seen>>
           /\ Running' => Running
           /\ main' = "gather" => main = "gather"
    BY <1>1, <1>3, <1>4, QuietStep DEF Written, Log
<1>5. CASE /\ CloseStore /\ UNCHANGED <<pending, seen>>
           /\ main' \in {"raised", "returned", "killed"}
    <2>1. Written' = Written /\ Once(Log')
        BY <1>3, <1>5, WrittenAtClose, LogAtClose DEF IInv, TypeOK
    <2> QED
        BY <1>1, <1>5, <2>1, QuietStep DEF Running
<1>6. ASSUME NEW d \in Dir, Pump(d) PROVE TapOK'
    <2>1. CASE PumpForwards(d) \/ PumpResumes(d)
        BY <1>1, <1>2, <1>6, <2>1, PumpShows, ShownKeeps
    <2>2. CASE PumpSuspends(d) \/ PumpEnds(d) \/ PumpRaises(d)
        BY <1>4, <2>2 DEF PumpSuspends, PumpEnds, PumpRaises, tapVars, Running
    <2> QED
        BY <1>6, <2>1, <2>2 DEF Pump
<1>7. ASSUME NEW d \in Dir, Peer(d) \/ Transport(d) PROVE TapOK'
    BY <1>4, <1>7 DEF Peer, PeerSends, PeerReads, PeerCloses, PeerExits, Transport,
                      TransportWrites, TransportCloses, tapVars, Running
<1>8. CASE Main \/ Killed
    <2>1. CASE GatherReturns \/ FlushReturns
        BY <1>4, <2>1 DEF GatherReturns, FlushReturns, tapVars, Running
    <2>2. CASE GatherRaises \/ WaitReturns \/ Killed
        BY <1>5, <2>2 DEF GatherRaises, WaitReturns, Killed
    <2>3. CASE \E d \in Dir, k \in Keys : Flush(d, k) \/ FlushFails(d, k)
        BY <1>1, <2>3, FlushKeeps
    <2> QED
        BY <1>8, <2>1, <2>2, <2>3 DEF Main
<1>9. CASE UNCHANGED vars
    BY <1>4, <1>9 DEF vars, tapVars, Running
<1> QED
    BY <1>6, <1>7, <1>8, <1>9 DEF Next, Ended

LEMMA TapInvInit == Init => TapInv
<1> SUFFICES ASSUME Init PROVE TapInv
    OBVIOUS
<1>1. \A d \in Dir : /\ sent[d] = << >> /\ wire[d] = << >> /\ seen[d] = 0
                     /\ pump[d] = "reading" /\ Waiting(d) = {}
    BY DEF Init, TapInit, Waiting
<1>2. rows = << >> /\ txn = << >> /\ lost = << >> /\ main = "gather"
    BY DEF Init, TapInit, StoreInit
<1>3. Written = {}
    BY <1>2, ContentsEmpty DEF Written
<1>4. Log = << >>
    BY <1>2 DEF Log
<1>5. PeersOK
    BY <1>1 DEF PeersOK, FreshIds, AnswersRead, AnswersOnce
<1>6. TapOK
    BY <1>1, <1>3, <1>4 DEF TapOK, PendingOK, Unwritten, SpansOK, Once, FlushedLate, Keyed,
                            Accounted, AnsweredPaired
<1>7. OrderOK
    BY <1>1, <1>2 DEF OrderOK, AnswersFollow, RaisedBehind, Stage
<1> QED
    BY <1>5, <1>6, <1>7 DEF TapInv

LEMMA TapInvNext == IInv /\ TapInv /\ [Next]_vars => TapInv'
BY PeersStep, TapStep, AnswersFollowStep, RaisedBehindStep, StageStep DEF TapInv, OrderOK

(* Every reachable state satisfies the inductive invariant of the tap.        *)
THEOREM TapInvariant == Spec => []TapInv
<1> QED
    BY Invariant, TapInvInit, TapInvNext, PTL DEF Spec

(* No message is in two spans, written or waiting, although a response is     *)
(* popped before its span is written and the write can fail (tap.py:76-86).   *)
THEOREM RecordedOnce == Spec => []OnceRecorded
<1>1. TapInv => OnceRecorded
    BY DEF TapInv, TapOK, Once, Unwritten, OnceRecorded
<1> QED
    BY <1>1, TapInvariant, PTL

(* A span with both halves joins a request to the response that answers it,   *)
(* although the two went through different pumps and ids repeat across        *)
(* directions ("pairs each request with its response by JSON-RPC id" and      *)
(* "correlation is direction-aware", tap.py:4-9).                             *)
THEOREM PairsAreTrue == Spec => [](DistinctKeys => PairingSound)
<1>1. IInv /\ TapInv /\ DistinctKeys => PairingSound
    <2> SUFFICES ASSUME IInv, TapInv, DistinctKeys, NEW s \in Written, s.req # 0, s.resp # 0
                 PROVE  /\ s.resp <= Len(sent[Opposite(s.dir)])
                        /\ sent[Opposite(s.dir)][s.resp].re = s.req
        BY DEF PairingSound
    <2>1. s \in SpanType /\ SpanOK(s)
        BY WrittenTypes DEF TapInv, TapOK, SpansOK, IInv, TypeOK
    <2>2. /\ s.resp \in 1..Len(sent[Opposite(s.dir)])
          /\ sent[Opposite(s.dir)][s.resp].re = s.req
        BY <2>1, PairIsTrue DEF TapInv
    <2> QED
        BY <2>2
<1> QED
    BY <1>1, Invariant, TapInvariant, PTL

(* No message the tap was shown is forgotten: it waits for its response, or a *)
(* span of it was given to the store (tap.py:43-86).                          *)
THEOREM NothingForgotten == Spec => [](DistinctKeys => Accounted)
<1>1. TapInv /\ DistinctKeys => Accounted
    BY DEF TapInv, TapOK, Keyed
<1> QED
    BY <1>1, TapInvariant, PTL

(* An answered request ends up in one span with its answer, whichever pump    *)
(* drain() suspends (stdio.py:35-41).                                         *)
THEOREM AnsweredTogether == Spec => [](DistinctKeys => AnsweredPaired)
<1>1. TapInv /\ DistinctKeys => AnsweredPaired
    BY DEF TapInv, TapOK, Keyed
<1> QED
    BY <1>1, TapInvariant, PTL

(* A proxy that gets past the flush has read both directions to their end,    *)
(* given every line to its writer and every request to the store              *)
(* (stdio.py:70-75, tap.py:88-94).                                            *)
THEOREM CleanExit == Spec => [](DistinctKeys => CleanExitKeepsEverything)
<1>1. IInv /\ TapInv /\ DistinctKeys => CleanExitKeepsEverything
    <2> SUFFICES ASSUME IInv, TapInv, DistinctKeys, main \in {"wait", "returned"}, NEW d \in Dir
                 PROVE  /\ wire[d] = sent[d]
                        /\ \A i \in 1..Len(sent[d]) :
                              sent[d][i].type = "request" => Recorded(d, i)
        BY DEF CleanExitKeepsEverything
    <2>1. pump[d] = "done" /\ Waiting(d) = {}
        BY DEF TapInv, OrderOK, Stage, NothingToFlush
    <2>2. Len(wire[d]) = Len(sent[d]) /\ \A i \in 1..Len(wire[d]) : wire[d][i] = sent[d][i]
        BY <2>1 DEF IInv, WireOK
    <2>3. wire[d] = sent[d]
        BY <2>2, SameLines DEF IInv, TypeOK
    <2>4. Len(wire[d]) - seen[d] = 0
        BY <2>1 DEF IInv, TapFollowsWire
    <2>5. \A i \in 1..Len(sent[d]) : i \in 1..seen[d]
        BY <2>2, <2>4, Bounds
    <2>6. \A i \in 1..Len(sent[d]) : ~Waits(d, i)
        BY <2>1 DEF Waits
    <2> QED
        BY <2>3, <2>5, <2>6 DEF TapInv, TapOK, Keyed, Accounted
<1> QED
    BY <1>1, Invariant, TapInvariant, PTL

(* If Str keeps all ids apart, the keys of every session are distinct, since  *)
(* MCP peers do not use an id twice.                                          *)
LEMMA DistinctIds ==
    ASSUME \A r, q \in RawIds : Str[r] = Str[q] => r = q, IInv, TapInv
    PROVE  DistinctKeys
<1> SUFFICES ASSUME NEW d \in Dir, NEW i \in 1..Len(sent[d]), NEW j \in 1..Len(sent[d]),
                    sent[d][i].type \in Asking /\ sent[d][j].type \in Asking,
                    Str[sent[d][i].id] = Str[sent[d][j].id]
             PROVE  i = j
    BY DEF DistinctKeys
<1>1. sent[d][i].id \in RawIds /\ sent[d][j].id \in RawIds
    BY DEF IInv, LinesOK, Asking
<1> QED
    BY <1>1 DEF TapInv, PeersOK, FreshIds

(* With such ids the four hold without a condition.                           *)
THEOREM KeptApart ==
    ASSUME \A r, q \in RawIds : Str[r] = Str[q] => r = q
    PROVE  Spec => [](/\ PairingSound /\ Accounted /\ AnsweredPaired
                      /\ CleanExitKeepsEverything)
<1>1. IInv /\ TapInv => DistinctKeys
    BY DistinctIds
<1> QED
    BY <1>1, Invariant, TapInvariant, PairsAreTrue, NothingForgotten, AnsweredTogether,
       CleanExit, PTL
==============================================================================
