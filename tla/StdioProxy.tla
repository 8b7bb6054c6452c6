----------------------------- MODULE StdioProxy ------------------------------
(* The transparent stdio proxy (proxy/stdio.py) between an MCP client and an  *)
(* MCP server: two pumps, one per direction, that share the tap and the event *)
(* loop, and the coroutine that gathers them, flushes the tap and waits for   *)
(* the server. Each action is what one task does between two awaits.          *)
(*                                                                            *)
(* The client sends on c2s and receives on s2c, the server the reverse; both  *)
(* are the environment. On its way out of the proxy a line passes the write   *)
(* transport's buffer, which has a high-water mark at which drain() suspends  *)
(* the pump, and then the operating system's pipe, which holds a few lines.   *)
(* On the way in, pipe and StreamReader are one queue without a bound.        *)
EXTENDS TraceTap

CONSTANTS
    Kinds,      \* [Dir -> SUBSET LineType]: the lines each peer may send
    MaxSent,    \* [Dir -> Nat], bound: how many lines each peer sends
    PipeSize,   \* [Dir -> Nat]: lines the operating system's pipe holds
    HighWater,  \* [Dir -> Nat]: buffered lines above which drain() suspends
    LowWater,   \* [Dir -> Nat]: buffered lines at which it resumes
    Faults      \* subset of {"exit", "kill"}: what may go wrong outside

ASSUME ProxyAssumption ==
    /\ Kinds \in [Dir -> SUBSET LineType]
    /\ MaxSent \in [Dir -> Nat]
    /\ PipeSize \in [Dir -> Nat \ {0}]
    /\ HighWater \in [Dir -> Nat]
    /\ LowWater \in [Dir -> Nat]
    /\ \A d \in Dir : LowWater[d] <= HighWater[d]
    /\ Faults \subseteq {"exit", "kill"}

VARIABLES
    sent,   \* [Dir -> Seq(Line)]: every line the sender wrote
    open,   \* [Dir -> BOOLEAN]: the sender still holds its end
    wire,   \* [Dir -> Seq(Line)]: lines given to dst.write
    piped,  \* [Dir -> Nat]: how many lines of wire have left the process
    eof,    \* [Dir -> BOOLEAN]: the pipe is closed behind them
    got,    \* [Dir -> Nat]: how many lines of wire the receiver has read
    gone,   \* [Dir -> BOOLEAN]: the receiver closed its end
    seen,   \* [Dir -> Nat]: how many lines the tap was shown
    pump,   \* [Dir -> ...]: where each _pump task is
    main    \* where run_stdio_proxy is

peerVars == <<sent, open, got, gone>>
wireVars == <<wire, piped, eof>>
vars == <<tapVars, sent, open, wire, piped, eof, got, gone, seen, pump, main>>

Line == [type : LineType, id : RawIds \cup {NoId},
         re : 0 .. MaxSent[C2S] + MaxSent[S2C]]

PumpState == {"reading", "draining", "done", "raised", "cancelled"}
MainState == {"gather", "flush", "wait", "returned", "raised", "killed"}

Init ==
    /\ TapInit
    /\ sent = [d \in Dir |-> <<>>]
    /\ open = [d \in Dir |-> TRUE]
    /\ wire = [d \in Dir |-> <<>>]
    /\ piped = [d \in Dir |-> 0]
    /\ eof = [d \in Dir |-> FALSE]
    /\ got = [d \in Dir |-> 0]
    /\ gone = [d \in Dir |-> FALSE]
    /\ seen = [d \in Dir |-> 0]
    /\ pump = [d \in Dir |-> "reading"]
    /\ main = "gather"

Running == main \in {"gather", "flush", "wait"}

Opposite(d) == IF d = C2S THEN S2C ELSE C2S

------------------------------------------------------------------------------
(* The peers. Each numbers its requests with ids it has not used before, as   *)
(* MCP asks, and answers a request it has read at most once.                  *)

UsedIds(d) == {sent[d][i].id : i \in 1..Len(sent[d])}

Unanswered(d) ==
    {i \in 1..got[d] :
        /\ sent[d][i].type \in {"request", "bad_request"}
        /\ \A j \in 1..Len(sent[Opposite(d)]) : sent[Opposite(d)][j].re # i}

Request(d) ==
    {[type |-> t, id |-> r, re |-> 0] :
        t \in Kinds[d] \cap {"request", "bad_request"}, r \in RawIds \ UsedIds(d)}

Response(d) ==
    {[type |-> t, id |-> sent[Opposite(d)][i].id, re |-> i] :
        t \in Kinds[d] \cap {"response"}, i \in Unanswered(Opposite(d))}

Other(d) ==
    {[type |-> t, id |-> NoId, re |-> 0] :
        t \in Kinds[d] \cap {"notification", "opaque", "oversized"}}

PeerSends(d) ==
    /\ open[d]
    /\ Len(sent[d]) < MaxSent[d]
    /\ \E l \in Request(d) \cup Response(d) \cup Other(d) :
          sent' = [sent EXCEPT ![d] = Append(@, l)]
    /\ UNCHANGED <<open, got, gone, wireVars, tapVars, seen, pump, main>>

PeerReads(d) ==
    /\ ~gone[d]
    /\ got[d] < piped[d]
    /\ got' = [got EXCEPT ![d] = @ + 1]
    /\ UNCHANGED <<sent, open, gone, wireVars, tapVars, seen, pump, main>>

(* The sender of d closes its output and goes on reading.                     *)
PeerCloses(d) ==
    /\ open[d]
    /\ open' = [open EXCEPT ![d] = FALSE]
    /\ UNCHANGED <<sent, got, gone, wireVars, tapVars, seen, pump, main>>

(* The peer that receives d exits: in good order once it has read everything  *)
(* up to the end of its input, or at any time. Both its pipes close.          *)
PeerExits(d) ==
    /\ ~gone[d]
    /\ "exit" \in Faults \/ (eof[d] /\ got[d] = Len(wire[d]))
    /\ gone' = [gone EXCEPT ![d] = TRUE]
    /\ open' = [open EXCEPT ![Opposite(d)] = FALSE]
    /\ UNCHANGED <<sent, got, wireVars, tapVars, seen, pump, main>>

------------------------------------------------------------------------------
(* The write transports. write() puts a line into the pipe at once if no line *)
(* is buffered before it and there is room; the event loop moves the others,  *)
(* and closes the pipe of a pump that has ended once the buffer is empty.     *)

Buffered(d) == Len(wire[d]) - piped[d]

PipeHasRoom(d) == piped[d] - got[d] < PipeSize[d]

TransportWrites(d) ==
    /\ Buffered(d) > 0
    /\ PipeHasRoom(d)
    /\ ~gone[d]
    /\ piped' = [piped EXCEPT ![d] = @ + 1]
    /\ UNCHANGED <<peerVars, wire, eof, tapVars, seen, pump, main>>

(* write_eof is forgotten.                                                    *)
BadTransportCloses(d) == pump[d] = "done" /\ UNCHANGED vars

TransportCloses(d) ==
    /\ pump[d] = "done"
    /\ Buffered(d) = 0
    /\ ~eof[d]
    /\ eof' = [eof EXCEPT ![d] = TRUE]
    /\ UNCHANGED <<peerVars, wire, piped, tapVars, seen, pump, main>>

------------------------------------------------------------------------------
(* The pumps. readline returns the next line, which is written and, unless    *)
(* drain() suspends, observed without giving up the event loop.               *)

HasLine(d) == Len(wire[d]) < Len(sent[d])

(* The newest line is taken for the next.                                     *)
BadNextLine(d) == sent[d][Len(sent[d])]
NextLine(d) == sent[d][Len(wire[d]) + 1]

WrittenThrough(d) == ~gone[d] /\ Buffered(d) = 0 /\ PipeHasRoom(d)

Suspends(d) == ~gone[d] /\ ~WrittenThrough(d) /\ Buffered(d) >= HighWater[d]

(* The transport has written enough for drain() to return. (And not: it has   *)
(* to write one line more.)                                                   *)
BadWoken(d) == pump[d] = "draining" /\ Buffered(d) < LowWater[d]
Woken(d) == pump[d] = "draining" /\ Buffered(d) <= LowWater[d]

(* The tap is shown its lines by tasks of their own, in any order.            *)
BadHasTurn(d) == TRUE

(* The event loop runs tasks in the order they were woken: a pump woken by    *)
(* its transport has its turn before the other handles a line that arrives    *)
(* after that.                                                                *)
HasTurn(d) == ~Woken(Opposite(d))

(* Between the receiver's end and the moment the event loop has noticed it    *)
(* lines may still be written, and are lost; see DrainRaises for after.       *)
Forwards(d) ==
    /\ pump[d] = "reading"
    /\ HasTurn(d)
    /\ HasLine(d)
    /\ NextLine(d).type # "oversized"
    /\ wire' = [wire EXCEPT ![d] = Append(@, NextLine(d))]
    /\ piped' = [piped EXCEPT ![d] = IF WrittenThrough(d) THEN @ + 1 ELSE @]

PumpForwards(d) ==
    /\ Forwards(d)
    /\ ~Suspends(d)
    /\ Observe(d, Len(wire[d]) + 1, NextLine(d))
    /\ seen' = [seen EXCEPT ![d] = @ + 1]
    /\ UNCHANGED <<peerVars, eof, pump, main>>

PumpSuspends(d) ==
    /\ Forwards(d)
    /\ Suspends(d)
    /\ pump' = [pump EXCEPT ![d] = "draining"]
    /\ UNCHANGED <<peerVars, eof, tapVars, seen, main>>

(* The line is observed each time the writer finds room.                      *)
BadPumpResumes(d) ==
    /\ pump[d] = "draining"
    /\ Buffered(d) <= LowWater[d]
    /\ Observe(d, Len(wire[d]), wire[d][Len(wire[d])])
    /\ seen' = [seen EXCEPT ![d] = @ + 1]
    /\ UNCHANGED <<peerVars, wireVars, pump, main>>

PumpResumes(d) ==
    /\ Woken(d)
    /\ Observe(d, Len(wire[d]), wire[d][Len(wire[d])])
    /\ seen' = [seen EXCEPT ![d] = @ + 1]
    /\ pump' = [pump EXCEPT ![d] = "reading"]
    /\ UNCHANGED <<peerVars, wireVars, main>>

(* readline returns b"" at the end of the input. write_eof only asks the      *)
(* transport to close; the errors of a pipe already closed are swallowed.     *)
PumpEnds(d) ==
    /\ pump[d] = "reading"
    /\ ~open[d]
    /\ ~HasLine(d)
    /\ pump' = [pump EXCEPT ![d] = "done"]
    /\ UNCHANGED <<peerVars, wireVars, tapVars, seen, main>>

(* readline raises ValueError for a line beyond the StreamReader's limit.     *)
ReadRaises(d) ==
    /\ pump[d] = "reading"
    /\ HasLine(d)
    /\ NextLine(d).type = "oversized"

(* drain raises ConnectionResetError or BrokenPipeError once the receiver is  *)
(* gone: for the line just read, or for the one the pump is suspended on,     *)
(* unless it has been woken before.                                           *)
DrainRaises(d) ==
    /\ gone[d]
    /\ \/ pump[d] = "draining" /\ ~Woken(d)
       \/ pump[d] = "reading" /\ HasLine(d)

PumpRaises(d) ==
    /\ ReadRaises(d) \/ DrainRaises(d)
    /\ pump' = [pump EXCEPT ![d] = "raised"]
    /\ UNCHANGED <<peerVars, wireVars, tapVars, seen, main>>

------------------------------------------------------------------------------
(* run_stdio_proxy. gather waits for both pumps, or raises what the first one *)
(* to fail raised; then the flush is skipped, and the end of asyncio.run      *)
(* cancels the pump that is left. The caller closes the store in every case.  *)

(* However the process ends, its pipes close with it: a receiver finds the    *)
(* end of its input behind what has left the process, and what a transport    *)
(* still holds is gone.                                                       *)
PipesClose ==
    /\ eof' = [d \in Dir |-> TRUE]
    /\ UNCHANGED <<wire, piped>>

GatherReturns ==
    /\ main = "gather"
    /\ \A d \in Dir : pump[d] = "done"
    /\ main' = "flush"
    /\ UNCHANGED <<peerVars, wireVars, tapVars, seen, pump>>

GatherRaises ==
    /\ main = "gather"
    /\ \E d \in Dir : pump[d] = "raised"
    /\ main' = "raised"
    /\ pump' = [d \in Dir |->
                  IF pump[d] \in {"done", "raised"} THEN pump[d] ELSE "cancelled"]
    /\ PipesClose
    /\ CloseStore
    /\ UNCHANGED <<peerVars, pending, seen>>

Flush(d, k) ==
    /\ main = "flush"
    /\ FlushWrites(d, k)
    /\ UNCHANGED <<peerVars, wireVars, seen, pump, main>>

FlushFails(d, k) ==
    /\ main = "flush"
    /\ FlushRaises(d, k)
    /\ main' = "raised"
    /\ PipesClose
    /\ UNCHANGED <<peerVars, seen, pump>>

FlushReturns ==
    /\ main = "flush"
    /\ NothingToFlush
    /\ main' = "wait"
    /\ UNCHANGED <<peerVars, wireVars, tapVars, seen, pump>>

(* proc.wait returns when the server has exited.                              *)
WaitReturns ==
    /\ main = "wait"
    /\ gone[C2S]
    /\ main' = "returned"
    /\ PipesClose
    /\ CloseStore
    /\ UNCHANGED <<peerVars, pending, seen, pump>>

(* A signal ends the process at any point between two commits.                *)
Killed ==
    /\ "kill" \in Faults
    /\ Running
    /\ main' = "killed"
    /\ pump' = [d \in Dir |-> IF pump[d] = "done" THEN "done" ELSE "cancelled"]
    /\ PipesClose
    /\ CloseStore
    /\ UNCHANGED <<peerVars, pending, seen>>

------------------------------------------------------------------------------

Peer(d) == PeerSends(d) \/ PeerReads(d) \/ PeerCloses(d) \/ PeerExits(d)

Pump(d) ==
    /\ main = "gather"
    /\ \/ PumpForwards(d)
       \/ PumpSuspends(d)
       \/ PumpResumes(d)
       \/ PumpEnds(d)
       \/ PumpRaises(d)

Transport(d) == TransportWrites(d) \/ TransportCloses(d)

Main ==
    \/ GatherReturns
    \/ GatherRaises
    \/ \E d \in Dir, k \in Keys : Flush(d, k) \/ FlushFails(d, k)
    \/ FlushReturns
    \/ WaitReturns

(* The proxy has ended; what the peers do from then on is not modelled.       *)
Ended == ~Running /\ UNCHANGED vars

Next ==
    \/ Running /\ \E d \in Dir : Peer(d) \/ Transport(d) \/ Pump(d)
    \/ Main
    \/ Killed
    \/ Ended

Spec == Init /\ [][Next]_vars

(* The event loop runs every callback and every task that can run, and the    *)
(* peers are live: they read what is there and exit when their input has      *)
(* ended. Nothing makes a peer send, or close before its input ends.          *)
Fairness ==
    /\ \A d \in Dir : WF_vars(Running /\ Pump(d))
    /\ \A d \in Dir : WF_vars(Running /\ Transport(d))
    /\ WF_vars(Main)
    /\ \A d \in Dir : WF_vars(Running /\ PeerReads(d))
    /\ \A d \in Dir : WF_vars(Running /\ PeerExits(d))

FairSpec == Spec /\ Fairness

------------------------------------------------------------------------------
(* Types, with the order of the counters: nobody reads or taps what was not   *)
(* forwarded.                                                                 *)
TypeOK ==
    /\ sent \in [Dir -> Seq(Line)]
    /\ open \in [Dir -> BOOLEAN]
    /\ wire \in [Dir -> Seq(Line)]
    /\ eof \in [Dir -> BOOLEAN]
    /\ gone \in [Dir -> BOOLEAN]
    /\ piped \in [Dir -> Nat] /\ \A d \in Dir : piped[d] <= Len(wire[d])
    /\ got \in [Dir -> Nat] /\ \A d \in Dir : got[d] <= piped[d]
    /\ seen \in [Dir -> Nat] /\ \A d \in Dir : seen[d] <= Len(wire[d])
    /\ pump \in [Dir -> PumpState]
    /\ main \in MainState
    /\ TapTypeOK

(* Transparency: each direction is a FIFO channel that alters and skips       *)
(* nothing, whatever the tap, the store and the other direction do. While the *)
(* proxy runs it ends after its last line only; when the process ends, both   *)
(* directions end where they are, and what arrived is what was sent first.    *)
Wire == INSTANCE Channel WITH
    broken <- ~Running, accepted <- sent, closed <- [d \in Dir |-> ~open[d]],
    delivered <- [d \in Dir |-> SubSeq(wire[d], 1, piped[d])], ended <- eof

ImplementsChannel == Wire!Spec

(* "Forward first, observe second": the tap is never ahead of the wire, and   *)
(* behind it only by the one line whose drain() has not returned.             *)
TapFollowsWire ==
    \A d \in Dir :
        Len(wire[d]) - seen[d] \in IF pump[d] \in {"reading", "done"} THEN {0}
                                   ELSE IF pump[d] = "draining" THEN {1}
                                   ELSE {0, 1}

(* A span with both halves joins a request to the response that really        *)
(* answers it, although the two travelled through different pumps and ids     *)
(* repeat across directions: what tap.py:5-9 says of "JSON-RPC id".           *)
PairingSound ==
    \A s \in Written :
        s.req # 0 /\ s.resp # 0 =>
            /\ s.resp <= Len(sent[Opposite(s.dir)])
            /\ sent[Opposite(s.dir)][s.resp].re = s.req

(* No message is in two spans, written or waiting.                            *)
Log == rows \o txn \o lost

OnceRecorded ==
    /\ \A i, j \in 1..Len(Log) :
          i # j /\ Log[i].dir = Log[j].dir =>
              /\ Log[i].req = Log[j].req => Log[i].req = 0
              /\ Log[i].resp = Log[j].resp => Log[i].resp = 0
    /\ Running => \A d \in Dir : \A k \in Waiting(d) :
                      \A s \in Written : s.dir = d => s.req # pending[d][k]

Recorded(d, i) == \E s \in Written : s.dir = d /\ s.req = i

Waits(d, i) == \E k \in Waiting(d) : pending[d][k] = i

(* No message the tap was shown is forgotten: it waits for its response, or a *)
(* span of it was given to the store. (If Str makes the ids of two requests   *)
(* equal, as it does with 1 and "1", the later overwrites the earlier.)       *)
Accounted ==
    \A d \in Dir : \A i \in 1..seen[d] :
        LET l == sent[d][i] IN
        /\ l.type = "request" => Recorded(d, i) \/ Waits(d, i)
        /\ l.type = "notification" => Recorded(d, i)
        /\ l.type = "response" =>
              \E s \in Written : s.dir = Opposite(d) /\ s.resp = i

(* An answered request ends up in one span with its answer, and not in two    *)
(* halves: although drain() may suspend a pump between forwarding a request   *)
(* and showing it to the tap, its answer is not shown first.                  *)
AnsweredPaired ==
    \A s \in Written :
        s.resp # 0 =>
            LET i == sent[Opposite(s.dir)][s.resp].re
            IN  sent[s.dir][i].type = "request" => s.req = i

(* If run_stdio_proxy gets past the flush, both directions were read to their *)
(* end, every line was given to the writer and every request to the store.    *)
CleanExitKeepsEverything ==
    main \in {"wait", "returned"} =>
        \A d \in Dir :
            /\ wire[d] = sent[d]
            /\ \A i \in 1..Len(sent[d]) :
                  sent[d][i].type = "request" => Recorded(d, i)

(* Every line sent is tapped and reaches its receiver, as long as both peers  *)
(* read, no one exits early and the proxy does not end meanwhile: a full pipe *)
(* one way, or a failing store, never starves the other way.                  *)
Delivered ==
    \A d \in Dir : \A n \in 1..MaxSent[d] :
        (Len(sent[d]) >= n) ~> (seen[d] >= n /\ (got[d] >= n \/ ~Running))

(* When the client closes its end the proxy comes to an end: end-of-file      *)
(* passes through to the server, and back from it.                            *)
Shutdown == ~open[C2S] ~> ~Running

(* What tap.py:89 says flush is for: requests that never got a response are   *)
(* persisted when the session ends. Stated for the sessions the proxy sees    *)
(* the end of, leaving out those where it is killed.                          *)
UnansweredPersisted ==
    main \in {"returned", "raised"} =>
        \A d \in Dir : \A i \in 1..seen[d] :
            sent[d][i].type = "request" => Recorded(d, i)

(* What stdio.py:3-5 says of every line: it is forwarded unchanged. A pump    *)
(* may give up only when there is nobody left to forward to.                  *)
PumpsForwardEveryLine ==
    \A d \in Dir : pump[d] = "raised" => gone[d]

(* The same of what the client is owed when run_stdio_proxy returns: nothing  *)
(* is left in the write transport of a client that is still there.            *)
ReturnDelivers ==
    main = "returned" => gone[S2C] \/ Buffered(S2C) = 0
==============================================================================
