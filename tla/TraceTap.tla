------------------------------ MODULE TraceTap -------------------------------
(* The trace tap (proxy/tap.py): turns the lines it is shown into spans. A    *)
(* request is kept until its response passes in the other direction, and the  *)
(* pair becomes one row of the store; notifications and unmatched responses   *)
(* become rows of their own. The module has the tap's state and what one call *)
(* of observe or one turn of flush does to it; StdioProxy says when the two   *)
(* pumps make those calls.                                                    *)
(*                                                                            *)
(* A line is a record [type, id, re]. Its position among the lines of its     *)
(* direction stands for its content. "re" is a history field: the position of *)
(* the request a response really answers, which the code cannot see.          *)
EXTENDS SpanStore, Integers

CONSTANTS
    RawIds,         \* JSON-RPC ids as they appear on the wire: 1, "1", ...
    NoId,           \* the id of a line that has none
    Keys,           \* ids as the tap compares them
    Str             \* [RawIds -> Keys]: Python's str(), which the parser applies

ASSUME TapAssumption ==
    /\ NoId \notin RawIds
    /\ Str \in [RawIds -> Keys]

C2S == "c2s"
S2C == "s2c"
Dir == {C2S, S2C}

(* What the tap can tell apart. "bad_request" is a request whose tool name    *)
(* cannot be read (tools/call with params that are no object: an              *)
(* AttributeError, swallowed). "opaque" is a line that is no JSON object or   *)
(* has neither method nor id. "oversized" is longer than the StreamReader     *)
(* limit of 64 KiB: no pump ever gets to show it to the tap.                  *)
LineType ==
    {"request", "bad_request", "notification", "response", "opaque", "oversized"}

(* One row of the spans table, or the span that would have become one: the    *)
(* direction the request travelled, and the positions of request and          *)
(* response, 0 where the span has none.                                       *)
Span(d, req, resp) == [dir |-> d, req |-> req, resp |-> resp]

VARIABLE
    pending     \* [Dir -> [Keys -> Nat]]: TraceTap._pending, 0 = no entry

tapVars == <<pending, rows, txn, lost>>

TapInit ==
    /\ pending = [d \in Dir |-> [k \in Keys |-> 0]]
    /\ StoreInit

------------------------------------------------------------------------------
(* Operators named Bad... are the mistakes the mutation runs make: each is put *)
(* in place of the definition that follows it, and nothing else uses them.    *)

(* One id space for both directions.                                          *)
BadOrigin(d) == d

(* A response travelling d answers a request that went the other way.         *)
Origin(d) == IF d = S2C THEN C2S ELSE S2C

ObserveNothing(l) ==
    /\ l.type \in {"opaque", "bad_request"}
    /\ UNCHANGED tapVars

(* dict assignment: a request whose key is still pending is overwritten.      *)
ObserveRequest(d, i, l) ==
    /\ l.type = "request"
    /\ pending' = [pending EXCEPT ![d][Str[l.id]] = i]
    /\ UNCHANGED storeVars

ObserveNotification(d, i, l) ==
    /\ l.type = "notification"
    /\ WriteOk(Span(d, i, 0)) \/ WriteRaises(Span(d, i, 0))
    /\ UNCHANGED pending

(* get where the code has pop.                                                *)
BadObserveResponse(d, i, l) ==
    LET asked == Origin(d)
        span == Span(asked, pending[asked][Str[l.id]], i)
    IN  /\ l.type = "response"
        /\ pending' = pending
        /\ WriteOk(span) \/ WriteRaises(span)

(* pop, then write: the entry is gone even if the write raises. A pop that    *)
(* finds nothing (0) gives a span with a response only.                       *)
ObserveResponse(d, i, l) ==
    LET asked == Origin(d)
        key == Str[l.id]
        span == Span(asked, pending[asked][key], i)
    IN  /\ l.type = "response"
        /\ pending' = [pending EXCEPT ![asked][key] = 0]
        /\ WriteOk(span) \/ WriteRaises(span)

(* TraceTap.observe of line l, the i-th of direction d. It returns normally   *)
(* whatever happens: a store.write that raises is logged and swallowed.       *)
Observe(d, i, l) ==
    \/ ObserveNothing(l)
    \/ ObserveRequest(d, i, l)
    \/ ObserveNotification(d, i, l)
    \/ ObserveResponse(d, i, l)

SpanType == [dir : Dir, req : Nat, resp : Nat]

TapTypeOK ==
    /\ pending \in [Dir -> [Keys -> Nat]]
    /\ rows \in Seq(SpanType)
    /\ txn \in Seq(SpanType)
    /\ lost \in Seq(SpanType)

------------------------------------------------------------------------------
(* TraceTap.flush goes through the c2s requests, then the s2c ones. An entry  *)
(* is cleared here as it is written; the code clears a direction after its    *)
(* last entry, and nothing looks in between.                                  *)

Waiting(d) == {k \in Keys : pending[d][k] # 0}

NextToFlush(d, k) ==
    /\ k \in Waiting(d)
    /\ d = S2C => Waiting(C2S) = {}

FlushWrites(d, k) ==
    /\ NextToFlush(d, k)
    /\ WriteOk(Span(d, pending[d][k], 0))
    /\ pending' = [pending EXCEPT ![d][k] = 0]

(* No try around this write: the error leaves flush, and the process.         *)
FlushRaises(d, k) ==
    /\ NextToFlush(d, k)
    /\ WriteRaisesThenCloses(Span(d, pending[d][k], 0))
    /\ UNCHANGED pending

(* The server's own requests are forgotten.                                   *)
BadNothingToFlush == Waiting(C2S) = {}

NothingToFlush == \A d \in Dir : Waiting(d) = {}
==============================================================================
