----------------------------- MODULE SdkSession ------------------------------
(* An agent run instrumented with the capture SDK (sdk/tracer.py): a session  *)
(* writes one span for every model call, tool call and reasoning step the     *)
(* agent reports, and its root span last. A span starts at the wall clock's   *)
(* reading; the clock goes on from one span to the next, and may be set back. *)
EXTENDS SpanStore

CONSTANTS
    Calls,      \* (tool name, arguments) of the agent's tool calls
    Values,     \* their results
    NoResult,   \* result=None: the call failed
    Redact,     \* redact_object, on calls and results
    MaxEvents   \* bound: what the agent reports

None == "none"

ASSUME SessionAssumption ==
    /\ NoResult \notin Values \cup {Redact[v] : v \in Values}
    /\ None \notin Calls
    /\ Calls \cup Values \subseteq DOMAIN Redact
    /\ MaxEvents \in Nat

VARIABLES
    session,    \* "open", "raising" (an error leaves the with block) or "closed"
    clock,      \* the last reading of the wall clock
    setBack,    \* history: the clock was set back, bound: once
    did         \* history: what the agent really did, in order

sessionVars == <<storeVars, session, clock, setBack, did>>

(* What a model call says about the end of its turn: a reason that means more *)
(* is to come (tool_use, tool_calls), any other reason, or nothing.           *)
Finish == {"continuing", "ending", None}

(* n is the span's id: it is the n-th thing the agent did; 0 is the root.     *)
SpanOf(n, kind, call, result, reasons, ts) ==
    [n |-> n, kind |-> kind, call |-> call, result |-> result,
     finish |-> reasons, ts |-> ts]

(* llm_attributes: the finish reasons are a list, absent where none is given. *)
FinishReasons(finish) == IF finish = None THEN <<>> ELSE <<finish>>

LlmSpan(n, finish, ts) ==
    SpanOf(n, "llm_call", None, NoResult, FinishReasons(finish), ts)
ToolSpan(n, call, result, ts) == SpanOf(n, "tool_call", call, result, <<>>, ts)
StepSpan(n, ts) == SpanOf(n, "reasoning", None, NoResult, <<>>, ts)
RootSpan == SpanOf(0, "session", None, NoResult, <<>>, 0)

SessionInit ==
    /\ StoreInit
    /\ session = "open"
    /\ clock = 0
    /\ setBack = FALSE
    /\ did = <<>>

(* Every object passes through redaction before it is written.                *)
Redacted(s) ==
    [s EXCEPT !.call = IF @ = None THEN @ ELSE Redact[@],
              !.result = IF @ = NoResult THEN @ ELSE Redact[@]]

------------------------------------------------------------------------------
(* _finish: a write that raises leaves step, tool_call or llm_call; the agent *)
(* catches it and goes on, or it ends the session.                            *)
Records(s) ==
    /\ did' = Append(did, s)
    /\ \/ WriteOk(Redacted(s)) /\ UNCHANGED session
       \/ WriteRaises(Redacted(s)) /\ session' \in {"open", "raising"}

(* The agent does the next thing, at time ts.                                 *)
Reports(ts) ==
    /\ session = "open"
    /\ Len(did) < MaxEvents
    /\ \/ ts = clock + 1 /\ UNCHANGED setBack
       \/ ts = 0 /\ ~setBack /\ setBack' = TRUE
    /\ clock' = ts

NextId == Len(did) + 1

LlmCall ==
    \E ts \in 0..MaxEvents, finish \in Finish :
        Reports(ts) /\ Records(LlmSpan(NextId, finish, ts))

ToolCall ==
    \E ts \in 0..MaxEvents, call \in Calls, result \in Values \cup {NoResult} :
        Reports(ts) /\ Records(ToolSpan(NextId, call, result, ts))

ReasoningStep ==
    \E ts \in 0..MaxEvents : Reports(ts) /\ Records(StepSpan(NextId, ts))

(* The finally of Tracer.session: the root span, which started first, is      *)
(* written last, whether the session ends well or by an error.                *)
SessionEnds ==
    /\ session \in {"open", "raising"}
    /\ WriteOk(RootSpan) \/ WriteRaises(RootSpan)
    /\ session' = "closed"
    /\ UNCHANGED <<clock, setBack, did>>

(* The store is closed after the session, or the process dies before.         *)
StoreCloses ==
    /\ session # "closed" \/ txn # <<>>
    /\ CloseStore
    /\ session' = "closed"
    /\ UNCHANGED <<clock, setBack, did>>

SessionNext == LlmCall \/ ToolCall \/ ReasoningStep \/ SessionEnds \/ StoreCloses
==============================================================================
