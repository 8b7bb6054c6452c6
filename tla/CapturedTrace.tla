---------------------------- MODULE CapturedTrace ----------------------------
(* What a reader makes of the rows of an SDK trace: the trajectory the agent  *)
(* took (replay/capture.py) and the recording a replay answers from           *)
(* (replay/recording.py). Rows are spans as SdkSession writes them.           *)
EXTENDS SdkSession, SequencesExt

CONSTANTS
    Tokens,     \* calls and results that hold a redaction token
    FinalKey,   \* the key of a final answer, as in TrajectoryDiff
    NoKey       \* the key of a step that is no decision

(* As in TrajectoryDiff.                                                      *)
CallDecision(call) == [kind |-> "tool_call", key |-> call, token |-> call \in Tokens]
FinalDecision == [kind |-> "final", key |-> FinalKey, token |-> FALSE]

(* Operators named Bad... are the mistakes the mutation runs make: each is put *)
(* in place of the definition that follows it, and nothing else uses them.    *)

(* Newest first.                                                              *)
BadSpansForTrace(seq) == Reverse(OrderedBy(seq, [i \in 1..Len(seq) |-> seq[i].ts]))

(* spans_for_trace: ORDER BY ts_start; the index yields equal ones in the     *)
(* order they were inserted.                                                  *)
SpansForTrace(seq) == OrderedBy(seq, [i \in 1..Len(seq) |-> seq[i].ts])

OfKind(spans, kind) == Filtered(spans, {s \in Contents(spans) : s.kind = kind})

(* The finish reasons of the last model call.                                 *)
LastReasons(spans) ==
    LET llm == OfKind(spans, "llm_call")
    IN  IF llm = <<>> THEN <<>> ELSE llm[Len(llm)].finish

(* A run without a finish reason is taken for one that ended.                 *)
BadEnded(spans) ==
    OfKind(spans, "llm_call") # <<>> /\ "continuing" \notin Contents(LastReasons(spans))

(* The last model call says whether the run was seen to end.                  *)
Ended(spans) ==
    LastReasons(spans) # <<>> /\ "continuing" \notin Contents(LastReasons(spans))

(* captured_trajectory. The model's text between decisions is left out: no    *)
(* diff looks at it. So is the AttributeError it raises for a model call that *)
(* the SDK was given a response for that is neither a dict nor empty (a text, *)
(* say): responses here are dicts.                                            *)
CapturedTrajectory(seq) ==
    LET spans == SpansForTrace(seq)
        calls == OfKind(spans, "tool_call")
    IN  [steps |-> [k \in 1..Len(calls) |-> CallDecision(calls[k].call)]
                       \o IF Ended(spans) THEN <<FinalDecision>> ELSE <<>>,
         stopped |-> None]

(* from_sdk_trace needs a model call: its messages hold the question.         *)
Replayable(seq) == OfKind(seq, "llm_call") # <<>>

(* The calls of a sequence of answered spans, each with its last result.      *)
LastResults(answered) ==
    LET last(c) == CHOOSE i \in 1..Len(answered) :
                      /\ answered[i].call = c
                      /\ \A j \in i + 1 .. Len(answered) : answered[j].call # c
    IN  [c \in {answered[i].call : i \in 1..Len(answered)} |-> answered[last(c)].result]

Answered(spans) == Filtered(spans, {s \in Contents(spans) : s.result # NoResult})

(* Calls that failed are recorded, too.                                       *)
BadRecordingFrom(seq) == LastResults(OfKind(SpansForTrace(seq), "tool_call"))

(* The arguments are not part of the key.                                     *)
BadByName(seq) ==
    LET answered == Answered(OfKind(SpansForTrace(seq), "tool_call"))
    IN  IF answered = <<>> THEN <<>>
        ELSE [c \in {Redact[x] : x \in Calls} |-> answered[Len(answered)].result]

(* break where the code has continue: nothing after a failed call is recorded. *)
BadUntilFailure(seq) ==
    LET calls == OfKind(SpansForTrace(seq), "tool_call")
        failed == {i \in 1..Len(calls) : calls[i].result = NoResult}
    IN  LastResults(Answered(
            SubSeq(calls, 1, IF failed = {} THEN Len(calls) ELSE Min(failed) - 1)))

(* Results by call; a call without a result is not recorded, and of two       *)
(* results for one call the later is kept (Recording.record).                 *)
RecordingFrom(seq) == LastResults(Answered(OfKind(SpansForTrace(seq), "tool_call")))

(* list_traces: what the explorer's list says of the trace. It has the name   *)
(* of the session only from the root span.                                    *)
Listed(seq) ==
    [calls |-> Len(OfKind(seq, "tool_call")), named |-> OfKind(seq, "session") # <<>>]
==============================================================================
