---------------------------- MODULE ProxiedTrace -----------------------------
(* What a reader makes of the rows of a proxy trace, at any moment of the     *)
(* session: the trajectory (replay/capture.py), the recording                 *)
(* (replay/recording.py), the explorer's list (store/sqlite.py) and /api/diff *)
(* (ui/app.py). The client's requests are taken for tools/call; the server's  *)
(* have other methods. A row comes when its response does, and has the time   *)
(* its request was shown to the tap.                                          *)
(*                                                                            *)
(* What a call asks for, its tool and its arguments as they are stored, is a  *)
(* parameter of the readers: nothing before them looks at it. ask[i] is what  *)
(* line i of the client asks for. Two lines may ask for the same, and there   *)
(* are never more different calls than lines.                                 *)
EXTENDS StdioProxy, SequencesExt

Asks == [1..MaxSent[C2S] -> 1..MaxSent[C2S]]

IsRequest(s) == s.req # 0 /\ sent[s.dir][s.req].type = "request"

(* Operators named Bad... are the mistakes the mutation runs make: each is put *)
(* in place of the definition that follows it, and nothing else uses them.    *)

(* A call without an answer is skipped, as it has to be for a recording.      *)
BadIsToolCall(s) == s.dir = C2S /\ IsRequest(s) /\ s.resp # 0
IsToolCall(s) == s.dir = C2S /\ IsRequest(s)

(* In the order of the rows.                                                  *)
BadSpansForTrace(seq) == seq

(* spans_for_trace. Requests of one direction start in the order they came;   *)
(* only these are compared by what follows.                                   *)
SpansForTrace(seq) == OrderedBy(seq, [k \in 1..Len(seq) |-> seq[k].req])

ToolCalls(seq) ==
    Filtered(SpansForTrace(seq), {s \in Contents(seq) : IsToolCall(s)})

(* captured_trajectory. The proxy sees no model: there never is a final step. *)
CallDecision(call) == [kind |-> "tool_call", key |-> call, token |-> FALSE]

ProxiedTrajectory(seq, ask) ==
    LET calls == ToolCalls(seq)
    IN  [steps |-> [k \in 1..Len(calls) |-> CallDecision(ask[calls[k].req])],
         stopped |-> "none"]

(* The first result of a call is kept.                                        *)
BadIsLatest(k, answered, ask) ==
    \A l \in 1 .. k - 1 : ask[answered[l].req] # ask[answered[k].req]

(* Recording.record: of the results for one call the last is kept.            *)
IsLatest(k, answered, ask) ==
    \A l \in k + 1 .. Len(answered) : ask[answered[l].req] # ask[answered[k].req]

(* from_trace_store: the response each call will be answered with. An error   *)
(* is kept in a column of its own, so that it is no response here; which      *)
(* responses are errors is up to the server.                                  *)
RecordingFrom(seq, ask, errors) ==
    LET answered == Filtered(ToolCalls(seq),
                             {s \in Contents(seq) : s.resp # 0 /\ s.resp \notin errors})
        latest(call) == CHOOSE k \in 1..Len(answered) :
                            ask[answered[k].req] = call /\ IsLatest(k, answered, ask)
    IN  [call \in {ask[answered[k].req] : k \in 1..Len(answered)} |->
            answered[latest(call)].resp]

(* list_traces: tool_calls.                                                   *)
CallCount(seq) == Cardinality({k \in 1..Len(seq) : IsToolCall(seq[k])})

(* Another session in which all the calls of this one were made and captured. *)
Asked ==
    Filtered([i \in 1..seen[C2S] |-> i],
             {i \in 1..seen[C2S] : sent[C2S][i].type = "request"})

FullTrajectory(ask) ==
    [steps |-> [k \in 1..Len(Asked) |-> CallDecision(ask[Asked[k]])], stopped |-> "none"]

(* /api/diff of two trajectories, here given to its operators; 0 and -1 are   *)
(* no calls.                                                                  *)
Diffs == INSTANCE TrajectoryDiff WITH
    Keys <- 1..MaxSent[C2S], FinalKey <- 0, NoKey <- -1, NoIndex <- -1,
    MaxSteps <- MaxSent[C2S], traj <- <<>>

------------------------------------------------------------------------------

(* A call that the client made and no row tells of: it waits for its response *)
(* or its end, or the store failed to write it.                               *)
Missing(i) ==
    \/ Waits(C2S, i)
    \/ \E s \in Contents(txn) \cup Contents(lost) : s.dir = C2S /\ s.req = i

(* The calls a reader finds.                                                  *)
Kept == Filtered(Asked, {i \in 1..seen[C2S] : ~Missing(i)})

(* The tap was shown an answer to the call that is no error.                  *)
AnsweredWell(i, errors) ==
    \E j \in 1..seen[S2C] :
        sent[S2C][j].type = "response" /\ sent[S2C][j].re = i /\ j \notin errors

(* A trajectory has the calls that are not missing, in the order they were    *)
(* made, each once; the explorer's list counts as many.                       *)
CallsInOrder(ask) ==
    LET captured == ProxiedTrajectory(rows, ask).steps
    IN  /\ [k \in 1..Len(captured) |-> captured[k].key]
                = [k \in 1..Len(Kept) |-> ask[Kept[k]]]
        /\ CallCount(rows) = Len(captured)

(* A recording answers what any of them asked and got an answer to, with the  *)
(* server's answer to the last call that asked it.                            *)
LastAnswerKept(ask, errors) ==
    LET rec == RecordingFrom(rows, ask, errors)
        good == {i \in Contents(Kept) : AnsweredWell(i, errors)}
    IN  /\ DOMAIN rec = {ask[i] : i \in good}
        /\ \A call \in DOMAIN rec : \E i \in good :
              /\ ask[i] = call /\ sent[S2C][rec[call]].re = i
              /\ rec[call] \notin errors
              /\ \A j \in good : ask[j] = call => j <= i

(* Although rows come in the order of the responses, and half of them are of  *)
(* the other direction, a reader finds the client's calls as they were made,  *)
(* and their answers with them. Of two calls that ask for the same, the first *)
(* is replayed with the second's answer: see SameOutputs of LiveReplay.       *)
CapturedAsAsked ==
    \A ask \in Asks :
        /\ CallsInOrder(ask)
        /\ \A errors \in SUBSET (1..Len(sent[S2C])) : LastAnswerKept(ask, errors)

(* A trace that is still written, or that was cut short, may lack a call in   *)
(* its middle. Then it is said to diverge from one that has it, unless calls  *)
(* that ask for the same hide it, and that is the only reason: two sessions   *)
(* with the same calls are never said to diverge once the missing ones are    *)
(* written, which they are at the latest when the session ends well and the   *)
(* store has not failed.                                                      *)
DivergesOnlyOverGaps ==
    \A ask \in Asks :
        LET d == Diffs!Diff(ProxiedTrajectory(rows, ask), FullTrajectory(ask))
            gap == \E i, j \in Contents(Asked) : i < j /\ Missing(i) /\ ~Missing(j)
            alike == \E i, j \in Contents(Asked) : i # j /\ ask[i] = ask[j]
        IN  /\ d.kind = "diverged" => gap
            /\ gap => d.kind = "diverged" \/ alike
            /\ d.kind \in {"diverged", "unknown_terminal"}
            /\ main \in {"wait", "returned"} /\ lost = <<>> /\ txn = <<>> =>
                  d.kind = "unknown_terminal" /\ d.until = Len(Asked)
==============================================================================
