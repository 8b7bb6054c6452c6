# A TLA+ model of AgentSense

AgentSense records what an LLM agent does and replays the recording against
another model. A transparent stdio proxy or a small SDK writes *spans* to a
SQLite store; a replay engine drives a model through the agent loop, answering
its tool calls from the recording; a diff says at which decision two runs part;
a web API puts these together. This directory holds a TLA+ model of that code,
the TLC configurations that check it, and machine-checked proofs about each part and
about the loop they make together.

Run in this directory: `tlc -config wire.cfg MCStdioProxy`, and likewise for the
table below; `tlapm M.tla` for the proofs, M being `SubsequenceLemmas` or one of the
modules named `...Proofs` (one to five minutes each).

## 1. The system

Paths are below `src/src/agentsense/`.

| Part | State it keeps | Operations | Talks to |
|---|---|---|---|
| Stdio proxy `proxy/stdio.py` | two pump tasks, two stream readers and writers, the server process | `_pump` per direction, `run_stdio_proxy`: gather, flush, wait | client and server by pipes; calls the tap |
| Trace tap `proxy/tap.py`, `model/jsonrpc.py` | `_pending`, one dict of requests per direction | `observe`, `flush`, `parse_line` | called by both pumps; writes to the store |
| Span store `store/sqlite.py`, `model/spans.py` | the `spans` table, one connection with its open transaction | `write`, `close`, `spans_for_trace`, `get`, `list_traces` | tap, SDK, explorer |
| Command line `cli.py` | none | `proxy` (close the store in a `finally`), `ui` | proxy, explorer |
| Capture SDK `sdk/tracer.py`, `sdk/conventions.py` | an open session and its root span | `session`, `step`, `tool_call`, `llm_call` | redaction, store |
| Redaction `redaction/` | none | `redact_text`, `redact_object` | store, engine |
| Capture and recording `replay/capture.py`, `replay/recording.py` | none: computed from rows | `captured_trajectory`, `from_sdk_trace`, `from_trace_store`, `Recording.record`, `lookup` | store, engine, diff |
| Replay engine `replay/engine.py` | the conversation, the trajectory | `replay` | model adapter, recording, live executor |
| Model adapters `replay/adapters/` | an HTTP client | `converse` | model providers |
| Trajectory diff `replay/diff.py` | none | `diff_trajectories` | capture, engine |
| Explorer API `ui/app.py` | a store connection per request | `/api/replay`, `/api/diff`, `/api/traces` | all of replay |
| Explorer page `ui/static/index.html` | the page | rendering | explorer API |

What is hard about it, and what makes each part correct:

- **Proxy.** Two tasks share one event loop, one tap and one store; either
  writer may suspend, either peer may go away, a signal may come at any time, and
  the end of input has to travel through to the server and back. Correct means:
  no line is altered, skipped, reordered or invented, and only the end of the process
  cuts a stream short; the tap is never ahead of the wire; a write that fails while
  lines are pumped is not felt on the wire; the session ends.
- **Tap and store.** Requests and responses arrive through different pumps, ids
  repeat across directions, a request is taken out of `_pending` *before* its span
  is written, and a write can fail in two different places. Correct means: a pair
  is a true pair, nothing is recorded twice, nothing observed is forgotten.
- **Replay engine.** Nested loops with five ways out. Correct means: the model is
  shown a conversation that a provider accepts, in which nothing is made up; real
  tools are called only as a last resort; the trajectory says truly how it ended.
- **Capture, recording, diff.** They infer what happened from rows that may be
  incomplete and may still be growing. Correct means: they say what happened, and
  claim no more than the rows show.
- **Adapters.** The same turns become one shape of message for Bedrock and another
  for OpenAI-compatible endpoints, and are made anew every round. Correct means:
  each provider accepts them, and the model reads the same conversation in both.
- **Redaction.** Three patterns, each of which sees the tokens the ones before it
  put in, applied when a span is written and again when a replayed model repeats
  what it was shown. Correct means: nothing personal is left, a second pass
  changes nothing, dates survive, and the audit log agrees with the text.
- **Explorer.** It reads the trace twice while the agent goes on writing. Correct
  means: the verdict shown is true of what the agent and the model really did.

`PROJECT.json` lists the hazards one by one, at their lines, each with the
properties that would catch it going wrong.

## 2. The modules

    Channel <-implements- StdioProxy --EXTENDS--> TraceTap --EXTENDS--> SpanStore
                                 ^                                        ^
                                 ProxiedTrace ---INSTANCE--+          SdkSession
                                                           v              ^
    AgentLoop <-implements- ReplayEngine    TrajectoryDiff           CapturedTrace
                              ^   ^                ^                      ^
                       Adapters   +--- INSTANCE ---+---- LiveReplay ------+

    Redaction --EXTENDS--> Detectors

    ProxiedTraceProofs --EXTENDS--> StdioProxyProofs
    AdaptersProofs ----EXTENDS--> ReplayEngineProofs <-INSTANCE-+
                                TrajectoryDiffProofs <-INSTANCE-+- LiveReplayProofs
    RedactionProofs

Each `XProofs` extends `X`, too, and `SubsequenceLemmas`, which holds what all of
them need to know of sequences.

`StdioProxy` and `ProxiedTrace`, `ReplayEngine` and `Adapters`, `TrajectoryDiff`,
`LiveReplay` and `Redaction` have `MC...` modules with the values their
configurations use.

**SpanStore** is one connection as its writer sees it. `rows` is what readers
see, `txn` the open transaction, `lost` (history) what will never be a row.
`write` can raise at the INSERT (nothing is left) or at the commit (the row stays
in the transaction and comes in with the next commit that succeeds, or is
rolled back by `CloseStore`).

**TraceTap** is `observe` and `flush`. `pending[d][k]` is `_pending`, with 0 for
"no entry". `Observe` has one disjunct for each way through `_observe`. A line is
known by its position in its direction, which stands for its content; `Str` is
Python's `str()` on JSON-RPC ids and may make two ids equal.

**StdioProxy** has one action for what a task does between two awaits. Per
direction: `sent` by the sender, `wire` given to `dst.write`, of which `piped`
have left the process and `got` were read by the receiver; `seen` were shown to
the tap. `PumpForwards` is a whole turn of `_pump`'s loop (read, write, drain,
observe); where `drain` suspends it is `PumpSuspends` and then `PumpResumes`.
`PumpEnds` is end-of-file with `write_eof`, `PumpRaises` a `readline` or a
`drain` that raises. `GatherReturns`, `GatherRaises`, `Flush`, `FlushFails`,
`FlushReturns` and `WaitReturns` are `run_stdio_proxy`. `Killed` is a signal. Each
way out closes the store as `cli.py` does, and the pipes, since the process ends
(`PipesClose`): both receivers then find an end behind what has left the process,
and what a transport still held is gone. The peers and the write transports
are the environment, modelled from how the code uses them. Two details matter:

- *Turns.* A pump that its transport has woken runs before the other pump handles
  a line that arrives after that: asyncio runs woken tasks first-come
  first-served, and a line needs at least one more round of the loop to be read
  and to wake its reader. `HasTurn` says so. Lines that were there before could
  be handled in the meantime, but the two steps touch different directions
  and may as well come in the other order. Without `HasTurn` a response could be
  observed before its request and `AnsweredPaired` would fail.
- *A receiver that has gone* is noticed some time later: until then lines are
  still written, observed, and lost; after that `drain` raises.

**Channel** is what the proxy promises, told without it: per direction a FIFO
channel that does not skip and, while the connection lasts, ends only after its last
line. The connection may break at any point; then both receivers see an end where
they are. So what was received is always a prefix of what was sent, and all of it
if the stream ended before the proxy did (`broken <- ~Running`).

**ReplayEngine** is `replay()`: an action is one request to the model with its
answer, one tool call of its batch, or one return. A call (tool, canonical
arguments) and a result are atoms. The model may answer anything or raise.

**AgentLoop** is what a replay promises, told without turns, batches, steps and
early returns: exchanges of calls and answers, each call answered once and in
order, from the recording if it can be, otherwise as the policy says, and one of
four endings. The engine implements it with `talk <- Exchanges` (the assistant
turns, each with the turn after it or with `result_turn`) and `ending <- Ending`.

**Adapters** is what `BedrockAdapter` and `OpenAICompatAdapter` make of the
engine's turns, and what they read back. It extends the engine, so that the
translations are taken of every conversation the engine can reach. What the
providers accept is written down from their documented rules, as the docstrings
of the two adapters give them.

**TrajectoryDiff** is `diff_trajectories` as operators, and the two
trajectories growing, so that the diff is taken of every pair of states on the
way. `DecisionsUpTo` collects the decisions with a recursive function.

**Subsequences** has what Python's comprehensions and SQL's `WHERE` and `ORDER BY`
make of a list: `Filtered` and `OrderedBy`. It takes the place of `SelectSeq` and
`SortSeq`. The provers cannot expand the first, because its argument is an
operator; the second has by its definition no value at all for a sequence with two
elements of which neither comes first, as rows of one time are. `OrderedBy` leaves
such elements in the order they are in: Python's `sorted` is stable, and SQLite
sorts the rows of a trace as it finds them, in the order they were written.

**SdkSession** is `Tracer.session` and its three reporting methods, each ending
in a `store.write` that may raise into the traced program. The clock goes on from
one span to the next, or is set back. **CapturedTrace** is what a reader makes of
the rows: `spans_for_trace`, `captured_trajectory`, `from_sdk_trace`.
**LiveReplay** composes both with the engine and the diff the way `/api/replay`
does: read for the recording, read again for the trajectory, replay, diff, while
the agent is still running.

**ProxiedTrace** is a reader of a proxy trace at any moment of the session: the
trajectory, the recording (`from_trace_store`), the explorer's count of calls and
a diff with a session that made the same calls. A row comes with its response and
has the time of its request. The readers tell calls apart by tool and arguments, and
two calls may ask for the same: `ask` gives for each line of the client what it asks
for. Nothing in proxy, tap or store looks at it, so it is a parameter of the readers
and not part of the state, and the properties quantify over all of them (`Asks`).

**Detectors** has the three patterns as operators on sequences of characters, and
one `pattern.sub`. A character stands for all those no pattern tells apart: any
digit, any other word character, any character no pattern mentions; separators
are themselves. A hash is eight digits or something with a letter in it.
**Redaction** writes a text piece by piece and then passes it through the
detectors, an action for each turn of the loop of `redact_text`.

Operators named `Bad...` are plausible mistakes. Nothing uses them; put in place
of the definition that follows, each breaks the property `PROJECT.json` pairs it
with, which shows that the property can tell.

## 3. What is checked

| Run | Asks | Bounds | Distinct states |
|---|---|---|---|
| `wire` | `TypeOK`, `TapFollowsWire`, `PairingSound`, `OnceRecorded`, `Accounted`, `AnsweredPaired`, `CleanExitKeepsEverything`, `CapturedAsAsked`, `DivergesOnlyOverGaps`, refinement of `Channel` | 2 lines each way, 2 ids shared by both directions, every kind of line, a pipe of one line; the c2s writer buffers one line before it suspends and the s2c writer none; one store error; exits and kills at any time; lines that ask for the same and that do not | 1 186 785 |
| `wire_live` | `Delivered`, `Shutdown` under `FairSpec` | 2 requests or responses each way, both writers suspend, one store error, no early exit | 49 484 |
| `replay` | `TypeOK`, `ConversationWellFormed`, `NothingFabricated`, `LiveIsLastResort`, `EndingHonest`, `StepsMirrorConversation`, `ProvidersAccept`, `SameConversation`, refinement of `AgentLoop`, `Terminates` | 2 rounds of up to 2 calls, with and without text, 2 calls of which one is changed by redaction, all policies and an unknown one, three recordings | 18 302 |
| `diff` | `TypeOK`, `KindIsExact`, `ComparableAgrees`, `Symmetric`, `VerdictStable` | trajectories of up to 3 steps, and the missing result after the last of them; 2 calls, tokens anywhere | 105 345 |
| `live_replay` | `TypeOK`, `CapturedIsWhatHappened`, `CapturedGrows`, `ToldWhatTheAgentWasTold`, `ForkIsUncovered`, `VerdictIsTrue` | 3 agent events, 2 rounds of one call, policies stop and stub, one store error, one clock set back | 2 974 543 |
| `redaction` | `TypeOK`, `NothingLeft`, `DatesSurvive`, `CardsAreCards`, `AuditMatches` | every text of up to 4 of 11 pieces (numbers of 4 and 8 digits, a telephone and a card number, a date, an address, a letter, separators), 2 passes, any hash | 499 281 |

What the bounds leave possible is what the properties need: two requests
outstanding with the same id in opposite directions; a second line behind a
suspended one; a response while the other pump is suspended; an error while
another row waits in the transaction, followed by a write that succeeds; a batch
whose second call forks; the last allowed round; a slow call whose row comes after
a later call's; a date next to a number, to another date and to an address; a token
that the next detector, or the next pass, takes for a number; a conflict before, at and after
the end of either trajectory; an agent that goes on between the explorer's two
reads. More lines or rounds repeat these. For `wire`, `replay`, `diff` and
`live_replay` the proofs of section 5 make the question of bounds moot, but for
`Terminates`, and for `redaction` as far as `AuditMatches` goes; it stays open for
`wire_live` and for the other three properties of `redaction`.

`MaxSent`, `MaxBatch`, `MaxEvents`, `Narrates`, `MaxStoreErrors`, `MaxPieces`, `MaxPasses`,
`TrajectoryDiff!MaxSteps` and "the clock is set back at most once, to zero" are
bounds of the model; `ReplayEngine!MaxSteps` is the code's `max_steps`.

Ids are interchangeable, so `wire` uses symmetry; calls are in `diff`. The
liveness runs use none. `CHECK_DEADLOCK FALSE` is said of `diff` (trajectories
stop growing), of `redaction` (a text of full length has had its passes) and of
`live_replay`, `repeated_call` and `redacted_twice` (one request is handled to its
end).

**Fairness.** In `FairSpec` of the proxy the event loop runs every task and every
transport callback that can run (weak fairness of `Pump(d)`, `Transport(d)`,
`Main`), which is what asyncio's FIFO ready queue does. The peers read what is
there and exit when their input has ended; a proxy cannot deliver to a peer that
does not read. Nothing makes a peer send, or close early. In `FairSpec` of the
engine its one synchronous call goes on, and the adapter and the live tool return.

## 4. Where code and documentation disagree

Each of these runs checks one property that a docstring or test states, and TLC
finds it violated. `PROJECT.json` quotes the lines.

| Run | Property | What happens |
|---|---|---|
| `oversized_line` | `PumpsForwardEveryLine` | A line over the StreamReader's 64 KiB limit makes `readline` raise, and the session ends instead of forwarding it. |
| `flush_skipped` | `UnansweredPersisted` | The server exits, the client sends again, `drain` raises, `gather` raises, `flush` is never reached: pending requests are lost. |
| `return_truncates` | `ReturnDelivers` | `run_stdio_proxy` waits for the server's exit but not for the client's writer; what a slow client has not read is dropped. |
| `fork_mislabelled` | `ForkIsTheDivergence` | A divergence before a fork is reported as the fork. |
| `repeated_call` | `SameOutputs` | An agent polls a tool twice; the replay is given the second result both times. |
| `redacted_twice` | `RepeatsAlign` | A token whose hash has no letters (one in 43) is a telephone number to the phone pattern. A model that repeats the agent's call by the token it was shown has it redacted once more, and is said to diverge. (`redaction_suspect` is set.) |

Three more, without a run. Ids `1` and `"1"` are one key of `_pending`
(`model/jsonrpc.py:62`): the answer to the one is joined to the request of the
other; `PairingSound` fails for a `Str` that is not injective. And the engine calls
a real tool under `on_unrecorded="live"` (`replay/engine.py:100`), which its module
docstring, older than the policy, excludes "by construction" (lines 4-6). And a miss
is not always the "genuine trajectory divergence" of `replay/recording.py:43-45`: the
engine looks up the arguments as the model gives them (`replay/engine.py:86`), the
recording is made of redacted rows. A model that gives a personal value itself, and not
its token, misses on a call that the agent made too and had an answer to. The branch is
given up, the diff sees the same decision on both sides, and reports a fork at the next
one, which the model was never asked for.

What the passing runs say at the edges is worth reading, too. `NothingLeft` names
the two cases in which a second pass finds something; `DatesSurvive` names the
dates that are taken for part of a number (thirteen digits with separators in all,
as in `2024-11-05 14-30-00`, or a digit or `+` before the date);
`DivergesOnlyOverGaps` says when two sessions with the same calls are said to
diverge: a call in the middle of one has no row yet, or never got one (and calls that
ask for the same may hide even that). `ForkIsUncovered` says which calls fork: those
without a recorded answer *in the model's own words*, among them calls the agent made
too. And `VerdictIsTrue` says what the place of a fork is worth: it is where the two
runs decided differently, or where the agent's trace stops, or one decision *after* the
call that forked, if the model repeated a call of the agent's that has no answer or
named it in words that were redacted.

## 5. What is proved

Eight modules hold proofs, for every value of the constants. What they assume are
the modules' own assumptions, which TLC evaluates on every run:

- `StoreAssumption`, `ProxyAssumption`: types of the bounds, pipes hold at least one
  line, the low-water mark is not above the high one.
- `TapAssumption`: `Str` is a function from ids to keys. Not that it is injective.
- `ReplayAssumption` of the engine: recordings map calls to results, the stub is no
  result, `Redact` is defined on calls and results.
- `DiffAssumption`: a final answer has a key of its own.
- `RedactionAssumption`: a text is written with characters a pattern tells apart or
  with those it does not, but without `<`, `>` and labels of its own, since a text that
  brings a token along is redacted where the audit log has nothing.
- `SessionAssumption`: `Redact` is defined on calls and results; a failed call has no
  result, whatever is redacted (`error` and `result` are different fields).
- `ReplayAssumption` of `LiveReplay`: a call that was redacted is one the model may
  make, too; the stub is neither a result nor a redacted one (it is a sentence of the
  engine's); the keys of a final answer and of no decision differ from those of calls;
  `None` is no token. Not that `Redact` is idempotent or injective, nor that tokens
  are what it returns.

Each component has its inductive invariant, checked by TLC before it was proved, a
lemma for each group of actions, and short theorems that draw the conclusions.

### Sequences (`SubsequenceLemmas`)

Much of the code collects: it filters rows, sorts them, joins the turns' messages.
For every length this needs induction, and the library's induction theorems take an
operator as their argument, which no installed prover can supply. `LeastElement`
gets induction from the library's well-foundedness of `<`, over a *set* of numbers
(`ForAllNumbers`, `ForAllSequences`). With it `Joins...` says that a recursive
function that appends part after part exists and what it is; `Filtered...` that a
filter keeps exactly the elements wanted, in their order (`FilteredPositions`,
`FilteredOrder`), and how it goes on (`FilteredConcat`, `FilteredAppend`);
`Flatten...` what joining a list of lists is; `Ordered...` that sorting
permutes; and `RisingByUnique` that two
lists that rise by the same measure and have the same elements are one.

### The wire (`StdioProxyProofs`)

For any number of lines, ids, pipe and buffer sizes, any `Str`, any number of store
errors and any faults:

- `TypeCorrect`: `Spec => []TypeOK`, including the order of the counters
  (`got <= piped <= Len(wire)`, `seen <= Len(wire)`).
- `TapFollows`: `Spec => []TapFollowsWire`. "Forward first, observe second": the
  tap is never ahead of the wire, and one line behind at most.
- `Implements`: `Spec => ImplementsChannel`. Each direction is a FIFO channel
  whatever the tap, the store, the peers and a signal do; a stream ends before its
  last line only when the process does.

`TypeOK` is not inductive. Its bound on `seen` fails when a suspended pump
resumes, unless one knows that the suspended line has not been seen yet, which is
`TapFollowsWire`; and the refinement needs to know that the wire carries the
sender's lines. So the proofs use

    IInv == TypeOK /\ LinesOK /\ WireOK /\ TapFollowsWire

where `LinesOK` says that requests and responses have ids, and `WireOK` that
`wire[d]` is a prefix of `sent[d]` and that, while the process runs, `eof[d]` is set
only when a pump has ended and every line sent has left the process.

For the refinement `delivered` is the part of `wire` that has left the process.
The step that gives up nothing to the receiver (a suspended write, an observation,
anything of the tap or of `run_stdio_proxy`) is a stutter (`ChannelStutters`); a
line written through, or moved by the transport, is a `Deliver` (`SameLines`,
`ChannelDelivers`); `TransportCloses` is an `End`, which `WireOK` allows only
after the last line; sending and closing are `Accept` and `Close`; and the four ways
in which the process ends are a `Break`, after which nothing moves.

### The spans (`StdioProxyProofs`, second half)

- `RecordedOnce`: `Spec => []OnceRecorded`, without any condition.
- `PairsAreTrue`, `NothingForgotten`, `AnsweredTogether`, `CleanExit`:
  `PairingSound`, `Accounted`, `AnsweredPaired` and `CleanExitKeepsEverything` hold
  in every state in which `DistinctKeys` holds.
- `KeptApart`: if `Str` keeps all ids apart, the four hold in every state.

`DistinctKeys` says that no two requests of one direction are the same key of
`_pending`. It speaks of what the session has sent so far, and cannot be left out:
a peer may use `1` and `"1"`, the tap makes one key of them
(`model/jsonrpc.py:62`), and the second request takes the place of the first, which
is forgotten, or is given its answer. In a session without two such ids, that of
any client that numbers its requests, it holds throughout.

The inductive invariant is `TapInv == PeersOK /\ TapOK /\ OrderOK`, on top of
`IInv`:

- `PeersOK` is the environment's part. Ids of requests are fresh, an answer is to
  a request its sender has read, and bears its id, and no request is answered
  twice.
- `OrderOK` is the order of the two pumps and of `run_stdio_proxy`. `AnswersFollow`
  is the heart of it: an answer that is on the wire is to a request that the tap
  *has seen*, although the tap sees a line only after it was forwarded. It rests
  on `HasTurn` (section 2) and on `RaisedBehind`: the line a pump failed on, which
  was written and never observed, was not read by the receiver, so no answer comes
  to it. `Stage` says which pumps have ended where `main` is.
- `TapOK` is what `pending` and the spans written have to do with the lines: what
  waits was seen, under its key and (until the end) without a span; the two halves
  of a span have the same key and went opposite ways; no half is in two spans
  (`Once`); a request is in a span without an answer only when the pumps are done;
  and `DistinctKeys => Accounted /\ AnsweredPaired`.

`PairingSound` is then a consequence: a response bears the id of the request it
answers; the span joins it to a request with the same key; with distinct keys there
is only that one. By itself it is not inductive, because it says nothing of what
waits.

### The proxy's trace (`ProxiedTraceProofs`)

- `CapturesAsAsked`: with `DistinctKeys`, at any moment of the session and whichever
  lines ask for the same, the trajectory a reader makes of the rows and the explorer's
  count hold the client's calls in the order they were made, each once, but for those
  that have no row; and the recording answers exactly the calls that have an answer in
  a row, each with the server's answer to the *last* line that asked for it.
- `DivergesForGaps`: with `DistinctKeys`, such a session is said to diverge from one
  with the same calls only over a call that is missing in the middle, and always
  then if no two calls ask for the same (`DivergesOnlyOverGaps`).
- `ReadsKeptApart`: both hold without the condition if `Str` keeps all ids apart.

Rows come in the order of the *answers*, and are sorted by the time of the requests.
So the proof is about two lists of line numbers, the calls asked and the calls in
rows: both rise (the second because sorting makes it so and no request is in two
rows), and the second is contained in the first. What is not in rows is missing or
still waits. For this last step a request that waits must not be in a row; `TapInv`
says so only while the proxy runs, so `RowsAnswered` adds it for the state that a
failed flush leaves behind. Of two rising lists, one within the other, the first place
where they differ is a gap, or the end. What is asked for is the value of `ask` at the
elements: where the values differ so do the elements (`Verdicts`), and the converse
holds if `ask` is injective on them. The last answer to a value has a greatest index
(`GreatestIndex`, `LastAnswerWins`), which is the greatest line because the list rises.

### The engine (`ReplayEngineProofs`)

For any recordings, policies, `max_steps`, sizes of batches, and any model and
executor:

- `TypeCorrect`, `AlwaysWellFormed`, `NeverFabricates`, `LiveOnlyWhereUnrecorded`,
  `EndsHonestly`: the invariants `TypeOK`, `ConversationWellFormed`,
  `NothingFabricated`, `LiveIsLastResort`, `EndingHonest`.
- `MirrorsConversation`: `StepsMirrorConversation`. The trajectory has the calls and
  answers of the conversation, in its order, and none besides.
- `Implements`: `Spec => ImplementsAgentLoop`.

The invariant adds to the first four of these what they need of each other.
`StepsOK`: a step that ends the run is the last one and says how it ended, and no
run returns without one unless its rounds are spent (`EndingHonest` follows).
`BatchOK`: while an assistant turn is the last one, `batch` is its calls and
`results` answers an initial part of them, by id and in order; before the first
turn nothing has happened. `MirrorOK` is what the trajectory and the conversation have
to do with each other while a batch is being handled: the calls of the steps are all
that were asked but for those of the batch not yet reached (`Pending`), the results
of the steps are all that were told with those of `results` that are not in the
conversation yet, and there are as many of the one as of the other until a fork.

For the refinement, every step of the engine is one of the loop's or a stutter: a
request for tools is an `Ask`; an answer to a call is a `Hear`, since `Exchanges`
counts the part of `result_turn` that is there, so that handing the turn over in
`BatchAnswered` is a stutter; and each way out is an `End` with its `Ending`.

### The adapters (`AdaptersProofs`)

- `BothAccept`: `Spec => []ProvidersAccept`. In every state the messages made of the
  turns are what Bedrock and an OpenAI-compatible endpoint demand: roles that
  alternate, and for every call an answer with its id at once, no more and no other.
- `SaysTheSame`: `Spec => []SameConversation`. Read back, both are the turns.

Both are proved of every state, not only of those in which the engine asks. Beside the
engine's invariant they need that a turn is one-sided (`SpeechInvariant`): the adapters
look at the calls of an assistant turn and at the results of a user's turn, and would
drop the others. `Talk(turns)` is the shape the engine keeps: the question, then by turns
a request and a reply that answers it by id and in order (`SameIds`). For Bedrock
that is the shape of its messages, one for one. The OpenAI adapter makes one message
of each *result*, so its list is taken apart from the front, exchange after exchange
(`Taken`, `TakenNext`), which is an induction over the turns with `FlattenSeq` at a
concatenation. For `SaysTheSame` the messages of each turn carry its calls and results
(`AllCarried`, `AllTold`), and reading what was joined is joining what was read.

### The diff (`TrajectoryDiffProofs`)

For trajectories of any length, any calls and any tokens:

- `TypeCorrect`: `Spec => []TypeOK`.
- `ClaimsExactly`: `Spec => []KindIsExact`. "aligned" and "diverged" are said
  exactly of the pairs of which they are certain.
- `ComparesTruly`: `Spec => []ComparableAgrees`.
- `OrderIsNoMatter`: `Spec => []Symmetric`.
- `DivergenceStays`: `Spec => VerdictStable`, an action property.

The inductive invariant is small, the typing of the trajectories and "a final step
is the last one": the verdict is computed anew in each state. The work is in the
lemmas, which are about any two trajectories. `PartOrMatch`: the two either `Match`
or there is an `i` with `PartAt(a, b, i)`, their first conflict, which the `CHOOSE`
of `FirstConflict` finds because a non-empty set of numbers has a least element
(`LeastElement`, from the library's well-foundedness of `<`). `ConflictKind` and
`MatchKind` say what the verdict is in either case. `PartIsProper` says that one
record can be taken for the beginning of the other exactly if it runs out at `i`
without an end; so `RanOut` is `CouldBeSame`, and `Exact` follows. `UpToGrows` says
that a trajectory that grows keeps its decisions, and `StaysDiverged` that neither
the place of a conflict nor the tokens before it change with a step after it.

What `Decisions` is, for every length, needs induction over the steps: `Collected`
proves that the recursive function in `DecisionsUpTo` exists, and `UpTo` gives its
equations.

### The captured trace and the explorer's request (`LiveReplayProofs`)

For any agent, model, calls, redaction, any number of store errors and a clock that may
be set back, at any moment of the agent's run and of the request:

- `TypeCorrect`: `Spec => []TypeOK`.
- `CapturesTruly`: `Spec => []CapturedIsWhatHappened`. Reading the rows by their times
  and by their order finds the agent's calls, in its order, and the answer only at
  the end of a session that is over.
- `CaptureOnlyGrows`: `Spec => CapturedGrows`, an action property.
- `TellsWhatWasTold`: `Spec => []ToldWhatTheAgentWasTold`.
- `ForksOnlyWhereUncovered`: `Spec => []ForkIsUncovered`.
- `VerdictsAreTrue`: `Spec => []VerdictIsTrue`.

`SessionInv` says what the rows are: each is the `n`-th thing the agent did, redacted;
they come in that order, though some may be missing; the root span comes last and
when the session is over. It speaks of `rows \o txn`, since a row that waits in the
transaction comes in with the next commit. While the clock has not been set back the
`n`-th thing has the time `n`, so that the rows sorted by time and the rows as written
are both rising lists of the same elements, hence one (`RisingByUnique`).

`RequestInv` says that the recording covers exactly the calls answered among the first
`complete` rows, each with a result that one of them has, and that while the replay runs
the *engine's* invariant holds: `E` is an instance of `ReplayEngineProofs` with the
model's calls and the recorded results for its constants, and each step of the engine
here is one of its steps (`SameStep`), so that its theorems carry over and are not
proved again. In the same way `T` is an instance of `TrajectoryDiffProofs`. What the
explorer read second is the trajectory of the rows as they are to the end of the
request, so a call that is stubbed or given up on has an answer in no row read
(`Uncovered`; the stub is never recorded), a recorded result is one the agent was
given, redacted, and the verdict is about what both really did: `ToldOfKeys` says of any
two trajectories where a divergence or a fork is placed (`Parting`). That at a divergence
both sides have a decision needs that an answer is a run's last decision
(`EndIsLast`, `EndedTogether`). That at a fork a model without a decision there was
given up on the one before is what the engine's `MirrorOK` says of its last call
(`AskedIs`).

### Redaction (`RedactionProofs`)

For texts of any length, any hashes and any number of passes:

- `TypeCorrect`: `Spec => []TypeOK`.
- `AuditAgrees`: `Spec => []AuditMatches`. However detectors and passes rewrite one
  another's tokens, the log and the text have as many of each kind, and the diff's
  search for a token finds one exactly if there was a redaction.

The invariant is `AuditOK`: the text is `Labelled`, that is, before every label there is
`<` and behind it a hash with its `>`, or another token (which took the place of the
hash); and `Labels` counts as many as the log. `Matched` is what the three patterns
have in common and all that is needed of them: a match holds no `<`, no `>` and no label,
and is eight characters long at least or has an `@`. The first is not obvious of an
address, which may well be made of label characters; it is so because a label is
between `<` and either `<` or a hash and `>`, and the pattern admits neither bracket
(`EmailMatched`). The second is why a hash is matched as a whole or not at all: it is
eight digits or one letter (`FollowedStill`). So a match that becomes a token tears no
other (`Replaces`).

`re.sub` is two recursions: the scan for matches, of which `ScansExists` and
`ScannedFrom` show from the end that it is well-defined and finds stretches that do not
overlap, and the new text, put together from the left. `Halfway` is the invariant of
the latter: what is written, with the rest of the old text behind it (`Then`), is
labelled, and has one label more for each match begun. That the diff finds a token at
all is seen at the last label of the text, whose hash no token has replaced
(`LastLabel`).

### Only model-checked

- Liveness (`Delivered`, `Shutdown`, `Terminates`), which is outside the provers'
  reach.
- `NothingLeft`, `DatesSurvive` and `CardsAreCards` of `Redaction`. They are about what
  a pattern *finds*, not only about what a match is like: that after a substitution no
  place is left at which the pattern, or one before it, would match. For that the
  proofs would have to follow each pattern's search over a text that is partly old and
  partly tokens.
- What the six violated properties of section 4 say is false, and has only a
  counterexample.

## 6. What the model leaves out

- Bytes. Lines are atoms, told apart by kind and position. Parsing is the
  classification it yields. That forwarded bytes equal read bytes is by
  construction of the model (the code passes one object on); what is checked is
  that lines are not skipped, repeated or reordered.
- Time. A blocking SQLite call stops the loop for a while; the model shows that
  nothing starves for ever, and says nothing of how long it takes.
- Token usage, texts, labels, summaries, the wording of errors.
- `Redact` is a given function in the models of engine and explorer, idempotent but
  in `redacted_twice`, where `Detectors` says what it does. `redact_object`'s walk
  through dicts and lists is not modelled; values of other types (a tuple, an
  object) pass it unchanged and are written by `json.dumps(default=str)`.
- JSON. Arguments are atoms: that one adapter carries them as text and the other as
  an object makes no difference here. `BedrockMessages` and `OpenAIMessages` leave
  out the system prompt and the tool declarations.
- The audit log of one pass by itself. `redact_text` starts a log for each call; the
  store keeps that of its pass, the engine drops those of a replay. `events` goes on over
  the passes, so that it can be compared with a text that keeps its tokens.
- A model call reported with a response that is no dict: `captured_trajectory` raises
  at every later read of its trace (`capture.py:87`). Responses are dicts here.
- Clocks in `ProxiedTrace`: requests of one direction start in the order they came.
  (`SdkSession` has a clock that may be set back.)
- `VerdictStable` is about trajectories that grow at their end. For SDK traces
  `CapturedGrows` shows that tool calls do; a final step may be withdrawn when the agent
  goes on after an answer (`capture.py:92-100`), and with it a divergence at that step. A
  proxy trace is different: the row of a slow call is written, at its starting
  time, after those of later calls. `DivergesOnlyOverGaps` says what that does.
- After `GatherRaises` and `Killed` the pump that is left counts as cancelled at
  once.
- In `FlushWrites` an entry is cleared as it is written; the code clears a
  direction after its last entry, and nothing looks in between.
- Several writers on one database, several sessions on one trace (or SDK and proxy
  on one trace, which counts a call twice), and one `TraceTap` for several proxies.
- Not modelled at all: `get`, client labels, the shapes of messages and tool
  declarations that `replay/recording.py` accepts, usage numbers, the explorer page,
  argument parsing, process spawning. They keep no state and nothing waits on them.

## 7. Plan

Done in this order, the most important first: the proxy with tap and store; the
engine; the diff; the SDK, the captured trace and the explorer's request; the
proofs of typing, of `TapFollowsWire` and of the refinement of `Channel`; the
readers of a proxy trace; redaction; the abstract loop and its refinement; the
adapters; the proofs about the tap, about the engine and its refinement of the
abstract loop, and about the diff; the proofs about the readers of a proxy trace, the
adapters, the captured trace and the explorer's request; the proofs about redaction's
audit log.

Next, on the model: several connections in `SpanStore` (locked-out writers, two
sessions on one trace id). It needs a model of SQLite's locks, of which the code
shows only the outcome, an error after a timeout; that outcome is in `SpanStore`
(`WriteRaises`) and in `LiveReplay` (`LockedOut`).

Next, on the proofs: `NothingLeft` of `Redaction`, one detector at a time.
