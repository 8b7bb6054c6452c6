------------------------------ MODULE AgentLoop -------------------------------
(* What a replay promises (replay/engine.py:1-13, 45-57), without turns,      *)
(* batches and steps: the model asks for tools, a few at a time; each call is *)
(* answered once and in order, out of the recording if it can be, otherwise   *)
(* as the policy says; and nothing follows the end.                           *)
EXTENDS Naturals, Sequences

CONSTANTS
    Calls, Values, Stub, MaxSteps, MaxBatch   \* as in ReplayEngine

VARIABLES
    recording,  \* what the agent was told: a partial function Calls -> Values
    policy,     \* what to do with calls it does not cover
    talk,       \* the exchanges: the calls asked for, and what was told
    ending      \* "running", or how the replay ended

vars == <<recording, policy, talk, ending>>

Init ==
    /\ talk = <<>>
    /\ ending = "running"

(* Every call of the last exchange has its answer.                            *)
Settled ==
    \/ talk = <<>>
    \/ LET last == talk[Len(talk)] IN Len(last.told) = Len(last.asked)

Running == ending = "running" /\ UNCHANGED <<recording, policy>>

Ask ==
    /\ Running
    /\ Settled
    /\ Len(talk) < MaxSteps
    /\ \E n \in 1..MaxBatch : \E calls \in [1..n -> Calls] :
          talk' = Append(talk, [asked |-> calls, told |-> <<>>])
    /\ UNCHANGED ending

NextCall == LET last == talk[Len(talk)] IN last.asked[Len(last.told) + 1]

Covered == NextCall \in DOMAIN recording

MayHear ==
    IF Covered THEN {recording[NextCall]}
    ELSE IF policy = "stub" THEN {Stub}
    ELSE IF policy = "live" THEN Values
    ELSE {}

Hear ==
    /\ Running
    /\ ~Settled
    /\ \E answer \in MayHear :
          talk' = [talk EXCEPT ![Len(talk)].told = Append(@, answer)]
    /\ UNCHANGED ending

(* The model answers, is cut off, asks for what cannot be answered, or the    *)
(* replay fails: with its model, or for want of a tool to call.               *)
MayEnd(how) ==
    \/ how = "answered" /\ Settled /\ Len(talk) < MaxSteps
    \/ how = "max_steps" /\ Settled /\ Len(talk) = MaxSteps
    \/ how = "unrecorded_tool_call" /\ ~Settled /\ ~Covered /\ policy = "stop"
    \/ how = "failed" /\ (Settled \/ (~Covered /\ policy = "live"))

End ==
    /\ Running
    /\ \E how \in {"answered", "max_steps", "unrecorded_tool_call", "failed"} :
          MayEnd(how) /\ ending' = how
    /\ UNCHANGED talk

Next == Ask \/ Hear \/ End

Spec == Init /\ [][Next]_vars
==============================================================================
