---------------------------- MODULE MCLiveReplay -----------------------------
(* Instances of LiveReplay for TLC: two calls, one of which holds personal    *)
(* data; the replayed model may ask for it raw, or by the token it is shown.  *)
EXTENDS LiveReplay

CONSTANTS c1, c2, c2Token, c2Twice, v1, v2

(* A token is redacted to itself.                                             *)
MCRedact ==
    [x \in Asked \cup Values \cup {Stub} |-> IF x = c2 THEN c2Token ELSE x]

(* redacted_twice: what the patterns make of a call with a telephone number   *)
(* whose hash has no letter, of its token, and of the token of that.          *)
Pii == INSTANCE Detectors

MCTextOf(call) ==
    CASE call = c1 -> <<"a">>
      [] call = c2 -> [i \in 1..10 |-> "1"]
      [] call = c2Token -> Pii!Token("PHONE_", TRUE)
      [] call = c2Twice -> <<"<", "PHONE_">> \o Pii!Token("PHONE_", FALSE) \o <<">">>

MCRedactText(text, decimal) ==
    FoldLeft(LAMBDA t, kind :
                Pii!Substitute(kind, t, IF decimal THEN Pii!Matches(kind, t) ELSE {}),
             text, Pii!DETECTORS)

MCByPattern ==
    [x \in Asked \cup Values \cup {Stub} |->
        IF x \in Asked
        THEN CHOOSE y \in Asked : MCTextOf(y) = MCRedactText(MCTextOf(x), x = c2)
        ELSE x]
==============================================================================
