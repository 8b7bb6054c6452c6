--------------------------- MODULE MCReplayEngine ----------------------------
(* Instances of ReplayEngine for TLC: two calls, one of which holds personal  *)
(* data and looks different once redacted.                                    *)
EXTENDS Adapters

CONSTANTS c1, c2, c2Token, v1, v2, v2Token

MCRedact ==
    [x \in Calls \cup Values \cup {Stub} |->
        IF x = c2 THEN c2Token ELSE IF x = v2 THEN v2Token ELSE x]

(* Nothing recorded, the first call only, both calls.                         *)
MCRecordings == {<<>>, c1 :> v1, c1 :> v1 @@ c2 :> v2}
==============================================================================
