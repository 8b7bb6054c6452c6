---------------------------- MODULE MCStdioProxy -----------------------------
(* Instances of StdioProxy for TLC. The two directions share their ids, so    *)
(* that equal ids in opposite directions happen; ids are interchangeable.     *)
EXTENDS ProxiedTrace

CONSTANTS r1, r2

MCStr == [r \in RawIds |-> r]
MCIds == Permutations(RawIds)

Both(n) == [d \in Dir |-> n]
Uneven(c2s, s2c) == [d \in Dir |-> IF d = C2S THEN c2s ELSE s2c]

(* wire: everything may happen, two lines each way. The c2s writer may hold   *)
(* a line it does not suspend for, the s2c writer suspends for one.           *)
MCKinds == [d \in Dir |->
    IF d = C2S THEN {"request", "response", "bad_request", "oversized"}
               ELSE {"request", "response", "notification", "opaque"}]
MCSent == Both(2)
MCPipe == Both(1)
MCHigh == Uneven(1, 0)
MCLow == Both(0)

(* wire_live: no fault, the peers read; both writers suspend.                 *)
MCLiveKinds == Both({"request", "response"})
MCLiveHigh == Both(0)

(* return_truncates: the s2c writer holds a line it does not suspend for.     *)
MCTailHigh == Both(1)
==============================================================================
