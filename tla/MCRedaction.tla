----------------------------- MODULE MCRedaction ------------------------------
(* Instances of Redaction for TLC.                                            *)
EXTENDS Redaction

Number(n) == [i \in 1..n |-> "1"]

Phone == <<"+", "1", " ">> \o Number(3) \o <<"-">> \o Number(3) \o <<"-">> \o Number(4)

Address == <<"a", "@", "a", ".", "a">>

MCPieces == {<<"a">>, <<",">>, <<" ">>, <<"-">>, <<"+">>, Number(4), Number(8),
             Date, Phone, Card, Address}
==============================================================================
