----------------------------- MODULE MCAccessList -----------------------------
(* Instances of AccessList for TLC.  "mixed" has one address twice and an   *)
(* accept in its last row before a reject policy, "deny" has no row.         *)
EXTENDS AccessList, TLC

CONSTANTS d1, d2

Says(key, value) == [key |-> key, value |-> value]

Blocks == [mixed |-> <<Says("accept", "m1"), Says("policy", "reject"),
                       Says("reject", "m1"), Says("accept", "m2")>>,
           deny  |-> <<Says("policy", "reject"), Says("log", "default")>>]

TwoFields == <<"wacl", "racl">>
=============================================================================
