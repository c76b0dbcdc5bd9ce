------------------------------ MODULE MCDispatch ------------------------------
(* Instances of Dispatch for TLC: which frames there are, whom they address. *)
EXTENDS Dispatch, TLC

CONSTANTS i1, i2, d1, d2, p1, p2, a1, a2, bc

Frames(f) == [p \in Packets |-> f[p]]

\* d1 was added over the API with no default section and kept 65535.255, the
\* broadcast address itself; both loops queue the first frame on it.
ApiDev  == d1 :> bc @@ d2 :> a1
ApiAddr == Frames(p1 :> bc @@ p2 :> a1)
ApiKind == Frames(p1 :> "request" @@ p2 :> "request")
NoRows  == d1 :> 0 @@ d2 :> 0
=============================================================================
