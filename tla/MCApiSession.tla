----------------------------- MODULE MCApiSession -----------------------------
(* Instances of ApiSession for TLC: what users ask for.  An mtu   *)
(* of 20 is less than a header, one of 10000 more than the interface has.     *)
(* The three lists are served alike, and one of them is asked for.            *)
EXTENDS ApiSession, TLC

CONSTANTS q, o

Auto == -1
Asked == {Request("SETMTU", m) : m \in {Auto, 20, 10000, Unknown}}
           \cup {Request(k, n) : k \in {"TARGET_ADD", "TARGET_DEL"}, n \in Slots}
           \cup {Request(k, None) : k \in {"TARGET_LIST"} \cup NoHandler}
=============================================================================
