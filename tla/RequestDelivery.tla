--------------------------- MODULE RequestDelivery ---------------------------
(***************************************************************************)
(* What the target promises the clients of the wire, with no threads,      *)
(* locks, reference counts or buffers in sight: a request that arrived on  *)
(* an interface is carried out by every device it is addressed to, as      *)
(* often as the list walk of processpacket queues it there, and each       *)
(* device carries out the requests of one interface in arrival order.      *)
(* The Dispatch module is shown to implement this one.                     *)
(***************************************************************************)
EXTENDS Naturals, Sequences

CONSTANTS Interfaces, Devices, Requests,
          Copies                  \* Copies[r][d]: how often d is to serve r, a Nat

VARIABLES accepted,               \* requests taken from the wire
          pending,                \* pending[i][d]: from i, not yet served by d
          served                  \* served[d]: requests carried out, in order

vars == <<accepted, pending, served>>

Init == /\ accepted = {}
        /\ pending = [i \in Interfaces |-> [d \in Devices |-> <<>>]]
        /\ served = [d \in Devices |-> <<>>]

\* A request arrives on interface i and becomes due at all its devices at once.
Accept(i, r) ==
  /\ r \notin accepted
  /\ accepted' = accepted \cup {r}
  /\ pending' = [pending EXCEPT ![i] =
                   [d \in Devices |-> @[d] \o [n \in 1..Copies[r][d] |-> r]]]
  /\ UNCHANGED served

\* Device d carries out the oldest request that is due from interface i.
Serve(i, d) ==
  /\ pending[i][d] # <<>>
  /\ served' = [served EXCEPT ![d] = Append(@, Head(pending[i][d]))]
  /\ pending' = [pending EXCEPT ![i][d] = Tail(@)]
  /\ UNCHANGED accepted

Next == \E i \in Interfaces : \/ \E r \in Requests : Accept(i, r)
                              \/ \E d \in Devices : Serve(i, d)

Fairness == \A i \in Interfaces, d \in Devices : WF_vars(Serve(i, d))

Safety == Init /\ [][Next]_vars
Spec == Safety /\ Fairness
=============================================================================
