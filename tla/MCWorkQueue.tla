----------------------------- MODULE MCWorkQueue -----------------------------
(* Instances of Dispatch for TLC with every kind of frame and failing calls: *)
(* which frames there are, whom they address.                                *)
EXTENDS Dispatch, TLC

CONSTANTS i1, i2, d1, d2, p1, p2, p3, p4, p5, a1, a2, bc

\* Two devices on addresses of their own; two frames for d1, one for everybody,
\* one that is a response sent to d1's address, one that is cut short.  One of the
\* two is a read that fails and leaves a buffer with d1's address in it.
MixAddr == p1 :> a1 @@ p2 :> bc @@ p3 :> a1 @@ p4 :> a1 @@ p5 :> a1
MixKind == p1 :> "request" @@ p2 :> "request" @@ p3 :> "response" @@ p4 :> "short"
             @@ p5 :> "failed"
MixDev  == d1 :> a1 @@ d2 :> a2
MixRows == d1 :> 2 @@ d2 :> 0
=============================================================================
