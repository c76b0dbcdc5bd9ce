----------------------------- MODULE MCCfgString -----------------------------
(* Instance of CfgString for TLC: two strings that fit a cfg[] of one byte,  *)
(* one that does not, and the empty one.  The paths are alike.               *)
EXTENDS CfgString, TLC

CONSTANTS d1, d2, c1, c2, i1, i2

Strings == {<<"a">>, <<"b">>, <<"a", "b">>}
OneIf   == c1 :> i1 @@ c2 :> i1
Paths   == Permutations({d1, d2})
=============================================================================
