----------------------------- MODULE MCDeviceList -----------------------------
(* Instances of DeviceList for TLC. *)
EXTENDS DeviceList, TLC

CONSTANTS l1, l2, s1, s2, s3, s4, i1, i2, f1, f2

Dev(n, f, i) == [slot |-> n, file |-> f, ifc |-> i]

\* Slot 0 served on two interfaces from one file; slots 1 and 2 (Unset) free.
TwoPaths == <<s1, s2>>
TwoPathsAttr == s1 :> Dev(0, f1, i1) @@ s2 :> Dev(0, f1, i2)
          @@ s3 :> Dev(0, f1, i1) @@ s4 :> Dev(0, f1, i1)

Adds == {Dev(n, f, i) : n \in {0, 2}, f \in {f1, f2}, i \in {i1, None}}
Dels == {[slot |-> n, ifc |-> i] : n \in {0, 1}, i \in {i2, None}}
FewAdds == {Dev(1, f2, i1), Dev(2, f2, i2)}
=============================================================================
