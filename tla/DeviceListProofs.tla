--------------------------- MODULE DeviceListProofs ---------------------------
(***************************************************************************)
(* Theorems of module DeviceList: the links always form one list, linked   *)
(* both ways, of devices that run; a walk meets all of it, once and in     *)
(* order, whatever is added and deleted; no two targets clash.             *)
(*                                                                         *)
(* The list is read off the links by the recursive function From.  What    *)
(* From computes is shown by a least counterexample, twice: there is a     *)
(* function that satisfies its definition, and it finds the list that the  *)
(* links describe.                                                         *)
(***************************************************************************)
EXTENDS DeviceList, FiniteSetTheorems, SequenceTheorems, WellFoundedInduction, TLAPS

-----------------------------------------------------------------------------
(* Natural numbers.                                                          *)

Smaller == {ss \in Nat \X Nat : ss[1] < ss[2]}

LEMMA SmallerWF == IsWellFoundedOn(Smaller, Nat)
<1>1. Smaller = OpToRel(<, Nat)
  BY DEF Smaller, OpToRel
<1> QED BY <1>1, NatLessThanWellFounded

\* Every set of numbers that has a member has a least one.
LEMMA Least ==
  ASSUME NEW T, T \subseteq Nat, T # {}
  PROVE  \E x \in T : \A y \in T : x <= y
<1>1. PICK x \in T : \A y \in T : <<y, x>> \notin Smaller
  BY SmallerWF, WFMin
<1>2. ASSUME NEW y \in T PROVE x <= y
  <2>1. x \in Nat /\ y \in Nat /\ <<y, x>> \notin Smaller
    BY <1>1
  <2>2. y < x => <<y, x>> \in Smaller
    BY <2>1 DEF Smaller
  <2> QED BY <2>1, <2>2
<1> QED BY <1>2

-----------------------------------------------------------------------------
(* What From computes.                                                       *)

Size == Cardinality(Structs)

LEMMA SizeNat == Size \in Nat
  BY ListAssumption, FS_CardinalityType DEF Size

\* g is From as far as n.
Unfolds(g, n) ==
  g = [m \in 0..n |->
        [s \in Structs \cup {None} |->
           IF s = None \/ m = 0 THEN <<>> ELSE <<s>> \o g[m - 1][next[s]]]]

LEMMA Unfolded == \A n \in Nat : \E g : Unfolds(g, n)
<1> DEFINE T == {n \in Nat : ~ \E g : Unfolds(g, n)}
<1> SUFFICES ASSUME T # {} PROVE FALSE
  OBVIOUS
<1>1. PICK n \in T : \A m \in T : n <= m
  BY Least
<1>2. n \in Nat /\ ~ \E g : Unfolds(g, n)
  OBVIOUS
<1>3. CASE n = 0
  <2> DEFINE g == [m \in 0..0 |-> [s \in Structs \cup {None} |-> <<>>]]
  <2>1. Unfolds(g, 0)
    BY DEF Unfolds
  <2> QED BY <1>2, <1>3, <2>1
<1>4. CASE n # 0
  <2>1. n - 1 \in Nat /\ n - 1 \notin T
    BY <1>1, <1>2, <1>4
  <2>2. PICK g : Unfolds(g, n - 1)
    BY <2>1
  <2> DEFINE Row(f, m) == [s \in Structs \cup {None} |->
                  IF s = None \/ m = 0 THEN <<>> ELSE <<s>> \o f[m - 1][next[s]]]
             h == [m \in 0..n |-> IF m = n THEN Row(g, n) ELSE g[m]]
  <2>3. g = [m \in 0..(n - 1) |-> Row(g, m)]
    BY <2>2 DEF Unfolds
  <2>4. ASSUME NEW m \in 0..n PROVE h[m] = Row(h, m)
    <3>1. h[m] = Row(g, m)
      <4> HIDE DEF Row
      <4>1. m # n => m \in 0..(n - 1)
        BY <1>2
      <4> QED BY <2>3, <4>1
    <3>2. m # 0 => m - 1 \in 0..n /\ m - 1 # n
      BY <1>2
    <3>3. m # 0 => h[m - 1] = g[m - 1]
      BY <3>2
    <3>4. Row(g, m) = Row(h, m)
      <4> HIDE DEF h
      <4> QED BY <3>3
    <3> QED BY <3>1, <3>4
  <2>5. h = [m \in 0..n |-> Row(h, m)]
    <3> HIDE DEF Row
    <3>1. h = [m \in 0..n |-> h[m]]
      OBVIOUS
    <3> HIDE DEF h
    <3> QED BY <2>4, <3>1
  <2>6. Unfolds(h, n)
    BY <2>5 DEF Unfolds
  <2> QED BY <1>2, <2>6
<1> QED BY <1>3, <1>4

LEMMA FromIs ==
  \A n \in 0..Size, s \in Structs \cup {None} :
    From[n][s] = IF s = None \/ n = 0 THEN <<>> ELSE <<s>> \o From[n - 1][next[s]]
<1>1. \E g : Unfolds(g, Size)
  BY Unfolded, SizeNat
<1>2. Unfolds(From, Size)
  <2>1. From = CHOOSE g : Unfolds(g, Size)
    BY DEF From, Unfolds, Size
  <2> QED BY <1>1, <2>1
<1> TAKE n \in 0..Size, s \in Structs \cup {None}
<1>3. From[n] = [t \in Structs \cup {None} |->
                  IF t = None \/ n = 0 THEN <<>> ELSE <<t>> \o From[n - 1][next[t]]]
  BY <1>2 DEF Unfolds
<1> QED BY <1>3

\* From finds what the links describe, if it is not too long.
LEMMA FromFollows ==
  \A n \in 0..Size : \A L \in Seq(Structs), s \in Structs \cup {None} :
    Follows(L, s) /\ Len(L) <= n => From[n][s] = L
<1> DEFINE Found(n) == \A L \in Seq(Structs), s \in Structs \cup {None} :
                         Follows(L, s) /\ Len(L) <= n => From[n][s] = L
           T == {n \in 0..Size : ~Found(n)}
<1> SUFFICES ASSUME T # {} PROVE FALSE
  OBVIOUS
<1>1. PICK n \in T : \A m \in T : n <= m
  <2>1. T \subseteq Nat
    BY SizeNat
  <2> HIDE DEF T
  <2> QED BY <2>1, Least
<1>2. n \in 0..Size /\ n \in Nat /\ ~Found(n)
  BY SizeNat
<1>3. PICK L \in Seq(Structs), s \in Structs \cup {None} :
             Follows(L, s) /\ Len(L) <= n /\ From[n][s] # L
  BY <1>2
<1>4. n # 0 => n - 1 \in 0..Size /\ Found(n - 1)
  <2> HIDE DEF Found
  <2>1. n # 0 => n - 1 \in 0..Size /\ n - 1 \notin T
    BY <1>1, <1>2, SizeNat
  <2> QED BY <2>1
<1> HIDE DEF T
<1>5. CASE L = <<>>
  <2>1. s = None
    BY <1>3, <1>5 DEF Follows
  <2> QED BY <1>2, <1>3, <1>5, <2>1, FromIs
<1>6. CASE L # <<>>
  <2>1. Len(L) \in Nat \ {0} /\ L[1] \in Structs /\ s = L[1]
    BY <1>3, <1>6, EmptySeq, ElementOfSeq DEF Follows
  <2>2. n # 0 /\ s # None
    BY <1>2, <1>3, <2>1, ListAssumption
  <2> DEFINE R == Tail(L)
  <2>3. /\ R \in Seq(Structs) /\ Len(R) = Len(L) - 1 /\ Len(R) \in Nat
        /\ \A i \in 1..Len(R) : R[i] = L[i + 1]
    BY <1>6, <2>1, HeadTailProperties
  <2> HIDE DEF R
  <2>4. R = <<>> <=> Len(L) = 1
    BY <2>1, <2>3, EmptySeq
  <2>5. next[s] = IF R = <<>> THEN None ELSE R[1]
    <3>1. next[s] = IF 1 = Len(L) THEN None ELSE L[2]
      <4>1. 1 \in 1..Len(L) /\ 1 + 1 = 2
        BY <2>1
      <4>2. next[L[1]] = IF 1 = Len(L) THEN None ELSE L[1 + 1]
        BY <1>3, <4>1 DEF Follows
      <4> QED BY <2>1, <4>1, <4>2
    <3>2. Len(L) # 1 => 1 \in 1..Len(R) /\ R[1] = L[1 + 1]
      BY <2>1, <2>3
    <3> QED BY <2>1, <2>4, <3>1, <3>2
  <2>6. \A i \in 1..Len(R) : next[R[i]] = IF i = Len(R) THEN None ELSE R[i + 1]
    <3> SUFFICES ASSUME NEW i \in 1..Len(R)
                 PROVE  next[R[i]] = IF i = Len(R) THEN None ELSE R[i + 1]
      OBVIOUS
    <3>1. i + 1 \in 1..Len(L) /\ R[i] = L[i + 1]
      BY <2>1, <2>3
    <3>2. next[L[i + 1]] = IF i + 1 = Len(L) THEN None ELSE L[i + 1 + 1]
      BY <1>3, <3>1 DEF Follows
    <3>3. i # Len(R) => i + 1 \in 1..Len(R) /\ R[i + 1] = L[i + 1 + 1]
      BY <2>1, <2>3
    <3> QED BY <2>1, <2>3, <3>1, <3>2, <3>3
  <2>7. Follows(R, next[s])
    BY <2>5, <2>6 DEF Follows
  <2>8. next[s] \in Structs \cup {None}
    BY <2>3, <2>5, EmptySeq, ElementOfSeq
  <2>9. From[n - 1][next[s]] = R
    BY <1>2, <1>3, <1>4, <2>1, <2>2, <2>3, <2>7, <2>8
  <2>10. From[n][s] = <<s>> \o R
    BY <1>2, <2>2, <2>9, FromIs
  <2>11. <<s>> \o R = L
    <3>1. <<s>> \in Seq(Structs) /\ Len(<<s>>) = 1 /\ <<s>>[1] = s
      BY <2>1
    <3>2. /\ <<s>> \o R \in Seq(Structs) /\ Len(<<s>> \o R) = Len(L)
          /\ \A i \in 1..Len(L) : (<<s>> \o R)[i] = IF i <= 1 THEN <<s>>[i] ELSE R[i - 1]
      BY <2>1, <2>3, <3>1, ConcatProperties
    <3>3. \A i \in 1..Len(L) : (<<s>> \o R)[i] = L[i]
      <4> TAKE i \in 1..Len(L)
      <4>1. CASE i = 1
        BY <2>1, <3>1, <3>2, <4>1
      <4>2. CASE i # 1
        <5>1. i - 1 \in 1..Len(R) /\ R[i - 1] = L[i - 1 + 1] /\ ~(i <= 1) /\ i - 1 + 1 = i
          BY <2>1, <2>3, <4>2
        <5> QED BY <3>2, <5>1
      <4> QED BY <4>1, <4>2
    <3> QED BY <3>2, <3>3, SeqEqual
  <2> QED BY <1>3, <2>10, <2>11
<1> QED BY <1>5, <1>6

\* A list that meets no device twice is not too long.
LEMMA InjectiveIsShort ==
  ASSUME NEW L \in Seq(Structs), IsInjective(L)
  PROVE  Len(L) <= Size
<1>1. L \in Injection(1..Len(L), Structs)
  BY LenProperties DEF Injection
<1>2. Cardinality(1..Len(L)) <= Size
  BY <1>1, ListAssumption, FS_Injection DEF Size
<1>3. Len(L) \in Nat /\ Cardinality(1..Len(L)) = Len(L)
  BY LenProperties, FS_Interval, SizeNat
<1> QED BY <1>2, <1>3

LEMMA OnwardIs ==
  \A M \in Seq(Structs) : \A s : Follows(M, s) /\ Len(M) <= Size => Onward(s) = M
<1> SUFFICES ASSUME NEW M \in Seq(Structs), NEW s, Follows(M, s), Len(M) <= Size
             PROVE  Onward(s) = M
  OBVIOUS
<1>1. s \in Structs \cup {None}
  BY EmptySeq, ElementOfSeq DEF Follows
<1> QED BY <1>1, SizeNat, FromFollows DEF Onward, Size

LEMMA ChainIs == \A L : IsList(L) => Chain = L
  BY OnwardIs, InjectiveIsShort DEF IsList, Chain

LEMMA NextChainIs == \A L : IsList(L)' => Chain' = L
<1>1. (\A L : IsList(L) => Chain = L)'
  BY ChainIs, PTL
<1> QED BY <1>1

\* A list after a step is the list after the step.
LEMMA ListNext ==
  ASSUME NEW L, IsList(L)'
  PROVE  IsList(Chain)' /\ Chain' = L /\ Listed' = ToSet(L)
<1>1. Chain' = L
  BY NextChainIs
<1>2. IsList(Chain)'
  BY <1>1 DEF IsList, Follows
<1>3. Listed' = ToSet(L)
  BY <1>1 DEF Listed
<1> QED BY <1>1, <1>2, <1>3

\* The devices of the list, by their places in it.
LEMMA Places ==
  ASSUME IInv
  PROVE  /\ Chain \in Seq(Structs) /\ Len(Chain) \in Nat
         /\ \A n \in 1..Len(Chain) : Chain[n] \in Structs /\ Chain[n] \in Listed
         /\ \A s \in Listed : s \in Structs /\ \E n \in 1..Len(Chain) : s = Chain[n]
<1>1. Chain \in Seq(Structs)
  BY DEF IInv, IsList
<1>2. Len(Chain) \in Nat /\ DOMAIN Chain = 1..Len(Chain)
  BY <1>1, LenProperties
<1> QED BY <1>1, <1>2, ElementOfSeq DEF Listed, ToSet

-----------------------------------------------------------------------------
(* Steps that leave the list as it is.                                       *)

\* Nothing is written to a device of the list.
Quiet ==
  /\ head' = head
  /\ \A s \in Listed : /\ next'[s] = next[s] /\ prev'[s] = prev[s]
                       /\ attr'[s] = attr[s] /\ s \in started'

LEMMA SameList ==
  ASSUME IInv, Quiet
  PROVE  IsList(Chain)' /\ Chain' = Chain /\ Listed' = Listed /\ UniqueTargets'
<1>1. PICK L : L = Chain
  OBVIOUS
<1>2. /\ L \in Seq(Structs) /\ IsInjective(L) /\ Follows(L, head)
      /\ \A n \in 1..Len(L) : /\ prev[L[n]] = IF n = 1 THEN None ELSE L[n - 1]
                              /\ attr[L[n]] # None /\ L[n] \in started
  BY <1>1 DEF IInv, IsList
<1>3. \A n \in 1..Len(L) : L[n] \in Listed
  BY <1>1, Places
<1>4. Follows(L, head)'
  BY <1>2, <1>3 DEF Follows, Quiet
<1>5. IsList(L)'
  BY <1>2, <1>3, <1>4 DEF IsList, Quiet
<1>6. IsList(Chain)' /\ Chain' = Chain /\ Listed' = Listed
  BY <1>1, <1>5, ListNext DEF Listed
<1>7. UniqueTargets'
  BY <1>6 DEF IInv, UniqueTargets, Clashes, Quiet
<1> QED BY <1>6, <1>7

LEMMA SameWalk ==
  ASSUME IInv, Quiet, NEW l \in Listeners,
         at'[l] = at[l], pc'[l] = pc[l], seen'[l] = seen[l]
  PROVE  Walked(l)'
<1> SUFFICES ASSUME pc[l] = "walk"
             PROVE  \E M \in Seq(Structs) : Follows(M, at[l])' /\ seen'[l] \o M = Chain'
  BY DEF Walked, Follows
<1>1. PICK M \in Seq(Structs) : Follows(M, at[l]) /\ seen[l] \o M = Chain
  BY DEF IInv, Walked
<1>2. \A n \in 1..Len(M) : M[n] \in Listed
  <2>1. seen[l] \in Seq(Structs)
    BY DEF IInv, TypeOK
  <2>2. TAKE n \in 1..Len(M)
  <2>3. Len(seen[l]) \in Nat /\ Len(M) \in Nat
    BY <2>1, <1>1, LenProperties
  <2>4. /\ Len(Chain) = Len(seen[l]) + Len(M)
        /\ \A i \in 1..(Len(seen[l]) + Len(M)) :
             Chain[i] = IF i <= Len(seen[l]) THEN seen[l][i] ELSE M[i - Len(seen[l])]
    BY <1>1, <2>1, ConcatProperties
  <2>5. /\ Len(seen[l]) + n \in 1..Len(Chain)
        /\ ~(Len(seen[l]) + n <= Len(seen[l])) /\ Len(seen[l]) + n - Len(seen[l]) = n
    BY <2>3, <2>4
  <2>6. Chain[Len(seen[l]) + n] = M[n]
    BY <2>4, <2>5
  <2> QED BY <2>5, <2>6, Places
<1>3. Follows(M, at[l])'
  BY <1>1, <1>2 DEF Follows, Quiet
<1> QED BY <1>1, <1>3, SameList

-----------------------------------------------------------------------------
(* Types.                                                                    *)

LEMMA DefaultedType ==
  ASSUME TypeOK, NEW r \in AddRequests
  PROVE  Defaulted(r) \in Devices
<1>1. r \in Devices
  BY ListAssumption
<1>2. /\ r.slot \in Slots /\ r.file \in Files /\ r.ifc \in Ifs \cup {None}
      /\ slot \in Slots /\ DefaultIfc \in Ifs \cup {None}
  BY <1>1, ListAssumption DEF Devices, TypeOK
<1> QED BY <1>2 DEF Defaulted, Devices

LEMMA MatchedListed == \A r : Matched(r) \subseteq Listed
  BY DEF Matched

LEMMA Types ==
  ASSUME IInv, [Next]_vars
  PROVE  TypeOK'
<1>1. TypeOK
  BY DEF IInv
<1>2. ASSUME NEW r \in AddRequests, NEW s \in Structs, Add(r, s) PROVE TypeOK'
  <2>1. Defaulted(r) \in Devices /\ NextSlot \in Slots
    BY <1>1, DefaultedType, ListAssumption DEF NextSlot, TypeOK, Slots
  <2> QED BY <1>1, <1>2, <2>1 DEF Add, TypeOK, lock, walks
<1>3. ASSUME NEW r \in DelRequests, Del(r) PROVE TypeOK'
  BY <1>1, <1>3 DEF Del, TypeOK, list, lock, walks
<1>4. CASE Status
  BY <1>1, <1>4, ListAssumption DEF Status, TypeOK, list, walks
<1>5. CASE AddCheck
  BY <1>1, <1>5 DEF AddCheck, TypeOK, list, lock, walks
<1>6. CASE Start
  <2>1. new \in Structs /\ attr[new] \in Devices
    BY <1>1, <1>6 DEF Start, IInv, Adding, TypeOK
  <2>2. attr[new].ifc \in Ifs \cup {None}
    BY <2>1 DEF Devices
  <2>3. CASE attr[new].ifc = None
    BY <1>1, <1>6, <2>3 DEF Start, TypeOK, list, lock, walks
  <2>4. CASE attr[new].ifc # None
    <3>1. [refcnt EXCEPT ![attr[new].ifc] = @ + 1] \in [Ifs -> Nat]
      <4>1. refcnt \in [Ifs -> Nat] /\ refcnt[attr[new].ifc] + 1 \in Nat
        BY <1>1, <2>2, <2>4 DEF TypeOK
      <4> QED BY <4>1
    <3>2. started \cup {new} \in SUBSET Structs
      BY <1>1, <2>1 DEF TypeOK
    <3> QED BY <1>1, <1>6, <2>4, <3>1, <3>2 DEF Start, TypeOK, list, lock, walks
  <2> QED BY <2>3, <2>4
<1>7. CASE StartFails
  BY <1>1, <1>7 DEF StartFails, TypeOK, list, lock, walks
<1>8. CASE WriteLock
  BY <1>1, <1>8 DEF WriteLock, Waiting, TypeOK, list, walks
<1>9. CASE Link
  <2>1. new \in Structs
    BY <1>9 DEF Link, IInv, Adding
  <2>2. head # None => Last(Chain) \in Structs
    <3>1. head # None => Chain # <<>>
      BY DEF IInv, IsList, Follows
    <3>2. Chain # <<>> => Len(Chain) \in 1..Len(Chain)
      BY Places, EmptySeq
    <3> QED BY <3>1, <3>2, Places DEF Last
  <2>3. /\ head' \in Structs \cup {None} /\ next' \in [Structs -> Structs \cup {None}]
        /\ prev' \in [Structs -> Structs \cup {None}]
    BY <1>1, <1>9, <2>1, <2>2 DEF Link, TypeOK
  <2> QED BY <1>1, <1>9, <2>3 DEF Link, TypeOK, walks
<1>10. CASE DelRefused
  BY <1>1, <1>10 DEF DelRefused, TypeOK, list, walks
<1>11. CASE Unlink
  <2>1. PICK s \in Matched(req) :
       /\ head' = IF prev[s] = None THEN next[s] ELSE head
       /\ next' = IF prev[s] = None THEN next ELSE [next EXCEPT ![prev[s]] = next[s]]
       /\ prev' = IF next[s] = None THEN prev ELSE [prev EXCEPT ![next[s]] = prev[s]]
    BY <1>11 DEF Unlink
  <2>2. s \in Structs
    BY MatchedListed, Places
  <2>3. /\ head' \in Structs \cup {None} /\ next' \in [Structs -> Structs \cup {None}]
        /\ prev' \in [Structs -> Structs \cup {None}]
    BY <1>1, <2>1, <2>2 DEF TypeOK
  <2> QED BY <1>1, <1>11, <2>3 DEF Unlink, TypeOK, walks
<1>12. CASE DelCrashes
  BY <1>1, <1>12 DEF DelCrashes, TypeOK, list, lock, walks
<1>13. ASSUME NEW l \in Listeners, Frame(l) PROVE TypeOK'
  BY <1>1, <1>13 DEF Frame, TypeOK, list, lock
<1>14. ASSUME NEW l \in Listeners, StartWalk(l) PROVE TypeOK'
  BY <1>1, <1>14 DEF StartWalk, TypeOK, list, lock
<1>15. ASSUME NEW l \in Listeners, Visit(l) PROVE TypeOK'
  <2>1. at[l] \in Structs /\ Append(seen[l], at[l]) \in Seq(Structs) /\ next[at[l]] \in Structs \cup {None}
    BY <1>1, <1>15 DEF Visit, TypeOK
  <2> QED BY <1>1, <1>15, <2>1 DEF Visit, TypeOK, list, lock
<1>16. ASSUME NEW l \in Listeners, EndWalk(l) PROVE TypeOK'
  BY <1>1, <1>16 DEF EndWalk, TypeOK, list, lock
<1>17. CASE UNCHANGED vars
  BY <1>1, <1>17 DEF vars, TypeOK, list, lock, walks
<1> QED
  BY <1>2, <1>3, <1>4, <1>5, <1>6, <1>7, <1>8, <1>9, <1>10, <1>11, <1>12, <1>13,
     <1>14, <1>15, <1>16, <1>17
  DEF Next, Request, Serve, Walk

-----------------------------------------------------------------------------
(* The initial state.                                                        *)

LEMMA InitHolds == Init => IInv
<1> SUFFICES ASSUME Init PROVE IInv
  OBVIOUS
<1> DEFINE L == Len(InitList)
           In == ToSet(InitList)
           IndexIn(s) == CHOOSE n \in 1..L : InitList[n] = s
<1>1. /\ InitList \in Seq(Structs) /\ L \in Nat
      /\ \A n \in 1..L : InitList[n] \in Structs /\ InitList[n] \in In
      /\ In \subseteq Structs /\ IsInjective(InitList)
      /\ \A s \in In : \E n \in 1..L : InitList[n] = s
      /\ (InitList = <<>> <=> L = 0)
  <2>1. DOMAIN InitList = 1..L /\ InitList \in Seq(Structs) /\ L \in Nat
    BY ListAssumption, LenProperties
  <2>2. \A n \in 1..L : InitList[n] \in Structs
    BY ListAssumption, ElementOfSeq
  <2> QED BY <2>1, <2>2, ListAssumption, EmptySeq DEF ToSet
<1>2. \A n \in 1..L : IndexIn(InitList[n]) = n
  <2> TAKE n \in 1..L
  <2>1. IndexIn(InitList[n]) \in 1..L /\ InitList[IndexIn(InitList[n])] = InitList[n]
    OBVIOUS
  <2>2. DOMAIN InitList = 1..L
    BY <1>1, LenProperties
  <2> QED BY <1>1, <2>1, <2>2 DEF IsInjective
<1>3. \A s \in In : IndexIn(s) \in 1..L
  BY <1>1
<1>4. /\ head = IF L = 0 THEN None ELSE InitList[1]
      /\ next = [s \in Structs |-> IF s \in In /\ IndexIn(s) < L
                                     THEN InitList[IndexIn(s) + 1] ELSE None]
      /\ prev = [s \in Structs |-> IF s \in In /\ IndexIn(s) > 1
                                     THEN InitList[IndexIn(s) - 1] ELSE None]
      /\ attr = [s \in Structs |-> IF s \in In THEN InitAttr[s] ELSE None]
      /\ started = In
      /\ refcnt = [i \in Ifs |-> Cardinality({s \in In : InitAttr[s].ifc = i})]
      /\ slot = FirstSlot /\ holds = 0 /\ writer = FALSE /\ writerPref \in BOOLEAN
      /\ api = "recv" /\ req = None /\ new = None
      /\ at = [l \in Listeners |-> None] /\ pc = [l \in Listeners |-> "read"]
      /\ seen = [l \in Listeners |-> <<>>]
  BY DEF Init
<1> HIDE DEF L, In, IndexIn
<1>5. TypeOK
  <2>1. head \in Structs \cup {None}
    BY <1>1, <1>4
  <2>2. next \in [Structs -> Structs \cup {None}]
    <3>1. \A s \in In : IndexIn(s) < L => InitList[IndexIn(s) + 1] \in Structs
      BY <1>1, <1>3
    <3> QED BY <1>4, <3>1
  <2>3. prev \in [Structs -> Structs \cup {None}]
    <3>1. \A s \in In : IndexIn(s) > 1 => InitList[IndexIn(s) - 1] \in Structs
      BY <1>1, <1>3
    <3> QED BY <1>4, <3>1
  <2>4. attr \in [Structs -> Devices \cup {None}]
    BY <1>4, InitAssumption DEF In
  <2>5. refcnt \in [Ifs -> Nat]
    <3>1. ASSUME NEW i \in Ifs PROVE Cardinality({s \in In : InitAttr[s].ifc = i}) \in Nat
      <4>1. IsFiniteSet({s \in In : InitAttr[s].ifc = i})
        BY <1>1, ListAssumption, FS_Subset
      <4> QED BY <4>1, FS_CardinalityType
    <3> QED BY <1>4, <3>1
  <2>6. seen \in [Listeners -> Seq(Structs)]
    BY <1>4, EmptySeq
  <2>7. slot \in Slots /\ 0 \in 0..MaxStatus
    BY <1>4, ListAssumption
  <2> QED BY <1>1, <1>4, <2>1, <2>2, <2>3, <2>4, <2>5, <2>6, <2>7 DEF TypeOK
<1>6. IsList(InitList)
  <2>1. ASSUME NEW n \in 1..L
        PROVE  /\ next[InitList[n]] = IF n = L THEN None ELSE InitList[n + 1]
               /\ prev[InitList[n]] = IF n = 1 THEN None ELSE InitList[n - 1]
               /\ attr[InitList[n]] # None /\ InitList[n] \in started
    <3>1. InitList[n] \in Structs /\ InitList[n] \in In /\ IndexIn(InitList[n]) = n
      BY <1>1, <1>2
    <3>2. (n < L <=> n # L) /\ (n > 1 <=> n # 1)
      BY <1>1
    <3>3. attr[InitList[n]] = InitAttr[InitList[n]]
      BY <1>4, <3>1
    <3>4. attr[InitList[n]] # None
      BY <3>1, <3>3, InitAssumption, ListAssumption DEF In
    <3> QED BY <1>4, <3>1, <3>2, <3>4
  <2>2. head = IF InitList = <<>> THEN None ELSE InitList[1]
    BY <1>1, <1>4
  <2>3. Follows(InitList, head)
    BY <2>1, <2>2 DEF Follows, L
  <2> QED BY <1>1, <2>1, <2>3 DEF IsList, L
<1>7. Chain = InitList /\ Listed = In
  BY <1>6, ChainIs DEF Listed, In
<1>8. UniqueTargets
  <2>1. \A s \in In : attr[s] = InitAttr[s]
    BY <1>1, <1>4
  <2> QED BY <1>7, <2>1, InitAssumption DEF UniqueTargets, Clashes, In
<1>9. Adding /\ Locked /\ \A l \in Listeners : Walked(l)
  BY <1>4 DEF Adding, Locked, Walked
<1> QED BY <1>5, <1>6, <1>7, <1>8, <1>9 DEF IInv

-----------------------------------------------------------------------------
(* The steps.                                                                *)

\* A step that touches neither the list nor a walk.
LEMMA QuietStep ==
  ASSUME IInv, [Next]_vars, Quiet, UNCHANGED walks, Adding', Locked'
  PROVE  IInv'
<1>1. TypeOK'
  BY Types
<1>2. ASSUME NEW l \in Listeners PROVE Walked(l)'
  BY SameWalk DEF walks
<1>3. IsList(Chain)' /\ UniqueTargets'
  BY SameList
<1> QED BY <1>1, <1>2, <1>3 DEF IInv

LEMMA AddKeeps ==
  ASSUME IInv, NEW r \in AddRequests, NEW s \in Structs, Add(r, s)
  PROVE  IInv'
<1>1. TypeOK /\ Defaulted(r) \in Devices /\ [Next]_vars
  BY DefaultedType DEF IInv, Next, Request
<1>2. s \notin Listed
  BY Places DEF Add, IInv, IsList
<1>3. \A t \in Listed : t \in Structs /\ t \in started
  BY Places DEF IInv, IsList
<1>4. /\ head' = head /\ started' = started /\ api' = "addcheck" /\ new' = s
      /\ next' = [next EXCEPT ![s] = None] /\ prev' = [prev EXCEPT ![s] = None]
      /\ attr' = [attr EXCEPT ![s] = Defaulted(r)]
      /\ api = "recv" /\ writer' = writer /\ UNCHANGED walks
  BY DEF Add, lock
<1>5. Quiet
  BY <1>1, <1>2, <1>3, <1>4 DEF Quiet, TypeOK
<1>6. Adding'
  <2>1. next'[s] = None /\ prev'[s] = None /\ attr'[s] = Defaulted(r)
    BY <1>1, <1>4 DEF TypeOK
  <2>2. s \notin Listed'
    BY <1>2, <1>5, SameList
  <2> QED BY <1>1, <1>4, <2>1, <2>2, ListAssumption DEF Adding
<1>7. Locked'
  BY <1>4 DEF IInv, Locked, Walkers, walks
<1> QED BY <1>1, <1>4, <1>5, <1>6, <1>7, QuietStep

LEMMA AddCheckKeeps ==
  ASSUME IInv, AddCheck
  PROVE  IInv'
<1>1. [Next]_vars /\ api = "addcheck" /\ writer' = writer /\ UNCHANGED <<list, started, walks>>
  BY DEF Next, Serve, AddCheck, lock
<1>2. /\ new \in Structs /\ attr[new] # None /\ new \notin Listed
      /\ next[new] = None /\ prev[new] = None
  BY <1>1 DEF IInv, Adding
<1>3. \A t \in Listed : t \in Structs /\ t \in started
  BY Places DEF IInv, IsList
<1>4. Quiet
  BY <1>1, <1>2, <1>3 DEF AddCheck, Quiet, list, IInv, TypeOK
<1>5. Adding'
  <2>1. CASE Duplicate(new)
    BY <2>1 DEF AddCheck, Adding
  <2>2. CASE ~Duplicate(new)
    <3>1. api' = "start" /\ attr' = attr /\ new' = new
      BY <2>2 DEF AddCheck
    <3>2. Listed' = Listed
      BY <1>4, SameList
    <3>3. ~Duplicate(new)'
      BY <2>2, <3>1, <3>2 DEF Duplicate, Clashes
    <3> QED BY <1>1, <1>2, <3>1, <3>2, <3>3 DEF Adding, list
  <2> QED BY <2>1, <2>2
<1>6. Locked'
  BY <1>1 DEF AddCheck, IInv, Locked, Walkers, walks
<1> QED BY <1>1, <1>4, <1>5, <1>6, QuietStep

\* The steps of the API thread that leave every device as it is.
LEMMA ApiKeeps ==
  ASSUME IInv,
         \/ \E r \in DelRequests : Del(r)
         \/ Status \/ Start \/ StartFails \/ WriteLock \/ DelRefused \/ DelCrashes
  PROVE  IInv'
<1>1. [Next]_vars /\ UNCHANGED <<list, attr, walks>> /\ started \subseteq started'
  BY DEF Next, Request, Serve, Del, Status, Start, StartFails, WriteLock, DelRefused, DelCrashes
<1>2. \A t \in Listed : t \in started
  BY Places DEF IInv, IsList
<1>3. Quiet
  BY <1>1, <1>2 DEF Quiet, list
<1>4. Listed' = Listed
  BY <1>3, SameList
<1>5. Adding'
  <2>1. \A s : Duplicate(s)' = Duplicate(s)
    BY <1>1, <1>4 DEF Duplicate, Clashes
  <2>2. \/ /\ new' = new /\ api' = api
        \/ /\ api = "start" /\ api' = "addlock" /\ new' = new
           /\ attr[new].ifc # None /\ new \in started'
        \/ /\ api = "addlock" /\ api' = "link" /\ new' = new
        \/ api' \in {"dead", "recv", "dellock", "unlink"}
    BY DEF Del, Status, Start, StartFails, WriteLock, Waiting, DelRefused, DelCrashes, lock
  <2> QED BY <1>1, <1>4, <2>1, <2>2 DEF IInv, Adding, list
<1>6. Locked'
  BY <1>1 DEF IInv, Locked, Walkers, walks, lock, Del, Status, Start, StartFails, WriteLock,
              Waiting, MayWrite, DelRefused, DelCrashes
<1> QED BY <1>1, <1>3, <1>5, <1>6, QuietStep

\* The new device goes to the end of the list.
LEMMA LinkKeeps ==
  ASSUME IInv, Link
  PROVE  IInv'
<1>1. PICK L : L = Chain
  OBVIOUS
<1>2. PICK d : d = new
  OBVIOUS
<1> DEFINE n == Len(L)
           M == Append(L, d)
<1>3. /\ L \in Seq(Structs) /\ IsInjective(L) /\ Follows(L, head) /\ n \in Nat
      /\ DOMAIN L = 1..n
      /\ \A i \in 1..n : /\ prev[L[i]] = IF i = 1 THEN None ELSE L[i - 1]
                         /\ attr[L[i]] # None /\ L[i] \in started
                         /\ L[i] \in Structs /\ L[i] \in Listed
      /\ \A s \in Listed : \E i \in 1..n : s = L[i]
  BY <1>1, Places, LenProperties DEF IInv, IsList
<1>4. /\ d \in Structs /\ attr[d] # None /\ d \notin Listed
      /\ next[d] = None /\ prev[d] = None /\ ~Duplicate(d) /\ d \in started
  BY <1>2 DEF Link, IInv, Adding
<1>5. TypeOK /\ TypeOK'
  BY Types DEF IInv, Next, Serve
<1>6. /\ M \in Seq(Structs) /\ Len(M) = n + 1 /\ M[n + 1] = d /\ DOMAIN M = 1..(n + 1)
      /\ \A i \in 1..n : M[i] = L[i]
  BY <1>3, <1>4, AppendProperties, LenProperties
<1>7. (L = <<>> <=> n = 0) /\ (n # 0 => 1 \in 1..n /\ head = L[1]) /\ (head # None <=> n # 0)
  <2>1. L = <<>> <=> n = 0
    BY <1>3, EmptySeq
  <2>2. head = IF L = <<>> THEN None ELSE L[1]
    BY <1>3 DEF Follows
  <2>3. n # 0 => 1 \in 1..n
    BY <1>3
  <2>4. n # 0 => L[1] \in Structs
    BY <1>3, <2>3
  <2> QED BY <2>1, <2>2, <2>3, <2>4, ListAssumption
<1>8. n # 0 => Last(Chain) = L[n] /\ n \in 1..n
  BY <1>1, <1>3 DEF Last
<1>9. UNCHANGED <<attr, started, walks>>
  BY DEF Link
<1>10. IsInjective(M)
  <2> HIDE DEF M
  <2>1. \A i \in 1..n, j \in 1..n : L[i] = L[j] => i = j
    BY <1>3 DEF IsInjective
  <2>2. \A i \in 1..(n + 1) : i = n + 1 \/ i \in 1..n
    BY <1>3
  <2> QED BY <1>3, <1>4, <1>6, <2>1, <2>2 DEF IsInjective
<1>11. \A i \in 1..(n + 1) : /\ next'[M[i]] = IF i = n + 1 THEN None ELSE M[i + 1]
                             /\ prev'[M[i]] = IF i = 1 THEN None ELSE M[i - 1]
  <2> HIDE DEF M
  <2>1. CASE n = 0
    <3>1. next' = next /\ prev' = prev
      BY <1>7, <2>1 DEF Link
    <3>2. \A i \in 1..(n + 1) : i = 1 /\ i = n + 1
      BY <2>1
    <3> QED BY <1>4, <1>6, <3>1, <3>2
  <2>2. CASE n # 0
    <3>1. next' = [next EXCEPT ![L[n]] = d] /\ prev' = [prev EXCEPT ![d] = L[n]]
      BY <1>2, <1>7, <1>8, <2>2 DEF Link
    <3>2. /\ \A s \in Structs : next'[s] = IF s = L[n] THEN d ELSE next[s]
          /\ \A s \in Structs : prev'[s] = IF s = d THEN L[n] ELSE prev[s]
      BY <1>5, <3>1 DEF TypeOK
    <3>3. L[n] # d /\ L[n] \in Structs
      BY <1>3, <1>4, <1>8, <2>2
    <3> SUFFICES ASSUME NEW i \in 1..(n + 1)
                 PROVE  /\ next'[M[i]] = IF i = n + 1 THEN None ELSE M[i + 1]
                        /\ prev'[M[i]] = IF i = 1 THEN None ELSE M[i - 1]
      OBVIOUS
    <3>4. CASE i = n + 1
      <4>1. n + 1 - 1 = n /\ n \in 1..n /\ n + 1 # 1
        BY <1>3, <2>2
      <4> QED BY <1>4, <1>6, <3>2, <3>3, <3>4, <4>1
    <3>5. CASE i # n + 1
      <4>1. i \in 1..n /\ M[i] = L[i] /\ L[i] \in Structs /\ L[i] # d
        BY <1>3, <1>4, <1>6, <3>5
      <4>2. next[L[i]] = IF i = n THEN None ELSE L[i + 1]
        BY <1>3, <4>1 DEF Follows
      <4>3. i # n => L[i] # L[n] /\ i + 1 \in 1..n /\ M[i + 1] = L[i + 1]
        <5>1. i # n => L[i] # L[n]
          BY <1>3, <1>8, <2>2, <4>1 DEF IsInjective
        <5>2. n \in Nat
          BY <1>3
        <5>3. i # n => i + 1 \in 1..n
          BY <4>1, <5>2
        <5> QED BY <1>6, <5>1, <5>3
      <4>4. i # 1 => i - 1 \in 1..n /\ M[i - 1] = L[i - 1]
        BY <1>3, <1>6, <4>1
      <4>5. next'[L[i]] = M[i + 1]
        BY <1>6, <3>2, <4>1, <4>2, <4>3
      <4>6. prev'[L[i]] = IF i = 1 THEN None ELSE M[i - 1]
        BY <1>3, <3>2, <4>1, <4>4
      <4> QED BY <3>5, <4>1, <4>5, <4>6
    <3> QED BY <3>4, <3>5
  <2> QED BY <2>1, <2>2
<1>12. head' = M[1]
  <2> HIDE DEF M
  <2>1. CASE n = 0
    BY <1>2, <1>6, <1>7, <2>1 DEF Link
  <2>2. CASE n # 0
    <3>1. 1 \in 1..n /\ head = L[1]
      BY <1>7, <2>2
    <3> QED BY <1>6, <1>7, <2>2, <3>1 DEF Link
  <2> QED BY <2>1, <2>2
<1> HIDE DEF M
<1>13. M # <<>>
  BY <1>3, <1>6, EmptySeq
<1>14. Follows(M, head)'
  BY <1>6, <1>11, <1>12, <1>13 DEF Follows
<1>15. \A i \in 1..(n + 1) : attr'[M[i]] # None /\ M[i] \in started'
  <2>1. \A i \in 1..(n + 1) : i = n + 1 \/ i \in 1..n
    BY <1>3
  <2> QED BY <1>3, <1>4, <1>6, <1>9, <2>1
<1>16. IsList(M)'
  BY <1>6, <1>10, <1>11, <1>14, <1>15 DEF IsList
<1>17. IsList(Chain)' /\ Listed' = ToSet(M)
  BY <1>16, ListNext
<1>18. ToSet(M) = Listed \cup {d}
  <2>1. \A i \in 1..(n + 1) : i = n + 1 \/ i \in 1..n
    BY <1>3
  <2>2. \A i \in 1..n : i \in 1..(n + 1)
    BY <1>3
  <2>3. n + 1 \in 1..(n + 1)
    BY <1>3
  <2> QED BY <1>3, <1>6, <2>1, <2>2, <2>3 DEF ToSet
<1>19. UniqueTargets'
  <2>1. \A t \in Listed : ~Clashes(t, d) /\ ~Clashes(d, t)
    BY <1>4 DEF Duplicate, Clashes
  <2>2. \A s, t : Clashes(s, t)' = Clashes(s, t)
    BY <1>9 DEF Clashes
  <2> QED BY <1>17, <1>18, <2>1, <2>2 DEF UniqueTargets, IInv
<1>20. Adding' /\ Locked'
  BY DEF Link, Adding, Locked
<1>21. ASSUME NEW l \in Listeners PROVE Walked(l)'
  <2>1. Walkers = {}
    BY DEF Link, IInv, Locked
  <2> QED BY <1>9, <2>1 DEF Walked, Walkers, walks
<1> QED BY <1>5, <1>17, <1>19, <1>20, <1>21 DEF IInv

\* The device at place k is taken out of the list.
LEMMA UnlinkKeeps ==
  ASSUME IInv, Unlink
  PROVE  IInv'
<1>1. PICK L : L = Chain
  OBVIOUS
<1> DEFINE n == Len(L)
<1>2. n \in Nat /\ Len(L) = n /\ L \in Seq(Structs) /\ DOMAIN L = 1..n
  BY <1>1, Places, LenProperties
<1>3. \A i \in 1..n : /\ L[i] \in Structs /\ L[i] \in Listed
                      /\ next[L[i]] = IF i = n THEN None ELSE L[i + 1]
                      /\ prev[L[i]] = IF i = 1 THEN None ELSE L[i - 1]
                      /\ attr[L[i]] # None /\ L[i] \in started
  BY <1>1, Places DEF IInv, IsList, Follows
<1>4. \A i, j \in 1..n : L[i] = L[j] => i = j
  BY <1>1, <1>2 DEF IInv, IsList, IsInjective
<1> HIDE DEF n
<1>5. PICK s \in Matched(req) :
        /\ head' = IF prev[s] = None THEN next[s] ELSE head
        /\ next' = IF prev[s] = None THEN next ELSE [next EXCEPT ![prev[s]] = next[s]]
        /\ prev' = IF next[s] = None THEN prev ELSE [prev EXCEPT ![next[s]] = prev[s]]
  BY DEF Unlink
<1>6. PICK k \in 1..n : s = L[k]
  BY <1>1, <1>2, <1>5, MatchedListed, Places
<1>7. TypeOK /\ TypeOK' /\ UNCHANGED <<attr, started, walks>>
  BY Types DEF IInv, Next, Serve, Unlink
<1>8. /\ k \in Nat /\ k >= 1 /\ k <= n
      /\ (k # 1 => k - 1 \in 1..n) /\ (k # n => k + 1 \in 1..n)
  BY <1>2, <1>6
<1>9. /\ next[s] = IF k = n THEN None ELSE L[k + 1]
      /\ prev[s] = IF k = 1 THEN None ELSE L[k - 1]
      /\ (k # n => L[k + 1] \in Structs /\ L[k + 1] # None)
      /\ (k # 1 => L[k - 1] \in Structs /\ L[k - 1] # None)
  BY <1>3, <1>6, <1>8, ListAssumption
<1>10. head' = IF k = 1 THEN next[s] ELSE head
  BY <1>5, <1>9
<1>11. \A i \in 1..n : next'[L[i]] = IF k # 1 /\ i = k - 1 THEN next[s] ELSE next[L[i]]
  <2> TAKE i \in 1..n
  <2>1. L[i] \in Structs /\ (k # 1 => (L[i] = L[k - 1] <=> i = k - 1))
    BY <1>3, <1>4, <1>8
  <2>2. CASE k = 1
    BY <1>5, <1>9, <2>2
  <2>3. CASE k # 1
    <3>1. next' = [next EXCEPT ![L[k - 1]] = next[s]]
      BY <1>5, <1>9, <2>3
    <3> QED BY <1>7, <1>9, <2>1, <2>3, <3>1 DEF TypeOK
  <2> QED BY <2>2, <2>3
<1>12. \A i \in 1..n : prev'[L[i]] = IF k # n /\ i = k + 1 THEN prev[s] ELSE prev[L[i]]
  <2> TAKE i \in 1..n
  <2>1. L[i] \in Structs /\ (k # n => (L[i] = L[k + 1] <=> i = k + 1))
    BY <1>3, <1>4, <1>8
  <2>2. CASE k = n
    BY <1>5, <1>9, <2>2
  <2>3. CASE k # n
    <3>1. prev' = [prev EXCEPT ![L[k + 1]] = prev[s]]
      BY <1>5, <1>9, <2>3
    <3> QED BY <1>7, <1>9, <2>1, <2>3, <3>1 DEF TypeOK
  <2> QED BY <2>2, <2>3
<1> DEFINE M == [i \in 1..(n - 1) |-> IF i < k THEN L[i] ELSE L[i + 1]]
<1>13. /\ M \in Seq(Structs) /\ Len(M) = n - 1 /\ n - 1 \in Nat /\ DOMAIN M = 1..(n - 1)
       /\ \A i \in 1..(n - 1) : M[i] = IF i < k THEN L[i] ELSE L[i + 1]
  <2>1. n - 1 \in Nat
    BY <1>2, <1>8
  <2>2. \A i \in 1..(n - 1) : i \in 1..n /\ i + 1 \in 1..n
    BY <1>2
  <2>3. M \in [1..(n - 1) -> Structs]
    BY <1>3, <2>2
  <2>4. M \in Seq(Structs)
    BY <2>1, <2>3, SeqDef
  <2>5. Len(M) = n - 1
    BY <2>1, <2>3, <2>4, LenProperties
  <2> QED BY <2>1, <2>4, <2>5
<1> HIDE DEF M
\* Where the devices of M stand in L.
<1> DEFINE Old(i) == IF i < k THEN i ELSE i + 1
<1>14. \A i \in 1..(n - 1) : Old(i) \in 1..n /\ Old(i) # k /\ M[i] = L[Old(i)]
  BY <1>2, <1>8, <1>13
<1>15. IsInjective(M)
  <2>1. \A i, j \in 1..(n - 1) : Old(i) = Old(j) => i = j
    BY <1>8
  <2> HIDE DEF Old
  <2> QED BY <1>4, <1>13, <1>14, <2>1 DEF IsInjective
<1>16. ASSUME NEW i \in 1..(n - 1)
       PROVE  next'[M[i]] = IF i = n - 1 THEN None ELSE M[i + 1]
  <2>1. next'[M[i]] = IF k # 1 /\ Old(i) = k - 1 THEN next[s] ELSE next[L[Old(i)]]
    <3> HIDE DEF Old
    <3> QED BY <1>11, <1>14
  <2>2. i # n - 1 => i + 1 \in 1..(n - 1) /\ M[i + 1] = L[Old(i + 1)]
    <3>1. i # n - 1 => i + 1 \in 1..(n - 1)
      BY <1>13
    <3> QED BY <1>14, <3>1
  <2>3. CASE i + 1 = k
    <3>1. k # 1 /\ Old(i) = k - 1 /\ Old(i + 1) = k + 1 /\ (i = n - 1 <=> k = n)
      BY <1>2, <1>8, <2>3
    <3> QED BY <1>9, <2>1, <2>2, <3>1
  <2>4. CASE i + 1 # k
    <3>1. /\ Old(i) # k - 1 /\ Old(i + 1) = Old(i) + 1 /\ (i = n - 1 <=> Old(i) = n)
          /\ Old(i) \in 1..n
      BY <1>2, <1>8, <2>4
    <3>2. next[L[Old(i)]] = IF Old(i) = n THEN None ELSE L[Old(i) + 1]
      <4> HIDE DEF Old
      <4> QED BY <1>3, <3>1
    <3> HIDE DEF Old
    <3> QED BY <2>1, <2>2, <3>1, <3>2
  <2> QED BY <2>3, <2>4
<1>17. ASSUME NEW i \in 1..(n - 1)
       PROVE  prev'[M[i]] = IF i = 1 THEN None ELSE M[i - 1]
  <2>1. prev'[M[i]] = IF k # n /\ Old(i) = k + 1 THEN prev[s] ELSE prev[L[Old(i)]]
    <3> HIDE DEF Old
    <3> QED BY <1>12, <1>14
  <2>2. i # 1 => i - 1 \in 1..(n - 1) /\ M[i - 1] = L[Old(i - 1)]
    <3>1. i # 1 => i - 1 \in 1..(n - 1)
      BY <1>13
    <3> QED BY <1>14, <3>1
  <2>3. CASE i = k
    <3>1. k # n /\ Old(i) = k + 1 /\ (i # 1 => Old(i - 1) = k - 1)
      BY <1>2, <1>8, <2>3
    <3> QED BY <1>9, <2>1, <2>2, <2>3, <3>1
  <2>4. CASE i # k
    <3>1. /\ Old(i) # k + 1 /\ (i # 1 => Old(i - 1) = Old(i) - 1) /\ (i = 1 <=> Old(i) = 1)
          /\ Old(i) \in 1..n
      BY <1>2, <1>8, <2>4
    <3>2. prev[L[Old(i)]] = IF Old(i) = 1 THEN None ELSE L[Old(i) - 1]
      <4> HIDE DEF Old
      <4> QED BY <1>3, <3>1
    <3> HIDE DEF Old
    <3> QED BY <2>1, <2>2, <3>1, <3>2
  <2> QED BY <2>3, <2>4
<1>18. head' = IF M = <<>> THEN None ELSE M[1]
  <2>1. M = <<>> <=> n = 1
    BY <1>2, <1>13, EmptySeq
  <2>2. head = L[1]
    <3>1. L # <<>>
      BY <1>2, <1>8, EmptySeq
    <3> QED BY <1>1, <3>1 DEF IInv, IsList, Follows
  <2>3. n # 1 => 1 \in 1..(n - 1) /\ M[1] = IF 1 < k THEN L[1] ELSE L[1 + 1]
    <3>1. n # 1 => 1 \in 1..(n - 1)
      BY <1>2, <1>8
    <3> QED BY <1>13, <3>1
  <2>4. k = 1 => (k = n <=> n = 1) /\ ~(1 < k)
    BY <1>8
  <2>5. k # 1 => 1 < k /\ n # 1
    BY <1>2, <1>8
  <2> QED BY <1>9, <1>10, <2>1, <2>2, <2>3, <2>4, <2>5
<1>19. Follows(M, head)'
  BY <1>13, <1>16, <1>18 DEF Follows
<1>20. \A i \in 1..(n - 1) : attr'[M[i]] # None /\ M[i] \in started' /\ M[i] \in Listed
  <2> HIDE DEF Old
  <2> TAKE i \in 1..(n - 1)
  <2>1. Old(i) \in 1..n /\ M[i] = L[Old(i)]
    BY <1>14
  <2> QED BY <1>3, <1>7, <2>1
<1>21. IsList(M)'
  BY <1>13, <1>15, <1>17, <1>19, <1>20 DEF IsList
<1>22. IsList(Chain)' /\ Listed' \subseteq Listed
  <2>1. IsList(Chain)' /\ Listed' = ToSet(M)
    BY <1>21, ListNext
  <2> QED BY <1>13, <1>20, <2>1 DEF ToSet
<1>23. UniqueTargets'
  BY <1>7, <1>22 DEF UniqueTargets, Clashes, IInv
<1>24. Adding' /\ Locked'
  BY DEF Unlink, Adding, Locked
<1>25. ASSUME NEW l \in Listeners PROVE Walked(l)'
  <2>1. Walkers = {}
    BY DEF Unlink, IInv, Locked
  <2> QED BY <1>7, <2>1 DEF Walked, Walkers, walks
<1> QED BY <1>7, <1>22, <1>23, <1>24, <1>25 DEF IInv

LEMMA WalkKeeps ==
  ASSUME IInv, NEW w \in Listeners, Walk(w) \/ (api # "dead" /\ Frame(w))
  PROVE  IInv'
<1>1. /\ [Next]_vars /\ UNCHANGED <<list, attr, started, api, new, writer>>
      /\ TypeOK
  BY DEF Next, Walk, Frame, StartWalk, Visit, EndWalk, lock, IInv
<1>2. TypeOK'
  BY <1>1, Types
<1>3. \A t \in Listed : t \in started
  BY Places DEF IInv, IsList
<1>4. Quiet
  BY <1>1, <1>3 DEF Quiet, list
<1>5. Chain' = Chain /\ IsList(Chain)' /\ Listed' = Listed /\ UniqueTargets'
  BY <1>4, SameList
<1>6. Adding'
  <2>1. \A s : Duplicate(s)' = Duplicate(s)
    BY <1>1, <1>5 DEF Duplicate, Clashes
  <2> QED BY <1>1, <1>5, <2>1 DEF IInv, Adding, list
<1>7. Locked'
  <2>1. CASE StartWalk(w)
    BY <1>1, <2>1 DEF StartWalk, MayRead, IInv, Locked
  <2>2. CASE ~StartWalk(w)
    <3>1. \A l \in Listeners : pc'[l] = "walk" => pc[l] = "walk"
      BY <1>1, <2>2 DEF Walk, Frame, Visit, EndWalk, TypeOK
    <3> QED BY <1>1, <3>1 DEF IInv, Locked, Walkers
  <2> QED BY <2>1, <2>2
<1>8. ASSUME NEW l \in Listeners, l # w PROVE Walked(l)'
  <2>1. at'[l] = at[l] /\ pc'[l] = pc[l] /\ seen'[l] = seen[l]
    BY <1>1, <1>8 DEF Walk, Frame, StartWalk, Visit, EndWalk, TypeOK
  <2> QED BY <1>4, <2>1, SameWalk
<1>9. Walked(w)'
  <2>1. CASE Frame(w) \/ EndWalk(w)
    BY <1>1, <2>1 DEF Frame, EndWalk, Walked, TypeOK
  <2>2. CASE StartWalk(w)
    <3>1. at'[w] = head /\ seen'[w] = <<>> /\ head' = head
      BY <1>1, <2>2 DEF StartWalk, TypeOK, list
    <3>2. PICK L : L = Chain
      OBVIOUS
    <3>3. L \in Seq(Structs) /\ Chain' = L
      BY <1>5, <3>2 DEF IInv, IsList
    <3>4. Follows(L, at[w])'
      BY <1>1, <3>1, <3>2 DEF IInv, IsList, Follows, list
    <3>5. seen'[w] \o L = Chain'
      BY <3>1, <3>3, ConcatEmptySeq
    <3> QED BY <3>3, <3>4, <3>5 DEF Walked
  <2>3. CASE Visit(w)
    <3>1. /\ pc[w] = "walk" /\ at[w] # None /\ at'[w] = next[at[w]] /\ next' = next
          /\ seen'[w] = Append(seen[w], at[w])
      BY <1>1, <2>3 DEF Visit, TypeOK, list
    <3>2. PICK M \in Seq(Structs) : Follows(M, at[w]) /\ seen[w] \o M = Chain
      BY <3>1 DEF IInv, Walked
    <3>3. M # <<>> /\ at[w] = M[1]
      BY <3>1, <3>2 DEF Follows
    <3>4. Len(M) \in Nat /\ Len(M) # 0 /\ 1 \in 1..Len(M) /\ M[1] \in Structs
      BY <3>3, EmptySeq, ElementOfSeq
    <3> DEFINE R == Tail(M)
    <3>5. /\ R \in Seq(Structs) /\ Len(R) = Len(M) - 1 /\ Len(R) \in Nat
          /\ \A i \in 1..Len(R) : R[i] = M[i + 1]
      BY <3>3, <3>4, HeadTailProperties
    <3> HIDE DEF R
    <3>6. next[M[1]] = IF R = <<>> THEN None ELSE R[1]
      <4>1. next[M[1]] = IF 1 = Len(M) THEN None ELSE M[1 + 1]
        BY <3>2, <3>4 DEF Follows
      <4>2. R = <<>> <=> Len(M) = 1
        BY <3>4, <3>5, EmptySeq
      <4>3. Len(M) # 1 => 1 \in 1..Len(R) /\ R[1] = M[1 + 1]
        BY <3>4, <3>5
      <4> QED BY <3>4, <4>1, <4>2, <4>3
    <3>7. \A i \in 1..Len(R) : next[R[i]] = IF i = Len(R) THEN None ELSE R[i + 1]
      <4> SUFFICES ASSUME NEW i \in 1..Len(R)
                   PROVE  next[R[i]] = IF i = Len(R) THEN None ELSE R[i + 1]
        OBVIOUS
      <4>1. i + 1 \in 1..Len(M) /\ R[i] = M[i + 1] /\ (i = Len(R) <=> i + 1 = Len(M))
        BY <3>4, <3>5
      <4>2. next[M[i + 1]] = IF i + 1 = Len(M) THEN None ELSE M[i + 1 + 1]
        BY <3>2, <4>1 DEF Follows
      <4>3. i # Len(R) => i + 1 \in 1..Len(R) /\ R[i + 1] = M[i + 1 + 1]
        BY <3>5
      <4> QED BY <4>1, <4>2, <4>3
    <3>8. Follows(R, at[w])'
      BY <3>1, <3>3, <3>6, <3>7 DEF Follows
    <3>9. seen'[w] \o R = Chain
      <4>1. seen[w] \in Seq(Structs)
        BY <1>1 DEF TypeOK
      <4>2. M = <<M[1]>> \o R
        <5>1. /\ <<M[1]>> \in Seq(Structs) /\ Len(<<M[1]>>) = 1 /\ <<M[1]>>[1] = M[1]
          BY <3>4
        <5>2. /\ <<M[1]>> \o R \in Seq(Structs) /\ Len(<<M[1]>> \o R) = Len(M)
              /\ \A i \in 1..Len(M) :
                   (<<M[1]>> \o R)[i] = IF i <= 1 THEN <<M[1]>>[i] ELSE R[i - 1]
          BY <3>4, <3>5, <5>1, ConcatProperties
        <5>3. \A i \in 1..Len(M) : (<<M[1]>> \o R)[i] = M[i]
          <6> TAKE i \in 1..Len(M)
          <6>1. CASE i = 1
            BY <5>1, <5>2, <6>1
          <6>2. CASE i # 1
            <7>1. i - 1 \in 1..Len(R) /\ R[i - 1] = M[i - 1 + 1] /\ ~(i <= 1) /\ i - 1 + 1 = i
              BY <3>4, <3>5, <6>2
            <7> QED BY <5>2, <7>1
          <6> QED BY <6>1, <6>2
        <5> QED BY <5>2, <5>3, SeqEqual
      <4>3. seen'[w] = seen[w] \o <<M[1]>>
        BY <3>1, <3>3, <3>4, <4>1, AppendIsConcat
      <4>4. <<M[1]>> \in Seq(Structs)
        BY <3>4
      <4>5. (seen[w] \o <<M[1]>>) \o R = seen[w] \o (<<M[1]>> \o R)
        <5> DEFINE H == <<M[1]>>
        <5>1. H \in Seq(Structs)
          BY <4>4
        <5> HIDE DEF H
        <5>2. \A a, b, c \in Seq(Structs) : (a \o b) \o c = a \o (b \o c)
          BY ConcatAssociative
        <5>3. (seen[w] \o H) \o R = seen[w] \o (H \o R)
          BY <3>5, <4>1, <5>1, <5>2, Zenon
        <5> QED BY <5>3 DEF H
      <4> QED BY <3>2, <4>2, <4>3, <4>5
    <3> QED BY <1>5, <3>5, <3>8, <3>9 DEF Walked
  <2> QED BY <2>1, <2>2, <2>3 DEF Walk
<1> QED BY <1>2, <1>5, <1>6, <1>7, <1>8, <1>9 DEF IInv

LEMMA Step == IInv /\ [Next]_vars => IInv'
<1> SUFFICES ASSUME IInv, [Next]_vars PROVE IInv'
  OBVIOUS
<1>1. CASE UNCHANGED vars
  <2>1. UNCHANGED <<list, attr, started, api, new, writer, walks>>
    BY <1>1 DEF vars, list, walks
  <2>2. Quiet
    BY <2>1, Places DEF Quiet, list, IInv, IsList
  <2>3. Listed' = Listed
    BY <2>2, SameList
  <2>4. Adding'
    <3>1. \A s : Duplicate(s)' = Duplicate(s)
      BY <2>1, <2>3 DEF Duplicate, Clashes
    <3> QED BY <2>1, <2>3, <3>1 DEF IInv, Adding, list
  <2>5. Locked'
    BY <2>1 DEF IInv, Locked, Walkers, walks
  <2> QED BY <2>1, <2>2, <2>4, <2>5, QuietStep
<1> QED
  BY <1>1, AddKeeps, AddCheckKeeps, ApiKeeps, LinkKeeps, UnlinkKeeps, WalkKeeps
  DEF Next, Request, Serve

-----------------------------------------------------------------------------
(* The theorems.                                                             *)

\* The invariant of module DeviceList holds in every state of the daemon.
THEOREM ListInvariance == Spec => []IInv
  BY InitHolds, Step, PTL DEF Spec

\* However targets are added and deleted (api.c), the links of the devices are
\* those of one list without a cycle, `prev` the inverse of `next`, of devices that
\* are allocated and have a worker.
THEOREM ListIsOne == Spec => []ListShape
<1>1. IInv => ListShape
  <2> SUFFICES ASSUME IInv PROVE ListShape
    OBVIOUS
  <2> DEFINE L == Chain
  <2>1. TypeOK /\ IsList(L)
    BY DEF IInv
  <2>2. Len(L) \in Nat /\ L \in Seq(Structs)
    BY Places
  <2>3. ASSUME L # <<>> PROVE prev[head] = None /\ next[Last(L)] = None
    <3>1. 1 \in 1..Len(L) /\ Len(L) \in 1..Len(L)
      BY <2>2, <2>3, EmptySeq
    <3>2. head = L[1]
      BY <2>1, <2>3 DEF IsList, Follows
    <3> QED BY <2>1, <3>1, <3>2 DEF IsList, Follows, Last
  <2>4. ASSUME NEW n \in 1..(Len(L) - 1) PROVE prev[L[n + 1]] = L[n]
    <3>1. n + 1 \in 1..Len(L) /\ n + 1 # 1 /\ n + 1 - 1 = n
      BY <2>2
    <3> QED BY <2>1, <3>1 DEF IsList
  <2>5. \A s \in Listed : attr[s] # None /\ s \in started
    BY <2>1, Places DEF IsList
  <2> QED BY <2>1, <2>3, <2>4, <2>5 DEF ListShape, IsList
<1> QED BY <1>1, ListInvariance, PTL

\* A listener that walks the list for a frame (processpacket, network.c) meets every
\* device of it once, in order, whatever the API thread does meanwhile.
THEOREM WalksAreWhole == Spec => []WholeWalk
<1>1. IInv => WholeWalk
  <2> SUFFICES ASSUME IInv, NEW l \in Walkers
               PROVE  seen[l] \o (IF at[l] = None THEN <<>> ELSE Onward(at[l])) = Chain
    BY DEF WholeWalk
  <2>1. PICK M \in Seq(Structs) : Follows(M, at[l]) /\ seen[l] \o M = Chain
    BY DEF IInv, Walked, Walkers
  <2>2. Len(M) <= Size
    <3>1. seen[l] \in Seq(Structs)
      BY DEF IInv, TypeOK, Walkers
    <3>2. Len(Chain) = Len(seen[l]) + Len(M) /\ Len(M) \in Nat /\ Len(seen[l]) \in Nat
      BY <2>1, <3>1, ConcatProperties, LenProperties
    <3>3. Len(Chain) <= Size
      BY InjectiveIsShort DEF IInv, IsList
    <3> QED BY <3>2, <3>3, SizeNat
  <2>3. Onward(at[l]) = M
    BY <2>1, <2>2, OnwardIs
  <2>4. at[l] = None => M = <<>>
    <3>1. M # <<>> => M[1] \in Structs
      BY <2>1, EmptySeq, ElementOfSeq
    <3> QED BY <2>1, <3>1, ListAssumption DEF Follows
  <2> QED BY <2>1, <2>3, <2>4
<1> QED BY <1>1, ListInvariance, PTL

\* TARGET_ADD (api.c) never leaves two targets of one slot in the list, unless they
\* are one file on two interfaces.
THEOREM TargetsAreUnique == Spec => []UniqueTargets
<1>1. IInv => UniqueTargets
  BY DEF IInv
<1> QED BY <1>1, ListInvariance, PTL
=============================================================================
