----------------------------- MODULE ConfigProofs -----------------------------
(***************************************************************************)
(* Theorems of modules ConfigLoad and ConfigSyntax.                        *)
(*                                                                         *)
(* ConfigLoad, for any number of sections of any files: what is loaded is  *)
(* what the file means and nothing is wrong with it; what is refused has   *)
(* something wrong with it.  The loops over the sections keep what follows *)
(* the last bad one; the loop over the devices hands out the slots of the  *)
(* default section up to the first device that gets 0xff, with which the   *)
(* file is refused.                                                        *)
(*                                                                         *)
(* ConfigSyntax, for any files of any tokens: a configuration that is well *)
(* formed is read to exactly what it means; what is read beyond that has   *)
(* one of the faults that the checks let pass; nothing past the end of the *)
(* tokens is looked at unless a file is cut short.  Tokens with a meaning  *)
(* have their braces balanced, and each token its role in an item: so the  *)
(* checks let them pass, there is one meaning, and it is what              *)
(* recursiveparse makes.  The tokens of the files on the stack mean what   *)
(* these files, and those that were read for them, mean.                   *)
(***************************************************************************)
EXTENDS ConfigLoad, ConfigSyntax, FiniteSetTheorems, SequenceTheorems, WellFoundedInduction, TLAPS

-----------------------------------------------------------------------------
(* The invariant.                                                            *)

\* Block l is the last of the first n that is bad, or l is zero and none is.
LastBad(blocks, n, l) == /\ l \in 0..n /\ (l # 0 => blocks[l].bad)
                         /\ \A i \in (l + 1)..n : ~blocks[i].bad

\* The default section counts; the blocks that do.
Usable == file.dflt # None /\ ~file.dflt.bad
Given == Rest(file.devices)

\* What a block of the file becomes: Parsed, once interfaces and lists are known.
Stored(b) == [shelf |-> Number(b.shelf, NoShelf), slot |-> Number(b.slot, NoSlot),
              target |-> b.target, interface |-> b.interface, read |-> There(b.read)]

LogsRead == Names(loglist) = {"default"} \cup Names(Rest(file.logs))

IntsRead == intlist = file.ints \cup Stated(Range(file.devices)
                                  \cup IF file.dflt = None THEN {} ELSE {file.dflt})

DefaultRead == devdefault = IF Usable THEN Stored(file.dflt) ELSE None

\* The devices that the first n blocks leave.
Found(n) == \E l \in 0..n : /\ LastBad(file.devices, n, l)
                            /\ devices = [i \in 1..(n - l) |-> Stored(file.devices[l + i])]

\* Device d has what block b states or inherits, but for a slot that it inherits.
Heir(d, b) ==
  /\ d.target = b.target
  /\ d.shelf = Number(IF b.shelf = None /\ Usable THEN file.dflt.shelf ELSE b.shelf, NoShelf)
  /\ d.interface = IF b.interface = None /\ Usable THEN file.dflt.interface ELSE b.interface
  /\ d.read = IF There(b.read) = None /\ Usable THEN There(file.dflt.read) ELSE There(b.read)
  /\ b.slot # None \/ ~Usable => d.slot = Number(b.slot, NoSlot)

\* The slot that the default section has for device i, if it could count on.
Due(i) == Number(file.dflt.slot, NoSlot) + Unnumbered(Given, i - 1)

\* Before device n slots were handed out as they were due, or one of them is 0xff.
Counting(n) ==
  \/ /\ devdefault.slot = Due(n)
     /\ \A i \in 1..(n - 1) : Given[i].slot = None => devices[i].slot = Due(i)
  \/ \E i \in 1..(n - 1) : Given[i].slot = None /\ Due(i) = NoSlot /\ devices[i].slot = NoSlot

\* What is left to inherit.
Bequest(n) ==
  /\ devdefault \in Devices /\ Counting(n)
  /\ devdefault.shelf = Number(file.dflt.shelf, NoShelf)
  /\ devdefault.interface = file.dflt.interface /\ devdefault.read = There(file.dflt.read)

Inherited(n) ==
  /\ devices \in Seq(Devices) /\ Len(devices) = Len(Given)
  /\ \A i \in 1..Len(Given) : IF i < n THEN Heir(devices[i], Given[i]) ELSE devices[i] = Stored(Given[i])
  /\ IF Usable THEN Bequest(n) ELSE devdefault = None

Ended == {"loaded", "refused", "unopened", "stuck", "dead"}
Phases == {"logs", "openlogs", "interfaces", "lists", "default", "devices", "defaults", "validate"}
            \cup Ended

\* The properties that the runs check.
Right == LoadedIsMeant /\ LoadedIsRight /\ (AllStated => RefusedIsWrong)

\* What is known at each part of qaoed_loadconfig.
LoadInv ==
  /\ file \in Files /\ phase \in Phases
  /\ phase \in {"logs", "openlogs", "interfaces", "lists", "default"} => k = 1 /\ devices = <<>>
  /\ phase \notin {"logs", "openlogs"} \cup Ended => LogsRead
  /\ phase = "openlogs" => IF circle THEN NoDefaultLog ELSE LogsRead
  /\ phase \in {"lists", "default", "devices", "defaults", "validate"} => IntsRead
  /\ phase \in {"default", "devices", "defaults", "validate"} => acllist = Rest(file.acls)
  /\ phase = "devices" => DefaultRead /\ k \in 1..(Len(file.devices) + 1) /\ Found(k - 1)
  /\ phase = "defaults" => k \in 1..(Len(Given) + 1) /\ Inherited(k)
  /\ phase = "validate" => Inherited(Len(Given) + 1)
  /\ phase \in {"defaults", "validate"} => Len(Given) > 0
  /\ Right

-----------------------------------------------------------------------------
(* Natural numbers.                                                          *)

Smaller == {ss \in Nat \X Nat : ss[1] < ss[2]}

LEMMA SmallerWF == IsWellFoundedOn(Smaller, Nat)
<1>1. Smaller = OpToRel(<, Nat)
  BY DEF Smaller, OpToRel
<1> QED BY <1>1, NatLessThanWellFounded

\* Every set of numbers that has a member has a least one.
LEMMA Least ==
  ASSUME NEW T, T \subseteq Nat, T # {}
  PROVE  \E x \in T : \A y \in T : x <= y
<1>1. PICK x \in T : \A y \in T : <<y, x>> \notin Smaller
  BY SmallerWF, WFMin
<1>2. ASSUME NEW y \in T PROVE x <= y
  <2>1. x \in Nat /\ y \in Nat /\ <<y, x>> \notin Smaller
    BY <1>1
  <2>2. y < x => <<y, x>> \in Smaller
    BY <2>1 DEF Smaller
  <2> QED BY <2>1, <2>2
<1> QED BY <1>2

\* What fits its field is stored as it is.
LEMMA NumberFits ==
  ASSUME NEW none \in Nat, NEW x \in OrNone(Nat)
  PROVE  /\ Number(x, none) \in 0..none
         /\ x # None /\ x <= none => Number(x, none) = x
         /\ x = None => Number(x, none) = none
<1>1. CASE x = None
  BY <1>1 DEF Number
<1>2. CASE x # None
  <2>1. x \in Nat /\ none + 1 \in Nat /\ none + 1 > 0 /\ Number(x, none) = x % (none + 1)
    BY <1>2 DEF Number, OrNone
  <2>2. x % (none + 1) \in 0..none
    BY <2>1
  <2>3. x <= none => x % (none + 1) = x
    BY <2>1
  <2> QED BY <1>2, <2>1, <2>2, <2>3
<1> QED BY <1>1, <1>2

\* Counting the blocks that leave their slot to the default section.
LEMMA UnnumberedIs ==
  ASSUME NEW blocks
  PROVE  /\ Unnumbered(blocks, 0) = 0
         /\ \A n \in Nat :
              /\ Unnumbered(blocks, n) \in Nat
              /\ Unnumbered(blocks, n + 1) =
                   Unnumbered(blocks, n) + (IF blocks[n + 1].slot = None THEN 1 ELSE 0)
<1> DEFINE U(n) == {j \in 1..n : blocks[j].slot = None}
<1>1. U(0) = {} /\ Cardinality({}) = 0
  BY FS_EmptySet
<1>2. ASSUME NEW n \in Nat
      PROVE  IsFiniteSet(U(n)) /\ Cardinality(U(n)) \in Nat
  <2>1. IsFiniteSet(1..n) /\ U(n) \subseteq 1..n
    BY FS_Interval
  <2>2. IsFiniteSet(U(n))
    BY <2>1, FS_Subset
  <2> QED BY <2>2, FS_CardinalityType
<1>3. ASSUME NEW n \in Nat
      PROVE  Cardinality(U(n + 1)) = Cardinality(U(n)) + (IF blocks[n + 1].slot = None THEN 1 ELSE 0)
  <2>1. CASE blocks[n + 1].slot = None
    <3>1. U(n + 1) = U(n) \cup {n + 1} /\ n + 1 \notin U(n)
      BY <2>1
    <3> QED BY <1>2, <2>1, <3>1, FS_AddElement
  <2>2. CASE blocks[n + 1].slot # None
    <3>1. U(n + 1) = U(n)
      BY <2>2
    <3>2. Cardinality(U(n + 1)) = Cardinality(U(n)) + 0
      <4> HIDE DEF U
      <4> QED BY <1>2, <3>1
    <3> QED BY <2>2, <3>2
  <2> QED BY <2>1, <2>2
<1> QED BY <1>1, <1>2, <1>3 DEF Unnumbered

-----------------------------------------------------------------------------
(* Sections that are left.                                                   *)

\* A sequence that is given by its members.
LEMMA Listed ==
  ASSUME NEW S, NEW m \in Nat, NEW f, \A i \in 1..m : f[i] \in S
  PROVE  /\ [i \in 1..m |-> f[i]] \in Seq(S) /\ Len([i \in 1..m |-> f[i]]) = m
         /\ DOMAIN [i \in 1..m |-> f[i]] = 1..m
OBVIOUS

\* One more is appended to it.
LEMMA ListedAppend ==
  ASSUME NEW S, NEW m \in Nat, NEW f, \A i \in 1..(m + 1) : f[i] \in S
  PROVE  Append([i \in 1..m |-> f[i]], f[m + 1]) = [i \in 1..(m + 1) |-> f[i]]
<1> DEFINE s == [i \in 1..m |-> f[i]]
           t == Append(s, f[m + 1])
<1>1. s \in Seq(S) /\ Len(s) = m /\ \A i \in 1..m : s[i] = f[i]
  BY Listed
<1>2. f[m + 1] \in S
  OBVIOUS
<1> HIDE DEF s
<1>3. /\ t \in Seq(S) /\ Len(t) = m + 1
      /\ \A i \in 1..m : t[i] = s[i]
      /\ t[m + 1] = f[m + 1]
  BY <1>1, <1>2, AppendProperties
<1> HIDE DEF t
<1>4. \A i \in 1..(m + 1) : t[i] = f[i]
  BY <1>1, <1>3
<1>5. t = [i \in 1..(m + 1) |-> t[i]]
  BY <1>3
<1>6. t = [i \in 1..(m + 1) |-> f[i]]
  BY <1>4, <1>5
<1> QED BY <1>6 DEF t, s

\* The list that the code has after the first n sections.
KeptSoFar(g, blocks) ==
  g = [n \in 0..Len(blocks) |->
         IF n = 0 \/ blocks[n].bad THEN <<>> ELSE Append(g[n - 1], blocks[n])]

\* There are such lists, up to section n.
LEMMA KeptUpTo ==
  ASSUME NEW blocks
  PROVE  \A n \in Nat :
           \E g : g = [m \in 0..n |->
                         IF m = 0 \/ blocks[m].bad THEN <<>> ELSE Append(g[m - 1], blocks[m])]
<1> DEFINE Row(f, m) == IF m = 0 \/ blocks[m].bad THEN <<>> ELSE Append(f[m - 1], blocks[m])
           T == {n \in Nat : ~ \E g : g = [m \in 0..n |-> Row(g, m)]}
<1> SUFFICES ASSUME T # {} PROVE FALSE
  OBVIOUS
<1>1. PICK n \in T : \A m \in T : n <= m
  <2>1. T \subseteq Nat
    OBVIOUS
  <2> HIDE DEF T
  <2> QED BY <2>1, Least
<1>2. n \in Nat /\ ~ \E g : g = [m \in 0..n |-> Row(g, m)]
  OBVIOUS
<1>3. CASE n = 0
  <2> DEFINE g == [m \in 0..0 |-> <<>>]
  <2>1. g = [m \in 0..0 |-> Row(g, m)]
    OBVIOUS
  <2> QED BY <1>2, <1>3, <2>1
<1>4. CASE n # 0
  <2>1. n - 1 \in Nat /\ n - 1 \notin T
    <3>1. \A m \in T : n <= m
      BY <1>1
    <3> HIDE DEF T
    <3> QED BY <1>2, <1>4, <3>1
  <2>2. PICK g : g = [m \in 0..(n - 1) |-> Row(g, m)]
    BY <2>1
  <2> DEFINE h == [m \in 0..n |-> IF m = n THEN Row(g, n) ELSE g[m]]
  <2>3. ASSUME NEW m \in 0..n PROVE h[m] = Row(h, m)
    <3>1. h[m] = Row(g, m)
      <4> HIDE DEF Row
      <4>1. m # n => m \in 0..(n - 1)
        BY <1>2
      <4> QED BY <2>2, <4>1
    <3>2. m # 0 => m - 1 \in 0..n /\ m - 1 # n
      BY <1>2
    <3>3. m # 0 => h[m - 1] = g[m - 1]
      BY <3>2
    <3>4. Row(g, m) = Row(h, m)
      <4> HIDE DEF h
      <4> QED BY <3>3
    <3> QED BY <3>1, <3>4
  <2>4. h = [m \in 0..n |-> Row(h, m)]
    <3> HIDE DEF Row
    <3>1. h = [m \in 0..n |-> h[m]]
      OBVIOUS
    <3> HIDE DEF h
    <3> QED BY <2>3, <3>1
  <2> QED BY <1>2, <2>4
<1> QED BY <1>3, <1>4

\* l makes of the first n sections what is left of them.
Left(blocks, n, l, list) ==
  LastBad(blocks, n, l) /\ list = [i \in 1..(n - l) |-> blocks[l + i]]

\* One section more.
LEMMA LeftStep ==
  ASSUME NEW S, NEW blocks \in Seq(S), \A b \in S : b.bad \in BOOLEAN,
         NEW n \in 1..Len(blocks), NEW l, NEW list, Left(blocks, n - 1, l, list)
  PROVE  \E m : Left(blocks, n, m, IF blocks[n].bad THEN <<>> ELSE Append(list, blocks[n]))
<1>1. /\ l \in 0..(n - 1) /\ (l # 0 => blocks[l].bad) /\ \A i \in (l + 1)..(n - 1) : ~blocks[i].bad
      /\ list = [i \in 1..(n - 1 - l) |-> blocks[l + i]]
  BY DEF Left, LastBad
<1>2. n \in Nat /\ n > 0 /\ blocks[n] \in S /\ blocks[n].bad \in BOOLEAN
  OBVIOUS
<1>3. CASE blocks[n].bad
  <2>1. LastBad(blocks, n, n)
    BY <1>2, <1>3 DEF LastBad
  <2>2. <<>> = [i \in 1..(n - n) |-> blocks[n + i]]
    BY <1>2
  <2> QED BY <1>3, <2>1, <2>2 DEF Left
<1>4. CASE ~blocks[n].bad
  <2>1. LastBad(blocks, n, l)
    BY <1>1, <1>2, <1>4 DEF LastBad
  <2> DEFINE f == [i \in 1..(n - l) |-> blocks[l + i]]
  <2>2. /\ n - 1 - l \in Nat /\ (n - 1 - l) + 1 = n - l /\ \A i \in 1..(n - l) : f[i] \in S /\ f[i] = blocks[l + i]
        /\ f[n - l] = blocks[n]
    BY <1>1, <1>2
  <2>3. list = [i \in 1..(n - 1 - l) |-> f[i]]
    BY <1>1, <2>2
  <2>4. f = [i \in 1..(n - l) |-> f[i]]
    OBVIOUS
  <2> HIDE DEF f
  <2>5. Append([i \in 1..(n - 1 - l) |-> f[i]], f[(n - 1 - l) + 1]) = [i \in 1..((n - 1 - l) + 1) |-> f[i]]
    BY <2>2, ListedAppend
  <2>6. Append(list, blocks[n]) = f
    BY <2>2, <2>3, <2>4, <2>5
  <2> QED BY <1>4, <2>1, <2>6 DEF Left, f
<1> QED BY <1>2, <1>3, <1>4

\* What the code keeps is what follows the last bad section.
LEMMA KeptIs ==
  ASSUME NEW S, NEW blocks \in Seq(S), \A b \in S : b.bad \in BOOLEAN
  PROVE  \E l : Left(blocks, Len(blocks), l, Kept(blocks))
<1>0. Len(blocks) \in Nat
  OBVIOUS
<1>1. \E g : KeptSoFar(g, blocks)
  BY <1>0, KeptUpTo DEF KeptSoFar
<1>2. PICK g : KeptSoFar(g, blocks) /\ Kept(blocks) = g[Len(blocks)]
  <2>1. KeptSoFar(CHOOSE g : KeptSoFar(g, blocks), blocks)
    BY <1>1
  <2>2. Kept(blocks) = (CHOOSE g : KeptSoFar(g, blocks))[Len(blocks)]
    BY DEF Kept, KeptSoFar
  <2> QED BY <2>1, <2>2
<1> DEFINE T == {n \in 0..Len(blocks) : ~ \E l : Left(blocks, n, l, g[n])}
<1>3. ASSUME T # {} PROVE FALSE
  <2>1. PICK n \in T : \A m \in T : n <= m
    <3>1. T \subseteq Nat
      OBVIOUS
    <3> HIDE DEF T
    <3> QED BY <1>3, <3>1, Least
  <2>2. n \in 0..Len(blocks) /\ ~ \E l : Left(blocks, n, l, g[n])
    OBVIOUS
  <2>3. CASE n = 0
    <3>1. g[0] = <<>>
      BY <1>0, <1>2 DEF KeptSoFar
    <3>2. LastBad(blocks, 0, 0) /\ <<>> = [i \in 1..(0 - 0) |-> blocks[0 + i]]
      BY DEF LastBad
    <3> QED BY <2>2, <2>3, <3>1, <3>2 DEF Left
  <2>4. CASE n # 0
    <3>1. n \in 1..Len(blocks) /\ n - 1 \in 0..Len(blocks) /\ n - 1 \notin T
      BY <1>0, <2>1, <2>2, <2>4
    <3>2. PICK l : Left(blocks, n - 1, l, g[n - 1])
      BY <3>1
    <3>3. g[n] = IF blocks[n].bad THEN <<>> ELSE Append(g[n - 1], blocks[n])
      BY <1>2, <2>2, <2>4 DEF KeptSoFar
    <3> QED BY <2>2, <3>1, <3>2, <3>3, LeftStep
  <2> QED BY <2>3, <2>4
<1>4. Len(blocks) \notin T
  BY <1>3
<1> QED BY <1>0, <1>2, <1>4

\* So is what the manual leaves of them.
LEMMA RestIs ==
  ASSUME NEW S, NEW blocks \in Seq(S), NEW l, LastBad(blocks, Len(blocks), l)
  PROVE  Rest(blocks) = [i \in 1..(Len(blocks) - l) |-> blocks[l + i]]
<1> DEFINE bads == {n \in DOMAIN blocks : blocks[n].bad}
           N == Len(blocks)
<1>1. /\ N \in Nat /\ DOMAIN blocks = 1..N /\ l \in 0..N /\ (l # 0 => blocks[l].bad)
      /\ \A i \in (l + 1)..N : ~blocks[i].bad
  BY DEF LastBad
<1>2. CASE l = 0
  <2>1. bads = {}
    BY <1>1, <1>2
  <2>2. Rest(blocks) = blocks
    BY <2>1 DEF Rest
  <2>3. blocks = [i \in 1..N |-> blocks[i]]
    OBVIOUS
  <2> QED BY <1>1, <1>2, <2>2, <2>3
<1>3. CASE l # 0
  <2>1. l \in bads /\ \A x \in bads : l >= x /\ x \in Nat
    BY <1>1, <1>3
  <2> HIDE DEF bads
  <2>2. Max(bads) = l
    <3>1. Max(bads) \in bads /\ \A x \in bads : Max(bads) >= x
      BY <2>1 DEF Max
    <3> QED BY <2>1, <3>1
  <2>3. Rest(blocks) = SubSeq(blocks, l + 1, N)
    BY <2>1, <2>2 DEF Rest, bads
  <2>4. SubSeq(blocks, l + 1, N) = [i \in 1..(N - l) |-> blocks[l + i]]
    <3> DEFINE t == SubSeq(blocks, l + 1, N)
    <3>1. /\ l + 1 \in Int /\ N \in Int /\ \A i \in (l + 1)..N : blocks[i] \in S
      BY <1>1
    <3>2. /\ t \in Seq(S) /\ Len(t) = IF l + 1 <= N THEN N - (l + 1) + 1 ELSE 0
          /\ \A i \in 1..(N - (l + 1) + 1) : t[i] = blocks[(l + 1) + i - 1]
      BY <3>1, SubSeqProperties
    <3> HIDE DEF t
    <3>6. N - (l + 1) + 1 = N - l /\ Len(t) = N - l
      <4>1. N \in Nat /\ l \in Nat /\ l <= N
        BY <1>1
      <4> HIDE DEF N
      <4>2. CASE l + 1 <= N
        BY <3>2, <4>1, <4>2
      <4>3. CASE ~(l + 1 <= N)
        BY <3>2, <4>1, <4>3
      <4> QED BY <4>2, <4>3
    <3>3. \A i \in 1..(N - l) : t[i] = blocks[l + i]
      <4>1. \A i \in 1..(N - l) : (l + 1) + i - 1 = l + i
        BY <1>1
      <4> QED BY <3>2, <3>6, <4>1
    <3>4. t = [i \in 1..(N - l) |-> t[i]]
      BY <3>2, <3>6
    <3>5. t = [i \in 1..(N - l) |-> blocks[l + i]]
      BY <3>3, <3>4
    <3> QED BY <3>5 DEF t
  <2> QED BY <2>3, <2>4
<1> QED BY <1>2, <1>3

\* Both are a part of the sections, the same one.
LEMMA KeptIsRest ==
  ASSUME NEW S, NEW blocks \in Seq(S), \A b \in S : b.bad \in BOOLEAN
  PROVE  /\ Kept(blocks) = Rest(blocks) /\ Rest(blocks) \in Seq(S)
         /\ \A i \in 1..Len(Rest(blocks)) : \E j \in 1..Len(blocks) : Rest(blocks)[i] = blocks[j]
<1>1. PICK l : Left(blocks, Len(blocks), l, Kept(blocks))
  BY KeptIs
<1>2. LastBad(blocks, Len(blocks), l) /\ Kept(blocks) = [i \in 1..(Len(blocks) - l) |-> blocks[l + i]]
  BY <1>1 DEF Left
<1>3. Rest(blocks) = [i \in 1..(Len(blocks) - l) |-> blocks[l + i]]
  BY <1>2, RestIs
<1> DEFINE f == [i \in 1..(Len(blocks) - l) |-> blocks[l + i]]
           m == Len(blocks) - l
<1>4. m \in Nat /\ \A i \in 1..m : f[i] \in S /\ l + i \in 1..Len(blocks) /\ f[i] = blocks[l + i]
  <2>1. l \in 0..Len(blocks) /\ Len(blocks) \in Nat
    BY <1>2 DEF LastBad
  <2> QED BY <2>1
<1>5. f = [i \in 1..m |-> f[i]]
  OBVIOUS
<1> HIDE DEF f, m
<1>6. [i \in 1..m |-> f[i]] \in Seq(S) /\ Len([i \in 1..m |-> f[i]]) = m
  BY <1>4, Listed
<1> QED BY <1>2, <1>3, <1>4, <1>5, <1>6 DEF f, m

-----------------------------------------------------------------------------
(* What is known of a file.                                                  *)

LEMMA FileIs ==
  ASSUME file \in Files
  PROVE  /\ file.logs \in Seq(Logs) /\ file.acls \in Seq(Lists) /\ file.devices \in Seq(Blocks)
         /\ file.dflt # None => file.dflt \in Blocks
         /\ Kept(file.logs) = Rest(file.logs) /\ Rest(file.logs) \in Seq(Logs)
         /\ Kept(file.acls) = Rest(file.acls) /\ Rest(file.acls) \in Seq(Lists)
         /\ Given \in Seq(Blocks)
         /\ \A i \in 1..Len(Given) : \E j \in 1..Len(file.devices) : Given[i] = file.devices[j]
<1>1. /\ file.logs \in Seq(Logs) /\ file.acls \in Seq(Lists) /\ file.devices \in Seq(Blocks)
      /\ file.dflt # None => file.dflt \in Blocks
  BY FilesAssumption DEF OrNone
<1>2. /\ \A b \in Logs : b.bad \in BOOLEAN
      /\ \A b \in Lists : b.bad \in BOOLEAN
      /\ \A b \in Blocks : b.bad \in BOOLEAN
  BY DEF Logs, Lists, Blocks
<1> QED BY <1>1, <1>2, KeptIsRest DEF Given

\* What a block becomes is a device.
LEMMA StoredIs ==
  ASSUME NEW b \in Blocks
  PROVE  /\ Stored(b) \in Devices
         /\ Stored(b).shelf = Number(b.shelf, NoShelf) /\ Stored(b).slot = Number(b.slot, NoSlot)
         /\ Stored(b).target = b.target /\ Stored(b).interface = b.interface
         /\ Stored(b).read = There(b.read)
<1>1. /\ b.shelf \in OrNone(Nat) /\ b.slot \in OrNone(Nat) /\ b.target \in OrNone(DOMAIN Kind)
      /\ b.interface \in OrNone(Strings) /\ b.read \in OrNone(Strings)
  BY DEF Blocks
<1>2. Number(b.shelf, NoShelf) \in 0..NoShelf /\ Number(b.slot, NoSlot) \in 0..NoSlot
  BY <1>1, NumberFits, FilesAssumption
<1>3. There(b.read) \in OrNone(Strings)
  BY <1>1 DEF There, OrNone
<1> QED BY <1>1, <1>2, <1>3 DEF Stored, Devices

\* With interfaces and lists as they are read, parseDEV makes that of it.
LEMMA ParsedIs ==
  ASSUME file \in Files, IntsRead, acllist = Rest(file.acls), NEW b,
         \/ \E j \in 1..Len(file.devices) : b = file.devices[j]
         \/ file.dflt # None /\ b = file.dflt
  PROVE  Parsed(b) = Stored(b)
<1>1. b \in Range(file.devices) \cup IF file.dflt = None THEN {} ELSE {file.dflt}
  <2>1. DOMAIN file.devices = 1..Len(file.devices)
    BY FileIs
  <2> QED BY <2>1 DEF Range
<1>2. b.interface # None => b.interface \in intlist
  BY <1>1 DEF IntsRead, Stated
<1> QED BY <1>2 DEF Parsed, Stored, There

\* Every block keeps to what NumbersFit asks of the file.
LEMMA GivenFits ==
  ASSUME NumbersFit, file \in Files
  PROVE  /\ \A i \in 1..Len(Given) :
              /\ Given[i] \in Blocks
              /\ Given[i].slot # None =>
                   Number(Given[i].slot, NoSlot) = Given[i].slot /\ Given[i].slot < NoSlot
              /\ Given[i].shelf # None =>
                   Number(Given[i].shelf, NoShelf) = Given[i].shelf /\ Given[i].shelf < NoShelf
         /\ Usable => /\ file.dflt.slot # None => Number(file.dflt.slot, NoSlot) = file.dflt.slot
                      /\ file.dflt.shelf # None => Number(file.dflt.shelf, NoShelf) = file.dflt.shelf
<1>1. /\ NoSlot \in Nat /\ NoShelf \in Nat
      /\ \A b \in Blocks : b.slot \in OrNone(Nat) /\ b.shelf \in OrNone(Nat)
  BY FilesAssumption DEF Blocks
<1>2. ASSUME NEW i \in 1..Len(Given)
      PROVE  /\ Given[i] \in Blocks
             /\ Given[i].slot # None =>
                  Number(Given[i].slot, NoSlot) = Given[i].slot /\ Given[i].slot < NoSlot
             /\ Given[i].shelf # None =>
                  Number(Given[i].shelf, NoShelf) = Given[i].shelf /\ Given[i].shelf < NoShelf
  <2>1. PICK j \in 1..Len(file.devices) : Given[i] = file.devices[j]
    BY FileIs
  <2>2. Given[i] \in Range(file.devices) /\ Given[i] \in Blocks
    <3>1. DOMAIN file.devices = 1..Len(file.devices)
      BY FileIs
    <3>2. file.devices[j] \in Range(file.devices)
      BY <3>1 DEF Range
    <3>3. file.devices[j] \in Blocks
      BY FileIs
    <3> QED BY <2>1, <3>2, <3>3
  <2>3. /\ Given[i].slot # None => Given[i].slot < NoSlot
        /\ Given[i].shelf # None => Given[i].shelf < NoShelf
    BY <2>2 DEF NumbersFit
  <2>4. /\ Given[i].slot # None => Given[i].slot \in Nat /\ Given[i].slot <= NoSlot
        /\ Given[i].shelf # None => Given[i].shelf \in Nat /\ Given[i].shelf <= NoShelf
    BY <1>1, <2>2, <2>3 DEF OrNone
  <2> QED BY <1>1, <2>2, <2>3, <2>4, NumberFits
<1>3. ASSUME Usable
      PROVE  /\ file.dflt.slot # None => Number(file.dflt.slot, NoSlot) = file.dflt.slot
             /\ file.dflt.shelf # None => Number(file.dflt.shelf, NoShelf) = file.dflt.shelf
  <2>1. /\ file.dflt \in Blocks
        /\ file.dflt.slot # None => file.dflt.slot <= NoSlot
        /\ file.dflt.shelf # None => file.dflt.shelf <= NoShelf
    BY <1>3, FileIs DEF NumbersFit, Usable
  <2> QED BY <1>1, <2>1, NumberFits
<1> QED BY <1>2, <1>3

-----------------------------------------------------------------------------
(* The parts of qaoed_loadconfig before the devices.                         *)

\* Nothing is claimed of a load that goes on, or ends by what it meets outside.
LEMMA RightMeanwhile ==
  ASSUME phase' \notin {"loaded", "refused", "stuck"}
  PROVE  Right'
BY DEF Right, LoadedIsMeant, LoadedIsRight, RefusedIsWrong, Complete

\* createLOG: afterwards there is a target named default, besides those of the file, or
\* the list is closed to a circle.
LEMMA CreateLOGStep ==
  ASSUME LoadInv, CreateLOG
  PROVE  LoadInv'
<1> DEFINE found == Rest(file.logs)
<1>1. /\ file \in Files /\ file' = file /\ k' = 1 /\ devices' = <<>>
      /\ circle' = (found # <<>> /\ "default" \notin Names(found))
      /\ loglist' = IF found = <<>> THEN <<DefaultLog>> ELSE found
      /\ phase' \in {"dead", "openlogs"}
  <2>1. file \in Files /\ k = 1 /\ devices = <<>>
    BY DEF LoadInv, CreateLOG
  <2>2. Kept(file.logs) = found
    BY <2>1, FileIs
  <2> QED BY <2>1, <2>2 DEF CreateLOG
<1>2. found = <<>> => Names(<<DefaultLog>>) = {"default"} \cup Names(found)
  <2> DEFINE t == <<DefaultLog>>
  <2>1. DefaultLog.name = "default"
    BY DEF DefaultLog
  <2>2. Range(t) = {DefaultLog}
    <3>1. DOMAIN t = {1} /\ t[1] = DefaultLog
      OBVIOUS
    <3> HIDE DEF t
    <3> QED BY <3>1 DEF Range
  <2>3. Names(<<>>) = {}
    BY DEF Names, Range
  <2> HIDE DEF t
  <2>4. Names(t) = {"default"}
    BY <2>1, <2>2 DEF Names
  <2> QED BY <2>3, <2>4 DEF t
<1>3. "default" \in Names(found) => Names(found) = {"default"} \cup Names(found)
  OBVIOUS
<1>4. IF circle' THEN NoDefaultLog' ELSE LogsRead'
  <2>1. CASE circle'
    BY <1>1, <2>1 DEF NoDefaultLog
  <2>2. CASE ~circle'
    <3>1. Names(loglist') = {"default"} \cup Names(found)
      <4> HIDE DEF found
      <4> QED BY <1>1, <1>2, <1>3, <2>2
    <3> QED BY <1>1, <2>2, <3>1 DEF LogsRead
  <2> QED BY <2>1, <2>2
<1>5. Right'
  BY <1>1, RightMeanwhile
<1> QED BY <1>1, <1>4, <1>5 DEF LoadInv, Phases, Ended

\* openlogs does not come to its end where no target of the file is named default.
LEMMA OpenLogsStep ==
  ASSUME LoadInv, OpenLogs
  PROVE  LoadInv'
<1>1. /\ phase = "openlogs" /\ file' = file /\ loglist' = loglist
      /\ k' = 1 /\ devices' = <<>>
      /\ phase' \in {"interfaces", "refused", "stuck", "unopened"}
      /\ phase' \in {"refused", "stuck"} => circle
      /\ phase' = "interfaces" => ~circle
  BY DEF OpenLogs, logs, LoadInv
<1>2. file \in Files /\ IF circle THEN NoDefaultLog ELSE LogsRead
  BY <1>1 DEF LoadInv, Ended
<1>3. (phase' = "interfaces" => LogsRead') /\ (NoDefaultLog => NoDefaultLog')
  BY <1>1, <1>2 DEF LogsRead, NoDefaultLog
<1>4. Right'
  <2>1. CASE phase' \in {"refused", "stuck"}
    BY <1>1, <1>2, <1>3, <2>1 DEF Right, LoadedIsMeant, LoadedIsRight, RefusedIsWrong, Complete
  <2>2. CASE phase' \notin {"refused", "stuck"}
    BY <1>1, <2>2, RightMeanwhile
  <2> QED BY <2>1, <2>2
<1> QED BY <1>1, <1>2, <1>3, <1>4 DEF LoadInv, Phases, Ended

\* The file means as many devices as blocks are left of it; what each of them means.
LEMMA MeantIs ==
  ASSUME file \in Files
  PROVE  /\ DOMAIN Meant = 1..Len(Given) /\ Len(Given) \in Nat
         /\ \A i \in 1..Len(Given) :
              Meant[i] = [shelf |-> Pick(Given[i].shelf, OfDefault("shelf", 0)),
                          slot |-> Pick(Given[i].slot, OfDefault("slot", 0) + Unnumbered(Given, i - 1)),
                          target |-> Given[i].target,
                          interface |-> Pick(Given[i].interface, OfDefault("interface", None)),
                          read |-> Pick(There(Given[i].read), There(OfDefault("read", None)))]
<1>1. Given \in Seq(Blocks) /\ DOMAIN Given = 1..Len(Given) /\ Len(Given) \in Nat
  BY FileIs
<1>2. Meant = [i \in 1..Len(Given) |->
                [shelf |-> Pick(Given[i].shelf, OfDefault("shelf", 0)),
                 slot |-> Pick(Given[i].slot, OfDefault("slot", 0) + Unnumbered(Given, i - 1)),
                 target |-> Given[i].target,
                 interface |-> Pick(Given[i].interface, OfDefault("interface", None)),
                 read |-> Pick(There(Given[i].read), There(OfDefault("read", None)))]]
  BY <1>1 DEF Meant, Given
<1> QED BY <1>1, <1>2

\* The default section as the manual and as the code see it.
LEMMA OfDefaultIs ==
  ASSUME NEW otherwise
  PROVE  /\ OfDefault("shelf", otherwise) =
              IF Usable /\ file.dflt.shelf # None THEN file.dflt.shelf ELSE otherwise
         /\ OfDefault("slot", otherwise) =
              IF Usable /\ file.dflt.slot # None THEN file.dflt.slot ELSE otherwise
         /\ OfDefault("interface", otherwise) =
              IF Usable /\ file.dflt.interface # None THEN file.dflt.interface ELSE otherwise
         /\ OfDefault("read", otherwise) =
              IF Usable /\ file.dflt.read # None THEN file.dflt.read ELSE otherwise
BY DEF OfDefault, Usable

\* findINT: a file that names no interface means no device that has one.
LEMMA FindINTStep ==
  ASSUME LoadInv, FindINT
  PROVE  LoadInv'
<1>1. /\ phase = "interfaces" /\ file' = file /\ loglist' = loglist /\ acllist' = acllist
      /\ phase' = IF intlist' = {} THEN "refused" ELSE "lists"
      /\ IntsRead' /\ k' = 1 /\ devices' = <<>>
  BY DEF FindINT, logs, IntsRead, LoadInv
<1>2. file \in Files /\ LogsRead
  BY <1>1 DEF LoadInv, Ended
<1>3. LogsRead'
  BY <1>1, <1>2 DEF LogsRead
<1>4. ASSUME intlist' = {} PROVE ~Present
  <2>1. SUFFICES ASSUME Meant # <<>>
                 PROVE  \E i \in DOMAIN Meant : Meant[i].interface = None
    BY DEF Present
  <2>2. \A b \in Range(file.devices) \cup IF file.dflt = None THEN {} ELSE {file.dflt} :
          b.interface = None
    <3> DEFINE all == Range(file.devices) \cup IF file.dflt = None THEN {} ELSE {file.dflt}
    <3>1. intlist' = file.ints \cup Stated(all)
      BY <1>1 DEF FindINT, IntsRead
    <3> HIDE DEF all
    <3>2. Stated(all) = {}
      BY <1>4, <3>1
    <3>3. \A b \in all : b.interface = None
      BY <3>2 DEF Stated
    <3> QED BY <3>3 DEF all
  <2>3. 1 \in 1..Len(Given)
    <3>1. DOMAIN Meant = 1..Len(Given) /\ Len(Given) \in Nat
      BY <1>2, MeantIs
    <3>2. CASE Len(Given) = 0
      <4>1. DOMAIN Meant = {}
        BY <3>1, <3>2
      <4>2. Meant = <<>>
        <5>1. Meant = [i \in DOMAIN Meant |-> Meant[i]]
          BY DEF Meant
        <5> HIDE DEF Meant
        <5> QED BY <4>1, <5>1
      <4> QED BY <2>1, <4>2
    <3> QED BY <3>1, <3>2
  <2>4. PICK j \in 1..Len(file.devices) : Given[1] = file.devices[j]
    BY <1>2, <2>3, FileIs
  <2>5. Given[1].interface = None
    <3>1. DOMAIN file.devices = 1..Len(file.devices)
      BY <1>2, FileIs
    <3> QED BY <2>2, <2>4, <3>1 DEF Range
  <2>6. Usable => file.dflt.interface = None
    BY <2>2 DEF Usable
  <2>7. Meant[1].interface = Pick(Given[1].interface, OfDefault("interface", None))
    BY <1>2, <2>3, MeantIs
  <2>8. OfDefault("interface", None) = None
    BY <2>6, OfDefaultIs
  <2> QED BY <1>2, <2>3, <2>5, <2>7, <2>8, MeantIs DEF Pick
<1>5. Present' <=> Present
  BY <1>1 DEF Present, Meant, OfDefault, There
<1>6. Right'
  <2>1. CASE intlist' = {}
    BY <1>1, <1>4, <1>5, <2>1 DEF Right, LoadedIsMeant, LoadedIsRight, RefusedIsWrong, Complete
  <2>2. CASE intlist' # {}
    BY <1>1, <2>2, RightMeanwhile
  <2> QED BY <2>1, <2>2
<1> QED BY <1>1, <1>2, <1>3, <1>6 DEF LoadInv, Phases, Ended

\* What was read stays as it is.
LEMMA ReadStays ==
  ASSUME file' = file, loglist' = loglist, intlist' = intlist, acllist' = acllist
  PROVE  /\ LogsRead => LogsRead'
         /\ IntsRead => IntsRead'
         /\ acllist = Rest(file.acls) => (acllist = Rest(file.acls))'
BY DEF LogsRead, IntsRead

LEMMA WildNextStep ==
  ASSUME LoadInv, WildNext
  PROVE  LoadInv'
<1>1. file' = file /\ phase' = "dead"
  BY DEF WildNext
<1>2. Right'
  BY <1>1, RightMeanwhile
<1> QED BY <1>1, <1>2 DEF LoadInv, Phases, Ended

LEMMA ListHurtsStep ==
  ASSUME LoadInv, ListHurts
  PROVE  LoadInv'
<1>1. file' = file /\ phase' = "dead"
  BY DEF ListHurts
<1>2. Right'
  BY <1>1, RightMeanwhile
<1> QED BY <1>1, <1>2 DEF LoadInv, Phases, Ended

\* findACL keeps the lists behind the last bad one.
LEMMA FindACLStep ==
  ASSUME LoadInv, FindACL
  PROVE  LoadInv'
<1>1. /\ phase = "lists" /\ phase' \in {"default", "dead"} /\ k' = 1 /\ devices' = <<>>
      /\ file' = file /\ loglist' = loglist /\ intlist' = intlist /\ acllist' = Kept(file.acls)
  BY DEF FindACL, logs, LoadInv
<1>2. file \in Files /\ LogsRead /\ IntsRead
  BY <1>1 DEF LoadInv, Ended
<1>3. LogsRead' /\ IntsRead'
  BY <1>1, <1>2 DEF LogsRead, IntsRead
<1>4. acllist' = Rest(file'.acls)
  BY <1>1, <1>2, FileIs
<1>5. Right'
  BY <1>1, RightMeanwhile
<1> QED BY <1>1, <1>2, <1>3, <1>4, <1>5 DEF LoadInv, Phases, Ended

\* findDFLT, and no device yet.
LEMMA FindDFLTStep ==
  ASSUME LoadInv, FindDFLT
  PROVE  LoadInv'
<1>1. /\ phase = "default" /\ phase' = "devices" /\ k' = 1 /\ devices' = <<>>
      /\ file' = file /\ loglist' = loglist /\ intlist' = intlist /\ acllist' = acllist
      /\ devdefault' = IF Usable THEN Parsed(file.dflt) ELSE None
  BY DEF FindDFLT, logs, Usable, LoadInv
<1>2. file \in Files /\ LogsRead /\ IntsRead /\ acllist = Rest(file.acls)
  BY <1>1 DEF LoadInv, Ended
<1>3. LogsRead' /\ IntsRead' /\ acllist' = Rest(file'.acls)
  BY <1>1, <1>2, ReadStays
<1>4. DefaultRead'
  <2>1. Usable => Parsed(file.dflt) = Stored(file.dflt)
    BY <1>2, ParsedIs DEF Usable
  <2>2. devdefault' = IF Usable THEN Stored(file.dflt) ELSE None
    BY <1>1, <2>1
  <2>3. DefaultRead' <=> devdefault' = IF Usable THEN Stored(file.dflt) ELSE None
    BY <1>1 DEF DefaultRead, Usable, Stored, There
  <2> QED BY <2>2, <2>3
<1>5. Found(k - 1)'
  <2>1. k' - 1 = 0 /\ LastBad(file'.devices, 0, 0)
    BY <1>1 DEF LastBad
  <2>2. devices' = [i \in 1..(0 - 0) |-> Stored(file.devices[0 + i])']
    BY <1>1
  <2> QED BY <2>1, <2>2 DEF Found
<1>6. k' \in 1..(Len(file'.devices) + 1)
  <2>1. Len(file.devices) \in Nat
    BY <1>2, FileIs
  <2> QED BY <1>1, <2>1
<1>7. Right'
  BY <1>1, RightMeanwhile
<1> QED BY <1>1, <1>2, <1>3, <1>4, <1>5, <1>6, <1>7 DEF LoadInv, Phases, Ended

-----------------------------------------------------------------------------
(* The device blocks.                                                        *)

\* findDEV: one block more.
LEMMA FindDEVStep ==
  ASSUME LoadInv, FindDEV
  PROVE  LoadInv'
<1>1. /\ phase = "devices" /\ phase' = phase /\ k <= Len(file.devices) /\ k' = k + 1
      /\ devices' = IF file.devices[k].bad THEN <<>> ELSE Append(devices, Parsed(file.devices[k]))
      /\ file' = file /\ loglist' = loglist /\ intlist' = intlist /\ acllist' = acllist
      /\ devdefault' = devdefault
  BY DEF FindDEV, logs
<1>2. /\ file \in Files /\ LogsRead /\ IntsRead /\ acllist = Rest(file.acls) /\ DefaultRead
      /\ k \in 1..(Len(file.devices) + 1) /\ Found(k - 1)
  BY <1>1 DEF LoadInv, Ended
<1>3. LogsRead' /\ IntsRead' /\ acllist' = Rest(file'.acls)
  BY <1>1, <1>2, ReadStays
<1>4. DefaultRead'
  BY <1>1, <1>2 DEF DefaultRead, Usable, Stored, There
<1>5. /\ Len(file.devices) \in Nat /\ k \in 1..Len(file.devices) /\ file.devices[k].bad \in BOOLEAN
      /\ \A i \in 1..Len(file.devices) : file.devices[i] \in Blocks
  <2>1. /\ Len(file.devices) \in Nat /\ k \in 1..Len(file.devices)
        /\ \A i \in 1..Len(file.devices) : file.devices[i] \in Blocks
    BY <1>1, <1>2, FileIs
  <2>2. \A b \in Blocks : b.bad \in BOOLEAN
    BY DEF Blocks
  <2> QED BY <2>1, <2>2
<1>6. PICK l \in 0..(k - 1) :
        /\ LastBad(file.devices, k - 1, l)
        /\ devices = [i \in 1..(k - 1 - l) |-> Stored(file.devices[l + i])]
  BY <1>2 DEF Found
<1>7. \E m \in 0..k : /\ LastBad(file.devices, k, m)
                      /\ devices' = [i \in 1..(k - m) |-> Stored(file.devices[m + i])]
  <2>1. CASE file.devices[k].bad
    <3>1. k \in 0..k /\ LastBad(file.devices, k, k)
      BY <1>5, <2>1 DEF LastBad
    <3>2. <<>> = [i \in 1..(k - k) |-> Stored(file.devices[k + i])]
      BY <1>5
    <3> QED BY <1>1, <2>1, <3>1, <3>2
  <2>2. CASE ~file.devices[k].bad
    <3> DEFINE f == [i \in 1..(k - l) |-> Stored(file.devices[l + i])]
    <3>1. l \in 0..k /\ LastBad(file.devices, k, l)
      BY <1>5, <1>6, <2>2 DEF LastBad
    <3>2. /\ k - 1 - l \in Nat /\ (k - 1 - l) + 1 = k - l
          /\ \A i \in 1..(k - l) : l + i \in 1..Len(file.devices) /\ f[i] = Stored(file.devices[l + i])
          /\ f[k - l] = Stored(file.devices[k])
      BY <1>5, <1>6
    <3>3. devices = [i \in 1..(k - 1 - l) |-> f[i]]
      BY <1>6, <3>2
    <3>4. f = [i \in 1..(k - l) |-> f[i]]
      OBVIOUS
    <3> HIDE DEF f
    <3>5. \A i \in 1..(k - l) : f[i] \in Devices
      BY <1>5, <3>2, StoredIs
    <3>6. Append([i \in 1..(k - 1 - l) |-> f[i]], f[(k - 1 - l) + 1]) = [i \in 1..((k - 1 - l) + 1) |-> f[i]]
      BY <3>2, <3>5, ListedAppend
    <3>7. Parsed(file.devices[k]) = Stored(file.devices[k])
      BY <1>2, <1>5, ParsedIs
    <3>8. devices' = f
      BY <1>1, <2>2, <3>2, <3>3, <3>4, <3>6, <3>7
    <3> QED BY <3>1, <3>8 DEF f
  <2> QED BY <1>5, <2>1, <2>2
<1>8. Found(k - 1)'
  <2>1. k' - 1 = k
    BY <1>1, <1>5
  <2>2. \A b : Stored(b)' = Stored(b)
    BY <1>1 DEF Stored, There
  <2> QED BY <1>1, <1>7, <2>1, <2>2 DEF Found
<1>9. k' \in 1..(Len(file'.devices) + 1)
  BY <1>1, <1>5
<1>10. Right'
  BY <1>1, RightMeanwhile
<1> QED BY <1>1, <1>2, <1>3, <1>4, <1>8, <1>9, <1>10 DEF LoadInv, Ended

\* What the default section has in store from one device to the next.
LEMMA DueIs ==
  ASSUME file \in Files, Usable
  PROVE  /\ Due(1) = Number(file.dflt.slot, NoSlot)
         /\ \A n \in Nat : n > 0 =>
              /\ Due(n) \in Nat
              /\ Due(n + 1) = Due(n) + (IF Given[n].slot = None THEN 1 ELSE 0)
<1>1. Number(file.dflt.slot, NoSlot) \in Nat
  <2>1. file.dflt \in Blocks
    BY FileIs DEF Usable
  <2>2. file.dflt.slot \in OrNone(Nat) /\ NoSlot \in Nat
    BY <2>1, FilesAssumption DEF Blocks
  <2> QED BY <2>2, NumberFits
<1>2. /\ Unnumbered(Given, 0) = 0
      /\ \A n \in Nat :
           /\ Unnumbered(Given, n) \in Nat
           /\ Unnumbered(Given, n + 1) =
                Unnumbered(Given, n) + (IF Given[n + 1].slot = None THEN 1 ELSE 0)
  BY UnnumberedIs
<1>3. 1 - 1 = 0 /\ Due(1) = Number(file.dflt.slot, NoSlot) + Unnumbered(Given, 1 - 1)
  BY DEF Due
<1>4. ASSUME NEW n \in Nat, n > 0
      PROVE  /\ Due(n) \in Nat
             /\ Due(n + 1) = Due(n) + (IF Given[n].slot = None THEN 1 ELSE 0)
  <2>1. n - 1 \in Nat /\ (n - 1) + 1 = n /\ (n + 1) - 1 = n
    BY <1>4
  <2>2. /\ Unnumbered(Given, n - 1) \in Nat
        /\ Unnumbered(Given, n) = Unnumbered(Given, n - 1) + (IF Given[n].slot = None THEN 1 ELSE 0)
    BY <1>2, <2>1
  <2>3. /\ Due(n) = Number(file.dflt.slot, NoSlot) + Unnumbered(Given, n - 1)
        /\ Due(n + 1) = Number(file.dflt.slot, NoSlot) + Unnumbered(Given, n)
    BY <2>1 DEF Due
  <2> QED BY <1>1, <2>2, <2>3
<1> QED BY <1>1, <1>2, <1>3, <1>4

\* With no device left of the file, it means none.
LEMMA NoneMeant ==
  ASSUME file \in Files, Len(Given) = 0
  PROVE  ~Present
<1>1. DOMAIN Meant = {}
  BY MeantIs
<1>2. Meant = [i \in DOMAIN Meant |-> Meant[i]]
  BY DEF Meant
<1>3. Meant = <<>>
  BY <1>1, <1>2
<1> QED BY <1>3 DEF Present

\* The devices that were found are those of the blocks that are left.
LEMMA DevicesFoundStep ==
  ASSUME LoadInv, DevicesFound
  PROVE  LoadInv'
<1>1. /\ phase = "devices" /\ k > Len(file.devices) /\ k' = 1 /\ devices' = devices
      /\ phase' = IF devices = <<>> THEN "refused" ELSE "defaults"
      /\ file' = file /\ loglist' = loglist /\ intlist' = intlist /\ acllist' = acllist
      /\ devdefault' = devdefault
  BY DEF DevicesFound, logs
<1>2. /\ file \in Files /\ LogsRead /\ IntsRead /\ acllist = Rest(file.acls) /\ DefaultRead
      /\ k \in 1..(Len(file.devices) + 1) /\ Found(k - 1)
  BY <1>1 DEF LoadInv, Ended
<1>3. LogsRead' /\ IntsRead' /\ acllist' = Rest(file'.acls)
  BY <1>1, <1>2, ReadStays
<1>4. /\ Len(file.devices) \in Nat /\ k - 1 = Len(file.devices)
      /\ Len(Given) \in Nat /\ \A i \in 1..Len(Given) : Given[i] \in Blocks
  <2>1. Len(file.devices) \in Nat /\ Given \in Seq(Blocks)
    BY <1>2, FileIs
  <2> QED BY <1>1, <1>2, <2>1
<1>5. PICK l \in 0..Len(file.devices) :
        /\ LastBad(file.devices, Len(file.devices), l)
        /\ devices = [i \in 1..(Len(file.devices) - l) |-> Stored(file.devices[l + i])]
  BY <1>2, <1>4 DEF Found
<1> DEFINE m == Len(file.devices) - l
<1>6. /\ Given = [i \in 1..m |-> file.devices[l + i]] /\ m \in Nat /\ Len(Given) = m
      /\ \A i \in 1..m : Given[i] = file.devices[l + i]
  <2>1. Given = [i \in 1..m |-> file.devices[l + i]]
    BY <1>2, <1>5, FileIs, RestIs DEF Given
  <2>2. m \in Nat
    BY <1>4, <1>5
  <2> HIDE DEF m
  <2> QED BY <2>1, <2>2
<1>7. /\ devices \in Seq(Devices) /\ Len(devices) = m
      /\ \A i \in 1..m : devices[i] = Stored(Given[i])
  <2> DEFINE f == [i \in 1..m |-> Stored(file.devices[l + i])]
  <2>1. devices = f /\ \A i \in 1..m : f[i] = Stored(Given[i])
    BY <1>5, <1>6
  <2>2. f = [i \in 1..m |-> f[i]]
    OBVIOUS
  <2> HIDE DEF f, m
  <2>3. \A i \in 1..m : f[i] \in Devices
    BY <1>4, <1>6, <2>1, StoredIs
  <2>4. [i \in 1..m |-> f[i]] \in Seq(Devices) /\ Len([i \in 1..m |-> f[i]]) = m
    BY <1>6, <2>3, Listed
  <2> QED BY <2>1, <2>2, <2>4
<1> HIDE DEF m
<1>8. Inherited(1)
  <2>1. \A i \in 1..Len(Given) : ~(i < 1)
    OBVIOUS
  <2>2. ASSUME Usable PROVE Bequest(1)
    <3>1. file.dflt \in Blocks /\ devdefault = Stored(file.dflt)
      BY <1>2, <2>2, FileIs DEF DefaultRead, Usable
    <3>2. devdefault.slot = Due(1)
      BY <1>2, <2>2, <3>1, DueIs, StoredIs
    <3>3. Counting(1)
      BY <3>2 DEF Counting
    <3> QED BY <3>1, <3>3, StoredIs DEF Bequest
  <2>3. ~Usable => devdefault = None
    BY <1>2 DEF DefaultRead
  <2> QED BY <1>6, <1>7, <2>1, <2>2, <2>3 DEF Inherited
<1>9. Inherited(k)'
  <2>1. Inherited(1)'
    BY <1>1, <1>8 DEF Inherited, Heir, Bequest, Counting, Due, Usable, Given, Stored, There
  <2> QED BY <1>1, <2>1 DEF Inherited
<1>10. k' \in 1..(Len(Given') + 1)
  BY <1>1, <1>4 DEF Given
<1>11. Right'
  <2>1. CASE devices = <<>>
    <3>1. Len(Given) = 0
      BY <1>6, <1>7, <2>1
    <3>2. ~Present
      BY <1>2, <3>1, NoneMeant
    <3>3. Present' <=> Present
      BY <1>1 DEF Present, Meant, OfDefault, There
    <3> QED BY <1>1, <2>1, <3>2, <3>3 DEF Right, LoadedIsMeant, LoadedIsRight, RefusedIsWrong, Complete
  <2>2. CASE devices # <<>>
    BY <1>1, <2>2, RightMeanwhile
  <2> QED BY <2>1, <2>2
<1>12. devices # <<>> => Len(Given') > 0
  <2>1. Len(devices) = 0 => devices = <<>>
    BY <1>7
  <2>2. Given' = Given /\ Len(Given) = Len(devices) /\ Len(devices) \in Nat
    BY <1>1, <1>6, <1>7 DEF Given
  <2> QED BY <2>1, <2>2
<1> QED BY <1>1, <1>2, <1>3, <1>9, <1>10, <1>11, <1>12 DEF LoadInv, Phases, Ended

-----------------------------------------------------------------------------
(* The defaults.                                                             *)

\* A device takes what its block leaves open, and is what Heir says.
LEMMA InheritingIs ==
  ASSUME file \in Files, Usable, NEW n, Bequest(n), NEW b \in Blocks,
         b.slot # None => Number(b.slot, NoSlot) = b.slot /\ b.slot < NoSlot,
         b.shelf # None => Number(b.shelf, NoShelf) = b.shelf /\ b.shelf < NoShelf
  PROVE  /\ Inheriting(Stored(b)) \in Devices /\ Heir(Inheriting(Stored(b)), b)
         /\ b.slot = None => Stored(b).slot = NoSlot /\ Inheriting(Stored(b)).slot = devdefault.slot
         /\ b.slot # None => Stored(b).slot # NoSlot /\ Inheriting(Stored(b)).slot = b.slot
<1>1. PICK d : d = Stored(b)
  OBVIOUS
<1>2. PICK e : e = Inheriting(d)
  OBVIOUS
<1>3. /\ d \in Devices
      /\ d.shelf = Number(b.shelf, NoShelf) /\ d.slot = Number(b.slot, NoSlot)
      /\ d.target = b.target /\ d.interface = b.interface /\ d.read = There(b.read)
  BY <1>1, StoredIs
<1>4. /\ devdefault \in Devices /\ devdefault.shelf = Number(file.dflt.shelf, NoShelf)
      /\ devdefault.interface = file.dflt.interface /\ devdefault.read = There(file.dflt.read)
  BY DEF Bequest
<1>5. /\ e.shelf = (IF d.shelf = NoShelf THEN devdefault.shelf ELSE d.shelf)
      /\ e.slot = (IF d.slot = NoSlot THEN devdefault.slot ELSE d.slot)
      /\ e.target = d.target
      /\ e.interface = (IF d.interface = None THEN devdefault.interface ELSE d.interface)
      /\ e.read = (IF d.read = None THEN devdefault.read ELSE d.read)
  BY <1>2, <1>3 DEF Inheriting, Devices
<1>6. e \in Devices
  BY <1>2, <1>3, <1>4 DEF Inheriting, Devices
<1>7. /\ NoSlot \in Nat /\ NoShelf \in Nat
      /\ b.slot # None => b.slot \in Nat
      /\ b.shelf # None => b.shelf \in Nat
  <2>1. b.slot \in OrNone(Nat) /\ b.shelf \in OrNone(Nat)
    BY DEF Blocks
  <2> QED BY <2>1, FilesAssumption DEF OrNone
<1>8. /\ d.shelf = NoShelf <=> b.shelf = None
      /\ d.slot = NoSlot <=> b.slot = None
  <2>1. /\ b.shelf = None => d.shelf = NoShelf
        /\ b.slot = None => d.slot = NoSlot
    BY <1>3 DEF Number
  <2>2. /\ b.shelf # None => d.shelf # NoShelf
        /\ b.slot # None => d.slot # NoSlot
    BY <1>3, <1>7
  <2> QED BY <2>1, <2>2
<1>9. Heir(e, b)
  <2>1. e.shelf = Number(IF b.shelf = None /\ Usable THEN file.dflt.shelf ELSE b.shelf, NoShelf)
    BY <1>3, <1>4, <1>5, <1>8
  <2>2. b.slot # None \/ ~Usable => e.slot = Number(b.slot, NoSlot)
    BY <1>3, <1>5, <1>8
  <2> QED BY <1>3, <1>4, <1>5, <2>1, <2>2 DEF Heir
<1>10. /\ b.slot = None => d.slot = NoSlot /\ e.slot = devdefault.slot
       /\ b.slot # None => d.slot # NoSlot /\ e.slot = b.slot
  BY <1>3, <1>5, <1>8
<1> QED BY <1>1, <1>2, <1>6, <1>9, <1>10

\* slot++ adds one, short of the last value.
LEMMA CountedIs ==
  ASSUME devdefault \in Devices
  PROVE  /\ Counted \in Devices
         /\ devdefault.slot < NoSlot => Counted.slot = devdefault.slot + 1
         /\ Counted.shelf = devdefault.shelf /\ Counted.interface = devdefault.interface
         /\ Counted.read = devdefault.read
<1>1. /\ NoSlot \in Nat /\ NoSlot + 1 > 0 /\ devdefault.slot \in 0..NoSlot
  BY FilesAssumption DEF Devices
<1>2. PICK s : s = (devdefault.slot + 1) % (NoSlot + 1)
  OBVIOUS
<1>3. /\ s \in 0..NoSlot
      /\ devdefault.slot < NoSlot => s = devdefault.slot + 1
  BY <1>1, <1>2
<1>4. Counted = [devdefault EXCEPT !.slot = s]
  BY <1>2 DEF Counted
<1> QED BY <1>3, <1>4 DEF Devices

\* qaoed_devdefaults of one device.
LEMMA InheritedStep ==
  ASSUME NumbersFit, file \in Files, file' = file,
         NEW n \in 1..Len(Given), Inherited(n),
         IF devdefault = None THEN UNCHANGED <<devices, devdefault>>
         ELSE /\ devices' = [devices EXCEPT ![n] = Inheriting(@)]
              /\ devdefault' = IF devices[n].slot = NoSlot THEN Counted ELSE devdefault
  PROVE  Inherited(n + 1)'
<1>1. /\ Len(Given) \in Nat /\ n \in Nat /\ n > 0 /\ devices \in Seq(Devices)
      /\ Len(devices) = Len(Given)
      /\ \A i \in 1..Len(Given) : /\ i < n => Heir(devices[i], Given[i])
                                  /\ ~(i < n) => devices[i] = Stored(Given[i])
      /\ IF Usable THEN Bequest(n) ELSE devdefault = None
  <2>1. Len(Given) \in Nat
    BY FileIs
  <2> QED BY <2>1 DEF Inherited
<1>2. Given' = Given /\ (Usable' <=> Usable)
  BY DEF Given, Usable
<1>3. PICK b : b = Given[n]
  OBVIOUS
<1>4. /\ b \in Blocks /\ devices[n] = Stored(b)
      /\ b.slot # None => Number(b.slot, NoSlot) = b.slot /\ b.slot < NoSlot
      /\ b.shelf # None => Number(b.shelf, NoShelf) = b.shelf /\ b.shelf < NoShelf
  <2>1. ~(n < n)
    BY <1>1
  <2> QED BY <1>1, <1>3, <2>1, GivenFits
<1>5. CASE ~Usable
  <2>1. devices' = devices /\ devdefault' = None
    BY <1>1, <1>5
  <2>2. Heir(Stored(b), b)
    BY <1>4, <1>5, StoredIs DEF Heir
  <2>3. \A i \in 1..Len(Given) : /\ i < n + 1 => Heir(devices[i], Given[i])
                                 /\ ~(i < n + 1) => devices[i] = Stored(Given[i])
    <3>1. \A i \in 1..Len(Given) : i < n + 1 => i < n \/ i = n
      BY <1>1
    <3>2. \A i \in 1..Len(Given) : ~(i < n + 1) => ~(i < n)
      BY <1>1
    <3> QED BY <1>1, <1>3, <1>4, <2>2, <3>1, <3>2
  <2>4. \A i \in 1..Len(Given) : /\ i < n + 1 => Heir(devices[i], Given[i])'
                                 /\ ~(i < n + 1) => devices'[i] = Stored(Given[i])'
    BY <2>1, <2>3 DEF Heir, Stored, There, Usable, Given
  <2> QED BY <1>1, <1>2, <1>5, <2>1, <2>4 DEF Inherited
<1>6. CASE Usable
  <2>1. Bequest(n) /\ devdefault \in Devices /\ devdefault # None
    BY <1>1, <1>6, FilesAssumption DEF Bequest
  <2>2. PICK e : e = Inheriting(Stored(b))
    OBVIOUS
  <2>3. /\ e \in Devices /\ Heir(e, b)
        /\ b.slot = None => devices[n].slot = NoSlot /\ e.slot = devdefault.slot
        /\ b.slot # None => devices[n].slot # NoSlot /\ e.slot = b.slot
    BY <1>4, <1>6, <2>1, <2>2, InheritingIs
  <2>4. /\ devices' = [devices EXCEPT ![n] = e]
        /\ devdefault' = IF b.slot = None THEN Counted ELSE devdefault
    BY <1>4, <2>1, <2>2, <2>3
  <2>5. /\ devices' \in Seq(Devices) /\ Len(devices') = Len(Given)
        /\ devices'[n] = e /\ \A i \in 1..Len(Given) : i # n => devices'[i] = devices[i]
    BY <1>1, <2>3, <2>4
  <2>6. \A i \in 1..Len(Given) : /\ i < n + 1 => Heir(devices'[i], Given[i])
                                 /\ ~(i < n + 1) => devices'[i] = Stored(Given[i])
    <3>1. \A i \in 1..Len(Given) : i < n + 1 => i < n \/ i = n
      BY <1>1
    <3>2. \A i \in 1..Len(Given) : ~(i < n + 1) => ~(i < n) /\ i # n
      BY <1>1
    <3>3. \A i \in 1..Len(Given) : i < n => i # n
      BY <1>1
    <3> QED BY <1>1, <1>3, <2>3, <2>5, <3>1, <3>2, <3>3
  <2>7. \A i \in 1..Len(Given) : /\ i < n + 1 => Heir(devices[i], Given[i])'
                                 /\ ~(i < n + 1) => devices'[i] = Stored(Given[i])'
    BY <2>6 DEF Heir, Stored, There, Usable, Given
  <2>8. /\ devdefault' \in Devices /\ devdefault'.shelf = devdefault.shelf
        /\ devdefault'.interface = devdefault.interface /\ devdefault'.read = devdefault.read
    BY <2>1, <2>4, CountedIs
  <2>9. /\ Due(n) \in Nat /\ NoSlot \in Nat
        /\ Due(n + 1) = Due(n) + (IF b.slot = None THEN 1 ELSE 0)
    BY <1>1, <1>3, <1>6, DueIs, FilesAssumption
  <2>10. \/ /\ devdefault'.slot = Due(n + 1)
            /\ \A i \in 1..n : Given[i].slot = None => devices'[i].slot = Due(i)
         \/ \E i \in 1..n : Given[i].slot = None /\ Due(i) = NoSlot /\ devices'[i].slot = NoSlot
    <3>0. /\ \A i \in 1..(n - 1) : i \in 1..n /\ devices'[i] = devices[i]
          /\ \A i \in 1..n : i \in 1..(n - 1) \/ i = n
          /\ n \in 1..n
      BY <1>1, <2>5
    <3>1. CASE \E i \in 1..(n - 1) : Given[i].slot = None /\ Due(i) = NoSlot /\ devices[i].slot = NoSlot
      BY <3>0, <3>1
    <3>2. CASE /\ devdefault.slot = Due(n)
               /\ \A i \in 1..(n - 1) : Given[i].slot = None => devices[i].slot = Due(i)
      <4>1. CASE b.slot # None
        <5>1. devdefault'.slot = Due(n + 1)
          BY <2>4, <2>9, <3>2, <4>1
        <5> QED BY <1>3, <3>0, <3>2, <4>1, <5>1
      <4>2. CASE b.slot = None /\ Due(n) = NoSlot
        <5>1. devices'[n].slot = NoSlot
          BY <2>3, <2>5, <3>2, <4>2
        <5> QED BY <1>3, <3>0, <4>2, <5>1
      <4>3. CASE b.slot = None /\ Due(n) # NoSlot
        <5>1. devdefault.slot \in 0..NoSlot
          BY <2>1 DEF Devices
        <5>2. devdefault.slot < NoSlot
          BY <2>9, <3>2, <4>3, <5>1
        <5>3. devdefault'.slot = Due(n + 1)
          BY <2>1, <2>4, <2>9, <3>2, <4>3, <5>2, CountedIs
        <5>4. devices'[n].slot = Due(n)
          BY <2>3, <2>5, <3>2, <4>3
        <5> QED BY <3>0, <3>2, <5>3, <5>4
      <4> QED BY <4>1, <4>2, <4>3
    <3> QED BY <2>1, <3>1, <3>2 DEF Bequest, Counting
  <2>11. \A i \in 1..(n + 1) : Due(i)' = Due(i)
    BY DEF Due, Given
  <2>12. Counting(n + 1)'
    <3>1. (n + 1) - 1 = n /\ n + 1 \in 1..(n + 1) /\ \A i \in 1..n : i \in 1..(n + 1)
      BY <1>1
    <3> QED BY <1>2, <2>10, <2>11, <3>1 DEF Counting
  <2>13. Bequest(n + 1)'
    <3>1. /\ devdefault'.shelf = Number(file'.dflt.shelf, NoShelf)
          /\ devdefault'.interface = file'.dflt.interface /\ devdefault'.read = There(file.dflt.read)'
      BY <2>1, <2>8 DEF Bequest, There
    <3> QED BY <2>8, <2>12, <3>1 DEF Bequest
  <2> QED BY <1>1, <1>2, <1>6, <2>5, <2>7, <2>13 DEF Inherited
<1> QED BY <1>5, <1>6

LEMMA DefaultsStep ==
  ASSUME NumbersFit, LoadInv, Defaults
  PROVE  LoadInv'
<1>1. /\ phase = "defaults" /\ phase' = phase /\ k <= Len(devices) /\ k' = k + 1
      /\ file' = file /\ loglist' = loglist /\ intlist' = intlist /\ acllist' = acllist
  BY DEF Defaults, logs
<1>2. /\ file \in Files /\ LogsRead /\ IntsRead /\ acllist = Rest(file.acls)
      /\ k \in 1..(Len(Given) + 1) /\ Inherited(k)
  BY <1>1 DEF LoadInv, Ended
<1>3. LogsRead' /\ IntsRead' /\ acllist' = Rest(file'.acls)
  BY <1>1, <1>2, ReadStays
<1>4. PICK n : n = k
  OBVIOUS
<1>5. n \in 1..Len(Given) /\ k' \in 1..(Len(Given) + 1) /\ k' = n + 1
  <2>1. Len(Given) \in Nat /\ Len(devices) = Len(Given)
    BY <1>2, FileIs DEF Inherited
  <2> QED BY <1>1, <1>2, <1>4, <2>1
<1>6. Inherited(n + 1)'
  <2>1. Inherited(n)
    BY <1>2, <1>4 DEF Inherited
  <2> QED BY <1>1, <1>2, <1>4, <1>5, <2>1, InheritedStep DEF Defaults
<1>7. Inherited(k)'
  BY <1>5, <1>6
<1>8. Given' = Given
  BY <1>1 DEF Given
<1>9. Right'
  BY <1>1, RightMeanwhile
<1> QED BY <1>1, <1>2, <1>3, <1>5, <1>7, <1>8, <1>9 DEF LoadInv, Ended

LEMMA OpenInterfacesStep ==
  ASSUME LoadInv, OpenInterfaces
  PROVE  LoadInv'
<1>1. /\ phase = "defaults" /\ phase' \in {"validate", "unopened"} /\ k > Len(devices)
      /\ file' = file /\ loglist' = loglist /\ intlist' = intlist /\ acllist' = acllist
      /\ devdefault' = devdefault /\ devices' = devices
  BY DEF OpenInterfaces, logs
<1>2. /\ file \in Files /\ LogsRead /\ IntsRead /\ acllist = Rest(file.acls)
      /\ k \in 1..(Len(Given) + 1) /\ Inherited(k) /\ Len(Given) > 0
  BY <1>1 DEF LoadInv, Ended
<1>3. LogsRead' /\ IntsRead' /\ acllist' = Rest(file'.acls) /\ Given' = Given
  BY <1>1, <1>2, ReadStays DEF Given
<1>4. k = Len(Given) + 1
  <2>1. Len(Given) \in Nat /\ Len(devices) = Len(Given)
    BY <1>2, FileIs DEF Inherited
  <2> QED BY <1>1, <1>2, <2>1
<1>5. Inherited(Len(Given) + 1)
  BY <1>2, <1>4
<1>6. Inherited(Len(Given) + 1)'
  BY <1>1, <1>5 DEF Inherited, Heir, Bequest, Counting, Due, Usable, Given, Stored, There
<1>7. Right'
  BY <1>1, RightMeanwhile
<1> QED BY <1>1, <1>2, <1>3, <1>6, <1>7 DEF LoadInv, Phases, Ended

-----------------------------------------------------------------------------
(* The validation.                                                           *)

\* A device whose numbers come from where the manual says is what it means.
LEMMA DeviceMeant ==
  ASSUME NumbersFit, file \in Files, NEW i \in 1..Len(Given),
         NEW d \in Devices, Heir(d, Given[i]),
         Given[i].shelf = None => Usable /\ file.dflt.shelf # None,
         Given[i].slot = None => Usable /\ file.dflt.slot # None /\ d.slot = Due(i)
  PROVE  d = Meant[i]
<1>1. PICK b : b = Given[i]
  OBVIOUS
<1>2. /\ b \in Blocks /\ Heir(d, b)
      /\ b.slot # None => Number(b.slot, NoSlot) = b.slot
      /\ b.shelf # None => Number(b.shelf, NoShelf) = b.shelf
      /\ Usable => /\ file.dflt.slot # None => Number(file.dflt.slot, NoSlot) = file.dflt.slot
                   /\ file.dflt.shelf # None => Number(file.dflt.shelf, NoShelf) = file.dflt.shelf
  BY <1>1, GivenFits
<1>3. PICK e : e = Meant[i]
  OBVIOUS
<1>4. e = [shelf |-> Pick(b.shelf, OfDefault("shelf", 0)),
           slot |-> Pick(b.slot, OfDefault("slot", 0) + Unnumbered(Given, i - 1)),
           target |-> b.target,
           interface |-> Pick(b.interface, OfDefault("interface", None)),
           read |-> Pick(There(b.read), There(OfDefault("read", None)))]
  BY <1>1, <1>3, MeantIs
<1>5. d.shelf = Pick(b.shelf, OfDefault("shelf", 0))
  BY <1>1, <1>2, OfDefaultIs DEF Heir, Pick
<1>6. d.slot = Pick(b.slot, OfDefault("slot", 0) + Unnumbered(Given, i - 1))
  <2>1. CASE b.slot # None
    BY <1>2, <2>1 DEF Heir, Pick
  <2>2. CASE b.slot = None
    <3>1. OfDefault("slot", 0) = Number(file.dflt.slot, NoSlot)
      BY <1>1, <1>2, <2>2, OfDefaultIs
    <3> QED BY <1>1, <2>2, <3>1 DEF Due, Pick
  <2> QED BY <2>1, <2>2
<1>7. d.interface = Pick(b.interface, OfDefault("interface", None))
  BY <1>2, OfDefaultIs DEF Heir, Pick
<1>8. d.read = Pick(There(b.read), There(OfDefault("read", None)))
  <2>1. There(None) = None
    BY DEF There
  <2> QED BY <1>2, <2>1, OfDefaultIs DEF Heir, Pick
<1>9. d.target = b.target
  BY <1>2 DEF Heir
<1>10. d = [shelf |-> d.shelf, slot |-> d.slot, target |-> d.target,
            interface |-> d.interface, read |-> d.read]
  BY DEF Devices
<1> QED BY <1>3, <1>4, <1>5, <1>6, <1>7, <1>8, <1>9, <1>10

\* Two ways to tell that all of them are.
LEMMA AllMeant ==
  ASSUME NumbersFit, file \in Files, Inherited(Len(Given) + 1),
         \A i \in 1..Len(Given) :
           /\ Given[i].shelf = None => Usable /\ file.dflt.shelf # None
           /\ Given[i].slot = None => Usable /\ file.dflt.slot # None /\ devices[i].slot = Due(i)
  PROVE  devices = Meant
<1>1. /\ devices \in Seq(Devices) /\ Len(devices) = Len(Given) /\ Len(Given) \in Nat
      /\ \A i \in 1..Len(Given) : Heir(devices[i], Given[i]) /\ devices[i] \in Devices
  <2>1. Len(Given) \in Nat
    BY FileIs
  <2>2. \A i \in 1..Len(Given) : i < Len(Given) + 1
    BY <2>1
  <2> QED BY <2>1, <2>2 DEF Inherited
<1>2. \A i \in 1..Len(Given) : devices[i] = Meant[i]
  BY <1>1, DeviceMeant
<1>3. devices = [i \in 1..Len(Given) |-> devices[i]]
  BY <1>1
<1>4. Meant = [i \in 1..Len(Given) |-> Meant[i]]
  <2>1. Meant = [i \in DOMAIN Meant |-> Meant[i]]
    BY DEF Meant
  <2> QED BY <2>1, MeantIs
<1> QED BY <1>2, <1>3, <1>4

\* What the default section has stays with Due, or a device got the last slot.
LEMMA CountingEnds ==
  ASSUME file \in Files, Usable, Inherited(Len(Given) + 1)
  PROVE  \/ \A i \in 1..Len(Given) : Given[i].slot = None => devices[i].slot = Due(i)
         \/ \E i \in 1..Len(Given) : /\ Given[i].slot = None /\ Due(i) = NoSlot
                                     /\ devices[i].slot = NoSlot
<1>1. (Len(Given) + 1) - 1 = Len(Given)
  BY FileIs
<1> QED BY <1>1 DEF Inherited, Bequest, Counting

LEMMA ValidIsMeant ==
  ASSUME NumbersFit, file \in Files, Inherited(Len(Given) + 1),
         \A i \in DOMAIN devices : Valid(devices[i])
  PROVE  devices = Meant
<1>1. /\ NoSlot \in Nat /\ NoShelf \in Nat
      /\ \A i \in 1..Len(Given) :
           /\ Heir(devices[i], Given[i]) /\ Given[i] \in Blocks /\ devices[i].slot \in 0..NoSlot
           /\ devices[i].slot # NoSlot /\ devices[i].shelf # NoShelf
  <2>1. Len(Given) \in Nat /\ \A i \in 1..Len(Given) : Given[i] \in Blocks
    BY FileIs
  <2>2. /\ devices \in Seq(Devices) /\ Len(devices) = Len(Given)
        /\ \A i \in 1..Len(Given) : i < Len(Given) + 1
    BY <2>1 DEF Inherited
  <2>3. \A i \in 1..Len(Given) : /\ Heir(devices[i], Given[i]) /\ i \in DOMAIN devices
                                 /\ devices[i] \in Devices
    BY <2>2 DEF Inherited
  <2>4. \A d \in Devices : d.slot \in 0..NoSlot
    BY DEF Devices
  <2> QED BY <2>1, <2>3, <2>4, FilesAssumption DEF Valid
<1>2. ASSUME NEW i \in 1..Len(Given), Given[i].shelf = None
      PROVE  Usable /\ file.dflt.shelf # None
  <2>1. devices[i].shelf = Number(IF Usable THEN file.dflt.shelf ELSE None, NoShelf)
    BY <1>1, <1>2 DEF Heir
  <2> QED BY <1>1, <2>1 DEF Number
<1>3. ASSUME NEW i \in 1..Len(Given), Given[i].slot = None
      PROVE  Usable /\ file.dflt.slot # None /\ devices[i].slot = Due(i)
  <2>1. Usable
    <3>1. ~Usable => devices[i].slot = NoSlot
      BY <1>1, <1>3 DEF Heir, Number
    <3> QED BY <1>1, <3>1
  <2>2. devices[i].slot = Due(i)
    BY <1>1, <1>3, <2>1, CountingEnds
  <2>3. ASSUME file.dflt.slot = None PROVE FALSE
    <3>1. Due(i) = NoSlot + Unnumbered(Given, i - 1)
      BY <2>3 DEF Due, Number
    <3>2. i - 1 \in Nat /\ Unnumbered(Given, i - 1) \in Nat
      BY UnnumberedIs
    <3> QED BY <1>1, <2>2, <3>1, <3>2
  <2> QED BY <2>1, <2>2, <2>3
<1> QED BY <1>2, <1>3, AllMeant

LEMMA FaultlessIsMeant ==
  ASSUME NumbersFit, AllStated, file \in Files, Inherited(Len(Given) + 1), InRange
  PROVE  devices = Meant
<1>1. ASSUME NEW i \in 1..Len(Given)
      PROVE  /\ Given[i].shelf = None => Usable /\ file.dflt.shelf # None
             /\ Given[i].slot = None => Usable /\ file.dflt.slot # None
  <2>1. PICK j \in 1..Len(file.devices) : Given[i] = file.devices[j]
    BY FileIs
  <2>2. Given[i] \in Range(file.devices)
    <3>1. DOMAIN file.devices = 1..Len(file.devices)
      BY FileIs
    <3> QED BY <2>1, <3>1 DEF Range
  <2>3. \A field \in {"slot", "shelf"} :
          \/ Given[i][field] # None
          \/ file.dflt # None /\ ~file.dflt.bad /\ file.dflt[field] # None
    BY <2>2 DEF AllStated
  <2>4. /\ Given[i].slot # None \/ (file.dflt # None /\ ~file.dflt.bad /\ file.dflt.slot # None)
        /\ Given[i].shelf # None \/ (file.dflt # None /\ ~file.dflt.bad /\ file.dflt.shelf # None)
    BY <2>3
  <2> QED BY <2>4 DEF Usable
<1>2. ASSUME NEW i \in 1..Len(Given), Given[i].slot = None
      PROVE  devices[i].slot = Due(i)
  <2>1. ASSUME NEW j \in 1..Len(Given), Given[j].slot = None, Due(j) = NoSlot
        PROVE  FALSE
    <3>1. Usable /\ file.dflt.slot # None
      BY <1>1, <2>1
    <3>2. OfDefault("slot", 0) = Number(file.dflt.slot, NoSlot)
      BY <3>1, OfDefaultIs, GivenFits
    <3>3. Meant[j].slot = Pick(Given[j].slot, OfDefault("slot", 0) + Unnumbered(Given, j - 1))
      BY MeantIs
    <3>4. Meant[j].slot = NoSlot
      BY <2>1, <3>2, <3>3 DEF Pick, Due
    <3>5. Meant[j].slot < NoSlot /\ NoSlot \in Nat
      BY MeantIs, FilesAssumption DEF InRange
    <3> QED BY <3>4, <3>5
  <2> QED BY <1>1, <1>2, <2>1, CountingEnds
<1> QED BY <1>1, <1>2, AllMeant

\* Of what is meant the code asks what the manual asks.
LEMMA SameDemands ==
  ASSUME file \in Files, devices = Meant, devices \in Seq(Devices), Len(Given) > 0,
         LogsRead, acllist = Rest(file.acls)
  PROVE  /\ LogsFound /\ NoClashes /\ (\A i \in DOMAIN devices : Valid(devices[i]))
              => InRange /\ Present /\ Separate
         /\ InRange /\ Present /\ Separate
              => LogsFound /\ NoClashes /\ \A i \in DOMAIN devices : Valid(devices[i])
<1>1. /\ NoSlot \in Nat /\ NoShelf \in Nat
      /\ \A i \in DOMAIN devices : devices[i].slot \in 0..NoSlot /\ devices[i].shelf \in 0..NoShelf
  <2>1. \A d \in Devices : d.slot \in 0..NoSlot /\ d.shelf \in 0..NoShelf
    BY DEF Devices
  <2> QED BY <2>1, FilesAssumption
<1>2. Meant # <<>>
  <2>1. 1 \in DOMAIN Meant
    BY MeantIs
  <2> QED BY <2>1
<1>3. Separate <=> NoClashes
  BY DEF Separate, NoClashes
<1>4. LogsFound <=> \A l \in Range(Rest(file.acls)) :
                      l.log \in {None, "default"} \cup Names(Rest(file.logs))
  BY DEF LogsFound, LogsRead
<1>5. (\A i \in DOMAIN devices : Valid(devices[i])) <=>
        /\ InRange
        /\ \A i \in DOMAIN Meant : /\ Meant[i].interface # None /\ Meant[i].target # None
                                   /\ Kind[Meant[i].target] # "missing"
  <2>1. \A i \in DOMAIN devices : /\ devices[i].slot # NoSlot <=> devices[i].slot < NoSlot
                                  /\ devices[i].shelf # NoShelf <=> devices[i].shelf < NoShelf
    BY <1>1
  <2> QED BY <2>1 DEF Valid, InRange
<1> QED BY <1>2, <1>3, <1>4, <1>5 DEF Present

LEMMA ValidateStep ==
  ASSUME NumbersFit, LoadInv, Validate
  PROVE  LoadInv'
<1>1. /\ phase = "validate" /\ file' = file /\ devices' = devices
      /\ phase' = IF LogsFound /\ NoClashes /\ \A i \in DOMAIN devices : Valid(devices[i])
                    THEN "loaded" ELSE "refused"
  BY DEF Validate
<1>2. /\ file \in Files /\ LogsRead /\ acllist = Rest(file.acls)
      /\ Len(Given) > 0 /\ Inherited(Len(Given) + 1) /\ devices \in Seq(Devices)
  BY <1>1 DEF LoadInv, Ended, Inherited
<1>3. /\ Meant' = Meant /\ (InRange' <=> InRange) /\ (Present' <=> Present)
      /\ (Separate' <=> Separate)
  BY <1>1 DEF InRange, Present, Separate, Meant, OfDefault, There
<1>4. CASE phase' = "loaded"
  <2>1. LogsFound /\ NoClashes /\ \A i \in DOMAIN devices : Valid(devices[i])
    BY <1>1, <1>4
  <2>2. devices = Meant
    BY <1>2, <2>1, ValidIsMeant
  <2>3. InRange /\ Present /\ Separate
    BY <1>2, <2>1, <2>2, SameDemands
  <2>4. Right'
    BY <1>1, <1>3, <1>4, <2>2, <2>3 DEF Right, LoadedIsMeant, LoadedIsRight, RefusedIsWrong, Complete
  <2> QED BY <1>1, <1>2, <1>4, <2>4 DEF LoadInv, Phases, Ended
<1>5. CASE phase' = "refused"
  <2>1. ~(LogsFound /\ NoClashes /\ \A i \in DOMAIN devices : Valid(devices[i]))
    BY <1>1, <1>5
  <2>2. AllStated => ~(InRange /\ Present /\ Separate)
    BY <1>2, <2>1, FaultlessIsMeant, SameDemands
  <2>3. Right'
    BY <1>1, <1>3, <1>5, <2>2 DEF Right, LoadedIsMeant, LoadedIsRight, RefusedIsWrong, Complete
  <2> QED BY <1>1, <1>2, <1>5, <2>3 DEF LoadInv, Phases, Ended
<1> QED BY <1>1, <1>4, <1>5

-----------------------------------------------------------------------------
(* The theorems.                                                             *)

LEMMA LoadStutters ==
  ASSUME LoadInv, UNCHANGED vars
  PROVE  LoadInv'
<1>1. /\ file' = file /\ phase' = phase /\ k' = k /\ loglist' = loglist /\ circle' = circle
      /\ intlist' = intlist /\ acllist' = acllist /\ devdefault' = devdefault /\ devices' = devices
  BY DEF vars, logs
<1>2. /\ LogsRead' <=> LogsRead
      /\ IntsRead' <=> IntsRead
      /\ NoDefaultLog' <=> NoDefaultLog
      /\ DefaultRead' <=> DefaultRead
  BY <1>1 DEF LogsRead, IntsRead, NoDefaultLog, DefaultRead, Usable, Stored, There
<1>3. Found(k - 1)' <=> Found(k - 1)
  BY <1>1 DEF Found, LastBad, Stored, There
<1>4. Given' = Given
  BY <1>1 DEF Given
<1>5. /\ Inherited(k)' <=> Inherited(k)
      /\ Inherited(Len(Given) + 1)' <=> Inherited(Len(Given) + 1)
  BY <1>1, <1>4 DEF Inherited, Heir, Bequest, Counting, Due, Usable, Stored, There
<1>6. Right' <=> Right
  <2>1. Meant' = Meant
    BY <1>1 DEF Meant, OfDefault, There
  <2>2. (InRange' <=> InRange) /\ (Separate' <=> Separate)
    BY <2>1 DEF InRange, Separate
  <2>3. (Present' <=> Present) /\ (Exportable' <=> Exportable)
    BY <1>1, <2>1 DEF Present, Exportable
  <2> QED BY <1>1, <1>2, <2>1, <2>2, <2>3 DEF Right, LoadedIsMeant, LoadedIsRight, RefusedIsWrong, Complete
<1> QED BY <1>1, <1>2, <1>3, <1>4, <1>5, <1>6 DEF LoadInv

LEMMA LoadInit == Init => LoadInv
BY DEF Init, LoadInv, Phases, Ended, Right, LoadedIsMeant, LoadedIsRight, RefusedIsWrong

LEMMA LoadStep ==
  ASSUME NumbersFit, LoadInv, [Next]_vars
  PROVE  LoadInv'
BY CreateLOGStep, OpenLogsStep, FindINTStep, WildNextStep, FindACLStep, ListHurtsStep, FindDFLTStep,
   FindDEVStep, DevicesFoundStep, DefaultsStep, OpenInterfacesStep, ValidateStep, LoadStutters
   DEF Next, Done

LEMMA LoadInvariance ==
  ASSUME NumbersFit
  PROVE  Spec => []LoadInv
<1>1. LoadInv /\ [Next]_vars => LoadInv'
  BY LoadStep
<1> QED BY LoadInit, <1>1, PTL DEF Spec

\* Whatever the sections of a file, if its numbers are in the range of the manual, a file
\* that is loaded exports exactly the devices it means: inheritance, the counter that wraps
\* behind 0xff, and the loss of what precedes a bad section never give a device anything
\* else without the validation's refusing the file.
THEOREM LoadsWhatIsMeant ==
  ASSUME NumbersFit
  PROVE  Spec => []LoadedIsMeant
<1>1. LoadInv => LoadedIsMeant
  BY DEF LoadInv, Right
<1>2. Spec => []LoadInv
  BY LoadInvariance
<1> QED BY <1>1, <1>2, PTL

\* Nor is a file loaded in whose rest the manual finds something wrong, but that a target
\* may be there and neither a file nor a block device.
THEOREM LoadsWhatIsRight ==
  ASSUME NumbersFit
  PROVE  Spec => []LoadedIsRight
<1>1. LoadInv => LoadedIsRight
  BY DEF LoadInv, Right
<1>2. Spec => []LoadInv
  BY LoadInvariance
<1> QED BY <1>1, <1>2, PTL

\* A file that is refused, or that openlogs never comes to the end of, has something
\* wrong, or log targets and no default one; if slots and shelves are stated somewhere.
THEOREM RefusesWhatIsWrong ==
  ASSUME NumbersFit, AllStated
  PROVE  Spec => []RefusedIsWrong
<1>1. LoadInv => RefusedIsWrong
  BY DEF LoadInv, Right
<1>2. Spec => []LoadInv
  BY LoadInvariance
<1> QED BY <1>1, <1>2, PTL

-----------------------------------------------------------------------------
(* The syntax of the configuration. *)

\* Nil is not one of them.
Tokens == Words \cup keywords \cup {"allow"}

-----------------------------------------------------------------------------
(* Positions in a list of tokens. *)

\* What holds at a position if it holds at all that follow holds at every one.
LEMMA Backwards ==
  ASSUME NEW L \in Nat, NEW P,
         \A i \in 1..L : (\A a \in (i + 1)..L : a \in P) => i \in P
  PROVE  \A i \in 1..L : i \in P
<1> DEFINE T == {n \in Nat : n < L /\ L - n \notin P}
<1> SUFFICES ASSUME T # {} PROVE FALSE
  <2>1. ASSUME NEW i \in 1..L, i \notin P PROVE FALSE
    <3>1. L - i \in Nat /\ L - i < L /\ L - (L - i) = i
      OBVIOUS
    <3>2. L - i \in T
      BY <2>1, <3>1
    <3> QED BY <3>2
  <2> QED BY <2>1
<1>1. PICK n \in T : \A m \in T : n <= m
  <2>1. T \subseteq Nat
    OBVIOUS
  <2> HIDE DEF T
  <2> QED BY <2>1, Least
<1>2. n \in Nat /\ n < L /\ L - n \in 1..L /\ L - n \notin P
  OBVIOUS
<1>3. ASSUME NEW a \in ((L - n) + 1)..L PROVE a \in P
  <2>1. L - a \in Nat /\ L - a < n /\ L - (L - a) = a /\ L - a < L
    BY <1>2
  <2>2. L - a \notin T
    <3> HIDE DEF T
    <3> QED BY <1>1, <1>2, <2>1
  <2> QED BY <2>1, <2>2
<1> QED BY <1>2, <1>3

-----------------------------------------------------------------------------
(* Signs. *)

Opening   == "{"
Closing   == "}"
Equals    == "="
Semicolon == ";"

-----------------------------------------------------------------------------
(* Open braces. *)

Turn(sign) == IF sign = Opening THEN 1 ELSE IF sign = Closing THEN -1 ELSE 0

\* Signs of one kind.
Those(t, s, i, j) == {n \in i..j : t[n] = s}

\* They are counted one after the other.
LEMMA CountedOn ==
  ASSUME NEW t, NEW s, NEW i \in Int, NEW j \in Int, j >= i - 1
  PROVE  /\ Cardinality(Those(t, s, i, i - 1)) = 0
         /\ Cardinality(Those(t, s, i, j)) \in Nat
         /\ Cardinality(Those(t, s, i, j + 1)) =
              Cardinality(Those(t, s, i, j)) + (IF t[j + 1] = s THEN 1 ELSE 0)
<1>1. Those(t, s, i, i - 1) = {} /\ Cardinality({}) = 0
  BY FS_EmptySet DEF Those
<1>2. IsFiniteSet(i..j) /\ Those(t, s, i, j) \subseteq i..j
  BY FS_Interval DEF Those
<1>3. IsFiniteSet(Those(t, s, i, j)) /\ Cardinality(Those(t, s, i, j)) \in Nat
  BY <1>2, FS_Subset, FS_CardinalityType
<1>4. CASE t[j + 1] = s
  <2>1. Those(t, s, i, j + 1) = Those(t, s, i, j) \cup {j + 1} /\ j + 1 \notin Those(t, s, i, j)
    BY <1>4 DEF Those
  <2>2. Cardinality(Those(t, s, i, j) \cup {j + 1}) = Cardinality(Those(t, s, i, j)) + 1
    BY <1>3, <2>1, FS_AddElement
  <2>3. Cardinality(Those(t, s, i, j + 1)) = Cardinality(Those(t, s, i, j)) + 1
    BY <2>1, <2>2
  <2> QED BY <1>1, <1>3, <1>4, <2>3
<1>5. CASE t[j + 1] # s
  <2>1. Those(t, s, i, j + 1) = Those(t, s, i, j)
    BY <1>5 DEF Those
  <2> QED BY <1>1, <1>3, <1>5, <2>1
<1> QED BY <1>4, <1>5

Onward(t, i, j) == Cardinality(Those(t, Opening, i, j))
Rightwise(t, i, j) == Cardinality(Those(t, Closing, i, j))

LEMMA OpenIs ==
  ASSUME NEW t, NEW i, NEW j, NEW c
  PROVE  Open(t, i, j, c) = c + Onward(t, i, j) - Rightwise(t, i, j)
BY DEF Open, Onward, Rightwise, Those, Opening, Closing

LEMMA OpenOn ==
  ASSUME NEW t, NEW i \in Int, NEW c \in Int, NEW j \in Int, j >= i - 1
  PROVE  /\ Open(t, i, i - 1, c) = c
         /\ Open(t, i, j, c) \in Int
         /\ Open(t, i, j + 1, c) = Open(t, i, j, c) + Turn(t[j + 1])
<1>1. /\ Onward(t, i, i - 1) = 0 /\ Onward(t, i, j) \in Nat
      /\ Onward(t, i, j + 1) = Onward(t, i, j) + (IF t[j + 1] = Opening THEN 1 ELSE 0)
  BY CountedOn DEF Onward
<1>2. /\ Rightwise(t, i, i - 1) = 0 /\ Rightwise(t, i, j) \in Nat
      /\ Rightwise(t, i, j + 1) = Rightwise(t, i, j) + (IF t[j + 1] = Closing THEN 1 ELSE 0)
  BY CountedOn DEF Rightwise
<1>3. Opening # Closing
  BY DEF Opening, Closing
<1> QED BY <1>1, <1>2, <1>3, OpenIs DEF Turn

\* Braces are open up to m, and then from there.
LEMMA OpenFrom ==
  ASSUME NEW t, NEW i \in Int, NEW c \in Int, NEW m \in Int, m >= i - 1
  PROVE  \A j \in Int : j >= m => Open(t, i, j, c) = Open(t, m + 1, j, Open(t, i, m, c))
<1> DEFINE T == {n \in Nat : Open(t, i, m + n, c) # Open(t, m + 1, m + n, Open(t, i, m, c))}
<1> SUFFICES ASSUME T # {} PROVE FALSE
  <2>1. ASSUME NEW j \in Int, j >= m, Open(t, i, j, c) # Open(t, m + 1, j, Open(t, i, m, c))
        PROVE  FALSE
    <3>1. j - m \in Nat /\ m + (j - m) = j
      BY <2>1
    <3>2. j - m \in T
      BY <2>1, <3>1
    <3> QED BY <3>2
  <2> QED BY <2>1
<1>1. PICK n \in T : \A w \in T : n <= w
  <2>1. T \subseteq Nat
    OBVIOUS
  <2> HIDE DEF T
  <2> QED BY <2>1, Least
<1>2. n \in Nat /\ Open(t, i, m + n, c) # Open(t, m + 1, m + n, Open(t, i, m, c))
  OBVIOUS
<1>3. n # 0
  BY <1>2, OpenOn
<1>4. n - 1 \in Nat /\ n - 1 \notin T
  <2> HIDE DEF T
  <2> QED BY <1>1, <1>2, <1>3
<1>5. Open(t, i, m + (n - 1), c) = Open(t, m + 1, m + (n - 1), Open(t, i, m, c))
  BY <1>4
<1> DEFINE w == m + (n - 1)
<1>6. w \in Int /\ w >= i - 1 /\ w >= (m + 1) - 1 /\ w + 1 = m + n
  BY <1>2, <1>4
<1>7. Open(t, i, m, c) \in Int
  BY OpenOn
<1> HIDE DEF w
<1>8. Open(t, i, w + 1, c) = Open(t, i, w, c) + Turn(t[w + 1])
  BY <1>6, OpenOn
<1>9. Open(t, m + 1, w + 1, Open(t, i, m, c)) = Open(t, m + 1, w, Open(t, i, m, c)) + Turn(t[w + 1])
  BY <1>6, <1>7, OpenOn
<1> QED BY <1>2, <1>5, <1>6, <1>8, <1>9 DEF w

\* Those that were open before only add up.
LEMMA OpenBase ==
  ASSUME NEW t, NEW i \in Int, NEW c \in Int, NEW j \in Int, j >= i - 1
  PROVE  Open(t, i, j, c) = c + Open(t, i, j, 0)
<1>1. Onward(t, i, j) \in Nat /\ Rightwise(t, i, j) \in Nat
  BY CountedOn DEF Onward, Rightwise
<1> QED BY <1>1, OpenIs

-----------------------------------------------------------------------------
(* The recursive functions. *)

\* The first brace that closes.
FirstOf(ends) == CHOOSE n \in ends : \A m \in ends : n <= m

\* One cell of parse, with p for those that follow, as the code has it ...
CodeCell(t, p, i, e, cbc) ==
  IF Ends(i, e) THEN <<>>
  ELSE LET sign == Token(t, i + 1)
           ends == Closes(t, i, e, cbc)
           j    == FirstOf(ends)
       IN CASE sign = Beyond -> <<Assignment(Beyond, Beyond)>>
            [] sign = "{" /\ ends # {} -> <<Block(t[i], p[i + 2][j][0])>> \o p[j + 1][e][0]
            [] sign = "{" /\ ends = {} -> p[i + 1][e][Open(t, i + 1, e - 1, cbc)]
            [] sign = "=" -> <<Assignment(t[i], Token(t, i + 2))>> \o p[i + 4][e][cbc]
            [] OTHER -> p[i + 1][e][cbc]

IsCode(t, p) ==
  p = [i \in 1..(Len(t) + 4) |-> [e \in 1..(Len(t) + 1) |-> [cbc \in Int |-> CodeCell(t, p, i, e, cbc)]]]

\* ... and one case after the other.
ParseCell(t, p, i, e, cbc) ==
  IF Ends(i, e) THEN <<>>
  ELSE IF Token(t, i + 1) = Beyond THEN <<Assignment(Beyond, Beyond)>>
  ELSE IF Token(t, i + 1) = Opening /\ Closes(t, i, e, cbc) # {}
    THEN <<Block(t[i], p[i + 2][FirstOf(Closes(t, i, e, cbc))][0])>>
           \o p[FirstOf(Closes(t, i, e, cbc)) + 1][e][0]
  ELSE IF Token(t, i + 1) = Opening THEN p[i + 1][e][Open(t, i + 1, e - 1, cbc)]
  ELSE IF Token(t, i + 1) = Equals
    THEN <<Assignment(t[i], Token(t, i + 2))>> \o p[i + 4][e][cbc]
  ELSE p[i + 1][e][cbc]

ParseRow(t, p, i) ==
  [e \in 1..(Len(t) + 1) |-> [cbc \in Int |-> ParseCell(t, p, i, e, cbc)]]

IsParse(t, p) == p = [i \in 1..(Len(t) + 4) |-> ParseRow(t, p, i)]

\* What recursiveparse makes of tokens i to e - 1 with cbc braces open.
Parse(t, i, e, cbc) == (CHOOSE p : IsCode(t, p))[i][e][cbc]

LEMMA FirstIs ==
  ASSUME NEW ends, ends \subseteq Nat, ends # {}
  PROVE  FirstOf(ends) \in ends /\ \A m \in ends : FirstOf(ends) <= m
BY Least DEF FirstOf

LEMMA ParseByRows ==
  ASSUME NEW t, NEW ts, NEW te
  PROVE  recursiveparse(t, ts, te) = Parse(t, ts, te, 0)
BY DEF recursiveparse, IsCode, CodeCell, FirstOf, Parse

LEMMA CodeIsParse ==
  ASSUME NEW t, NEW p, Nil \notin Tokens
  PROVE  IsCode(t, p) <=> IsParse(t, p)
<1>1. ASSUME NEW i, NEW e, NEW cbc
      PROVE  CodeCell(t, p, i, e, cbc) = ParseCell(t, p, i, e, cbc)
  <2>1. Beyond # "{" /\ Beyond # "="
    BY DEF Tokens, Beyond, keywords, Signs
  <2> QED BY <2>1 DEF CodeCell, ParseCell, Opening, Equals
<1> QED BY <1>1 DEF IsCode, IsParse, ParseRow

LEMMA ClosesIs ==
  ASSUME NEW t, NEW i, NEW e, NEW cbc, NEW j
  PROVE  j \in Closes(t, i, e, cbc) <=>
           j \in (i + 2)..(e - 1) /\ t[j] = Closing /\ Open(t, i + 1, j, cbc) = 0
BY DEF Closes, Closing

\* The brace that ends a block, and what comes next, is within the interval.
LEMMA ClosesIn ==
  ASSUME NEW t, NEW i \in Nat, NEW e \in Nat, NEW cbc, Closes(t, i, e, cbc) # {}
  PROVE  /\ FirstOf(Closes(t, i, e, cbc)) \in (i + 2)..(e - 1)
         /\ FirstOf(Closes(t, i, e, cbc)) \in Closes(t, i, e, cbc)
         /\ \A m \in Closes(t, i, e, cbc) : FirstOf(Closes(t, i, e, cbc)) <= m
<1>1. Closes(t, i, e, cbc) \subseteq (i + 2)..(e - 1) /\ Closes(t, i, e, cbc) \subseteq Nat
  BY ClosesIs
<1> QED BY <1>1, FirstIs

\* A cell depends on the rows behind it only.
LEMMA ParseRowLocal ==
  ASSUME NEW t, Len(t) \in Nat, NEW p, NEW q, NEW i \in 1..(Len(t) + 4),
         \A a \in (i + 1)..(Len(t) + 4) : p[a] = q[a]
  PROVE  ParseRow(t, p, i) = ParseRow(t, q, i)
<1> SUFFICES ASSUME NEW e \in 1..(Len(t) + 1), NEW cbc \in Int
             PROVE  ParseCell(t, p, i, e, cbc) = ParseCell(t, q, i, e, cbc)
  BY DEF ParseRow
<1>1. CASE Ends(i, e)
  BY <1>1 DEF ParseCell
<1>2. CASE ~Ends(i, e)
  <2>1. i + 1 < e
    BY <1>2 DEF Ends
  <2>2. p[i + 1] = q[i + 1] /\ p[i + 2] = q[i + 2] /\ p[i + 4] = q[i + 4]
    BY <2>1
  <2>3. Closes(t, i, e, cbc) # {} =>
          p[FirstOf(Closes(t, i, e, cbc)) + 1] = q[FirstOf(Closes(t, i, e, cbc)) + 1]
    BY <2>1, ClosesIn
  <2> QED BY <2>2, <2>3 DEF ParseCell
<1> QED BY <1>1, <1>2

LEMMA ParseExists ==
  ASSUME NEW t, Len(t) \in Nat
  PROVE  \E p : IsParse(t, p)
<1> DEFINE K == Len(t) + 4
           Good(n, p) == p = [i \in (K - n)..K |-> ParseRow(t, p, i)]
           T == {n \in Nat : n < K /\ ~ \E p : Good(n, p)}
<1>0. K \in Nat /\ K >= 4
  OBVIOUS
<1>1. ASSUME T # {} PROVE FALSE
  <2>1. PICK n \in T : \A m \in T : n <= m
    <3>1. T \subseteq Nat
      OBVIOUS
    <3> HIDE DEF T
    <3> QED BY <1>1, <3>1, Least
  <2>2. n \in Nat /\ n < K /\ ~ \E p : Good(n, p)
    OBVIOUS
  <2>3. PICK p : \A i \in (K - n + 1)..K : p[i] = ParseRow(t, p, i)
    <3>1. CASE n = 0
      BY <1>0, <3>1
    <3>2. CASE n # 0
      <4>1. n - 1 \in Nat /\ n - 1 < K /\ n - 1 \notin T
        <5> HIDE DEF T
        <5> QED BY <1>0, <2>1, <2>2, <3>2
      <4>2. PICK p : Good(n - 1, p)
        BY <4>1
      <4>3. K - (n - 1) = K - n + 1
        BY <1>0, <2>2
      <4> QED BY <4>2, <4>3
    <3> QED BY <3>1, <3>2
  <2> DEFINE q == [i \in (K - n)..K |-> IF i = K - n THEN ParseRow(t, p, i) ELSE p[i]]
  <2>4. ASSUME NEW i \in (K - n)..K PROVE q[i] = ParseRow(t, q, i)
    <3>1. q[i] = ParseRow(t, p, i)
      <4>1. i # K - n => i \in (K - n + 1)..K
        BY <1>0, <2>2
      <4> QED BY <2>3, <4>1
    <3>2. \A a \in (i + 1)..K : p[a] = q[a]
      BY <1>0, <2>2
    <3>3. i \in 1..K
      BY <1>0, <2>2
    <3> HIDE DEF q
    <3>4. ParseRow(t, p, i) = ParseRow(t, q, i)
      BY <3>2, <3>3, ParseRowLocal
    <3> QED BY <3>1, <3>4
  <2>5. Good(n, q)
    <3>1. q = [i \in (K - n)..K |-> q[i]]
      OBVIOUS
    <3> HIDE DEF q
    <3> QED BY <2>4, <3>1
  <2> QED BY <2>2, <2>5
<1>2. K - 1 \in Nat /\ K - 1 < K /\ K - (K - 1) = 1
  BY <1>0
<1>3. PICK p : Good(K - 1, p)
  BY <1>1, <1>2
<1> QED BY <1>2, <1>3 DEF IsParse

\* What recursiveparse does next.
ParseNow(t, i, e, cbc) ==
  IF Ends(i, e) THEN <<>>
  ELSE IF Token(t, i + 1) = Beyond THEN <<Assignment(Beyond, Beyond)>>
  ELSE IF Token(t, i + 1) = Opening /\ Closes(t, i, e, cbc) # {}
    THEN <<Block(t[i], Parse(t, i + 2, FirstOf(Closes(t, i, e, cbc)), 0))>>
           \o Parse(t, FirstOf(Closes(t, i, e, cbc)) + 1, e, 0)
  ELSE IF Token(t, i + 1) = Opening THEN Parse(t, i + 1, e, Open(t, i + 1, e - 1, cbc))
  ELSE IF Token(t, i + 1) = Equals
    THEN <<Assignment(t[i], Token(t, i + 2))>> \o Parse(t, i + 4, e, cbc)
  ELSE Parse(t, i + 1, e, cbc)

LEMMA ParseIs ==
  ASSUME NEW t, Len(t) \in Nat, NEW i \in 1..(Len(t) + 4), NEW e \in 1..(Len(t) + 1), NEW cbc \in Int,
         Nil \notin Tokens
  PROVE  Parse(t, i, e, cbc) = ParseNow(t, i, e, cbc)
<1>1. PICK p : IsParse(t, p) /\ \A a, b, c : Parse(t, a, b, c) = p[a][b][c]
  <2>1. \E p : IsCode(t, p)
    BY ParseExists, CodeIsParse
  <2>2. IsCode(t, CHOOSE p : IsCode(t, p))
    BY <2>1
  <2>3. IsParse(t, CHOOSE p : IsCode(t, p))
    BY <2>2, CodeIsParse
  <2> QED BY <2>3 DEF Parse
<1>2. p[i][e][cbc] = ParseCell(t, p, i, e, cbc)
  <2>1. p[i] = ParseRow(t, p, i)
    BY <1>1 DEF IsParse
  <2>2. ParseRow(t, p, i)[e][cbc] = ParseCell(t, p, i, e, cbc)
    BY DEF ParseRow
  <2> QED BY <2>1, <2>2
<1>3. ParseCell(t, p, i, e, cbc) = ParseNow(t, i, e, cbc)
  BY <1>1 DEF ParseCell, ParseNow
<1> QED BY <1>1, <1>2, <1>3


\* The same for meaning.
Before(item, m) == <<item>> \o m
After(item, rests) == {Before(item, m) : m \in rests}
Around(w, blocks, rests) == {Before(Block(w, b), m) : b \in blocks, m \in rests}
Endings(t, i, e) == {j \in (i + 2)..(e - 1) : t[j] = "}"}

Assigns(t, i, e) == /\ e - i >= 4 /\ t[i] \in Settings
                    /\ t[i + 1] = "=" /\ Rightly(t[i], t[i + 2]) /\ t[i + 3] = ";"
Opens(t, i, e) == e - i >= 3 /\ t[i] \in Sections \cup {"interface"} /\ t[i + 1] = "{"

Blocked(t, p, i, e) == UNION {Around(t[i], p[i + 2][j], p[j + 1][e]) : j \in Endings(t, i, e)}

MeaningCell(t, p, i, e) ==
  IF i >= e THEN {<<>>}
  ELSE IF t[i] = ";" THEN p[i + 1][e]
  ELSE IF Assigns(t, i, e) THEN After(Assignment(t[i], t[i + 2]), p[i + 4][e])
  ELSE IF Opens(t, i, e)
    THEN Blocked(t, p, i, e)
  ELSE {}

MeaningRow(t, p, i) == [e \in 1..(Len(t) + 1) |-> MeaningCell(t, p, i, e)]

IsMeaning(t, p) == p = [i \in 1..(Len(t) + 1) |-> MeaningRow(t, p, i)]

LEMMA MeaningByRows ==
  ASSUME NEW t, NEW ts, NEW te
  PROVE  Meaning(t, ts, te) = (CHOOSE p : IsMeaning(t, p))[ts][te]
BY DEF Meaning, IsMeaning, MeaningRow, MeaningCell, Assigns, Opens, Blocked, Before, After, Around, Endings

LEMMA MeaningCellIs ==
  ASSUME NEW t, NEW p, NEW i, NEW e
  PROVE  MeaningCell(t, p, i, e) =
           IF i >= e THEN {<<>>}
           ELSE IF t[i] = Semicolon THEN p[i + 1][e]
           ELSE IF Assigns(t, i, e) THEN After(Assignment(t[i], t[i + 2]), p[i + 4][e])
           ELSE IF Opens(t, i, e)
             THEN Blocked(t, p, i, e)
           ELSE {}
BY DEF MeaningCell, Semicolon

LEMMA EndingsIs ==
  ASSUME NEW t, NEW i, NEW e, NEW j
  PROVE  j \in Endings(t, i, e) <=> j \in (i + 2)..(e - 1) /\ t[j] = Closing
BY DEF Endings, Closing

LEMMA HeadIs ==
  ASSUME NEW t, NEW i \in Int, NEW e \in Int
  PROVE  /\ Assigns(t, i, e) => /\ e - i >= 4 /\ t[i] \in Settings
                                /\ t[i] # Semicolon /\ t[i] # Opening /\ t[i] # Closing /\ t[i] # Equals
                                /\ t[i + 1] = Equals /\ t[i + 3] = Semicolon /\ ~Opens(t, i, e)
                                /\ Rightly(t[i], t[i + 2])
         /\ Opens(t, i, e) => /\ e - i >= 3 /\ t[i] \in Sections \cup {"interface"}
                              /\ t[i] # Semicolon /\ t[i] # Opening /\ t[i] # Closing /\ t[i] # Equals
                              /\ t[i + 1] = Opening
BY DEF Assigns, Opens, Settings, Numbers, Texts, Free, Sections, Semicolon, Opening, Closing, Equals

LEMMA MeaningRowLocal ==
  ASSUME NEW t, Len(t) \in Nat, NEW p, NEW q, NEW i \in 1..(Len(t) + 1),
         \A a \in (i + 1)..(Len(t) + 1) : p[a] = q[a]
  PROVE  MeaningRow(t, p, i) = MeaningRow(t, q, i)
<1> SUFFICES ASSUME NEW e \in 1..(Len(t) + 1)
             PROVE  MeaningCell(t, p, i, e) = MeaningCell(t, q, i, e)
  BY DEF MeaningRow
<1>0. i \in Int /\ e \in Int
  OBVIOUS
<1>1. i < e => p[i + 1] = q[i + 1]
  OBVIOUS
<1>2. Assigns(t, i, e) => p[i + 4] = q[i + 4]
  <2>1. Assigns(t, i, e) => e - i >= 4
    BY <1>0, HeadIs
  <2>2. Assigns(t, i, e) => i + 4 \in (i + 1)..(Len(t) + 1)
    BY <1>0, <2>1
  <2> QED BY <2>2
<1>3. Opens(t, i, e) => /\ p[i + 2] = q[i + 2]
                        /\ \A j \in Endings(t, i, e) : p[j + 1] = q[j + 1]
  <2>1. Opens(t, i, e) => i + 3 <= e
    BY HeadIs
  <2>2. \A j \in Endings(t, i, e) : j \in (i + 2)..(e - 1)
    BY EndingsIs
  <2> QED BY <2>1, <2>2
<1>4. CASE Opens(t, i, e)
  <2>1. \A j \in Endings(t, i, e) :
          Around(t[i], p[i + 2][j], p[j + 1][e]) = Around(t[i], q[i + 2][j], q[j + 1][e])
    BY <1>3, <1>4
  <2>2. {Around(t[i], p[i + 2][j], p[j + 1][e]) : j \in Endings(t, i, e)}
                 = {Around(t[i], q[i + 2][j], q[j + 1][e]) : j \in Endings(t, i, e)}
    BY <2>1
  <2>3. Blocked(t, p, i, e) = Blocked(t, q, i, e)
    BY <2>2, Zenon DEF Blocked
  <2>4. t[i] # Semicolon /\ i < e /\ ~Assigns(t, i, e)
    <3>1. e - i >= 3 /\ t[i] # Semicolon
      BY <1>0, <1>4, HeadIs
    <3>2. ~Assigns(t, i, e)
      BY <1>0, <1>4, HeadIs
    <3> QED BY <1>0, <3>1, <3>2
  <2> QED BY <1>4, <2>3, <2>4, MeaningCellIs
<1>5. CASE Assigns(t, i, e)
  <2>1. i < e /\ t[i] # Semicolon
    BY <1>0, <1>5, HeadIs
  <2> QED BY <1>2, <1>5, <2>1, MeaningCellIs
<1>6. CASE ~Assigns(t, i, e) /\ ~Opens(t, i, e)
  <2>1. CASE i < e
    <3>1. p[i + 1][e] = q[i + 1][e]
      BY <1>1, <2>1
    <3> QED BY <1>6, <2>1, <3>1, MeaningCellIs
  <2>2. CASE ~(i < e)
    <3>1. i >= e
      BY <1>0, <2>2
    <3> QED BY <3>1, MeaningCellIs
  <2> QED BY <2>1, <2>2
<1> QED BY <1>4, <1>5, <1>6

LEMMA MeaningExists ==
  ASSUME NEW t, Len(t) \in Nat
  PROVE  \E p : IsMeaning(t, p)
<1> DEFINE K == Len(t) + 1
           Good(n, p) == p = [i \in (K - n)..K |-> MeaningRow(t, p, i)]
           T == {n \in Nat : n < K /\ ~ \E p : Good(n, p)}
<1>0. K \in Nat /\ K >= 1
  OBVIOUS
<1>1. ASSUME T # {} PROVE FALSE
  <2>1. PICK n \in T : \A m \in T : n <= m
    <3>1. T \subseteq Nat
      OBVIOUS
    <3> HIDE DEF T
    <3> QED BY <1>1, <3>1, Least
  <2>2. n \in Nat /\ n < K /\ ~ \E p : Good(n, p)
    OBVIOUS
  <2>3. PICK p : \A i \in (K - n + 1)..K : p[i] = MeaningRow(t, p, i)
    <3>1. CASE n = 0
      BY <1>0, <3>1
    <3>2. CASE n # 0
      <4>1. n - 1 \in Nat /\ n - 1 < K /\ n - 1 \notin T
        <5> HIDE DEF T
        <5> QED BY <1>0, <2>1, <2>2, <3>2
      <4>2. PICK p : Good(n - 1, p)
        BY <4>1
      <4>3. K - (n - 1) = K - n + 1
        BY <1>0, <2>2
      <4> QED BY <4>2, <4>3
    <3> QED BY <3>1, <3>2
  <2> DEFINE q == [i \in (K - n)..K |-> IF i = K - n THEN MeaningRow(t, p, i) ELSE p[i]]
  <2>4. ASSUME NEW i \in (K - n)..K PROVE q[i] = MeaningRow(t, q, i)
    <3>1. q[i] = MeaningRow(t, p, i)
      <4>1. i # K - n => i \in (K - n + 1)..K
        BY <1>0, <2>2
      <4> QED BY <2>3, <4>1
    <3>2. \A a \in (i + 1)..K : p[a] = q[a]
      BY <1>0, <2>2
    <3>3. i \in 1..K
      BY <1>0, <2>2
    <3> HIDE DEF q
    <3>4. MeaningRow(t, p, i) = MeaningRow(t, q, i)
      BY <3>2, <3>3, MeaningRowLocal
    <3> QED BY <3>1, <3>4
  <2>5. Good(n, q)
    <3>1. q = [i \in (K - n)..K |-> q[i]]
      OBVIOUS
    <3> HIDE DEF q
    <3> QED BY <2>4, <3>1
  <2> QED BY <2>2, <2>5
<1>2. K - 1 \in Nat /\ K - 1 < K /\ K - (K - 1) = 1
  BY <1>0
<1>3. PICK p : Good(K - 1, p)
  BY <1>1, <1>2
<1> QED BY <1>2, <1>3 DEF IsMeaning

\* How the items that m stands for begin.
NoneLeft(m, i, e) == i >= e /\ m = <<>>
Stray(m, t, i, e) == i < e /\ t[i] = Semicolon /\ m \in Meaning(t, i + 1, e)
Assigned1(m, t, i, e) ==
  Assigns(t, i, e) /\ \E r \in Meaning(t, i + 4, e) : m = Before(Assignment(t[i], t[i + 2]), r)
Enclosed(m, t, i, e) ==
  Opens(t, i, e) /\ \E j \in Endings(t, i, e) :
    \E b \in Meaning(t, i + 2, j), r \in Meaning(t, j + 1, e) : m = Before(Block(t[i], b), r)

LEMMA MeaningIs ==
  ASSUME NEW t, Len(t) \in Nat, NEW i \in 1..(Len(t) + 1), NEW e \in 1..(Len(t) + 1), NEW m
  PROVE  m \in Meaning(t, i, e) <=> \/ NoneLeft(m, i, e) \/ Stray(m, t, i, e)
                                   \/ Assigned1(m, t, i, e) \/ Enclosed(m, t, i, e)
<1>1. PICK p : IsMeaning(t, p) /\ \A a, b : Meaning(t, a, b) = p[a][b]
  <2>1. IsMeaning(t, CHOOSE p : IsMeaning(t, p))
    BY MeaningExists
  <2> QED BY <2>1, MeaningByRows
<1>2. p[i][e] = MeaningCell(t, p, i, e)
  <2>1. p[i] = MeaningRow(t, p, i)
    BY <1>1 DEF IsMeaning
  <2>2. MeaningRow(t, p, i)[e] = MeaningCell(t, p, i, e)
    BY DEF MeaningRow
  <2> QED BY <2>1, <2>2
<1>3. Meaning(t, i, e) = MeaningCell(t, p, i, e) /\ \A a, b : p[a][b] = Meaning(t, a, b)
  BY <1>1, <1>2
<1>4. Meaning(t, i, e) =
           IF i >= e THEN {<<>>}
           ELSE IF t[i] = Semicolon THEN Meaning(t, i + 1, e)
           ELSE IF Assigns(t, i, e) THEN After(Assignment(t[i], t[i + 2]), Meaning(t, i + 4, e))
           ELSE IF Opens(t, i, e)
             THEN UNION {Around(t[i], Meaning(t, i + 2, j), Meaning(t, j + 1, e)) : j \in Endings(t, i, e)}
           ELSE {}
  BY <1>3, MeaningCellIs DEF Blocked
<1>5. CASE i >= e
  BY <1>4, <1>5, HeadIs DEF NoneLeft, Stray, Assigned1, Enclosed
<1>6. CASE i < e /\ t[i] = Semicolon
  BY <1>4, <1>6, HeadIs DEF NoneLeft, Stray, Assigned1, Enclosed
<1>7. CASE Assigns(t, i, e)
  <2>1. Meaning(t, i, e) = After(Assignment(t[i], t[i + 2]), Meaning(t, i + 4, e))
    BY <1>4, <1>7, HeadIs
  <2>2. m \in Meaning(t, i, e) <=> \E r \in Meaning(t, i + 4, e) : m = Before(Assignment(t[i], t[i + 2]), r)
    BY <2>1 DEF After
  <2>3. i < e /\ t[i] # Semicolon /\ ~Opens(t, i, e)
    BY <1>7, HeadIs
  <2> QED BY <1>7, <2>2, <2>3 DEF NoneLeft, Stray, Assigned1, Enclosed
<1>8. CASE Opens(t, i, e)
  <2>1. Meaning(t, i, e) =
          UNION {Around(t[i], Meaning(t, i + 2, j), Meaning(t, j + 1, e)) : j \in Endings(t, i, e)}
    BY <1>4, <1>8, HeadIs
  <2>2. ~Assigns(t, i, e) /\ i < e /\ t[i] # Semicolon
    BY <1>8, HeadIs
  <2>3. m \in Meaning(t, i, e) <=>
          \E j \in Endings(t, i, e) : m \in Around(t[i], Meaning(t, i + 2, j), Meaning(t, j + 1, e))
    BY <2>1
  <2>4. \A w, B, R : m \in Around(w, B, R) <=> \E b \in B, x \in R : m = Before(Block(w, b), x)
    BY DEF Around
  <2> QED BY <1>8, <2>2, <2>3, <2>4 DEF NoneLeft, Stray, Assigned1, Enclosed
<1>9. CASE i < e /\ t[i] # Semicolon /\ ~Assigns(t, i, e) /\ ~Opens(t, i, e)
  BY <1>4, <1>9 DEF NoneLeft, Stray, Assigned1, Enclosed
<1> QED BY <1>5, <1>6, <1>7, <1>8, <1>9

-----------------------------------------------------------------------------
(* Sequences of items. *)

ListedAt(s) == \E S : s \in Seq(S)

LEMMA ListedIs ==
  ASSUME NEW s, ListedAt(s)
  PROVE  Len(s) \in Nat /\ \E S : s \in Seq(S)
BY DEF ListedAt

LEMMA NoneListed == ListedAt(<<>>) /\ Len(<<>>) = 0
<1>1. <<>> \in Seq({}) /\ Len(<<>>) = 0
  OBVIOUS
<1> QED BY <1>1 DEF ListedAt

\* One item, then the others.
LEMMA ItemFirst ==
  ASSUME NEW x, NEW s, ListedAt(s)
  PROVE  /\ ListedAt(<<x>> \o s) /\ Len(<<x>> \o s) = Len(s) + 1
         /\ (<<x>> \o s)[1] = x
         /\ \A n \in 1..Len(s) : (<<x>> \o s)[n + 1] = s[n]
         /\ \A n \in 2..(Len(s) + 1) : (<<x>> \o s)[n] = s[n - 1]
<1>1. PICK S : s \in Seq(S)
  BY DEF ListedAt
<1>2. s \in Seq(S \cup {x}) /\ <<x>> \in Seq(S \cup {x}) /\ Len(<<x>>) = 1 /\ <<x>>[1] = x
  BY <1>1
<1>3. /\ <<x>> \o s \in Seq(S \cup {x}) /\ Len(<<x>> \o s) = Len(s) + 1
      /\ \A n \in 1..(Len(s) + 1) : (<<x>> \o s)[n] = IF n <= 1 THEN <<x>>[n] ELSE s[n - 1]
  BY <1>2
<1>4. ListedAt(<<x>> \o s)
  BY <1>3 DEF ListedAt
<1>5. Len(s) \in Nat
  BY <1>1
<1> QED BY <1>2, <1>3, <1>4, <1>5

\* Both sequences, one behind the other.
LEMMA BothListed ==
  ASSUME NEW a, NEW b, ListedAt(a), ListedAt(b)
  PROVE  /\ ListedAt(a \o b) /\ <<>> \o b = b /\ a \o <<>> = a
         /\ \A x : (<<x>> \o a) \o b = <<x>> \o (a \o b)
<1>1. PICK S, R : a \in Seq(S) /\ b \in Seq(R)
  BY DEF ListedAt
<1>2. a \in Seq(S \cup R) /\ b \in Seq(S \cup R)
  BY <1>1
<1>3. a \o b \in Seq(S \cup R) /\ <<>> \o b = b /\ a \o <<>> = a
  BY <1>2
<1>4. ASSUME NEW x PROVE (<<x>> \o a) \o b = <<x>> \o (a \o b)
  <2>1. <<x>> \in Seq(S \cup R \cup {x}) /\ a \in Seq(S \cup R \cup {x}) /\ b \in Seq(S \cup R \cup {x})
    BY <1>2
  <2> QED BY <2>1
<1>5. ListedAt(a \o b)
  BY <1>3 DEF ListedAt
<1> QED BY <1>3, <1>4, <1>5

-----------------------------------------------------------------------------
(* What is past the end of the tokens. *)

\* An item without a value is made where the tokens end in "=" only.
EndedAt(s, t) ==
  ListedAt(s) /\ \A n \in 1..Len(s) : s[n].value = Nil => Len(t) # 0 /\ t[Len(t)] = Equals

LEMMA EndedOn ==
  ASSUME NEW s, NEW t, EndedAt(s, t), NEW x, x.value = Nil => Len(t) # 0 /\ t[Len(t)] = Equals
  PROVE  EndedAt(<<x>> \o s, t)
<1>1. ListedAt(s) /\ Len(s) \in Nat
  BY ListedIs DEF EndedAt
<1>2. ASSUME NEW n \in 1..(Len(s) + 1)
      PROVE  (<<x>> \o s)[n].value = Nil => Len(t) # 0 /\ t[Len(t)] = Equals
  <2>1. CASE n = 1
    BY <1>1, <2>1, ItemFirst
  <2>2. CASE n # 1
    <3>1. n \in 2..(Len(s) + 1) /\ n - 1 \in 1..Len(s)
      BY <1>1, <2>2
    <3> QED BY <1>1, <3>1, ItemFirst DEF EndedAt
  <2> QED BY <2>1, <2>2
<1> QED BY <1>1, <1>2, ItemFirst DEF EndedAt

LEMMA ValuesAre ==
  ASSUME NEW w, NEW v, NEW items
  PROVE  /\ Assignment(w, v).value = v
         /\ Nil \notin Tokens => Block(w, items).value # Nil
BY DEF Assignment, Block, Tokens, keywords, Signs

LEMMA TokenIs ==
  ASSUME NEW t \in Seq(Words), NEW n \in Nat, n >= 1
  PROVE  /\ n <= Len(t) => Token(t, n) = t[n] /\ t[n] \in Words
         /\ n > Len(t) => Token(t, n) = Nil
BY DEF Token, Beyond

LEMMA ParseEnded ==
  ASSUME NEW t \in Seq(Words), Nil \notin Tokens
  PROVE  \A i \in 1..(Len(t) + 4) : \A c \in Int : EndedAt(Parse(t, i, Len(t) + 1, c), t)
<1> DEFINE e == Len(t) + 1
           P == {i \in Int : \A c \in Int : EndedAt(Parse(t, i, e, c), t)}
<1>0. Len(t) \in Nat /\ e \in 1..(Len(t) + 1) /\ Len(t) + 4 \in Nat
  OBVIOUS
<1>1. ASSUME NEW i \in 1..(Len(t) + 4), \A a \in (i + 1)..(Len(t) + 4) : a \in P
      PROVE  i \in P
  <2> SUFFICES ASSUME NEW c \in Int PROVE EndedAt(Parse(t, i, e, c), t)
    OBVIOUS
  <2> HIDE DEF e
  <2>0. ASSUME NEW a \in (i + 1)..(Len(t) + 4), NEW b \in Int PROVE EndedAt(Parse(t, a, e, b), t)
    BY <1>1
  <2>1. Parse(t, i, e, c) = ParseNow(t, i, e, c)
    BY <1>0, ParseIs
  <2>2. CASE Ends(i, e)
    <3>1. EndedAt(<<>>, t)
      BY NoneListed DEF EndedAt
    <3>2. ParseNow(t, i, e, c) = <<>>
      BY <2>2 DEF ParseNow
    <3> QED BY <2>1, <3>1, <3>2
  <2>3. CASE ~Ends(i, e)
    <3>1. i + 1 <= Len(t) /\ i \in Nat
      BY <1>0, <2>3 DEF e, Ends
    <3>2. Token(t, i + 1) = t[i + 1] /\ t[i + 1] # Beyond
      BY <3>1, TokenIs DEF Tokens, Beyond
    <3>3. CASE Token(t, i + 1) = Opening /\ Closes(t, i, e, c) # {}
      <4> DEFINE j == FirstOf(Closes(t, i, e, c))
      <4>1. j \in (i + 2)..(e - 1)
        BY <1>0, <3>3, ClosesIn
      <4>2. j + 1 \in (i + 1)..(Len(t) + 4) /\ 0 \in Int
        BY <1>0, <4>1 DEF e
      <4>3. ParseNow(t, i, e, c) = <<Block(t[i], Parse(t, i + 2, j, 0))>> \o Parse(t, j + 1, e, 0)
        BY <2>3, <3>2, <3>3 DEF ParseNow
      <4> HIDE DEF j
      <4>4. EndedAt(Parse(t, j + 1, e, 0), t)
        BY <2>0, <4>2
      <4> QED BY <2>1, <4>3, <4>4, EndedOn, ValuesAre
    <3>4. CASE Token(t, i + 1) = Opening /\ Closes(t, i, e, c) = {}
      <4>1. ParseNow(t, i, e, c) = Parse(t, i + 1, e, Open(t, i + 1, e - 1, c))
        BY <2>3, <3>2, <3>4 DEF ParseNow
      <4>2. Open(t, i + 1, e - 1, c) \in Int
        BY <3>1, <1>0, OpenOn DEF e
      <4>3. i + 1 \in (i + 1)..(Len(t) + 4)
        BY <3>1
      <4> QED BY <2>0, <2>1, <4>1, <4>2, <4>3
    <3>5. CASE Token(t, i + 1) = Equals /\ Equals # Opening
      <4>1. ParseNow(t, i, e, c) = <<Assignment(t[i], Token(t, i + 2))>> \o Parse(t, i + 4, e, c)
        BY <2>3, <3>2, <3>5 DEF ParseNow
      <4>2. Token(t, i + 2) = Nil => Len(t) # 0 /\ t[Len(t)] = Equals
        <5>1. CASE i + 2 <= Len(t)
          BY <3>1, <5>1, TokenIs DEF Tokens
        <5>2. CASE i + 1 = Len(t)
          BY <3>1, <3>2, <3>5, <5>2
        <5> QED BY <3>1, <5>1, <5>2
      <4>3. i + 4 \in (i + 1)..(Len(t) + 4)
        BY <3>1
      <4>4. EndedAt(Parse(t, i + 4, e, c), t)
        BY <2>0, <4>3
      <4> QED BY <2>1, <4>1, <4>2, <4>4, EndedOn, ValuesAre
    <3>6. CASE Token(t, i + 1) # Equals /\ Token(t, i + 1) # Opening
      <4>1. ParseNow(t, i, e, c) = Parse(t, i + 1, e, c)
        BY <2>3, <3>2, <3>6 DEF ParseNow
      <4>2. i + 1 \in (i + 1)..(Len(t) + 4)
        BY <3>1
      <4> QED BY <2>0, <2>1, <4>1, <4>2
    <3>7. Equals # Opening
      BY DEF Equals, Opening
    <3> QED BY <3>3, <3>4, <3>5, <3>6, <3>7
  <2> QED BY <2>2, <2>3
<1>2. \A i \in 1..(Len(t) + 4) : i \in P
  <2> HIDE DEF P
  <2> QED BY <1>0, <1>1, Backwards
<1> QED BY <1>2

\* A check that hangs on what is past the end has met a file cut short.
LEMMA LooksCut ==
  ASSUME NEW t, Len(t) \in Nat, Looks(t)
  PROVE  CutShort(t)
<1> DEFINE Near(n) == n \in 1..Len(t) /\ n >= Len(t) - 1 /\ t[n] \in keywords \ Signs
<1>1. ASSUME NEW n, Near(n) PROVE CutShort(t)
  BY <1>1 DEF CutShort
<1>2. CASE checkdatatype(t, TRUE) # checkdatatype(t, FALSE)
  <2>1. PICK n \in Scanned(t) : t[n] \in Sections /\ ~(n < Len(t))
    BY <1>2 DEF checkdatatype
  <2>2. n \in 1..Len(t)
    BY <2>1 DEF Scanned
  <2>3. t[n] \in keywords \ Signs
    BY <2>1 DEF keywords, Signs, Sections
  <2> QED BY <1>1, <2>1, <2>2, <2>3
<1>3. CASE checkargs(t, TRUE) # checkargs(t, FALSE)
  <2>1. PICK n \in 1..Len(t) : t[n] \in DOMAIN arglist /\ n + 2 > Len(t)
    BY <1>3 DEF checkargs
  <2>2. t[n] \in keywords \ Signs
    BY <2>1 DEF keywords, Signs, Texts, Free, arglist
  <2> QED BY <1>1, <2>1, <2>2
<1> QED BY <1>2, <1>3 DEF Looks, Hangs

-----------------------------------------------------------------------------
(* The stack. *)

Sane == /\ MaxOpen \in Nat \ {0} /\ Nil \notin Tokens /\ Nil \notin {"ok", "refused", "exit"}
         /\ \A d \in Inputs : /\ Main \in DOMAIN d /\ \A f \in DOMAIN d : d[f] \in Seq(Words)
                              /\ \A p \in DOMAIN Glob : Glob[p] \in Seq(DOMAIN d)

LEMMA GivenIs == SyntaxAssumption => Sane
BY DEF Sane, Tokens, SyntaxAssumption

\* What is put in the place of all but the first n.
LEMMA PutBack ==
  ASSUME NEW S, NEW s \in Seq(S), NEW n \in 0..Len(s), NEW u \in Seq(S)
  PROVE  /\ SubSeq(s, 1, n) \o u \in Seq(S) /\ Len(SubSeq(s, 1, n) \o u) = n + Len(u)
         /\ \A w \in 1..n : (SubSeq(s, 1, n) \o u)[w] = s[w]
         /\ \A w \in 1..Len(u) : (SubSeq(s, 1, n) \o u)[n + w] = u[w]
<1>1. /\ SubSeq(s, 1, n) \in Seq(S) /\ Len(SubSeq(s, 1, n)) = n
      /\ \A w \in 1..n : SubSeq(s, 1, n)[w] = s[w]
  OBVIOUS
<1> QED BY <1>1

LEMMA FrontIs ==
  ASSUME NEW s
  PROVE  Front(s) = SubSeq(s, 1, Len(s) - 1) /\ Last(s) = s[Len(s)]
BY DEF Front, Last

Frames(d) == [name : DOMAIN d, tokens : Seq(Words), own : Nat, at : Nat, todo : Seq(DOMAIN d)]

\* Tokens end as a file ends that was opened.
Ending(t, d, o) == \E g \in o : d[g] # <<>> /\ t[Len(t)] = d[g][Len(d[g])]

\* A file that was validated has its own tokens first.
Framed(f, d, o) ==
  /\ f \in Frames(d) /\ f.name \in o /\ f.at >= 1
  /\ f.own = 0 => f.tokens = d[f.name] /\ f.todo = <<>>
  /\ f.own # 0 => /\ f.own = Len(d[f.name]) /\ Ending(f.tokens, d, o)
                  /\ \E r \in Seq(Words) : f.tokens = d[f.name] \o r

Stacked(s, d, o) ==
  /\ d \in Inputs /\ s \in Seq(Frames(d)) /\ Len(s) >= 1
  /\ \A l \in 1..Len(s) : Framed(s[l], d, o) /\ (l < Len(s) => s[l].own # 0)

\* The frame on top.
LEMMA TopIs ==
  ASSUME Stacked(stack, disk, opened)
  PROVE  /\ Top = stack[Len(stack)] /\ Framed(Top, disk, opened)
         /\ Top.name \in DOMAIN disk /\ Top.name \in opened /\ Top.tokens \in Seq(Words)
         /\ Top.own \in Nat /\ Top.at \in Nat /\ Top.todo \in Seq(DOMAIN disk)
<1>1. Top = stack[Len(stack)]
  BY FrontIs DEF Top
<1>2. Len(stack) \in 1..Len(stack)
  BY DEF Stacked
<1>3. Framed(stack[Len(stack)], disk, opened)
  BY <1>2 DEF Stacked
<1> QED BY <1>1, <1>2, <1>3 DEF Framed, Frames

\* What may be put in its place, alone or with another on top.
LEMMA Replaced ==
  ASSUME NEW s, NEW o, NEW d, Stacked(s, d, o), NEW n \in 0..(Len(s) - 1), NEW f, Framed(f, d, o)
  PROVE  Stacked(SubSeq(s, 1, n) \o <<f>>, d, o)
<1>1. s \in Seq(Frames(d)) /\ n \in 0..Len(s) /\ <<f>> \in Seq(Frames(d)) /\ Len(<<f>>) = 1 /\ <<f>>[1] = f
  BY DEF Stacked, Framed
<1> DEFINE z == SubSeq(s, 1, n) \o <<f>>
<1>2. /\ z \in Seq(Frames(d)) /\ Len(z) = n + 1
      /\ \A w \in 1..n : z[w] = s[w]
      /\ \A w \in 1..1 : z[n + w] = <<f>>[w]
  BY <1>1, PutBack
<1> HIDE DEF z
<1>3. z[n + 1] = f
  BY <1>1, <1>2
<1>4. \A l \in 1..n : Framed(s[l], d, o) /\ s[l].own # 0
  BY <1>1 DEF Stacked
<1>5. d \in Inputs
  BY DEF Stacked
<1>6. ASSUME NEW l \in 1..(n + 1) PROVE Framed(z[l], d, o) /\ (l < n + 1 => z[l].own # 0)
  <2>1. CASE l <= n
    <3>1. l \in 1..n
      BY <1>1, <2>1
    <3> QED BY <1>2, <1>4, <3>1
  <2>2. CASE l = n + 1
    BY <1>3, <2>2
  <2> QED BY <1>1, <2>1, <2>2
<1>7. Stacked(z, d, o)
  BY <1>1, <1>2, <1>5, <1>6 DEF Stacked
<1> QED BY <1>7 DEF z

LEMMA Pushed ==
  ASSUME NEW s, NEW o, NEW d, Stacked(s, d, o), NEW f, Framed(f, d, o), f.own # 0, NEW g, Framed(g, d, o)
  PROVE  Stacked(SubSeq(s, 1, Len(s) - 1) \o <<f, g>>, d, o)
<1> DEFINE n == Len(s) - 1
           z == SubSeq(s, 1, n) \o <<f, g>>
<1>1. /\ s \in Seq(Frames(d)) /\ n \in 0..Len(s) /\ <<f, g>> \in Seq(Frames(d)) /\ Len(<<f, g>>) = 2
      /\ <<f, g>>[1] = f /\ <<f, g>>[2] = g
  BY DEF Stacked, Framed
<1>4. \A l \in 1..n : Framed(s[l], d, o) /\ s[l].own # 0
  BY <1>1 DEF Stacked
<1> HIDE DEF n
<1>2. /\ z \in Seq(Frames(d)) /\ Len(z) = n + 2
      /\ \A w \in 1..n : z[w] = s[w]
      /\ \A w \in 1..2 : z[n + w] = <<f, g>>[w]
  BY <1>1, PutBack
<1> HIDE DEF z
<1>3. z[n + 1] = f /\ z[n + 2] = g
  BY <1>1, <1>2
<1>5. d \in Inputs
  BY DEF Stacked
<1>6. ASSUME NEW l \in 1..(n + 2) PROVE Framed(z[l], d, o) /\ (l < n + 2 => z[l].own # 0)
  <2>1. CASE l <= n
    <3>1. l \in 1..n
      BY <1>1, <2>1
    <3> QED BY <1>2, <1>4, <3>1
  <2>2. CASE l = n + 1
    BY <1>3, <2>2
  <2>3. CASE l = n + 2
    BY <1>1, <1>3, <2>3
  <2> QED BY <1>1, <2>1, <2>2, <2>3
<1>7. Stacked(z, d, o)
  BY <1>1, <1>2, <1>5, <1>6 DEF Stacked
<1> QED BY <1>7 DEF z, n

LEMMA FreshFramed ==
  ASSUME Sane, NEW o, NEW d \in Inputs, NEW g \in DOMAIN d, g \in o
  PROVE  Framed([name |-> g, tokens |-> d[g], own |-> 0, at |-> 1, todo |-> <<>>], d, o)
<1>1. d[g] \in Seq(Words) /\ <<>> \in Seq(DOMAIN d)
  BY DEF Sane
<1> QED BY <1>1 DEF Framed, Frames

LEMMA ValidatedFramed ==
  ASSUME NEW f, NEW o, NEW d, Framed(f, d, o), f.own = 0, f.tokens # <<>>
  PROVE  Framed([f EXCEPT !.own = Len(f.tokens)], d, o)
<1>1. /\ f \in Frames(d) /\ f.name \in DOMAIN d /\ f.name \in o /\ f.tokens = d[f.name] /\ f.tokens \in Seq(Words)
      /\ f.at >= 1 /\ f.at \in Nat /\ f.todo \in Seq(DOMAIN d)
  BY DEF Framed, Frames
<1>2. Len(f.tokens) \in Nat /\ Len(f.tokens) # 0 /\ f.tokens = f.tokens \o <<>> /\ <<>> \in Seq(Words)
  BY <1>1
<1>3. Ending(f.tokens, d, o)
  BY <1>1 DEF Ending
<1> DEFINE g == [f EXCEPT !.own = Len(f.tokens)]
<1>4. /\ g.name = f.name /\ g.tokens = f.tokens /\ g.own = Len(f.tokens) /\ g.at = f.at /\ g.todo = f.todo
      /\ g \in Frames(d)
  BY <1>1, <1>2 DEF Frames
<1> HIDE DEF g
<1>5. Framed(g, d, o)
  BY <1>1, <1>2, <1>3, <1>4 DEF Framed
<1> QED BY <1>5 DEF g

LEMMA SearchedFramed ==
  ASSUME NEW f, NEW o, NEW d, Framed(f, d, o), f.own # 0, NEW found \in Seq(DOMAIN d)
  PROVE  Framed([f EXCEPT !.at = @ + 1, !.todo = found], d, o)
<1>0. f \in Frames(d) /\ f.at \in Nat
  BY DEF Framed, Frames
<1>1. /\ f.at >= 1 /\ f.name \in o /\ f.own = Len(d[f.name]) /\ Ending(f.tokens, d, o)
      /\ \E r \in Seq(Words) : f.tokens = d[f.name] \o r
  BY DEF Framed, Frames
<1> DEFINE g == [f EXCEPT !.at = @ + 1, !.todo = found]
           h == [f EXCEPT !.at = @ + 1]
<1>2. /\ h.name = f.name /\ h.tokens = f.tokens /\ h.own = f.own /\ h.at = f.at + 1
      /\ h \in Frames(d) /\ g = [h EXCEPT !.todo = found]
  BY <1>0 DEF Frames
<1> HIDE DEF h
<1>3. /\ g.name = f.name /\ g.tokens = f.tokens /\ g.own = f.own /\ g.at = f.at + 1 /\ g.todo = found
      /\ g \in Frames(d)
  BY <1>2 DEF Frames
<1> HIDE DEF g
<1>4. Framed(g, d, o)
  <2>1. g.at >= 1
    BY <1>0, <1>1, <1>3
  <2> QED BY <1>1, <1>3, <2>1 DEF Framed
<1> QED BY <1>4 DEF g

LEMMA NextFramed ==
  ASSUME NEW f, NEW o, NEW d, Framed(f, d, o), f.todo # <<>>
  PROVE  /\ Framed([f EXCEPT !.todo = Tail(@)], d, o) /\ [f EXCEPT !.todo = Tail(@)].own # 0
         /\ Head(f.todo) \in DOMAIN d
<1>1. f \in Frames(d) /\ f.todo \in Seq(DOMAIN d) /\ f.own # 0
  BY DEF Framed, Frames
<1>2. Tail(f.todo) \in Seq(DOMAIN d) /\ Head(f.todo) \in DOMAIN d
  BY <1>1, HeadTailProperties
<1> DEFINE g == [f EXCEPT !.todo = Tail(@)]
<1>3. /\ g.name = f.name /\ g.tokens = f.tokens /\ g.own = f.own /\ g.at = f.at /\ g.todo = Tail(f.todo)
      /\ g \in Frames(d)
  BY <1>1, <1>2 DEF Frames
<1> HIDE DEF g
<1>4. Framed(g, d, o)
  BY <1>1, <1>3 DEF Framed
<1> QED BY <1>1, <1>2, <1>3, <1>4 DEF g

LEMMA BehindIs ==
  ASSUME NEW S, NEW a \in Seq(S), NEW b \in Seq(S)
  PROVE  /\ a \o b \in Seq(S) /\ Len(a \o b) = Len(a) + Len(b)
         /\ Len(b) # 0 => (a \o b)[Len(a \o b)] = b[Len(b)]
OBVIOUS

LEMMA Associates ==
  ASSUME NEW S
  PROVE  \A a, b, c \in Seq(S) : (a \o b) \o c = a \o (b \o c)
BY ConcatAssociative

LEMMA MoreFramed ==
  ASSUME Sane, NEW f, NEW g, NEW o, NEW d \in Inputs, Framed(f, d, o), f.own # 0, Framed(g, d, o), g.own # 0
  PROVE  Framed([f EXCEPT !.tokens = @ \o g.tokens], d, o)
<1>1. /\ f \in Frames(d) /\ f.tokens \in Seq(Words) /\ g.tokens \in Seq(Words) /\ Ending(g.tokens, d, o)
      /\ f.own = Len(d[f.name]) /\ g.own = Len(d[g.name]) /\ f.at >= 1 /\ f.name \in o
      /\ d[f.name] \in Seq(Words) /\ d[g.name] \in Seq(Words)
  BY DEF Framed, Frames, Sane
<1>2. PICK r \in Seq(Words) : f.tokens = d[f.name] \o r
  BY DEF Framed
<1>3. PICK q \in Seq(Words) : g.tokens = d[g.name] \o q
  BY DEF Framed
<1>4. Len(g.tokens) # 0 /\ Len(g.tokens) \in Nat
  BY <1>1, <1>3
<1> DEFINE t == f.tokens \o g.tokens
<1>5. /\ t \in Seq(Words) /\ t[Len(t)] = g.tokens[Len(g.tokens)]
      /\ t = d[f.name] \o (r \o g.tokens) /\ r \o g.tokens \in Seq(Words)
  <2>1. t \in Seq(Words) /\ t[Len(t)] = g.tokens[Len(g.tokens)]
    BY <1>1, <1>4, BehindIs
  <2>2. r \o g.tokens \in Seq(Words) /\ d[f.name] \in Seq(Words) /\ g.tokens \in Seq(Words)
    BY <1>1, <1>2, BehindIs
  <2>3. \A a, c \in Seq(Words) : (a \o r) \o c = a \o (r \o c)
    BY <1>2, Associates
  <2>4. f.tokens \o g.tokens = d[f.name] \o (r \o g.tokens)
    BY <1>2, <2>2, <2>3
  <2> QED BY <2>1, <2>2, <2>4
<1> HIDE DEF t
<1>6. Ending(t, d, o)
  BY <1>1, <1>5 DEF Ending
<1> DEFINE h == [f EXCEPT !.tokens = t]
<1>7. /\ h.name = f.name /\ h.tokens = t /\ h.own = f.own /\ h.at = f.at /\ h.todo = f.todo
      /\ h \in Frames(d)
  BY <1>1, <1>5 DEF Frames
<1> HIDE DEF h
<1>8. Framed(h, d, o)
  BY <1>1, <1>5, <1>6, <1>7 DEF Framed
<1>9. h = [f EXCEPT !.tokens = @ \o g.tokens]
  BY DEF h, t
<1> QED BY <1>8, <1>9

\* As more files are opened.
LEMMA FramedMore ==
  ASSUME NEW f, NEW d, NEW o, NEW p, o \subseteq p, Framed(f, d, o)
  PROVE  Framed(f, d, p)
<1>1. Ending(f.tokens, d, o) => Ending(f.tokens, d, p)
  BY DEF Ending
<1> QED BY <1>1 DEF Framed

LEMMA StackedMore ==
  ASSUME NEW s, NEW d, NEW o, NEW p, o \subseteq p, Stacked(s, d, o)
  PROVE  Stacked(s, d, p)
<1>1. \A l \in 1..Len(s) : Framed(s[l], d, p)
  BY FramedMore DEF Stacked
<1> QED BY <1>1 DEF Stacked

-----------------------------------------------------------------------------
(* Every step keeps the stack. *)

StackInv == Stacked(stack, disk, opened)

\* The same with disk', stack' and opened'.
LEMMA StackPrimed ==
  ASSUME NEW s, NEW o, stack' = s, disk' = disk, opened' = o, Stacked(s, disk, o)
  PROVE  StackInv'
BY DEF StackInv, Stacked, Framed, Frames, Ending

LEMMA ValidateStack == ASSUME StackInv, ValidateTokens PROVE StackInv'
<1>1. /\ Top.own = 0 /\ disk' = disk /\ opened' = opened
      /\ \/ stack' = stack
         \/ /\ Top.tokens # <<>>
            /\ stack' = Front(stack) \o <<[Top EXCEPT !.own = Len(Top.tokens)]>>
  BY DEF ValidateTokens, Replace
<1>2. CASE stack' = stack
  BY <1>1, <1>2, StackPrimed DEF StackInv
<1>3. CASE stack' # stack
  <2> DEFINE f == [Top EXCEPT !.own = Len(Top.tokens)]
  <2>1. Framed(f, disk, opened)
    BY <1>1, <1>3, TopIs, ValidatedFramed DEF StackInv
  <2> HIDE DEF f
  <2>2. Stacked(SubSeq(stack, 1, Len(stack) - 1) \o <<f>>, disk, opened)
    <3>1. Len(stack) - 1 \in 0..(Len(stack) - 1)
      BY DEF StackInv, Stacked
    <3> QED BY <2>1, <3>1, Replaced DEF StackInv
  <2>3. stack' = SubSeq(stack, 1, Len(stack) - 1) \o <<f>>
    BY <1>1, <1>3, FrontIs DEF f
  <2> QED BY <1>1, <2>2, <2>3, StackPrimed
<1> QED BY <1>2, <1>3

LEMMA StandsIn ==
  ASSUME Sane, NEW d \in Inputs, NEW p
  PROVE  Stands(p) \in Seq(DOMAIN d) /\ <<>> \in Seq(DOMAIN d)
<1>1. <<>> \in Seq(DOMAIN d)
  OBVIOUS
<1>2. p \in DOMAIN Glob => Glob[p] \in Seq(DOMAIN d)
  BY DEF Sane
<1> QED BY <1>1, <1>2 DEF Stands

LEMMA IncludeStack == ASSUME Sane, StackInv, Include PROVE StackInv'
<1> DEFINE p == Token(Top.tokens, Top.at + 2)
           found == IF Top.tokens[Top.at] = "include" THEN Stands(p) ELSE <<>>
           f == [Top EXCEPT !.at = @ + 1, !.todo = found]
<1>1. /\ Top.own > 0 /\ disk' = disk /\ opened' = opened
      /\ stack' = stack \/ stack' = Front(stack) \o <<f>>
  BY DEF Include, Reading, Replace
<1>2. found \in Seq(DOMAIN disk)
  <2>1. disk \in Inputs
    BY DEF StackInv, Stacked
  <2> HIDE DEF p
  <2> QED BY <2>1, StandsIn
<1>3. Top.own # 0
  BY <1>1, TopIs DEF StackInv
<1>4. Framed(f, disk, opened)
  <2> HIDE DEF found
  <2> QED BY <1>2, <1>3, TopIs, SearchedFramed DEF StackInv
<1> HIDE DEF f
<1>5. Stacked(SubSeq(stack, 1, Len(stack) - 1) \o <<f>>, disk, opened)
  <2>1. Len(stack) - 1 \in 0..(Len(stack) - 1)
    BY DEF StackInv, Stacked
  <2> QED BY <1>4, <2>1, Replaced DEF StackInv
<1>6. CASE stack' = stack
  BY <1>1, <1>6, StackPrimed DEF StackInv
<1>7. CASE stack' = SubSeq(stack, 1, Len(stack) - 1) \o <<f>>
  BY <1>1, <1>5, <1>7, StackPrimed
<1> QED BY <1>1, <1>6, <1>7, FrontIs

LEMMA OpenNextStack == ASSUME Sane, StackInv, OpenNext PROVE StackInv'
<1> DEFINE f == [Top EXCEPT !.todo = Tail(@)]
           h == Head(Top.todo)
           g == [name |-> h, tokens |-> disk[h], own |-> 0, at |-> 1, todo |-> <<>>]
           o == opened \cup {h}
<1>1. /\ Top.todo # <<>> /\ disk' = disk
      /\ \/ stack' = stack /\ opened' = opened
         \/ stack' = Front(stack) \o <<f, g>> /\ opened' = o
  BY DEF OpenNext, Frame
<1>2. Framed(f, disk, opened) /\ f.own # 0 /\ h \in DOMAIN disk /\ h \in o /\ opened \subseteq o
  BY <1>1, TopIs, NextFramed DEF StackInv
<1> HIDE DEF o
<1>3. Framed(g, disk, o)
  <2>1. disk \in Inputs
    BY DEF StackInv, Stacked
  <2> HIDE DEF h
  <2> QED BY <1>2, <2>1, FreshFramed
<1> HIDE DEF f, g
<1>4. Stacked(SubSeq(stack, 1, Len(stack) - 1) \o <<f, g>>, disk, o)
  <2>1. Stacked(stack, disk, o)
    BY <1>2, StackedMore DEF StackInv
  <2>2. Framed(f, disk, o)
    BY <1>2, FramedMore
  <2> QED BY <1>2, <1>3, <2>1, <2>2, Pushed
<1>6. CASE stack' = stack /\ opened' = opened
  BY <1>1, <1>6, StackPrimed DEF StackInv
<1>7. CASE stack' = SubSeq(stack, 1, Len(stack) - 1) \o <<f, g>> /\ opened' = o
  BY <1>1, <1>4, <1>7, StackPrimed
<1> QED BY <1>1, <1>6, <1>7, FrontIs

LEMMA CloseStack == ASSUME Sane, StackInv, Close PROVE StackInv'
<1> DEFINE n == Len(stack) - 1
           u == stack[n]
           f == [u EXCEPT !.tokens = @ \o Top.tokens]
<1>1. /\ Top.own > 0 /\ disk' = disk /\ opened' = opened /\ Len(stack) > 1
      /\ stack' = SubSeq(stack, 1, Len(stack) - 2) \o <<f>>
  BY DEF Close, Reading
<1>2. Len(stack) \in Nat /\ n \in 1..Len(stack) /\ n < Len(stack) /\ disk \in Inputs
  BY <1>1 DEF StackInv, Stacked
<1>3. Framed(u, disk, opened) /\ u.own # 0
  BY <1>2 DEF StackInv, Stacked
<1>4. Top.own # 0
  BY <1>1, TopIs DEF StackInv
<1>5. Framed(f, disk, opened)
  <2> HIDE DEF u
  <2> QED BY <1>2, <1>3, <1>4, TopIs, MoreFramed DEF StackInv
<1> HIDE DEF f
<1>6. Stacked(SubSeq(stack, 1, Len(stack) - 2) \o <<f>>, disk, opened)
  <2>1. Len(stack) - 2 \in 0..(Len(stack) - 1)
    BY <1>1, <1>2
  <2> QED BY <1>5, <2>1, Replaced DEF StackInv
<1> QED BY <1>1, <1>6, StackPrimed

LEMMA StackStep == ASSUME Sane, StackInv, [SyntaxNext]_syntaxVars PROVE StackInv'
<1>1. CASE ValidateTokens
  BY <1>1, ValidateStack
<1>2. CASE Include
  BY <1>2, IncludeStack
<1>3. CASE OpenNext
  BY <1>3, OpenNextStack
<1>4. CASE Close
  BY <1>4, CloseStack
<1>5. CASE Process \/ UNCHANGED syntaxVars
  <2>1. stack' = stack /\ disk' = disk /\ opened' = opened
    BY <1>5 DEF Process, syntaxVars
  <2> QED BY <2>1, StackPrimed DEF StackInv
<1> QED BY <1>1, <1>2, <1>3, <1>4, <1>5 DEF SyntaxNext

LEMMA StackInit == ASSUME Sane, SyntaxInit PROVE StackInv
<1> DEFINE f == [name |-> Main, tokens |-> disk[Main], own |-> 0, at |-> 1, todo |-> <<>>]
<1>1. disk \in Inputs /\ stack = <<f>> /\ Main \in opened
  BY DEF SyntaxInit, Frame
<1>2. Main \in DOMAIN disk
  BY <1>1 DEF Sane
<1>3. Framed(f, disk, opened)
  BY <1>1, <1>2, FreshFramed
<1> HIDE DEF f
<1>4. f \in Frames(disk)
  BY <1>3 DEF Framed
<1> QED BY <1>1, <1>3, <1>4 DEF StackInv, Stacked

-----------------------------------------------------------------------------
(* Nothing past the end is looked at, unless a file is cut short. *)

BoundsInv == StackInv /\ past \in BOOLEAN /\ InBounds

LEMMA ValidateBounds == ASSUME Sane, BoundsInv, ValidateTokens PROVE InBounds'
<1>1. past' = (past \/ Looks(Top.tokens)) /\ disk' = disk /\ opened' = opened /\ Top.own = 0
  BY DEF ValidateTokens
<1>2. Top.tokens = disk[Top.name] /\ Top.name \in opened
  BY <1>1, TopIs DEF BoundsInv, StackInv, Framed
<1>3. Len(Top.tokens) \in Nat
  BY TopIs DEF BoundsInv, StackInv
<1>4. CASE past
  BY <1>1, <1>4 DEF BoundsInv, InBounds
<1>5. CASE Looks(Top.tokens)
  <2>1. CutShort(disk[Top.name])
    BY <1>2, <1>3, <1>5, LooksCut
  <2> QED BY <1>1, <1>2, <2>1 DEF InBounds
<1>6. CASE ~past /\ ~Looks(Top.tokens)
  BY <1>1, <1>6 DEF InBounds
<1> QED BY <1>4, <1>5, <1>6

LEMMA IncludeBounds == ASSUME Sane, BoundsInv, Include PROVE InBounds'
<1> DEFINE t == Top.tokens
           n == Top.at
           g == Top.name
<1>1. /\ past' = (past \/ (t[n] = "include" /\ Token(t, n + 2) = Beyond)) /\ disk' = disk /\ opened' = opened
      /\ Top.own > 0 /\ n <= Top.own
  BY DEF Include, Reading, Limit
<1>2. /\ t \in Seq(Words) /\ n \in Nat /\ n >= 1 /\ g \in opened /\ Top.own \in Nat
      /\ Top.own = Len(disk[g]) /\ disk[g] \in Seq(Words)
      /\ \E r \in Seq(Words) : t = disk[g] \o r
  <2>1. /\ Framed(Top, disk, opened) /\ t \in Seq(Words) /\ n \in Nat /\ g \in DOMAIN disk
        /\ Top.own \in Nat /\ disk \in Inputs /\ g \in opened
    BY TopIs DEF BoundsInv, StackInv, Stacked
  <2>2. Top.own # 0
    BY <1>1, <2>1
  <2>3. disk[g] \in Seq(Words)
    BY <2>1 DEF Sane
  <2> QED BY <2>1, <2>2, <2>3 DEF Framed
<1>3. n \in 1..Len(disk[g]) /\ t[n] = disk[g][n] /\ Len(disk[g]) <= Len(t)
  BY <1>1, <1>2
<1>4. CASE past
  BY <1>1, <1>4 DEF BoundsInv, InBounds
<1>5. CASE t[n] = "include" /\ Token(t, n + 2) = Beyond
  <2> HIDE DEF t, n, g
  <2>1. ~(n + 2 <= Len(t))
    <3>1. Token(t, n + 2) \notin Words
      BY <1>5 DEF Sane, Tokens, Beyond
    <3>2. n + 2 \in Nat /\ n + 2 >= 1
      BY <1>2
    <3> QED BY <1>2, <3>1, <3>2, TokenIs
  <2>2. n >= Len(disk[g]) - 1 /\ disk[g][n] \in keywords \ Signs
    <3>1. "include" \in keywords \ Signs
      BY DEF keywords, Texts, Signs
    <3> QED BY <1>2, <1>3, <1>5, <2>1, <3>1
  <2>3. CutShort(disk[g])
    BY <1>3, <2>2 DEF CutShort
  <2> QED BY <1>1, <1>2, <2>3 DEF InBounds
<1>6. CASE ~past /\ ~(t[n] = "include" /\ Token(t, n + 2) = Beyond)
  BY <1>1, <1>6 DEF InBounds
<1> QED BY <1>4, <1>5, <1>6

LEMMA ProcessBounds == ASSUME Sane, BoundsInv, Process PROVE InBounds'
<1> DEFINE t == Top.tokens
<1>1. /\ cfg' = recursiveparse(t, 1, Len(t) + 1) /\ disk' = disk /\ opened' = opened /\ Top.own > 0
      /\ past' = (past \/ \E n \in 1..Len(cfg') : cfg'[n].value = Beyond)
  BY DEF Process, Reading
<1>2. t \in Seq(Words) /\ Ending(t, disk, opened)
  <2>1. Framed(Top, disk, opened) /\ t \in Seq(Words) /\ Top.own \in Nat
    BY TopIs DEF BoundsInv, StackInv
  <2>2. Top.own # 0
    BY <1>1, <2>1
  <2> QED BY <2>1, <2>2 DEF Framed
<1> HIDE DEF t
<1>3. EndedAt(Parse(t, 1, Len(t) + 1, 0), t)
  <2>1. 1 \in 1..(Len(t) + 4) /\ 0 \in Int
    BY <1>2
  <2> QED BY <1>2, <2>1, ParseEnded DEF Sane
<1>4. EndedAt(cfg', t)
  BY <1>1, <1>3, ParseByRows
<1>5. CASE past
  BY <1>1, <1>5 DEF BoundsInv, InBounds
<1>6. CASE \E n \in 1..Len(cfg') : cfg'[n].value = Beyond
  <2>1. t[Len(t)] = Equals
    BY <1>4, <1>6 DEF EndedAt, Beyond
  <2>2. PICK g \in opened : disk[g] # <<>> /\ t[Len(t)] = disk[g][Len(disk[g])]
    BY <1>2 DEF Ending
  <2>3. CutShort(disk[g])
    BY <2>1, <2>2, FrontIs DEF CutShort, Equals
  <2> QED BY <1>1, <2>3 DEF InBounds
<1>7. CASE ~past /\ ~ \E n \in 1..Len(cfg') : cfg'[n].value = Beyond
  BY <1>1, <1>7 DEF InBounds
<1> QED BY <1>5, <1>6, <1>7

LEMMA BoundsStep == ASSUME Sane, BoundsInv, [SyntaxNext]_syntaxVars PROVE BoundsInv'
<1>1. StackInv'
  BY StackStep DEF BoundsInv
<1>2. CASE ValidateTokens
  <2>1. past' \in BOOLEAN
    BY <1>2 DEF ValidateTokens
  <2> QED BY <1>1, <1>2, <2>1, ValidateBounds DEF BoundsInv
<1>3. CASE Include
  <2>1. past' \in BOOLEAN
    BY <1>3 DEF Include
  <2> QED BY <1>1, <1>3, <2>1, IncludeBounds DEF BoundsInv
<1>4. CASE Process
  <2>1. past' \in BOOLEAN
    BY <1>4 DEF Process
  <2> QED BY <1>1, <1>4, <2>1, ProcessBounds DEF BoundsInv
<1>5. CASE OpenNext \/ Close \/ UNCHANGED syntaxVars
  <2>1. past' = past /\ disk' = disk /\ opened \subseteq opened'
    BY <1>5 DEF OpenNext, Close, syntaxVars
  <2> QED BY <1>1, <2>1 DEF BoundsInv, InBounds
<1> QED BY <1>2, <1>3, <1>4, <1>5 DEF SyntaxNext

\* Nothing past the end of the tokens is looked at, unless a file is cut short.
THEOREM SyntaxInBounds ==
  SyntaxSpec => []InBounds
<1>0. Sane
  BY SyntaxAssumption, GivenIs
<1>1. SyntaxInit => BoundsInv
  BY <1>0, StackInit DEF BoundsInv, SyntaxInit, InBounds
<1>2. BoundsInv /\ [SyntaxNext]_syntaxVars => BoundsInv'
  BY <1>0, BoundsStep
<1>3. BoundsInv => InBounds
  BY DEF BoundsInv
<1> QED BY <1>1, <1>2, <1>3, PTL DEF SyntaxSpec

-----------------------------------------------------------------------------
(* What has a meaning is balanced, and every token of it has a part to play.   *)

\* Braces that are open after j, none being so before i.
Level(t, i, j) == Open(t, i, j, 0)

LEMMA LevelSplit ==
  ASSUME NEW t, NEW i \in Int, NEW m \in Int, m >= i - 1, NEW n \in Int, n >= m
  PROVE  /\ Level(t, i, n) = Level(t, i, m) + Level(t, m + 1, n)
         /\ Level(t, i, n) \in Int /\ Level(t, i, m) \in Int /\ Level(t, m + 1, n) \in Int
         /\ Level(t, i, i - 1) = 0 /\ Level(t, i, i) = Turn(t[i]) /\ Turn(t[i]) \in Int
<1>1. Open(t, i, m, 0) \in Int /\ Open(t, i, n, 0) \in Int /\ Open(t, m + 1, n, 0) \in Int
  BY OpenOn
<1>2. Open(t, i, n, 0) = Open(t, m + 1, n, Open(t, i, m, 0))
  BY OpenFrom
<1>3. Open(t, m + 1, n, Open(t, i, m, 0)) = Open(t, i, m, 0) + Open(t, m + 1, n, 0)
  BY <1>1, OpenBase
<1>4. Open(t, i, i - 1, 0) = 0 /\ Open(t, i, (i - 1) + 1, 0) = 0 + Turn(t[(i - 1) + 1])
  BY OpenOn
<1>5. (i - 1) + 1 = i /\ Turn(t[i]) \in Int
  BY DEF Turn
<1> QED BY <1>1, <1>2, <1>3, <1>4, <1>5 DEF Level

Balanced(t, i, e) == (\A n \in i..(e - 1) : Level(t, i, n) >= 0) /\ Level(t, i, e - 1) = 0

LEMMA BalancedNone ==
  ASSUME NEW t, NEW i \in Int
  PROVE  Balanced(t, i, i)
BY LevelSplit DEF Balanced

\* A token that is not a brace changes nothing.
LEMMA BalancedOn ==
  ASSUME NEW t, NEW i \in Int, NEW e \in Int, i < e, Turn(t[i]) = 0
  PROVE  Balanced(t, i, e) <=> Balanced(t, i + 1, e)
<1>1. ASSUME NEW n \in Int, n >= i PROVE Level(t, i, n) = Level(t, i + 1, n)
  BY <1>1, LevelSplit
<1>2. Level(t, i, i) = 0 /\ e - 1 \in Int /\ e - 1 >= i
  BY LevelSplit
<1>3. ASSUME Balanced(t, i, e) PROVE Balanced(t, i + 1, e)
  BY <1>1, <1>2, <1>3 DEF Balanced
<1>4. ASSUME Balanced(t, i + 1, e) PROVE Balanced(t, i, e)
  <2>1. ASSUME NEW n \in i..(e - 1) PROVE Level(t, i, n) >= 0
    <3>1. CASE n = i
      BY <1>2, <3>1
    <3>2. CASE n # i
      BY <1>1, <1>4, <3>2 DEF Balanced
    <3> QED BY <3>1, <3>2
  <2> QED BY <1>1, <1>2, <1>4, <2>1 DEF Balanced
<1> QED BY <1>3, <1>4

\* A block, and what follows it.
LEMMA BalancedBlock ==
  ASSUME NEW t, NEW i \in Int, NEW e \in Int, NEW j \in (i + 2)..(e - 1),
         Turn(t[i]) = 0, Turn(t[i + 1]) = 1, Turn(t[j]) = -1, Balanced(t, i + 2, j), Balanced(t, j + 1, e)
  PROVE  /\ Balanced(t, i, e)
         /\ \A n \in (i + 2)..(j - 1) : Level(t, i + 1, n) >= 1
         /\ Level(t, i + 1, j) = 0
<1>1. ASSUME NEW n \in Int, n >= i + 1
      PROVE  Level(t, i, n) = Level(t, i + 1, n) /\ Level(t, i + 1, n) = 1 + Level(t, i + 2, n)
  <2>1. Level(t, i, n) = Level(t, i, i) + Level(t, i + 1, n) /\ Level(t, i, i) = 0 /\ Level(t, i + 1, n) \in Int
    BY <1>1, LevelSplit
  <2>2. /\ Level(t, i + 1, n) = Level(t, i + 1, i + 1) + Level(t, (i + 1) + 1, n)
        /\ Level(t, i + 1, i + 1) = 1
    BY <1>1, LevelSplit
  <2> QED BY <2>1, <2>2
<1>2. \A n \in (i + 2)..(j - 1) : Level(t, i + 2, n) >= 0 /\ Level(t, i + 2, n) \in Int
  <2>1. ASSUME NEW n \in (i + 2)..(j - 1) PROVE Level(t, i + 2, n) \in Int
    <3>1. i + 2 \in Int /\ n \in Int /\ n >= (i + 2) - 1 /\ n >= n
      OBVIOUS
    <3> QED BY <3>1, LevelSplit
  <2> QED BY <2>1 DEF Balanced
<1>3. Level(t, i + 2, j - 1) = 0 /\ Level(t, j + 1, e - 1) = 0
  BY DEF Balanced
<1>4. Level(t, i + 2, j) = Level(t, i + 2, j - 1) + Level(t, (j - 1) + 1, j) /\ Level(t, j, j) = -1
  BY LevelSplit
<1>5. Level(t, i + 2, j) = -1
  BY <1>3, <1>4
<1>6. ASSUME NEW n \in j..(e - 1) PROVE Level(t, i, n) = Level(t, j + 1, n)
  <2>1. Level(t, i + 2, n) = Level(t, i + 2, j) + Level(t, j + 1, n) /\ Level(t, j + 1, n) \in Int
    BY LevelSplit
  <2> QED BY <1>1, <1>5, <2>1
<1>7. ASSUME NEW n \in i..(e - 1) PROVE Level(t, i, n) >= 0
  <2>1. CASE n = i
    BY <2>1, LevelSplit
  <2>2. CASE n = i + 1
    <3>1. Level(t, i + 2, (i + 2) - 1) = 0
      BY LevelSplit
    <3> QED BY <1>1, <2>2, <3>1
  <2>3. CASE n \in (i + 2)..(j - 1)
    BY <1>1, <1>2, <2>3
  <2>4. CASE n = j
    <3>1. Level(t, j + 1, (j + 1) - 1) = 0
      BY LevelSplit
    <3> QED BY <1>6, <2>4, <3>1
  <2>5. CASE n \in (j + 1)..(e - 1)
    BY <1>6, <2>5 DEF Balanced
  <2> QED BY <2>1, <2>2, <2>3, <2>4, <2>5
<1>8. Level(t, i, e - 1) = 0
  BY <1>3, <1>6
<1>9. Balanced(t, i, e)
  BY <1>7, <1>8 DEF Balanced
<1>10. Level(t, i + 1, j) = 0
  BY <1>1, <1>5
<1> QED BY <1>1, <1>2, <1>9, <1>10

\* What a value is not.
LEMMA RightlyIs ==
  ASSUME NEW w, NEW v, Rightly(w, v)
  PROVE  /\ v # Opening /\ v # Closing /\ v # Equals /\ v # Semicolon
         /\ w \in DOMAIN arglist => v \in arglist[w]
         /\ w \in Numbers => v \in Digits
<1>1. w \in Numbers => w \notin DOMAIN arglist
  BY DEF Numbers, arglist
<1>2. CASE w \in DOMAIN arglist
  <2>1. v \in arglist[w]
    BY <1>2 DEF Rightly
  <2>2. v \in {"on", "off", "syslog", "file", "accept", "reject", "debug", "error", "info", "none"}
    BY <1>2, <2>1 DEF arglist
  <2>3. v # Opening /\ v # Closing /\ v # Equals /\ v # Semicolon
    BY <2>2 DEF Opening, Closing, Equals, Semicolon
  <2> QED BY <1>1, <1>2, <2>1, <2>3
<1>3. CASE w \notin DOMAIN arglist
  <2>1. v \notin Signs /\ (w \in Numbers => v \in Digits)
    BY <1>3 DEF Rightly
  <2>2. {Opening, Closing, Equals, Semicolon} \subseteq Signs
    BY DEF Signs, Opening, Closing, Equals, Semicolon
  <2> QED BY <1>3, <2>1, <2>2
<1> QED BY <1>2, <1>3

\* A token that statements and blocks may begin with.
Begins(s) == s \in keywords \cup {"allow"} /\ s # Opening /\ s # Equals /\ s # Closing

LEMMA TurnIs ==
  /\ Turn(Opening) = 1 /\ Turn(Closing) = -1 /\ Turn(Equals) = 0 /\ Turn(Semicolon) = 0
  /\ \A s : s # Opening /\ s # Closing => Turn(s) = 0
  /\ Begins(Semicolon) /\ \A s : Begins(s) => Turn(s) = 0
BY DEF Turn, Opening, Closing, Equals, Semicolon, Begins, keywords, Signs

\* The part of token n.
Role(t, n, e) ==
  \/ t[n] = Semicolon \/ t[n] = Closing
  \/ Assigns(t, n, e) \/ (n >= 2 /\ Assigns(t, n - 1, e)) \/ (n >= 3 /\ Assigns(t, n - 2, e))
  \/ Opens(t, n, e) \/ (n >= 2 /\ Opens(t, n - 1, e))

Sound(m, t, i, e) ==
  /\ ListedAt(m) /\ Balanced(t, i, e)
  /\ i < e => Begins(t[i])
  /\ \A n \in i..(e - 1) : Role(t, n, e)

LEMMA HeadBegins ==
  ASSUME NEW t, NEW i \in Int, NEW e \in Int, Assigns(t, i, e) \/ Opens(t, i, e)
  PROVE  Begins(t[i])
<1>1. Settings \cup Sections \cup {"interface"} \subseteq keywords \cup {"allow"}
  BY DEF Settings, keywords, Free
<1>2. t[i] \in Settings \cup Sections \cup {"interface"}
  BY HeadIs
<1> QED BY <1>1, <1>2, HeadIs DEF Begins

LEMMA FartherIs ==
  ASSUME NEW t, NEW n \in Int, NEW j \in Int, NEW e \in Int, j <= e
  PROVE  /\ Assigns(t, n, j) => Assigns(t, n, e)
         /\ Opens(t, n, j) => Opens(t, n, e)
<1>1. (j - n >= 4 => e - n >= 4) /\ (j - n >= 3 => e - n >= 3)
  OBVIOUS
<1> QED BY <1>1, Zenon DEF Assigns, Opens

LEMMA RoleFarther ==
  ASSUME NEW t, NEW n \in Int, NEW j \in Int, NEW e \in Int, j <= e, Role(t, n, j)
  PROVE  Role(t, n, e)
<1>1. n - 1 \in Int /\ n - 2 \in Int
  OBVIOUS
<1> QED BY <1>1, FartherIs DEF Role

LEMMA SoundStray ==
  ASSUME NEW t, NEW i \in Nat, NEW e \in Nat, NEW m, i < e, t[i] = Semicolon, Sound(m, t, i + 1, e)
  PROVE  Sound(m, t, i, e)
<1>1. Balanced(t, i, e)
  BY TurnIs, BalancedOn DEF Sound
<1>2. ASSUME NEW n \in i..(e - 1) PROVE Role(t, n, e)
  BY DEF Sound, Role
<1> QED BY <1>1, <1>2, TurnIs DEF Sound

LEMMA SoundAssigned ==
  ASSUME NEW t, NEW i \in Nat, i >= 1, NEW e \in Nat, NEW r, NEW x, Assigns(t, i, e), Sound(r, t, i + 4, e)
  PROVE  Sound(Before(x, r), t, i, e)
<1>1. /\ e - i >= 4 /\ t[i + 1] = Equals /\ t[i + 3] = Semicolon /\ Rightly(t[i], t[i + 2])
      /\ Begins(t[i])
  BY HeadIs, HeadBegins
<1>2. Turn(t[i]) = 0 /\ Turn(t[i + 1]) = 0 /\ Turn(t[i + 2]) = 0 /\ Turn(t[i + 3]) = 0
  BY <1>1, TurnIs, RightlyIs
<1>3. Balanced(t, i, e)
  <2>1. Balanced(t, (i + 3) + 1, e)
    BY DEF Sound
  <2>2. Balanced(t, (i + 2) + 1, e)
    BY <1>1, <1>2, <2>1, BalancedOn
  <2>3. Balanced(t, (i + 1) + 1, e)
    BY <1>1, <1>2, <2>2, BalancedOn
  <2>4. Balanced(t, i + 1, e)
    BY <1>1, <1>2, <2>3, BalancedOn
  <2> QED BY <1>1, <1>2, <2>4, BalancedOn
<1>4. ASSUME NEW n \in i..(e - 1) PROVE Role(t, n, e)
  <2>1. CASE n = i
    BY <2>1 DEF Role
  <2>2. CASE n = i + 1
    <3>1. n >= 2 /\ n - 1 = i
      BY <2>2
    <3> QED BY <3>1 DEF Role
  <2>3. CASE n = i + 2
    <3>1. n >= 3 /\ n - 2 = i
      BY <2>3
    <3> QED BY <3>1 DEF Role
  <2>4. CASE n = i + 3
    BY <1>1, <2>4 DEF Role
  <2>5. CASE n \in (i + 4)..(e - 1)
    BY <2>5 DEF Sound
  <2> QED BY <2>1, <2>2, <2>3, <2>4, <2>5
<1>5. ListedAt(Before(x, r))
  BY ItemFirst DEF Sound, Before
<1> QED BY <1>1, <1>3, <1>4, <1>5 DEF Sound

LEMMA SoundEnclosed ==
  ASSUME NEW t, NEW i \in Nat, i >= 1, NEW e \in Nat, NEW b, NEW r, NEW x, Opens(t, i, e), NEW j \in Endings(t, i, e),
         Sound(b, t, i + 2, j), Sound(r, t, j + 1, e)
  PROVE  Sound(Before(x, r), t, i, e)
<1>1. /\ e - i >= 3 /\ t[i + 1] = Opening /\ Begins(t[i]) /\ j \in (i + 2)..(e - 1) /\ t[j] = Closing
  BY HeadIs, HeadBegins, EndingsIs
<1>2. Turn(t[i]) = 0 /\ Turn(t[i + 1]) = 1 /\ Turn(t[j]) = -1
  BY <1>1, TurnIs
<1>3. Balanced(t, i, e)
  BY <1>1, <1>2, BalancedBlock DEF Sound
<1>4. ASSUME NEW n \in i..(e - 1) PROVE Role(t, n, e)
  <2>1. CASE n = i
    BY <2>1 DEF Role
  <2>2. CASE n = i + 1
    <3>1. n >= 2 /\ n - 1 = i
      BY <2>2
    <3> QED BY <3>1 DEF Role
  <2>3. CASE n \in (i + 2)..(j - 1)
    <3>1. Role(t, n, j) /\ j \in Int /\ n \in Int /\ j <= e
      BY <1>1, <2>3 DEF Sound
    <3> QED BY <3>1, RoleFarther
  <2>4. CASE n = j
    BY <1>1, <2>4 DEF Role
  <2>5. CASE n \in (j + 1)..(e - 1)
    BY <2>5 DEF Sound
  <2> QED BY <1>1, <2>1, <2>2, <2>3, <2>4, <2>5
<1>5. ListedAt(Before(x, r))
  BY ItemFirst DEF Sound, Before
<1> QED BY <1>1, <1>3, <1>4, <1>5 DEF Sound

\* What has a meaning is sound.
LEMMA MeaningSound ==
  ASSUME NEW t, Len(t) \in Nat
  PROVE  \A i \in 1..(Len(t) + 1) : \A e \in i..(Len(t) + 1) : \A m \in Meaning(t, i, e) : Sound(m, t, i, e)
<1> DEFINE L == Len(t) + 1
           P == {i \in Int : \A e \in i..L : \A m \in Meaning(t, i, e) : Sound(m, t, i, e)}
<1>0. L \in Nat /\ L = Len(t) + 1
  OBVIOUS
<1>1. ASSUME NEW i \in 1..L, \A a \in (i + 1)..L : a \in P
      PROVE  i \in P
  <2> SUFFICES ASSUME NEW e \in i..L, NEW m \in Meaning(t, i, e) PROVE Sound(m, t, i, e)
    OBVIOUS
  <2>0. ASSUME NEW a \in (i + 1)..L, NEW g \in a..L, NEW y \in Meaning(t, a, g) PROVE Sound(y, t, a, g)
    BY <1>1
  <2> HIDE DEF L
  <2>1. i \in Nat /\ i >= 1 /\ e \in Nat /\ e <= L /\ i <= e /\ i \in 1..(Len(t) + 1) /\ e \in 1..(Len(t) + 1)
    BY <1>0
  <2>2. \/ NoneLeft(m, i, e) \/ Stray(m, t, i, e)
        \/ Assigned1(m, t, i, e) \/ Enclosed(m, t, i, e)
    BY <2>1, MeaningIs
  <2>3. CASE NoneLeft(m, i, e)
    <3>1. i = e /\ m = <<>>
      BY <2>1, <2>3 DEF NoneLeft
    <3> QED BY <2>1, <3>1, NoneListed, BalancedNone DEF Sound
  <2>4. CASE Stray(m, t, i, e)
    <3>1. i < e /\ t[i] = Semicolon /\ m \in Meaning(t, i + 1, e)
      BY <2>4 DEF Stray
    <3>2. i + 1 \in (i + 1)..L /\ e \in (i + 1)..L
      BY <2>1, <3>1, <1>0
    <3>3. Sound(m, t, i + 1, e)
      BY <2>0, <3>1, <3>2
    <3> QED BY <2>1, <3>1, <3>3, SoundStray
  <2>5. CASE Assigned1(m, t, i, e)
    <3>1. PICK r \in Meaning(t, i + 4, e) : m = Before(Assignment(t[i], t[i + 2]), r)
      BY <2>5 DEF Assigned1
    <3>2. Assigns(t, i, e) /\ e - i >= 4
      BY <2>1, <2>5, HeadIs DEF Assigned1
    <3>3. i + 4 \in (i + 1)..L /\ e \in (i + 4)..L
      BY <1>0, <2>1, <3>2
    <3>4. Sound(r, t, i + 4, e)
      BY <2>0, <3>3
    <3> QED BY <2>1, <3>1, <3>2, <3>4, SoundAssigned
  <2>6. CASE Enclosed(m, t, i, e)
    <3>0. PICK j \in Endings(t, i, e) :
            \E b \in Meaning(t, i + 2, j), r \in Meaning(t, j + 1, e) :
              m = Before(Block(t[i], b), r)
      BY <2>6 DEF Enclosed
    <3>1. PICK b \in Meaning(t, i + 2, j), r \in Meaning(t, j + 1, e) :
            m = Before(Block(t[i], b), r)
      BY <3>0
    <3>2. Opens(t, i, e) /\ j \in (i + 2)..(e - 1)
      BY <2>6, EndingsIs DEF Enclosed
    <3>3. i + 2 \in (i + 1)..L /\ j \in (i + 2)..L /\ j + 1 \in (i + 1)..L /\ e \in (j + 1)..L
      BY <1>0, <2>1, <3>2
    <3>4. Sound(b, t, i + 2, j) /\ Sound(r, t, j + 1, e)
      BY <2>0, <3>3
    <3> QED BY <2>1, <3>1, <3>2, <3>4, SoundEnclosed
  <2> QED BY <2>2, <2>3, <2>4, <2>5, <2>6
<1>2. \A i \in 1..L : i \in P
  <2> HIDE DEF P, L
  <2> QED BY <1>0, <1>1, Backwards
<1> QED BY <1>2

-----------------------------------------------------------------------------
(* There is no more than one meaning, and it is what recursiveparse makes.   *)

LEMMA TokenAt ==
  ASSUME NEW t, NEW n, n <= Len(t)
  PROVE  Token(t, n) = t[n]
BY DEF Token

LEMMA SignsApart ==
  /\ Opening # Equals /\ Opening # Closing /\ Semicolon # Opening /\ Semicolon # Closing
  /\ Nil \notin Tokens => /\ Opening # Beyond /\ Equals # Beyond
                           /\ \A s \in keywords \cup {"allow"} : s # Beyond
BY DEF Opening, Closing, Equals, Semicolon, Tokens, Beyond, keywords, Signs

LEMMA ParsedNone ==
  ASSUME NEW t, Len(t) \in Nat, Nil \notin Tokens,
         NEW i \in 1..(Len(t) + 4), NEW e \in 1..(Len(t) + 1), e <= i + 1
  PROVE  Parse(t, i, e, 0) = <<>>
<1>1. Ends(i, e) /\ 0 \in Int
  BY DEF Ends
<1> QED BY <1>1, ParseIs DEF ParseNow

LEMMA ParsedStray ==
  ASSUME NEW t, Len(t) \in Nat, Nil \notin Tokens,
         NEW i \in 1..Len(t), NEW e \in (i + 1)..(Len(t) + 1), i + 1 < e => Begins(t[i + 1])
  PROVE  Parse(t, i, e, 0) = Parse(t, i + 1, e, 0)
<1>1. i \in 1..(Len(t) + 4) /\ i + 1 \in 1..(Len(t) + 4) /\ e \in 1..(Len(t) + 1) /\ 0 \in Int
  OBVIOUS
<1>2. CASE e = i + 1
  <2>1. Parse(t, i, e, 0) = <<>> /\ Parse(t, i + 1, e, 0) = <<>>
    BY <1>1, <1>2, ParsedNone
  <2> QED BY <2>1
<1>3. CASE e # i + 1
  <2>1. i + 1 < e /\ i + 1 <= Len(t) /\ ~Ends(i, e)
    BY <1>3 DEF Ends
  <2>2. Token(t, i + 1) = t[i + 1] /\ Begins(t[i + 1])
    BY <2>1, TokenAt
  <2>3. t[i + 1] # Opening /\ t[i + 1] # Equals /\ t[i + 1] # Beyond
    BY <2>2, SignsApart DEF Begins
  <2>4. ParseNow(t, i, e, 0) = Parse(t, i + 1, e, 0)
    BY <2>1, <2>2, <2>3 DEF ParseNow
  <2> QED BY <1>1, <2>4, ParseIs
<1> QED BY <1>2, <1>3

LEMMA ParsedAssigned ==
  ASSUME NEW t, Len(t) \in Nat, Nil \notin Tokens,
         NEW i \in 1..Len(t), NEW e \in (i + 1)..(Len(t) + 1), Assigns(t, i, e)
  PROVE  Parse(t, i, e, 0) = Before(Assignment(t[i], t[i + 2]), Parse(t, i + 4, e, 0))
<1>1. i \in 1..(Len(t) + 4) /\ e \in 1..(Len(t) + 1) /\ 0 \in Int
  OBVIOUS
<1>2. e - i >= 4 /\ t[i + 1] = Equals
  BY HeadIs
<1>3. ~Ends(i, e) /\ i + 2 <= Len(t) /\ i + 1 <= Len(t)
  BY <1>2 DEF Ends
<1>4. Token(t, i + 1) = Equals /\ Token(t, i + 2) = t[i + 2]
  BY <1>2, <1>3, TokenAt
<1>5. ParseNow(t, i, e, 0) = <<Assignment(t[i], t[i + 2])>> \o Parse(t, i + 4, e, 0)
  BY <1>3, <1>4, SignsApart DEF ParseNow
<1> QED BY <1>1, <1>5, ParseIs DEF Before

LEMMA ParsedEnclosed ==
  ASSUME NEW t, Len(t) \in Nat, Nil \notin Tokens,
         NEW i \in 1..Len(t), NEW e \in (i + 1)..(Len(t) + 1), Opens(t, i, e), NEW j \in Endings(t, i, e),
         Balanced(t, i + 2, j), Balanced(t, j + 1, e)
  PROVE  Parse(t, i, e, 0) = Before(Block(t[i], Parse(t, i + 2, j, 0)), Parse(t, j + 1, e, 0))
<1>1. i \in 1..(Len(t) + 4) /\ e \in 1..(Len(t) + 1) /\ 0 \in Int /\ i \in Nat /\ e \in Nat
  OBVIOUS
<1>2. /\ e - i >= 3 /\ t[i + 1] = Opening /\ Begins(t[i]) /\ j \in (i + 2)..(e - 1) /\ t[j] = Closing
  BY HeadIs, HeadBegins, EndingsIs
<1>3. Turn(t[i]) = 0 /\ Turn(t[i + 1]) = 1 /\ Turn(t[j]) = -1
  BY <1>2, TurnIs
<1>4. /\ \A n \in (i + 2)..(j - 1) : Open(t, i + 1, n, 0) >= 1
      /\ Open(t, i + 1, j, 0) = 0
  <2>1. i \in Int /\ e \in Int /\ j \in (i + 2)..(e - 1)
    BY <1>1, <1>2
  <2>2. (\A n \in (i + 2)..(j - 1) : Level(t, i + 1, n) >= 1) /\ Level(t, i + 1, j) = 0
    BY <1>3, <2>1, BalancedBlock
  <2> QED BY <2>2 DEF Level
<1> DEFINE ends == Closes(t, i, e, 0)
<1>5. j \in ends
  BY <1>2, <1>4, ClosesIs
<1>6. ASSUME NEW n \in ends PROVE n \in (i + 2)..(e - 1) /\ ~(n < j)
  <2>1. n \in (i + 2)..(e - 1) /\ Open(t, i + 1, n, 0) = 0
    BY ClosesIs
  <2> QED BY <1>2, <1>4, <2>1
<1>7. FirstOf(ends) = j
  <2>1. ends \subseteq Nat /\ ends # {}
    BY <1>5, <1>6
  <2> HIDE DEF ends
  <2>2. FirstOf(ends) \in ends /\ FirstOf(ends) <= j
    BY <1>5, <2>1, FirstIs
  <2> QED BY <1>2, <1>6, <2>2
<1>8. ~Ends(i, e) /\ i + 1 <= Len(t)
  BY <1>2 DEF Ends
<1>9. Token(t, i + 1) = Opening
  BY <1>2, <1>8, TokenAt
<1>10. ParseNow(t, i, e, 0) = <<Block(t[i], Parse(t, i + 2, j, 0))>> \o Parse(t, j + 1, e, 0)
  BY <1>5, <1>7, <1>8, <1>9, SignsApart DEF ParseNow
<1> QED BY <1>1, <1>10, ParseIs DEF Before

LEMMA MeaningParsed ==
  ASSUME NEW t, Len(t) \in Nat, Nil \notin Tokens
  PROVE  \A i \in 1..(Len(t) + 1) : \A e \in i..(Len(t) + 1) : \A m \in Meaning(t, i, e) :
           m = Parse(t, i, e, 0)
<1> DEFINE L == Len(t) + 1
           P == {i \in Int : \A e \in i..L : \A m \in Meaning(t, i, e) : m = Parse(t, i, e, 0)}
<1>0. L \in Nat /\ L = Len(t) + 1
  OBVIOUS
<1>1. ASSUME NEW i \in 1..L, \A a \in (i + 1)..L : a \in P
      PROVE  i \in P
  <2> SUFFICES ASSUME NEW e \in i..L, NEW m \in Meaning(t, i, e) PROVE m = Parse(t, i, e, 0)
    OBVIOUS
  <2>0. ASSUME NEW a \in (i + 1)..L, NEW g \in a..L, NEW y \in Meaning(t, a, g)
        PROVE  y = Parse(t, a, g, 0) /\ Sound(y, t, a, g)
    <3>1. a \in 1..L
      BY <1>0
    <3> QED BY <1>0, <1>1, <3>1, MeaningSound
  <2> HIDE DEF L
  <2>1. i \in Nat /\ i >= 1 /\ e \in Nat /\ e <= L /\ i <= e /\ i \in 1..(Len(t) + 1) /\ e \in 1..(Len(t) + 1)
    BY <1>0
  <2>2. \/ NoneLeft(m, i, e) \/ Stray(m, t, i, e)
        \/ Assigned1(m, t, i, e) \/ Enclosed(m, t, i, e)
    BY <2>1, MeaningIs
  <2>a. i < e => i \in 1..Len(t) /\ e \in (i + 1)..(Len(t) + 1)
    BY <2>1
  <2>3. CASE NoneLeft(m, i, e)
    <3>1. e <= i + 1 /\ m = <<>> /\ i \in 1..(Len(t) + 4)
      BY <2>1, <2>3 DEF NoneLeft
    <3> QED BY <2>1, <3>1, ParsedNone
  <2>4. CASE Stray(m, t, i, e)
    <3>1. i < e /\ t[i] = Semicolon /\ m \in Meaning(t, i + 1, e)
      BY <2>4 DEF Stray
    <3>2. i + 1 \in (i + 1)..L /\ e \in (i + 1)..L
      BY <2>1, <3>1, <1>0
    <3>3. m = Parse(t, i + 1, e, 0) /\ (i + 1 < e => Begins(t[i + 1]))
      BY <2>0, <3>1, <3>2 DEF Sound
    <3> QED BY <2>a, <3>1, <3>3, ParsedStray
  <2>5. CASE Assigned1(m, t, i, e)
    <3>1. PICK r \in Meaning(t, i + 4, e) : m = Before(Assignment(t[i], t[i + 2]), r)
      BY <2>5 DEF Assigned1
    <3>2. Assigns(t, i, e) /\ e - i >= 4
      BY <2>1, <2>5, HeadIs DEF Assigned1
    <3>3. i + 4 \in (i + 1)..L /\ e \in (i + 4)..L /\ i < e
      BY <1>0, <2>1, <3>2
    <3>4. r = Parse(t, i + 4, e, 0)
      BY <2>0, <3>3
    <3> QED BY <2>a, <3>1, <3>2, <3>3, <3>4, ParsedAssigned
  <2>6. CASE Enclosed(m, t, i, e)
    <3>0. PICK j \in Endings(t, i, e) :
            \E b \in Meaning(t, i + 2, j), r \in Meaning(t, j + 1, e) :
              m = Before(Block(t[i], b), r)
      BY <2>6 DEF Enclosed
    <3>1. PICK b \in Meaning(t, i + 2, j), r \in Meaning(t, j + 1, e) :
            m = Before(Block(t[i], b), r)
      BY <3>0
    <3>2. Opens(t, i, e) /\ j \in (i + 2)..(e - 1)
      BY <2>6, EndingsIs DEF Enclosed
    <3>3. i + 2 \in (i + 1)..L /\ j \in (i + 2)..L /\ j + 1 \in (i + 1)..L /\ e \in (j + 1)..L /\ i < e
      BY <1>0, <2>1, <3>2
    <3>4. b = Parse(t, i + 2, j, 0) /\ Balanced(t, i + 2, j)
      BY <2>0, <3>3 DEF Sound
    <3>5. r = Parse(t, j + 1, e, 0) /\ Balanced(t, j + 1, e)
      BY <2>0, <3>3 DEF Sound
    <3> QED BY <2>a, <3>1, <3>2, <3>3, <3>4, <3>5, ParsedEnclosed
  <2> QED BY <2>2, <2>3, <2>4, <2>5, <2>6
<1>2. \A i \in 1..L : i \in P
  <2> HIDE DEF P, L
  <2> QED BY <1>0, <1>1, Backwards
<1> QED BY <1>2

-----------------------------------------------------------------------------
(* What two lists of tokens mean, one behind the other.                      *)

LEMMA SameHead ==
  ASSUME NEW t, NEW u, NEW i \in Int, NEW e \in Int, NEW w \in Int, NEW g \in Int, g - w = e - i,
         e - i >= 3 => u[w] = t[i] /\ u[w + 1] = t[i + 1] /\ u[w + 2] = t[i + 2],
         e - i >= 4 => u[w + 3] = t[i + 3]
  PROVE  /\ Assigns(t, i, e) => Assigns(u, w, g) /\ u[w] = t[i] /\ u[w + 2] = t[i + 2]
         /\ Opens(t, i, e) => Opens(u, w, g) /\ u[w] = t[i]
<1>1. (e - i >= 4 => e - i >= 3) /\ (e - i >= 4 => g - w >= 4) /\ (e - i >= 3 => g - w >= 3)
  OBVIOUS
<1> QED BY <1>1, Zenon DEF Assigns, Opens

\* A meaning is one wherever the tokens stand.
LEMMA MeaningMoved ==
  ASSUME NEW t, NEW u, Len(t) \in Nat, Len(u) \in Nat, NEW s \in Nat
  PROVE  \A i \in 1..(Len(t) + 1) : \A e \in i..(Len(t) + 1) :
           (e + s <= Len(u) + 1 /\ \A n \in i..(e - 1) : u[n + s] = t[n])
             => \A m \in Meaning(t, i, e) : m \in Meaning(u, i + s, e + s)
<1> DEFINE L == Len(t) + 1
           Same(i, e) == e + s <= Len(u) + 1 /\ \A n \in i..(e - 1) : u[n + s] = t[n]
           P == {i \in Int : \A e \in i..L : Same(i, e) =>
                   \A m \in Meaning(t, i, e) : m \in Meaning(u, i + s, e + s)}
<1>0. L \in Nat /\ L = Len(t) + 1
  OBVIOUS
<1>1. ASSUME NEW i \in 1..L, \A a \in (i + 1)..L : a \in P
      PROVE  i \in P
  <2> SUFFICES ASSUME NEW e \in i..L, Same(i, e), NEW m \in Meaning(t, i, e)
               PROVE  m \in Meaning(u, i + s, e + s)
    OBVIOUS
  <2>0. ASSUME NEW a \in (i + 1)..L, NEW g \in a..L, g <= e, NEW y \in Meaning(t, a, g)
        PROVE  y \in Meaning(u, a + s, g + s)
    <3>1. Same(a, g)
      BY <1>0, <2>0
    <3> QED BY <1>1, <2>0, <3>1
  <2> HIDE DEF L
  <2>1. i \in Nat /\ i >= 1 /\ e \in Nat /\ e <= L /\ i <= e /\ i \in 1..(Len(t) + 1) /\ e \in 1..(Len(t) + 1)
    BY <1>0
  <2>x. i + s \in 1..(Len(u) + 1) /\ e + s \in 1..(Len(u) + 1) /\ i + s <= e + s /\ i + s \in Nat /\ e + s \in Nat
    BY <2>1
  <2>y. \A y : (NoneLeft(y, i + s, e + s) \/ Stray(y, u, i + s, e + s)
                  \/ Assigned1(y, u, i + s, e + s) \/ Enclosed(y, u, i + s, e + s))
               => y \in Meaning(u, i + s, e + s)
    BY <2>x, MeaningIs
  <2>z. /\ Assigns(t, i, e) => Assigns(u, i + s, e + s) /\ u[i + s] = t[i] /\ u[(i + s) + 2] = t[i + 2]
        /\ Opens(t, i, e) => Opens(u, i + s, e + s) /\ u[i + s] = t[i]
    <3> DEFINE w == i + s
               g == e + s
    <3>1. g - w = e - i /\ w \in Int /\ g \in Int /\ i \in Int /\ e \in Int
      BY <2>1
    <3>2. /\ e - i >= 3 => u[w] = t[i] /\ u[w + 1] = t[i + 1] /\ u[w + 2] = t[i + 2]
          /\ e - i >= 4 => u[w + 3] = t[i + 3]
      <4>1. ASSUME NEW n \in 0..(e - i - 1) PROVE u[w + n] = t[i + n]
        <5>1. i + n \in i..(e - 1) /\ (i + n) + s = w + n
          BY <2>1
        <5> QED BY <5>1
      <4>2. u[w + 0] = u[w] /\ t[i + 0] = t[i]
        <5>1. w + 0 = w /\ i + 0 = i
          BY <2>1, <3>1
        <5> QED BY <5>1
      <4>3. e - i >= 3 => {0, 1, 2} \subseteq 0..(e - i - 1)
        BY <2>1
      <4>4. e - i >= 4 => 3 \in 0..(e - i - 1)
        BY <2>1
      <4> HIDE DEF w
      <4> QED BY <4>1, <4>2, <4>3, <4>4
    <3> HIDE DEF w, g
    <3>3. /\ Assigns(t, i, e) => Assigns(u, w, g) /\ u[w] = t[i] /\ u[w + 2] = t[i + 2]
          /\ Opens(t, i, e) => Opens(u, w, g) /\ u[w] = t[i]
      BY <3>1, <3>2, SameHead
    <3> QED BY <3>3 DEF w, g
  <2>2. \/ NoneLeft(m, i, e) \/ Stray(m, t, i, e)
        \/ Assigned1(m, t, i, e) \/ Enclosed(m, t, i, e)
    BY <2>1, MeaningIs
  <2>3. CASE NoneLeft(m, i, e)
    <3>1. NoneLeft(m, i + s, e + s)
      BY <2>1, <2>3 DEF NoneLeft
    <3> QED BY <2>y, <3>1
  <2>4. CASE Stray(m, t, i, e)
    <3>1. i < e /\ t[i] = Semicolon /\ m \in Meaning(t, i + 1, e)
      BY <2>4 DEF Stray
    <3>2. i + 1 \in (i + 1)..L /\ e \in (i + 1)..L /\ (i + 1) + s = (i + s) + 1 /\ i + s < e + s
      BY <2>1, <3>1, <1>0
    <3>3. m \in Meaning(u, (i + s) + 1, e + s)
      BY <2>0, <2>1, <3>1, <3>2
    <3>4. u[i + s] = t[i]
      <4>1. i \in i..(e - 1)
        BY <2>1, <3>1
      <4> QED BY <4>1
    <3>5. Stray(m, u, i + s, e + s)
      BY <3>1, <3>2, <3>3, <3>4 DEF Stray
    <3> QED BY <2>y, <3>5
  <2>5. CASE Assigned1(m, t, i, e)
    <3>1. PICK r \in Meaning(t, i + 4, e) : m = Before(Assignment(t[i], t[i + 2]), r)
      BY <2>5 DEF Assigned1
    <3>2. Assigns(t, i, e) /\ e - i >= 4
      BY <2>1, <2>5, HeadIs DEF Assigned1
    <3>3. i + 4 \in (i + 1)..L /\ e \in (i + 4)..L /\ (i + 4) + s = (i + s) + 4 /\ e <= e
      <4>1. i \in Nat /\ e \in Nat /\ i + 4 <= e /\ e <= L
        BY <2>1, <3>2
      <4>2. i + 4 \in (i + 1)..L /\ e \in (i + 4)..L
        BY <1>0, <4>1
      <4>3. (i + 4) + s = (i + s) + 4 /\ e <= e
        BY <4>1
      <4> QED BY <4>2, <4>3
    <3>4. r \in Meaning(u, (i + s) + 4, e + s)
      BY <2>0, <3>3
    <3>5. Assigned1(m, u, i + s, e + s)
      BY <2>z, <3>1, <3>2, <3>4 DEF Assigned1
    <3> QED BY <2>y, <3>5
  <2>6. CASE Enclosed(m, t, i, e)
    <3>0. PICK j \in Endings(t, i, e) :
            \E b \in Meaning(t, i + 2, j), r \in Meaning(t, j + 1, e) :
              m = Before(Block(t[i], b), r)
      BY <2>6 DEF Enclosed
    <3>1. PICK b \in Meaning(t, i + 2, j), r \in Meaning(t, j + 1, e) :
            m = Before(Block(t[i], b), r)
      BY <3>0
    <3>2. Opens(t, i, e) /\ j \in (i + 2)..(e - 1) /\ t[j] = Closing
      BY <2>6, EndingsIs DEF Enclosed
    <3>3. /\ i + 2 \in (i + 1)..L /\ j \in (i + 2)..L /\ j + 1 \in (i + 1)..L /\ e \in (j + 1)..L
          /\ j <= e /\ e <= e /\ (i + 2) + s = (i + s) + 2 /\ (j + 1) + s = (j + s) + 1
          /\ j + s \in ((i + s) + 2)..((e + s) - 1) /\ j \in i..(e - 1)
      BY <1>0, <2>1, <3>2
    <3>4. b \in Meaning(u, (i + s) + 2, j + s)
      BY <2>0, <3>3
    <3>5. r \in Meaning(u, (j + s) + 1, e + s)
      BY <2>0, <3>3
    <3>6. u[j + s] = t[j]
      BY <3>3
    <3>7. j + s \in Endings(u, i + s, e + s)
      BY <3>2, <3>3, <3>6, EndingsIs
    <3>8. Enclosed(m, u, i + s, e + s)
      BY <2>z, <3>1, <3>2, <3>4, <3>5, <3>7 DEF Enclosed
    <3> QED BY <2>y, <3>8
  <2> QED BY <2>2, <2>3, <2>4, <2>5, <2>6
<1>2. \A i \in 1..L : i \in P
  <2> HIDE DEF P, L
  <2> QED BY <1>0, <1>1, Backwards
<1> QED BY <1>2

\* Two meanings, one behind the other.
LEMMA MeaningJoined ==
  ASSUME NEW t, Len(t) \in Nat, NEW w \in 1..(Len(t) + 1), NEW e \in w..(Len(t) + 1),
         NEW b \in Meaning(t, w, e)
  PROVE  \A i \in 1..(Len(t) + 1) : i <= w => \A a \in Meaning(t, i, w) : a \o b \in Meaning(t, i, e)
<1> DEFINE L == Len(t) + 1
           P == {i \in Int : i <= w => \A a \in Meaning(t, i, w) : a \o b \in Meaning(t, i, e)}
<1>0. /\ L \in Nat /\ L = Len(t) + 1 /\ w \in Nat /\ e \in Nat /\ w <= e /\ e <= L /\ w <= L /\ w >= 1
      /\ e \in 1..(Len(t) + 1) /\ w \in 1..(Len(t) + 1)
  OBVIOUS
<1>b. ListedAt(b)
  BY MeaningSound DEF Sound
<1>1. ASSUME NEW i \in 1..L, \A z \in (i + 1)..L : z \in P
      PROVE  i \in P
  <2> SUFFICES ASSUME i <= w, NEW a \in Meaning(t, i, w)
               PROVE  a \o b \in Meaning(t, i, e)
    OBVIOUS
  <2>0. ASSUME NEW z \in (i + 1)..L, z <= w, NEW y \in Meaning(t, z, w)
        PROVE  y \o b \in Meaning(t, z, e)
    BY <1>1, <2>0
  <2> HIDE DEF L
  <2>1. i \in Nat /\ i >= 1 /\ i <= e /\ i \in 1..(Len(t) + 1)
    BY <1>0
  <2>x. ASSUME NEW z \in i..w, NEW j \in z..w, NEW y \in Meaning(t, z, j) PROVE ListedAt(y)
    <3>1. z \in 1..(Len(t) + 1) /\ j \in z..(Len(t) + 1)
      BY <1>0, <2>1
    <3> QED BY <3>1, MeaningSound DEF Sound
  <2>y. \A y : (NoneLeft(y, i, e) \/ Stray(y, t, i, e) \/ Assigned1(y, t, i, e) \/ Enclosed(y, t, i, e))
               => y \in Meaning(t, i, e)
    BY <1>0, <2>1, MeaningIs
  <2>z. (Assigns(t, i, w) => Assigns(t, i, e)) /\ (Opens(t, i, w) => Opens(t, i, e))
    BY <1>0, <2>1, FartherIs
  <2>2. \/ NoneLeft(a, i, w) \/ Stray(a, t, i, w)
        \/ Assigned1(a, t, i, w) \/ Enclosed(a, t, i, w)
    BY <1>0, <2>1, MeaningIs
  <2>3. CASE NoneLeft(a, i, w)
    <3>1. i = w /\ a = <<>> /\ <<>> \o b = b
      BY <1>0, <1>b, <2>1, <2>3, BothListed, NoneListed DEF NoneLeft
    <3> QED BY <3>1
  <2>4. CASE Stray(a, t, i, w)
    <3>1. i < w /\ t[i] = Semicolon /\ a \in Meaning(t, i + 1, w)
      BY <2>4 DEF Stray
    <3>2. i + 1 \in (i + 1)..L /\ i + 1 <= w /\ i < e
      BY <1>0, <2>1, <3>1
    <3>3. a \o b \in Meaning(t, i + 1, e)
      BY <2>0, <3>1, <3>2
    <3>4. Stray(a \o b, t, i, e)
      BY <3>1, <3>2, <3>3 DEF Stray
    <3> QED BY <2>y, <3>4
  <2>5. CASE Assigned1(a, t, i, w)
    <3> DEFINE x == Assignment(t[i], t[i + 2])
    <3>1. PICK r \in Meaning(t, i + 4, w) : a = Before(x, r)
      BY <2>5 DEF Assigned1
    <3>2. Assigns(t, i, w) /\ w - i >= 4
      BY <1>0, <2>1, <2>5, HeadIs DEF Assigned1
    <3>3. i + 4 \in (i + 1)..L /\ i + 4 \in i..w /\ i + 4 <= w /\ w \in (i + 4)..w
      BY <1>0, <2>1, <3>2
    <3>4. r \o b \in Meaning(t, i + 4, e) /\ ListedAt(r)
      BY <2>0, <2>x, <3>3
    <3> HIDE DEF x
    <3>5. a \o b = Before(x, r \o b)
      BY <1>b, <3>1, <3>4, BothListed DEF Before
    <3>6. Assigned1(a \o b, t, i, e)
      BY <2>z, <3>2, <3>4, <3>5 DEF Assigned1, x
    <3> QED BY <2>y, <3>6
  <2>6. CASE Enclosed(a, t, i, w)
    <3>0. PICK j \in Endings(t, i, w) :
            \E y \in Meaning(t, i + 2, j), r \in Meaning(t, j + 1, w) :
              a = Before(Block(t[i], y), r)
      BY <2>6 DEF Enclosed
    <3>1. PICK y \in Meaning(t, i + 2, j), r \in Meaning(t, j + 1, w) :
            a = Before(Block(t[i], y), r)
      BY <3>0
    <3>2. Opens(t, i, w) /\ j \in (i + 2)..(w - 1) /\ t[j] = Closing
      BY <2>6, EndingsIs DEF Enclosed
    <3>3. /\ j + 1 \in (i + 1)..L /\ j + 1 \in i..w /\ w \in (j + 1)..w /\ j + 1 <= w
          /\ j \in (i + 2)..(e - 1)
      BY <1>0, <2>1, <3>2
    <3>4. r \o b \in Meaning(t, j + 1, e) /\ ListedAt(r)
      BY <2>0, <2>x, <3>3
    <3>5. a \o b = Before(Block(t[i], y), r \o b)
      BY <1>b, <3>1, <3>4, BothListed DEF Before
    <3>6. j \in Endings(t, i, e)
      BY <3>2, <3>3, EndingsIs
    <3>7. Enclosed(a \o b, t, i, e)
      BY <2>z, <3>2, <3>4, <3>5, <3>6 DEF Enclosed
    <3> QED BY <2>y, <3>7
  <2> QED BY <2>2, <2>3, <2>4, <2>5, <2>6
<1>2. \A i \in 1..L : i \in P
  <2> HIDE DEF P, L
  <2> QED BY <1>0, <1>1, Backwards
<1> QED BY <1>2

LEMMA MeaningsIs ==
  ASSUME NEW t
  PROVE  Meanings(t) = Meaning(t, 1, Len(t) + 1)
BY DEF Meanings

\* What follows a list of tokens adds what it means to the meaning.
LEMMA MeaningsJoined ==
  ASSUME NEW t \in Seq(Words), NEW u \in Seq(Words), NEW a \in Meanings(t), NEW b \in Meanings(u)
  PROVE  a \o b \in Meanings(t \o u)
<1> DEFINE z == t \o u
           n == Len(t)
           w == Len(u)
<1>1. /\ n \in Nat /\ w \in Nat /\ Len(z) = n + w
      /\ \A x \in 1..n : z[x] = t[x]
      /\ \A x \in 1..w : z[x + n] = u[x]
  OBVIOUS
<1>2. a \in Meaning(t, 1, n + 1) /\ b \in Meaning(u, 1, w + 1)
  BY MeaningsIs
<1>3. a \in Meaning(z, 1, n + 1)
  <2>1. /\ 0 \in Nat /\ 1 \in 1..(n + 1) /\ n + 1 \in 1..(n + 1) /\ (n + 1) + 0 <= (n + w) + 1
        /\ 1 + 0 = 1 /\ (n + 1) + 0 = n + 1
    BY <1>1
  <2>2. \A x \in 1..((n + 1) - 1) : z[x + 0] = t[x]
    BY <1>1
  <2>3. Len(t) \in Nat /\ Len(z) \in Nat /\ Len(z) = n + w /\ Len(t) = n
    BY <1>1
  <2> HIDE DEF z, n, w
  <2>4. a \in Meaning(z, 1 + 0, (n + 1) + 0)
    BY <1>2, <2>1, <2>2, <2>3, MeaningMoved
  <2> QED BY <2>1, <2>4
<1>4. b \in Meaning(z, n + 1, (n + w) + 1)
  <2>1. /\ n \in Nat /\ 1 \in 1..(w + 1) /\ w + 1 \in 1..(w + 1) /\ (w + 1) + n <= (n + w) + 1
        /\ 1 + n = n + 1 /\ (w + 1) + n = (n + w) + 1
    BY <1>1
  <2>2. \A x \in 1..((w + 1) - 1) : z[x + n] = u[x]
    BY <1>1
  <2>3. Len(u) \in Nat /\ Len(z) \in Nat /\ Len(z) = n + w /\ Len(u) = w
    BY <1>1
  <2> HIDE DEF z, n, w
  <2>4. b \in Meaning(z, 1 + n, (w + 1) + n)
    BY <1>2, <2>1, <2>2, <2>3, MeaningMoved
  <2> QED BY <2>1, <2>4
<1>5. /\ Len(z) \in Nat /\ n + 1 \in 1..(Len(z) + 1) /\ (n + w) + 1 \in (n + 1)..(Len(z) + 1)
      /\ 1 \in 1..(Len(z) + 1) /\ 1 <= n + 1 /\ (n + w) + 1 = Len(z) + 1
  BY <1>1
<1> HIDE DEF z, n, w
<1>6. a \o b \in Meaning(z, 1, (n + w) + 1)
  BY <1>3, <1>4, <1>5, MeaningJoined
<1>7. a \o b \in Meanings(z)
  BY <1>5, <1>6, MeaningsIs
<1> QED BY <1>7 DEF z

-----------------------------------------------------------------------------
(* A file that has a meaning passes the checks.                              *)

\* Whether checkdatatype comes to a position.
ScanCell(t, f, n) == n = 1 \/ ~(t[n - 1] = "=" /\ f[n - 1])

IsScan(t, f) == f = [n \in 1..Len(t) |-> ScanCell(t, f, n)]

LEMMA ScanExists ==
  ASSUME NEW t, Len(t) \in Nat
  PROVE  \E f : IsScan(t, f)
<1> DEFINE Good(n, f) == f = [w \in 1..n |-> ScanCell(t, f, w)]
           T == {n \in Nat : ~ \E f : Good(n, f)}
<1>1. ASSUME T # {} PROVE FALSE
  <2>1. PICK n \in T : \A m \in T : n <= m
    <3>1. T \subseteq Nat
      OBVIOUS
    <3> HIDE DEF T
    <3> QED BY <1>1, <3>1, Least
  <2>2. n \in Nat /\ ~ \E f : Good(n, f)
    OBVIOUS
  <2>3. n # 0
    <3>1. Good(0, [w \in 1..0 |-> TRUE])
      OBVIOUS
    <3> QED BY <2>2, <3>1
  <2>4. n - 1 \in Nat /\ n - 1 \notin T
    <3> HIDE DEF T
    <3> QED BY <2>1, <2>2, <2>3
  <2>5. PICK f : Good(n - 1, f)
    BY <2>4
  <2> DEFINE g == [w \in 1..n |-> ScanCell(t, f, w)]
  <2>6. ASSUME NEW w \in 1..n PROVE g[w] = ScanCell(t, g, w)
    <3>1. w # 1 => w - 1 \in 1..(n - 1) /\ w - 1 \in 1..n
      BY <2>2
    <3>2. w # 1 => f[w - 1] = ScanCell(t, f, w - 1) /\ g[w - 1] = ScanCell(t, f, w - 1)
      BY <2>5, <3>1
    <3>3. g[w] = ScanCell(t, f, w)
      OBVIOUS
    <3> HIDE DEF g
    <3>4. ScanCell(t, f, w) = ScanCell(t, g, w)
      BY <3>2 DEF ScanCell
    <3> QED BY <3>3, <3>4
  <2>7. Good(n, g)
    <3>1. g = [w \in 1..n |-> g[w]]
      OBVIOUS
    <3> HIDE DEF g
    <3> QED BY <2>6, <3>1
  <2> QED BY <2>2, <2>7
<1>2. PICK f : Good(Len(t), f)
  BY <1>1
<1> QED BY <1>2 DEF IsScan

LEMMA ScannedIs ==
  ASSUME NEW t, Len(t) \in Nat, NEW n \in 1..Len(t)
  PROVE  n \in Scanned(t) <=> n = 1 \/ ~(t[n - 1] = Equals /\ n - 1 \in Scanned(t))
<1> DEFINE f == CHOOSE f : IsScan(t, f)
<1>1. IsScan(t, f)
  BY ScanExists
<1>2. Scanned(t) = {w \in 1..Len(t) : f[w]}
  BY DEF Scanned, IsScan, ScanCell
<1> HIDE DEF f
<1>3. f[n] = ScanCell(t, f, n)
  BY <1>1 DEF IsScan
<1>4. n # 1 => n - 1 \in 1..Len(t)
  OBVIOUS
<1> QED BY <1>2, <1>3, <1>4 DEF ScanCell, Equals

LEMMA KindsApart ==
  /\ \A s \in {Semicolon, Closing, Equals, Opening} :
       /\ s \in keywords /\ s \in Signs /\ s \notin Sections
       /\ s \notin Numbers \cup Texts /\ s \notin Free
       /\ s \notin DOMAIN arglist /\ s # "include"
  /\ \A s \in Settings : s \notin Sections /\ (s # "allow" => s \in keywords)
  /\ "allow" \notin Numbers \cup Texts /\ "allow" \notin DOMAIN arglist
  /\ \A s \in Sections \cup {"interface"} :
       /\ s \notin Numbers \cup Texts /\ s \notin DOMAIN arglist
       /\ s # "include" /\ s \in keywords
BY DEF Semicolon, Closing, Equals, Opening, keywords, Signs, Sections, Numbers,
       Texts, Free, Settings, arglist

\* What is not misread.
LEMMA MisreadIs ==
  ASSUME NEW t, Len(t) \in Nat, ~Misread(t), NEW n \in 1..Len(t)
  PROVE  /\ t[n] = "allow" => n > 1 /\ t[n - 1] = Equals
         /\ n > 1 /\ t[n - 1] = Equals => t[n] \notin DOMAIN arglist /\ t[n] # "include"
<1>1. n > 1 => n \in 2..Len(t)
  OBVIOUS
<1> QED BY <1>1 DEF Misread, Valued, Equals

\* `include` is no value.
Plain(t) == ~Valued(t, {"include"})

LEMMA ValuedIs ==
  ASSUME NEW t, Len(t) \in Nat, Plain(t), NEW n \in 1..Len(t), t[n] = "include"
  PROVE  (n > 1 => t[n - 1] # Equals) /\ Includes(t, n)
<1>1. n > 1 => n \in 2..Len(t)
  OBVIOUS
<1> QED BY <1>1 DEF Plain, Valued, Includes, Equals

LEMMA ClearIs ==
  ASSUME NEW t, ~Misread(t) \/ ~Faulty(t)
  PROVE  Plain(t)
BY DEF Plain, Misread, Faulty, Valued

\* The parts that the tokens of a file have.
AllRoles(t) == \A n \in 1..Len(t) : Role(t, n, Len(t) + 1)

LEMMA RolesTokens ==
  ASSUME NEW t, Len(t) \in Nat, AllRoles(t), ~Misread(t)
  PROVE  checktokenlist(t)
<1> SUFFICES ASSUME NEW n \in 1..Len(t) PROVE t[n] \in keywords \/ (n > 1 /\ t[n - 1] = Equals)
  BY DEF checktokenlist, Equals
<1>1. Role(t, n, Len(t) + 1) /\ n \in Int /\ n - 1 \in Int /\ n - 2 \in Int /\ Len(t) + 1 \in Int
  BY DEF AllRoles
<1>2. CASE t[n] = Semicolon \/ t[n] = Closing
  BY <1>2, KindsApart
<1>3. CASE Assigns(t, n, Len(t) + 1) \/ Opens(t, n, Len(t) + 1)
  <2>1. t[n] \in keywords \cup {"allow"}
    BY <1>1, <1>3, HeadBegins DEF Begins
  <2> QED BY <2>1, MisreadIs
<1>4. CASE n >= 2 /\ (Assigns(t, n - 1, Len(t) + 1) \/ Opens(t, n - 1, Len(t) + 1))
  <2>1. t[(n - 1) + 1] = Equals \/ t[(n - 1) + 1] = Opening
    BY <1>1, <1>4, HeadIs
  <2>2. (n - 1) + 1 = n
    OBVIOUS
  <2> QED BY <2>1, <2>2, KindsApart
<1>5. CASE n >= 3 /\ Assigns(t, n - 2, Len(t) + 1)
  <2>1. t[(n - 2) + 1] = Equals
    BY <1>1, <1>5, HeadIs
  <2>2. (n - 2) + 1 = n - 1 /\ n > 1
    BY <1>5
  <2> QED BY <2>1, <2>2
<1> QED BY <1>1, <1>2, <1>3, <1>4, <1>5 DEF Role

LEMMA AssignedIs ==
  ASSUME NEW t, Len(t) \in Nat, NEW n \in 1..Len(t), n + 3 <= Len(t), t[n + 1] = Equals, t[n + 3] = Semicolon,
         t[n] \in Numbers => t[n + 2] \in Digits
  PROVE  Assigned(t, n)
<1>1. Token(t, n + 1) = Equals /\ Token(t, n + 3) = Semicolon /\ n + 2 <= Len(t)
  BY TokenAt
<1> QED BY <1>1 DEF Assigned, Equals, Semicolon

LEMMA RolesTypes ==
  ASSUME NEW t, Len(t) \in Nat, AllRoles(t), NEW beyond \in BOOLEAN
  PROVE  checkdatatype(t, beyond)
<1> SUFFICES ASSUME NEW n \in Scanned(t)
             PROVE  /\ t[n] \in Sections => n < Len(t) /\ t[n + 1] = Opening
                    /\ t[n] \in Numbers \cup Texts => Assigned(t, n)
  BY DEF checkdatatype, Opening
<1>0. n \in 1..Len(t)
  BY DEF Scanned
<1>1. Role(t, n, Len(t) + 1) /\ n \in Int /\ n - 1 \in Int /\ n - 2 \in Int /\ Len(t) + 1 \in Int
  BY <1>0 DEF AllRoles
<1>2. CASE t[n] = Semicolon \/ t[n] = Closing
  BY <1>2, KindsApart
<1>3. CASE Assigns(t, n, Len(t) + 1)
  <2>1. /\ t[n + 1] = Equals /\ t[n + 3] = Semicolon /\ n + 3 <= Len(t) /\ Rightly(t[n], t[n + 2])
        /\ t[n] \in Settings
    BY <1>1, <1>3, HeadIs
  <2>2. Assigned(t, n)
    BY <1>0, <2>1, RightlyIs, AssignedIs
  <2> QED BY <2>1, <2>2, KindsApart
<1>4. CASE Opens(t, n, Len(t) + 1)
  <2>1. t[n + 1] = Opening /\ t[n] \in Sections \cup {"interface"} /\ n < Len(t)
    BY <1>1, <1>4, HeadIs
  <2> QED BY <2>1, KindsApart
<1>5. CASE n >= 2 /\ (Assigns(t, n - 1, Len(t) + 1) \/ Opens(t, n - 1, Len(t) + 1))
  <2>1. t[(n - 1) + 1] = Equals \/ t[(n - 1) + 1] = Opening
    BY <1>1, <1>5, HeadIs
  <2>2. (n - 1) + 1 = n
    BY <1>0
  <2> QED BY <2>1, <2>2, KindsApart
<1>6. CASE n >= 3 /\ Assigns(t, n - 2, Len(t) + 1)
  <2>1. t[(n - 2) + 1] = Equals /\ t[n - 2] # Equals
    BY <1>1, <1>6, HeadIs
  <2>2. (n - 2) + 1 = n - 1 /\ n - 1 \in 1..Len(t) /\ n - 1 # 1 /\ (n - 1) - 1 = n - 2 /\ n # 1
    BY <1>0, <1>6
  <2>3. n - 1 \in Scanned(t)
    BY <2>1, <2>2, ScannedIs
  <2>4. n \notin Scanned(t)
    BY <1>0, <2>1, <2>2, <2>3, ScannedIs
  <2> QED BY <2>4
<1> QED BY <1>1, <1>2, <1>3, <1>4, <1>5, <1>6 DEF Role

LEMMA RolesArgs ==
  ASSUME NEW t, Len(t) \in Nat, AllRoles(t), NEW n \in 1..Len(t), n > 1 => t[n - 1] # Equals
  PROVE  /\ t[n] \in DOMAIN arglist => n + 2 <= Len(t) /\ t[n + 2] \in arglist[t[n]]
         /\ t[n] = "include" => n + 3 <= Len(t)
<1>1. Role(t, n, Len(t) + 1) /\ n \in Int /\ n - 1 \in Int /\ n - 2 \in Int /\ Len(t) + 1 \in Int
  BY DEF AllRoles
<1>2. CASE t[n] = Semicolon \/ t[n] = Closing
  BY <1>2, KindsApart
<1>3. CASE Assigns(t, n, Len(t) + 1)
  <2>1. n + 3 <= Len(t) /\ n + 2 <= Len(t) /\ Rightly(t[n], t[n + 2])
    BY <1>1, <1>3, HeadIs
  <2> QED BY <2>1, RightlyIs
<1>4. CASE Opens(t, n, Len(t) + 1)
  <2>1. t[n] \in Sections \cup {"interface"}
    BY <1>1, <1>4, HeadIs
  <2> QED BY <2>1, KindsApart
<1>5. CASE n >= 2 /\ (Assigns(t, n - 1, Len(t) + 1) \/ Opens(t, n - 1, Len(t) + 1))
  <2>1. t[(n - 1) + 1] = Equals \/ t[(n - 1) + 1] = Opening
    BY <1>1, <1>5, HeadIs
  <2>2. (n - 1) + 1 = n
    OBVIOUS
  <2> QED BY <2>1, <2>2, KindsApart
<1>6. CASE n >= 3 /\ Assigns(t, n - 2, Len(t) + 1)
  <2>1. t[(n - 2) + 1] = Equals
    BY <1>1, <1>6, HeadIs
  <2>2. (n - 2) + 1 = n - 1 /\ n > 1
    BY <1>6
  <2> QED BY <2>1, <2>2
<1> QED BY <1>1, <1>2, <1>3, <1>4, <1>5, <1>6 DEF Role

LEMMA CountIs ==
  ASSUME NEW t, NEW s
  PROVE  Count(t, s) = Cardinality(Those(t, s, 1, Len(t)))
BY DEF Count, Those

LEMMA BracesIs ==
  ASSUME NEW t, Len(t) \in Nat
  PROVE  countbraces(t) <=> Level(t, 1, Len(t)) = 0
<1>1. countbraces(t) <=> Onward(t, 1, Len(t)) = Rightwise(t, 1, Len(t))
  BY CountIs DEF countbraces, Onward, Rightwise, Opening, Closing
<1>2. Onward(t, 1, Len(t)) \in Nat /\ Rightwise(t, 1, Len(t)) \in Nat
  <2>1. 1 \in Int /\ Len(t) \in Int /\ Len(t) >= 1 - 1
    OBVIOUS
  <2> QED BY <2>1, CountedOn DEF Onward, Rightwise
<1>3. Level(t, 1, Len(t)) = 0 + Onward(t, 1, Len(t)) - Rightwise(t, 1, Len(t))
  BY OpenIs DEF Level
<1> QED BY <1>1, <1>2, <1>3

\* What has a meaning, and is not misread, is not refused.
LEMMA FinePasses ==
  ASSUME NEW t, Len(t) \in Nat, NEW m \in Meanings(t)
  PROVE  /\ ~Misread(t) => \A beyond \in BOOLEAN : Validated(t, beyond) = "ok"
         /\ Plain(t) => \A n \in 1..Len(t) : t[n] = "include" => n + 3 <= Len(t)
<1> DEFINE e == Len(t) + 1
<1>1. Sound(m, t, 1, e)
  <2>1. m \in Meaning(t, 1, e) /\ 1 \in 1..(Len(t) + 1) /\ e \in 1..(Len(t) + 1)
    BY MeaningsIs
  <2> QED BY <2>1, MeaningSound
<1>2. e - 1 = Len(t)
  OBVIOUS
<1>3. AllRoles(t)
  BY <1>1, <1>2 DEF Sound, AllRoles
<1>4. countbraces(t)
  BY <1>1, <1>2, BracesIs DEF Sound, Balanced
<1>5. ASSUME ~Misread(t) PROVE checktokenlist(t)
  BY <1>3, <1>5, RolesTokens
<1>6. ASSUME ~Misread(t), NEW beyond \in BOOLEAN PROVE Validated(t, beyond) = "ok"
  <2>1. checkdatatype(t, beyond)
    BY <1>3, RolesTypes
  <2>2. checkargs(t, beyond)
    <3>1. ASSUME NEW n \in 1..Len(t), t[n] \in DOMAIN arglist
          PROVE  ~(n + 2 > Len(t)) /\ t[n + 2] \in arglist[t[n]]
      <4>1. n > 1 => t[n - 1] # Equals
        BY <1>6, <3>1, MisreadIs
      <4> QED BY <1>3, <3>1, <4>1, RolesArgs
    <3> QED BY <3>1 DEF checkargs
  <2> QED BY <1>4, <1>5, <1>6, <2>1, <2>2 DEF Validated
<1>7. ASSUME Plain(t), NEW n \in 1..Len(t), t[n] = "include" PROVE n + 3 <= Len(t)
  <2>1. n > 1 => t[n - 1] # Equals
    BY <1>7, ValuedIs
  <2> QED BY <1>3, <1>7, <2>1, RolesArgs
<1> QED BY <1>6, <1>7

-----------------------------------------------------------------------------
(* A file that passes the checks, and has none of the faults, has a meaning. *)

\* Where a statement may begin.
Starting(t, i) == i = 1 \/ t[i - 1] = Semicolon \/ t[i - 1] = Opening \/ t[i - 1] = Closing

Heads(t, i) == i + 1 <= Len(t) /\ t[i] \in Sections \cup {"interface"} /\ t[i + 1] = Opening

\* What stands there.
Flawless(t) ==
  \A i \in 1..Len(t) : Starting(t, i) =>
    t[i] = Semicolon \/ t[i] = Closing \/ Assigns(t, i, Len(t) + 1) \/ Heads(t, i)

LEMMA AssignsIs ==
  ASSUME NEW t, NEW i \in Int, NEW e \in Int
  PROVE  Assigns(t, i, e) <=>
           /\ e - i >= 4 /\ t[i] \in Settings
           /\ t[i + 1] = Equals /\ Rightly(t[i], t[i + 2]) /\ t[i + 3] = Semicolon
BY Zenon DEF Assigns, Equals, Semicolon

LEMMA OpensIs ==
  ASSUME NEW t, NEW i \in Int, NEW e \in Int
  PROVE  Opens(t, i, e) <=> e - i >= 3 /\ t[i] \in Sections \cup {"interface"} /\ t[i + 1] = Opening
BY Zenon DEF Opens, Opening

LEMMA FlawlessIs ==
  ASSUME NEW t \in Seq(Words), Nil \notin Tokens, NEW b \in BOOLEAN, Validated(t, b) = "ok",
         ~Looks(t), ~Faulty(t)
  PROVE  Flawless(t) /\ Balanced(t, 1, Len(t) + 1)
<1>1. /\ countbraces(t) /\ checktokenlist(t)
      /\ checkdatatype(t, b) /\ checkargs(t, b)
  BY DEF Validated
<1>2. checkdatatype(t, FALSE) /\ checkargs(t, FALSE)
  <2>1. checkdatatype(t, TRUE) = checkdatatype(t, FALSE)
    BY <1>1 DEF Looks, Hangs
  <2>2. checkdatatype(t, FALSE) /\ checkdatatype(t, TRUE)
    BY <1>1, <2>1
  <2>3. checkargs(t, TRUE) = checkargs(t, FALSE)
    BY <1>1, <2>2 DEF Looks, Hangs
  <2> QED BY <1>1, <2>2, <2>3
<1>3. ~Unended(t) /\ ~Crossed(t) /\ ~Nameless(t) /\ ~Parted(t) /\ ~Valued(t, Signs \cup {"include"})
  BY DEF Faulty
<1>4. Len(t) \in Nat
  OBVIOUS
<1>5. Balanced(t, 1, Len(t) + 1)
  <2>1. (Len(t) + 1) - 1 = Len(t)
    BY <1>4
  <2>2. ASSUME NEW n \in 1..Len(t) PROVE Level(t, 1, n) >= 0
    <3>1. ~(Level(t, 1, n) < 0)
      BY <1>3 DEF Crossed, Level
    <3>2. Level(t, 1, n) \in Int
      BY LevelSplit
    <3> QED BY <3>1, <3>2
  <2>3. Level(t, 1, Len(t)) = 0
    BY <1>1, <1>4, BracesIs
  <2> QED BY <2>1, <2>2, <2>3 DEF Balanced
<1>6. ASSUME NEW i \in 1..Len(t), Assigned(t, i), t[i] \in Settings
      PROVE  Assigns(t, i, Len(t) + 1)
  <2>1. /\ Token(t, i + 1) = Equals /\ i + 2 <= Len(t) /\ Token(t, i + 3) = Semicolon
        /\ t[i] \in Numbers => t[i + 2] \in Digits
    BY <1>6 DEF Assigned, Equals, Semicolon
  <2>2. Semicolon # Nil
    BY KindsApart DEF Tokens
  <2>3. i + 3 <= Len(t)
    <3>1. i + 3 \in Nat /\ i + 3 >= 1
      BY <1>4
    <3> QED BY <1>4, <2>1, <2>2, <3>1, TokenIs
  <2>4. t[i + 1] = Equals /\ t[i + 3] = Semicolon
    <3>1. i + 1 <= Len(t)
      BY <1>4, <2>1
    <3> QED BY <2>1, <2>3, <3>1, TokenAt
  <2>5. Rightly(t[i], t[i + 2])
    <3>1. CASE t[i] \in DOMAIN arglist
      <4>1. t[i + 2] \in arglist[t[i]] \/ <<t[i], t[i + 2]>> \in Parts
        <5>1. ~(i + 2 > Len(t))
          BY <1>4, <2>1
        <5> QED BY <1>2, <3>1, <5>1 DEF checkargs
      <4>2. <<t[i], Token(t, i + 2)>> \notin Parts
        BY <1>3 DEF Parted
      <4>3. Token(t, i + 2) = t[i + 2]
        BY <2>1, TokenAt
      <4> QED BY <3>1, <4>1, <4>2, <4>3 DEF Rightly
    <3>2. CASE t[i] \notin DOMAIN arglist
      <4>1. t[i + 2] \notin Signs
        <5>1. i + 2 \in 2..Len(t) /\ (i + 2) - 1 = i + 1
          BY <1>4, <2>1
        <5>2. ~(t[(i + 2) - 1] = Equals /\ t[i + 2] \in Signs \cup {"include"})
          BY <1>3, <5>1 DEF Valued, Equals
        <5> QED BY <2>4, <5>1, <5>2
      <4> QED BY <2>1, <3>2, <4>1 DEF Rightly
    <3> QED BY <3>1, <3>2
  <2>6. (Len(t) + 1) - i >= 4
    BY <1>4, <2>3
  <2> QED BY <1>4, <1>6, <2>4, <2>5, <2>6, AssignsIs
<1>7. ASSUME NEW i \in 1..Len(t), Token(t, i + 1) = Opening, t[i] \in Sections \cup {"interface"}
      PROVE  Heads(t, i)
  <2>1. Opening # Nil
    BY KindsApart DEF Tokens
  <2>2. i + 1 <= Len(t)
    <3>1. i + 1 \in Nat /\ i + 1 >= 1
      BY <1>4
    <3> QED BY <1>4, <1>7, <2>1, <3>1, TokenIs
  <2> QED BY <1>7, <2>2, TokenAt DEF Heads
<1>8. ASSUME NEW i \in 1..Len(t), Starting(t, i)
      PROVE  t[i] = Semicolon \/ t[i] = Closing \/ Assigns(t, i, Len(t) + 1) \/ Heads(t, i)
  <2>1. i # 1 => t[i - 1] # Equals
    BY <1>8 DEF Starting, Equals, Semicolon, Opening, Closing
  <2>2. i \in Scanned(t)
    BY <1>4, <2>1, ScannedIs
  <2>3. t[i] \in keywords
    BY <1>1, <2>1 DEF checktokenlist, Equals
  <2>4. CASE t[i] \in Signs
    <3>1. t[i] # Equals /\ t[i] # Opening
      <4>1. i = 1 \/ t[i - 1] \in Signs
        BY <1>8, KindsApart DEF Starting
      <4> QED BY <1>3, <4>1 DEF Nameless, Equals, Opening
    <3>2. t[i] \in {Equals, Opening, Closing, Semicolon}
      BY <2>4 DEF Signs, Equals, Opening, Closing, Semicolon
    <3> QED BY <3>1, <3>2
  <2>5. CASE t[i] \in Sections
    <3>1. i < Len(t) /\ t[i + 1] = Opening
      BY <1>2, <2>2, <2>5 DEF checkdatatype, Opening
    <3>2. i + 1 <= Len(t)
      BY <1>4, <3>1
    <3> QED BY <2>5, <3>1, <3>2 DEF Heads
  <2>6. CASE t[i] \in Numbers \cup Texts
    <3>1. Assigned(t, i)
      BY <1>2, <2>2, <2>6 DEF checkdatatype
    <3> QED BY <1>6, <2>6, <3>1 DEF Settings
  <2>7. CASE t[i] \in Free
    <3>1. Assigned(t, i) \/ (t[i] = "interface" /\ Token(t, i + 1) = Opening)
      BY <1>3, <2>2, <2>7 DEF Unended, Opening
    <3> QED BY <1>6, <1>7, <2>7, <3>1 DEF Settings
  <2> QED BY <2>3, <2>4, <2>5, <2>6, <2>7 DEF keywords
<1> QED BY <1>5, <1>8 DEF Flawless

\* The brace that closes the one behind a keyword.
LEMMA BlockFound ==
  ASSUME NEW t, NEW i \in Nat, NEW e \in Nat, i + 1 < e, Turn(t[i]) = 0, Turn(t[i + 1]) = 1, Balanced(t, i, e)
  PROVE  \E j \in (i + 2)..(e - 1) : t[j] = Closing /\ Balanced(t, i + 2, j) /\ Balanced(t, j + 1, e)
<1> DEFINE a == i + 2
           T == {n \in a..(e - 1) : Level(t, i, n) = 0}
<1>0. a \in Nat /\ a - 1 = i + 1 /\ a <= e
  OBVIOUS
<1>1. ASSUME NEW n \in Int, n >= a - 1
      PROVE  /\ Level(t, i, n) = 1 + Level(t, a, n)
             /\ Level(t, i, n) \in Int /\ Level(t, a, n) \in Int
  <2>1. i + 1 \in Int /\ i + 1 >= i - 1 /\ n >= i + 1 /\ (i + 1) + 1 = a
    BY <1>0, <1>1
  <2>2. Level(t, i, n) = Level(t, i, i + 1) + Level(t, a, n) /\ Level(t, i, n) \in Int /\ Level(t, a, n) \in Int
    BY <2>1, LevelSplit
  <2>3. Level(t, i, i + 1) = Level(t, i, i) + Level(t, i + 1, i + 1) /\ Level(t, i, i) = Turn(t[i])
    BY LevelSplit
  <2>4. Level(t, i + 1, i + 1) = Turn(t[i + 1])
    BY LevelSplit
  <2> QED BY <2>2, <2>3, <2>4
<1>2. Level(t, a, a - 1) = 0
  BY <1>0, LevelSplit
<1>3. Level(t, i, e - 1) = 0 /\ \A n \in i..(e - 1) : Level(t, i, n) >= 0
  BY DEF Balanced
<1>4. e - 1 # a - 1
  BY <1>0, <1>1, <1>2, <1>3
<1>5. e - 1 \in T
  BY <1>0, <1>3, <1>4
<1>6. PICK j \in T : \A m \in T : j <= m
  <2>1. T \subseteq Nat
    BY <1>0
  <2> HIDE DEF T
  <2> QED BY <1>5, <2>1, Least
<1>7. j \in a..(e - 1) /\ Level(t, i, j) = 0 /\ j \in Nat
  BY <1>0, <1>6
<1>8. \A n \in a..(j - 1) : Level(t, i, n) >= 1
  <2> TAKE n \in a..(j - 1)
  <2>1. n \in a..(e - 1) /\ n \in i..(e - 1) /\ n < j
    BY <1>0, <1>7
  <2>2. n \notin T
    BY <1>6, <1>7, <2>1
  <2>3. Level(t, i, n) \in Int
    BY <1>0, <1>1, <2>1
  <2> QED BY <1>3, <2>1, <2>2, <2>3
<1>9. Level(t, i, j - 1) >= 1 /\ Level(t, i, j - 1) \in Int /\ Level(t, a, j - 1) \in Int
  <2>1. j - 1 \in Int /\ j - 1 >= a - 1
    BY <1>0, <1>7
  <2>2. CASE j - 1 = a - 1
    BY <1>1, <1>2, <2>1, <2>2
  <2>3. CASE j - 1 >= a
    BY <1>0, <1>1, <1>7, <1>8, <2>1, <2>3
  <2> QED BY <1>0, <2>1, <2>2, <2>3
<1>10. Level(t, i, j) = Level(t, i, j - 1) + Turn(t[j]) /\ Turn(t[j]) \in Int
  <2>1. j - 1 \in Int /\ j - 1 >= i - 1 /\ j >= j - 1 /\ (j - 1) + 1 = j
    BY <1>0, <1>7
  <2>2. Level(t, i, j) = Level(t, i, j - 1) + Level(t, j, j)
    BY <1>7, <2>1, LevelSplit
  <2> QED BY <1>7, <2>2, LevelSplit
<1>11. t[j] = Closing /\ Turn(t[j]) = -1
  BY <1>7, <1>9, <1>10 DEF Turn
<1>12. Balanced(t, a, j)
  <2>1. Level(t, a, j - 1) = 0
    BY <1>0, <1>1, <1>7, <1>9, <1>10, <1>11
  <2>2. \A n \in a..(j - 1) : Level(t, a, n) >= 0
    BY <1>0, <1>1, <1>8
  <2> QED BY <2>1, <2>2 DEF Balanced
<1>13. Balanced(t, j + 1, e)
  <2>1. ASSUME NEW n \in Int, n >= j PROVE Level(t, i, n) = Level(t, j + 1, n) /\ Level(t, j + 1, n) \in Int
    <3>1. j \in Int /\ j >= i - 1
      BY <1>0, <1>7
    <3>2. Level(t, i, n) = Level(t, i, j) + Level(t, j + 1, n) /\ Level(t, j + 1, n) \in Int
      BY <2>1, <3>1, LevelSplit
    <3> QED BY <1>7, <3>2
  <2>2. Level(t, j + 1, e - 1) = 0
    BY <1>3, <1>7, <2>1
  <2>3. \A n \in (j + 1)..(e - 1) : Level(t, j + 1, n) >= 0
    <3> TAKE n \in (j + 1)..(e - 1)
    <3>1. n \in Int /\ n >= j /\ n \in i..(e - 1)
      BY <1>0, <1>7
    <3> QED BY <1>3, <2>1, <3>1
  <2> QED BY <2>2, <2>3 DEF Balanced
<1> QED BY <1>7, <1>11, <1>12, <1>13 DEF a

\* Tokens without a fault stand for items, wherever a statement may start.
LEMMA FlawlessMeans ==
  ASSUME NEW t, Len(t) \in Nat, Flawless(t)
  PROVE  \A i \in 1..(Len(t) + 1) : Starting(t, i) => \A e \in i..(Len(t) + 1) :
           (e = Len(t) + 1 \/ t[e] = Closing) /\ Balanced(t, i, e) => \E m : m \in Meaning(t, i, e)
<1> DEFINE L == Len(t) + 1
           P == {i \in Int : Starting(t, i) => \A e \in i..L :
                   (e = L \/ t[e] = Closing) /\ Balanced(t, i, e) => \E m : m \in Meaning(t, i, e)}
<1>0. L \in Nat /\ L = Len(t) + 1
  OBVIOUS
<1>1. ASSUME NEW i \in 1..L, \A a \in (i + 1)..L : a \in P
      PROVE  i \in P
  <2> HIDE DEF P
  <2>0. ASSUME NEW a \in (i + 1)..L, Starting(t, a), NEW e \in a..L, e = L \/ t[e] = Closing, Balanced(t, a, e)
        PROVE  \E m : m \in Meaning(t, a, e)
    <3>1. a \in P
      BY <1>1, <2>0
    <3> QED BY <2>0, <3>1 DEF P
  <2>1. ASSUME Starting(t, i), NEW e \in i..L, e = L \/ t[e] = Closing, Balanced(t, i, e)
        PROVE  \E m : m \in Meaning(t, i, e)
    <3> HIDE DEF L
    <3>1. /\ i \in Nat /\ i >= 1 /\ e \in Nat /\ e <= L /\ i <= e
          /\ i \in 1..(Len(t) + 1) /\ e \in 1..(Len(t) + 1)
      BY <1>0
    <3>2. \A y : (NoneLeft(y, i, e) \/ Stray(y, t, i, e) \/ Assigned1(y, t, i, e) \/ Enclosed(y, t, i, e))
                   => y \in Meaning(t, i, e)
      BY <3>1, MeaningIs
    <3>3. CASE i = e
      <4>1. NoneLeft(<<>>, i, e)
        BY <3>1, <3>3 DEF NoneLeft
      <4> QED BY <3>2, <4>1
    <3>4. CASE i < e /\ t[i] = Semicolon
      <4>1. i + 1 \in (i + 1)..L /\ e \in (i + 1)..L
        BY <1>0, <3>1, <3>4
      <4>2. Starting(t, i + 1)
        BY <3>1, <3>4 DEF Starting
      <4>3. Balanced(t, i + 1, e)
        BY <2>1, <3>1, <3>4, TurnIs, BalancedOn
      <4>4. PICK m : m \in Meaning(t, i + 1, e)
        BY <2>0, <2>1, <4>1, <4>2, <4>3
      <4>5. Stray(m, t, i, e)
        BY <3>4, <4>4 DEF Stray
      <4> QED BY <3>2, <4>5
    <3>5. ~(i < e /\ t[i] = Closing)
      <4> SUFFICES ASSUME i < e, t[i] = Closing PROVE FALSE
        OBVIOUS
      <4>1. i \in i..(e - 1)
        BY <3>1
      <4>2. Level(t, i, i) >= 0
        BY <2>1, <4>1 DEF Balanced
      <4>3. Level(t, i, i) = -1
        <5>1. Turn(t[i]) = -1
          BY TurnIs
        <5>2. i \in Int /\ i - 1 \in Int /\ i - 1 >= i - 1 /\ i >= i - 1
          BY <3>1
        <5> QED BY <5>1, <5>2, LevelSplit
      <4> QED BY <4>2, <4>3
    <3>6. CASE i < e /\ Assigns(t, i, L)
      <4>1. /\ t[i] # Closing /\ t[i] # Opening /\ t[i + 1] = Equals /\ t[i + 3] = Semicolon /\ L - i >= 4
            /\ Rightly(t[i], t[i + 2])
        BY <1>0, <3>1, <3>6, HeadIs
      <4>2. t[i + 2] # Closing /\ t[i + 2] # Opening
        BY <4>1, RightlyIs
      <4>3. e - i >= 4
        <5>1. e = L \/ (e # i + 1 /\ e # i + 2 /\ e # i + 3)
          <6>1. ASSUME t[e] = Closing PROVE e # i + 1 /\ e # i + 2 /\ e # i + 3
            <7>1. Equals # Closing /\ Semicolon # Closing
              BY SignsApart DEF Equals, Closing
            <7> QED BY <4>1, <4>2, <6>1, <7>1
          <6> QED BY <2>1, <6>1
        <5> QED BY <1>0, <3>1, <3>6, <4>1, <5>1
      <4>4. Assigns(t, i, e)
        BY <1>0, <3>1, <3>6, <4>3, AssignsIs
      <4>5. Balanced(t, i + 4, e)
        <5>0. Turn(t[i]) = 0 /\ Turn(t[i + 1]) = 0 /\ Turn(t[i + 2]) = 0 /\ Turn(t[i + 3]) = 0
          BY <4>1, <4>2, TurnIs
        <5>1. Balanced(t, i + 1, e)
          BY <2>1, <3>1, <4>3, <5>0, BalancedOn
        <5>2. (i + 1) + 1 = i + 2 /\ (i + 2) + 1 = i + 3 /\ (i + 3) + 1 = i + 4
          BY <3>1
        <5>3. i + 1 \in Int /\ i + 1 < e /\ i + 2 \in Int /\ i + 2 < e /\ i + 3 \in Int /\ i + 3 < e
          BY <3>1, <4>3
        <5>4. Balanced(t, i + 2, e)
          <6> DEFINE n == i + 1
          <6>1. n \in Int /\ n < e /\ Turn(t[n]) = 0 /\ Balanced(t, n, e) /\ n + 1 = i + 2
            BY <5>0, <5>1, <5>2, <5>3
          <6> HIDE DEF n
          <6>2. Balanced(t, n + 1, e)
            BY <3>1, <6>1, BalancedOn
          <6> QED BY <6>1, <6>2
        <5>5. Balanced(t, i + 3, e)
          <6> DEFINE n == i + 2
          <6>1. n \in Int /\ n < e /\ Turn(t[n]) = 0 /\ Balanced(t, n, e) /\ n + 1 = i + 3
            BY <5>0, <5>2, <5>3, <5>4
          <6> HIDE DEF n
          <6>2. Balanced(t, n + 1, e)
            BY <3>1, <6>1, BalancedOn
          <6> QED BY <6>1, <6>2
        <5>6. Balanced(t, i + 4, e)
          <6> DEFINE n == i + 3
          <6>1. n \in Int /\ n < e /\ Turn(t[n]) = 0 /\ Balanced(t, n, e) /\ n + 1 = i + 4
            BY <5>0, <5>2, <5>3, <5>5
          <6> HIDE DEF n
          <6>2. Balanced(t, n + 1, e)
            BY <3>1, <6>1, BalancedOn
          <6> QED BY <6>1, <6>2
        <5> QED BY <5>6
      <4>6. Starting(t, i + 4)
        <5>1. (i + 4) - 1 = i + 3
          BY <3>1
        <5> QED BY <4>1, <5>1 DEF Starting
      <4>7. i + 4 \in (i + 1)..L /\ e \in (i + 4)..L
        BY <1>0, <3>1, <4>3
      <4>8. PICK m : m \in Meaning(t, i + 4, e)
        BY <2>0, <2>1, <4>5, <4>6, <4>7
      <4>9. Assigned1(Before(Assignment(t[i], t[i + 2]), m), t, i, e)
        BY <4>4, <4>8 DEF Assigned1
      <4> QED BY <3>2, <4>9
    <3>7. CASE i < e /\ Heads(t, i)
      <4>1. t[i] \in Sections \cup {"interface"} /\ t[i + 1] = Opening /\ i + 1 < L
        BY <1>0, <3>1, <3>7 DEF Heads
      <4>2. t[i] # Closing /\ t[i] # Opening
        BY <4>1, Zenon DEF Sections, Closing, Opening
      <4>3. i + 1 < e
        <5>1. e = L \/ e # i + 1
          BY <2>1, <4>1, SignsApart
        <5> QED BY <1>0, <3>1, <3>7, <4>1, <5>1
      <4>4. Turn(t[i]) = 0 /\ Turn(t[i + 1]) = 1
        BY <4>1, <4>2, TurnIs
      <4>5. PICK j \in (i + 2)..(e - 1) : t[j] = Closing /\ Balanced(t, i + 2, j) /\ Balanced(t, j + 1, e)
        BY <2>1, <3>1, <4>3, <4>4, BlockFound
      <4>6. Starting(t, i + 2) /\ Starting(t, j + 1)
        <5>1. (i + 2) - 1 = i + 1 /\ (j + 1) - 1 = j
          BY <3>1
        <5> QED BY <4>1, <4>5, <5>1 DEF Starting
      <4>7. /\ i + 2 \in (i + 1)..L /\ j \in (i + 2)..L /\ j + 1 \in (i + 1)..L /\ e \in (j + 1)..L
            /\ e - i >= 3
        BY <1>0, <3>1, <4>3
      <4>8. PICK b : b \in Meaning(t, i + 2, j)
        BY <2>0, <4>5, <4>6, <4>7
      <4>9. PICK r : r \in Meaning(t, j + 1, e)
        BY <2>0, <2>1, <4>5, <4>6, <4>7
      <4>10. Opens(t, i, e) /\ j \in Endings(t, i, e)
        BY <3>1, <4>1, <4>5, <4>7, OpensIs, EndingsIs
      <4>11. Enclosed(Before(Block(t[i], b), r), t, i, e)
        BY <4>8, <4>9, <4>10 DEF Enclosed
      <4> QED BY <3>2, <4>11
    <3>8. i < e => t[i] = Semicolon \/ t[i] = Closing \/ Assigns(t, i, L) \/ Heads(t, i)
      <4>1. i < e => i \in 1..Len(t)
        BY <1>0, <3>1
      <4> QED BY <1>0, <2>1, <4>1 DEF Flawless
    <3> QED BY <3>1, <3>3, <3>4, <3>5, <3>6, <3>7, <3>8
  <2> QED BY <2>1 DEF P
<1>2. \A i \in 1..L : i \in P
  <2> HIDE DEF P, L
  <2> QED BY <1>0, <1>1, Backwards
<1> QED BY <1>2

\* What passes the checks and has none of the faults means something.
LEMMA PassesMeans ==
  ASSUME NEW t \in Seq(Words), Nil \notin Tokens, NEW b \in BOOLEAN, Validated(t, b) = "ok",
         ~Looks(t), ~Faulty(t)
  PROVE  \E m : m \in Meanings(t)
<1>1. Flawless(t) /\ Balanced(t, 1, Len(t) + 1) /\ Starting(t, 1) /\ Len(t) \in Nat
  BY FlawlessIs DEF Starting
<1>2. 1 \in 1..(Len(t) + 1) /\ Len(t) + 1 \in 1..(Len(t) + 1)
  BY <1>1
<1>3. \E m : m \in Meaning(t, 1, Len(t) + 1)
  BY <1>1, <1>2, FlawlessMeans
<1> QED BY <1>3, MeaningsIs

-----------------------------------------------------------------------------
(* Sequences of sequences, one behind the other.                             *)

\* Induction, for a set.
LEMMA Upwards ==
  ASSUME NEW P, 0 \in P, \A n \in Nat : n \in P => n + 1 \in P
  PROVE  \A n \in Nat : n \in P
<1> DEFINE T == {n \in Nat : n \notin P}
<1> SUFFICES ASSUME T # {} PROVE FALSE
  OBVIOUS
<1>1. PICK n \in T : \A m \in T : n <= m
  <2>1. T \subseteq Nat
    OBVIOUS
  <2> HIDE DEF T
  <2> QED BY <2>1, Least
<1>2. n \in Nat /\ n \notin P /\ n # 0
  OBVIOUS
<1>3. n - 1 \in Nat /\ n - 1 < n /\ (n - 1) + 1 = n
  BY <1>2
<1>4. n - 1 \notin T
  <2> HIDE DEF T
  <2> QED BY <1>1, <1>3
<1> QED BY <1>2, <1>3, <1>4

FlatCell(s, f, i) == IF i = 1 THEN s[i] ELSE f[i - 1] \o s[i]

IsFlat(s, f) == f = [i \in 1..Len(s) |-> FlatCell(s, f, i)]

LEMMA FlatExists ==
  ASSUME NEW s, Len(s) \in Nat
  PROVE  \E f : IsFlat(s, f)
<1> DEFINE Good(n, f) == f = [i \in 1..n |-> FlatCell(s, f, i)]
           P == {n \in Nat : \E f : Good(n, f)}
<1>1. 0 \in P
  <2>1. Good(0, [i \in 1..0 |-> TRUE])
    OBVIOUS
  <2> QED BY <2>1
<1>2. ASSUME NEW n \in Nat, n \in P PROVE n + 1 \in P
  <2>1. PICK f : Good(n, f)
    BY <1>2
  <2> DEFINE g == [i \in 1..(n + 1) |-> FlatCell(s, f, i)]
  <2>2. ASSUME NEW i \in 1..(n + 1) PROVE g[i] = FlatCell(s, g, i)
    <3>1. i # 1 => i - 1 \in 1..n /\ i - 1 \in 1..(n + 1)
      OBVIOUS
    <3>2. i # 1 => f[i - 1] = FlatCell(s, f, i - 1) /\ g[i - 1] = FlatCell(s, f, i - 1)
      BY <2>1, <3>1
    <3>3. g[i] = FlatCell(s, f, i)
      OBVIOUS
    <3> HIDE DEF g
    <3>4. FlatCell(s, f, i) = FlatCell(s, g, i)
      BY <3>2 DEF FlatCell
    <3> QED BY <3>3, <3>4
  <2>3. Good(n + 1, g)
    <3>1. g = [i \in 1..(n + 1) |-> g[i]]
      OBVIOUS
    <3> HIDE DEF g
    <3> QED BY <2>2, <3>1
  <2> HIDE DEF g, Good
  <2> QED BY <2>3
<1>3. Len(s) \in P
  <2> HIDE DEF P
  <2> QED BY <1>1, <1>2, Upwards
<1> QED BY <1>3 DEF IsFlat

FlatOf(s) == CHOOSE f : IsFlat(s, f)

LEMMA FlatIs ==
  ASSUME NEW s, Len(s) \in Nat
  PROVE  /\ Len(s) = 0 => FlattenSeq(s) = s
         /\ Len(s) # 0 => FlattenSeq(s) = FlatOf(s)[Len(s)]
         /\ \A i \in 1..Len(s) : FlatOf(s)[i] = IF i = 1 THEN s[i] ELSE FlatOf(s)[i - 1] \o s[i]
<1>1. IsFlat(s, FlatOf(s))
  BY FlatExists DEF FlatOf
<1>2. Len(s) # 0 => FlattenSeq(s) = FlatOf(s)[Len(s)]
  BY DEF FlattenSeq, FlatOf, IsFlat, FlatCell
<1>3. \A i \in 1..Len(s) : FlatOf(s)[i] = FlatCell(s, FlatOf(s), i)
  BY <1>1 DEF IsFlat
<1>4. Len(s) = 0 => FlattenSeq(s) = s
  BY DEF FlattenSeq
<1> QED BY <1>2, <1>3, <1>4 DEF FlatCell

LEMMA FlatNone == FlattenSeq(<<>>) = <<>>
BY FlatIs

\* One more behind the others.
LEMMA FlatOn ==
  ASSUME NEW S, NEW s \in Seq(S), NEW x \in S, ListedAt(x)
  PROVE  FlattenSeq(Append(s, x)) = FlattenSeq(s) \o x
<1> DEFINE u == Append(s, x)
           n == Len(s)
           P == {i \in Nat : i + 1 \in 1..n => FlatOf(u)[i + 1] = FlatOf(s)[i + 1]}
<1>0. n \in Nat /\ Len(u) = n + 1 /\ Len(u) \in Nat /\ u[n + 1] = x /\ \A i \in 1..n : u[i] = s[i]
  OBVIOUS
<1>1. CASE n = 0
  <2>1. s = <<>> /\ FlattenSeq(s) = <<>>
    BY <1>1, FlatNone
  <2>2. FlattenSeq(u) = x
    <3> HIDE DEF u, n
    <3>1. FlattenSeq(u) = FlatOf(u)[1] /\ FlatOf(u)[1] = u[1]
      BY <1>0, <1>1, FlatIs
    <3> QED BY <1>0, <1>1, <3>1
  <2>3. <<>> \o x = x
    BY BothListed, NoneListed
  <2> QED BY <2>1, <2>2, <2>3
<1>2. CASE n # 0
  <2> HIDE DEF u, n
  <2>a. /\ \A i \in 1..Len(u) : FlatOf(u)[i] = IF i = 1 THEN u[i] ELSE FlatOf(u)[i - 1] \o u[i]
        /\ FlattenSeq(u) = FlatOf(u)[Len(u)]
    BY <1>0, FlatIs
  <2>b. /\ \A i \in 1..n : FlatOf(s)[i] = IF i = 1 THEN s[i] ELSE FlatOf(s)[i - 1] \o s[i]
        /\ FlattenSeq(s) = FlatOf(s)[n]
    BY <1>0, <1>2, FlatIs DEF n
  <2>1. 0 \in P
    <3>1. 1 \in 1..Len(u) /\ 1 \in 1..n
      BY <1>0, <1>2
    <3> QED BY <1>0, <2>a, <2>b, <3>1
  <2>2. ASSUME NEW i \in Nat, i \in P PROVE i + 1 \in P
    <3>1. ASSUME (i + 1) + 1 \in 1..n PROVE FlatOf(u)[(i + 1) + 1] = FlatOf(s)[(i + 1) + 1]
      <4>1. i + 1 \in 1..n /\ (i + 1) + 1 \in 1..Len(u) /\ (i + 1) + 1 # 1 /\ ((i + 1) + 1) - 1 = i + 1
        BY <1>0, <3>1
      <4>2. FlatOf(u)[i + 1] = FlatOf(s)[i + 1]
        BY <2>2, <4>1
      <4>3. FlatOf(u)[(i + 1) + 1] = FlatOf(u)[i + 1] \o u[(i + 1) + 1]
        BY <2>a, <4>1
      <4>4. FlatOf(s)[(i + 1) + 1] = FlatOf(s)[i + 1] \o s[(i + 1) + 1]
        BY <2>b, <3>1, <4>1
      <4> QED BY <1>0, <3>1, <4>2, <4>3, <4>4
    <3> QED BY <3>1
  <2>3. n - 1 \in P
    <3> HIDE DEF P
    <3>1. \A i \in Nat : i \in P
      BY <2>1, <2>2, Upwards
    <3> QED BY <1>0, <1>2, <3>1
  <2>4. FlatOf(u)[n] = FlatOf(s)[n]
    <3>1. (n - 1) + 1 = n /\ n \in 1..n
      BY <1>0, <1>2
    <3> QED BY <2>3, <3>1
  <2>5. FlatOf(u)[n + 1] = FlatOf(u)[n] \o u[n + 1]
    <3>1. n + 1 \in 1..Len(u) /\ n + 1 # 1 /\ (n + 1) - 1 = n
      BY <1>0, <1>2
    <3> QED BY <2>a, <3>1
  <2> QED BY <1>0, <2>a, <2>b, <2>4, <2>5 DEF u
<1> QED BY <1>1, <1>2

-----------------------------------------------------------------------------
(* The files that the includes of a file stand for.                          *)

FoundAt(t, n) == IF Includes(t, n) THEN Stands(Token(t, n + 2)) ELSE <<>>

\* Those of the first n tokens.
Upto(t, n) == FlattenSeq([w \in 1..n |-> FoundAt(t, w)])

LEMMA UptoIs ==
  ASSUME Sane, NEW d \in Inputs, NEW t, NEW n \in Nat
  PROVE  /\ Upto(t, 0) = <<>>
         /\ Upto(t, n + 1) = Upto(t, n) \o FoundAt(t, n + 1)
<1> DEFINE s == [w \in 1..n |-> FoundAt(t, w)]
           u == [w \in 1..(n + 1) |-> FoundAt(t, w)]
<1>1. \A w : FoundAt(t, w) \in Seq(DOMAIN d)
  BY StandsIn DEF FoundAt
<1>2. s \in Seq(Seq(DOMAIN d)) /\ Len(s) = n
  BY <1>1
<1>3. u = Append(s, FoundAt(t, n + 1))
  <2>1. u \in Seq(Seq(DOMAIN d)) /\ Len(u) = n + 1
    BY <1>1
  <2>2. \A w \in 1..(n + 1) : u[w] = Append(s, FoundAt(t, n + 1))[w]
    BY <1>1, <1>2
  <2>3. Append(s, FoundAt(t, n + 1)) \in Seq(Seq(DOMAIN d)) /\ Len(Append(s, FoundAt(t, n + 1))) = n + 1
    BY <1>1, <1>2
  <2> HIDE DEF u, s
  <2> QED BY <2>1, <2>2, <2>3, SeqEqual
<1>4. ListedAt(FoundAt(t, n + 1))
  BY <1>1 DEF ListedAt
<1>5. FlattenSeq(u) = FlattenSeq(s) \o FoundAt(t, n + 1)
  <2> HIDE DEF u, s
  <2> QED BY <1>1, <1>2, <1>3, <1>4, FlatOn
<1>6. Upto(t, 0) = <<>>
  <2>1. [w \in 1..0 |-> FoundAt(t, w)] = <<>>
    OBVIOUS
  <2> QED BY <2>1, FlatNone DEF Upto
<1> QED BY <1>5, <1>6 DEF Upto

LEMMA UptoTyped ==
  ASSUME Sane, NEW d \in Inputs, NEW t
  PROVE  \A n \in Nat : Upto(t, n) \in Seq(DOMAIN d)
<1> DEFINE P == {n \in Nat : Upto(t, n) \in Seq(DOMAIN d)}
<1>1. 0 \in P
  <2>1. Upto(t, 0) = <<>>
    BY UptoIs
  <2>2. <<>> \in Seq(DOMAIN d)
    OBVIOUS
  <2>3. Upto(t, 0) \in Seq(DOMAIN d)
    BY <2>1, <2>2
  <2> QED BY <2>3
<1>2. ASSUME NEW n \in Nat, n \in P PROVE n + 1 \in P
  <2>1. FoundAt(t, n + 1) \in Seq(DOMAIN d)
    BY StandsIn DEF FoundAt
  <2>2. Upto(t, n + 1) = Upto(t, n) \o FoundAt(t, n + 1)
    BY UptoIs
  <2>3. Upto(t, n) \in Seq(DOMAIN d)
    BY <1>2
  <2>4. Upto(t, n + 1) \in Seq(DOMAIN d)
    <3> DEFINE a == Upto(t, n)
               b == FoundAt(t, n + 1)
    <3>1. a \in Seq(DOMAIN d) /\ b \in Seq(DOMAIN d)
      BY <2>1, <2>3
    <3> HIDE DEF a, b
    <3>2. a \o b \in Seq(DOMAIN d)
      BY <3>1
    <3> QED BY <2>2, <3>2 DEF a, b
  <2> QED BY <2>4
<1> HIDE DEF P
<1>3. \A n \in Nat : n \in P
  BY <1>1, <1>2, Upwards
<1> QED BY <1>3 DEF P

\* More tokens, more files, in the same order.
LEMMA UptoGrows ==
  ASSUME Sane, NEW d \in Inputs, NEW t, NEW n \in Nat, NEW L \in Nat, n <= L
  PROVE  /\ Len(Upto(t, n)) <= Len(Upto(t, L))
         /\ \A w \in 1..Len(Upto(t, n)) : Upto(t, L)[w] = Upto(t, n)[w]
<1> DEFINE Same(i) == /\ Len(Upto(t, n)) <= Len(Upto(t, n + i))
                      /\ \A w \in 1..Len(Upto(t, n)) : Upto(t, n + i)[w] = Upto(t, n)[w]
           P == {i \in Nat : Same(i)}
<1>0. \A i \in Nat : Upto(t, i) \in Seq(DOMAIN d) /\ Len(Upto(t, i)) \in Nat
  <2>1. \A i \in Nat : Upto(t, i) \in Seq(DOMAIN d)
    BY UptoTyped
  <2> QED BY <2>1
<1>1. 0 \in P
  <2>1. n + 0 = n
    OBVIOUS
  <2> QED BY <1>0, <2>1
<1>2. ASSUME NEW i \in Nat, i \in P PROVE i + 1 \in P
  <2> DEFINE a == Upto(t, n + i)
             b == FoundAt(t, (n + i) + 1)
             c == Upto(t, n)
  <2>1. a \in Seq(DOMAIN d) /\ Len(c) \in Nat
    BY <1>0
  <2>2. b \in Seq(DOMAIN d)
    BY StandsIn DEF FoundAt
  <2>3. Upto(t, n + (i + 1)) = a \o b
    <3>1. n + (i + 1) = (n + i) + 1 /\ n + i \in Nat
      OBVIOUS
    <3> QED BY <3>1, UptoIs
  <2>4. Len(c) <= Len(a) /\ \A w \in 1..Len(c) : a[w] = c[w]
    BY <1>2
  <2> HIDE DEF a, b, c
  <2>5. Len(c) <= Len(a \o b) /\ \A w \in 1..Len(c) : (a \o b)[w] = c[w]
    BY <2>1, <2>2, <2>4
  <2>6. Same(i + 1)
    BY <2>3, <2>5 DEF c
  <2> QED BY <2>6
<1>3. L - n \in P
  <2> HIDE DEF P
  <2>1. \A i \in Nat : i \in P
    BY <1>1, <1>2, Upwards
  <2> QED BY <2>1
<1>4. n + (L - n) = L
  OBVIOUS
<1> QED BY <1>3, <1>4

LEMMA IncludedIs ==
  ASSUME NEW t
  PROVE  Included(t) = Upto(t, Len(t))
BY DEF Included, Upto, FoundAt

Through(a, x, b) == a \o (<<x>> \o b)

\* One that stands among those of the first tokens is one of all.
LEMMA AmongIncluded ==
  ASSUME Sane, NEW d \in Inputs, NEW t \in Seq(Words), NEW n \in Nat, n <= Len(t),
         NEW a \in Seq(DOMAIN d), NEW x \in DOMAIN d, NEW b \in Seq(DOMAIN d), Upto(t, n) = Through(a, x, b)
  PROVE  \E w \in 1..Len(Included(t)) : Included(t)[w] = x
<1> DEFINE w == Len(a) + 1
<1>1. w \in 1..Len(a \o (<<x>> \o b)) /\ (a \o (<<x>> \o b))[w] = x
  OBVIOUS
<1>2. /\ Len(Upto(t, n)) <= Len(Upto(t, Len(t))) /\ Len(Upto(t, n)) \in Nat /\ Len(Upto(t, Len(t))) \in Nat
      /\ \A i \in 1..Len(Upto(t, n)) : Upto(t, Len(t))[i] = Upto(t, n)[i]
  <2>1. n \in Nat /\ Len(t) \in Nat /\ n <= Len(t)
    OBVIOUS
  <2>2. Upto(t, n) \in Seq(DOMAIN d) /\ Upto(t, Len(t)) \in Seq(DOMAIN d)
    BY <2>1, UptoTyped
  <2>3. /\ Len(Upto(t, n)) <= Len(Upto(t, Len(t)))
        /\ \A i \in 1..Len(Upto(t, n)) : Upto(t, Len(t))[i] = Upto(t, n)[i]
    BY <2>1, UptoGrows
  <2> QED BY <2>2, <2>3
<1> HIDE DEF w
<1>3. w \in 1..Len(Upto(t, n)) /\ Upto(t, n)[w] = x
  BY <1>1 DEF Through
<1>4. w \in 1..Len(Upto(t, Len(t))) /\ Upto(t, Len(t))[w] = x
  BY <1>2, <1>3
<1> QED BY <1>4, IncludedIs

-----------------------------------------------------------------------------
(* What a file means, with all that it includes.                             *)

\* The files that t includes mean what r says; the items of t and theirs.
Wholes(t, r) == [w \in DOMAIN Included(t) |-> r[Included(t)[w]]]
Behind(t, r) == {m \o FlattenSeq(more) : m \in Meanings(t), more \in OneOfEach(Wholes(t, r))}

ExpectedCell(d, r, n, g) == IF n = 0 \/ d[g] = <<>> \/ Lost(d[g]) THEN {} ELSE Behind(d[g], r)

ExpectedRow(d, r, n) == [g \in DOMAIN d |-> ExpectedCell(d, r, n, g)]

IsExpected(d, f) == f = [n \in 0..MaxOpen |-> ExpectedRow(d, f[n - 1], n)]

\* The items of every file, no more than n deep.
Whole(d) == CHOOSE f : IsExpected(d, f)

LEMMA ExpectedByRows ==
  ASSUME NEW f, NEW n
  PROVE  Expected(f, n) = Whole(disk)[n][f]
BY DEF Expected, Whole, IsExpected, ExpectedRow, ExpectedCell, Behind, Wholes

LEMMA ExpectedExists ==
  ASSUME Sane, NEW d
  PROVE  \E f : IsExpected(d, f)
<1> DEFINE Good(n, f) == f = [i \in 0..n |-> ExpectedRow(d, f[i - 1], i)]
           P == {n \in Nat : \E f : Good(n, f)}
<1>0. ASSUME NEW r, NEW q PROVE ExpectedRow(d, r, 0) = ExpectedRow(d, q, 0)
  BY DEF ExpectedRow, ExpectedCell
<1>1. 0 \in P
  <2> DEFINE f == [i \in 0..0 |-> ExpectedRow(d, <<>>, 0)]
  <2>1. \A i \in 0..0 : f[i] = ExpectedRow(d, f[i - 1], i)
    <3>1. f[0] = ExpectedRow(d, <<>>, 0)
      OBVIOUS
    <3> HIDE DEF f
    <3>2. f[0] = ExpectedRow(d, f[0 - 1], 0)
      BY <1>0, <3>1
    <3> QED BY <3>2
  <2>2. f = [i \in 0..0 |-> f[i]]
    OBVIOUS
  <2> HIDE DEF f
  <2>3. Good(0, f)
    BY <2>1, <2>2
  <2> HIDE DEF Good
  <2> QED BY <2>3
<1>2. ASSUME NEW n \in Nat, n \in P PROVE n + 1 \in P
  <2>1. PICK f : Good(n, f)
    BY <1>2
  <2> DEFINE g == [i \in 0..(n + 1) |-> ExpectedRow(d, f[i - 1], i)]
  <2>2. ASSUME NEW i \in 0..(n + 1) PROVE g[i] = ExpectedRow(d, g[i - 1], i)
    <3>1. i # 0 => i - 1 \in 0..n /\ i - 1 \in 0..(n + 1)
      OBVIOUS
    <3>2. i # 0 => f[i - 1] = ExpectedRow(d, f[(i - 1) - 1], i - 1)
      BY <2>1, <3>1
    <3>3. i # 0 => g[i - 1] = ExpectedRow(d, f[(i - 1) - 1], i - 1)
      BY <3>1
    <3>4. g[i] = ExpectedRow(d, f[i - 1], i)
      OBVIOUS
    <3> HIDE DEF g
    <3>5. CASE i # 0
      BY <3>2, <3>3, <3>4, <3>5
    <3>6. CASE i = 0
      BY <1>0, <3>4, <3>6
    <3> QED BY <3>5, <3>6
  <2>3. g = [i \in 0..(n + 1) |-> g[i]]
    OBVIOUS
  <2> HIDE DEF g
  <2>4. Good(n + 1, g)
    BY <2>2, <2>3
  <2> HIDE DEF Good
  <2> QED BY <2>4
<1>3. MaxOpen \in P
  <2>1. MaxOpen \in Nat
    BY DEF Sane
  <2> HIDE DEF P
  <2> QED BY <1>1, <1>2, <2>1, Upwards
<1> QED BY <1>3 DEF IsExpected

LEMMA WholeIs ==
  ASSUME Sane, NEW d, NEW g \in DOMAIN d, NEW n \in 0..MaxOpen
  PROVE  Whole(d)[n][g] = IF n = 0 \/ d[g] = <<>> \/ Lost(d[g]) THEN {} ELSE Behind(d[g], Whole(d)[n - 1])
<1>1. IsExpected(d, Whole(d))
  BY ExpectedExists DEF Whole
<1>2. Whole(d)[n] = ExpectedRow(d, Whole(d)[n - 1], n)
  BY <1>1 DEF IsExpected
<1>3. Whole(d)[n][g] = ExpectedCell(d, Whole(d)[n - 1], n, g)
  BY <1>2 DEF ExpectedRow
<1> QED BY <1>3 DEF ExpectedCell

\* What is one of each.
LEMMA OneOfEachIs ==
  ASSUME NEW sets, NEW N \in Nat, DOMAIN sets = 1..N, NEW s
  PROVE  s \in OneOfEach(sets) <=> /\ s = [n \in 1..N |-> s[n]]
                                   /\ \A n \in 1..N : s[n] \in sets[n]
<1>1. ASSUME s \in OneOfEach(sets)
      PROVE  s = [n \in 1..N |-> s[n]] /\ \A n \in 1..N : s[n] \in sets[n]
  BY <1>1 DEF OneOfEach
<1>2. ASSUME s = [n \in 1..N |-> s[n]], \A n \in 1..N : s[n] \in sets[n]
      PROVE  s \in OneOfEach(sets)
  <2>1. \A n \in 1..N : s[n] \in UNION Range(sets)
    BY <1>2 DEF Range
  <2>2. s \in [1..N -> UNION Range(sets)]
    BY <1>2, <2>1
  <2> QED BY <1>2, <2>2 DEF OneOfEach
<1> QED BY <1>1, <1>2

\* A meaning of the file, and one of every file that it includes.
LEMMA WholeOf ==
  ASSUME Sane, NEW d \in Inputs, NEW g \in DOMAIN d, NEW n \in 1..MaxOpen, d[g] # <<>>, ~Lost(d[g]),
         NEW m \in Meanings(d[g]), NEW S, NEW more \in Seq(S), Len(more) = Len(Included(d[g])),
         \A w \in 1..Len(more) : more[w] \in Whole(d)[n - 1][Included(d[g])[w]]
  PROVE  m \o FlattenSeq(more) \in Whole(d)[n][g]
<1> DEFINE I == Included(d[g])
           W == Wholes(d[g], Whole(d)[n - 1])
<1>1. I \in Seq(DOMAIN d) /\ Len(I) \in Nat /\ DOMAIN I = 1..Len(I)
  <2>1. d[g] \in Seq(Words)
    BY DEF Sane
  <2>2. Len(d[g]) \in Nat
    BY <2>1
  <2>3. I \in Seq(DOMAIN d)
    BY <2>2, IncludedIs, UptoTyped
  <2> HIDE DEF I
  <2> QED BY <2>3
<1>2. DOMAIN W = 1..Len(I) /\ \A w \in 1..Len(I) : W[w] = Whole(d)[n - 1][I[w]]
  BY <1>1 DEF Wholes
<1>3. more = [w \in 1..Len(I) |-> more[w]]
  BY <1>1
<1>4. more \in OneOfEach(W)
  <2>1. \A w \in 1..Len(I) : more[w] \in W[w]
    BY <1>2
  <2> HIDE DEF W, I
  <2> QED BY <1>1, <1>2, <1>3, <2>1, OneOfEachIs
<1>5. m \o FlattenSeq(more) \in Behind(d[g], Whole(d)[n - 1])
  BY <1>4 DEF Behind
<1>6. n \in 0..MaxOpen /\ n # 0
  OBVIOUS
<1> QED BY <1>5, <1>6, WholeIs

\* A file that has a meaning, with all that it includes.
LEMMA WholeHas ==
  ASSUME Sane, NEW d \in Inputs, NEW g \in DOMAIN d, NEW n \in 0..MaxOpen, Whole(d)[n][g] # {}
  PROVE  /\ n # 0 /\ d[g] # <<>> /\ ~Lost(d[g]) /\ \E m : m \in Meanings(d[g])
         /\ \A w \in 1..Len(Included(d[g])) : Whole(d)[n - 1][Included(d[g])[w]] # {}
<1> DEFINE I == Included(d[g])
           W == Wholes(d[g], Whole(d)[n - 1])
<1>1. I \in Seq(DOMAIN d) /\ Len(I) \in Nat /\ DOMAIN I = 1..Len(I)
  <2>1. d[g] \in Seq(Words)
    BY DEF Sane
  <2>2. Len(d[g]) \in Nat
    BY <2>1
  <2>3. I \in Seq(DOMAIN d)
    BY <2>2, IncludedIs, UptoTyped
  <2> HIDE DEF I
  <2> QED BY <2>3
<1>2. DOMAIN W = 1..Len(I) /\ \A w \in 1..Len(I) : W[w] = Whole(d)[n - 1][I[w]]
  BY <1>1 DEF Wholes
<1>3. n # 0 /\ d[g] # <<>> /\ ~Lost(d[g]) /\ Whole(d)[n][g] = Behind(d[g], Whole(d)[n - 1])
  BY WholeIs
<1>4. PICK y : y \in Behind(d[g], Whole(d)[n - 1])
  BY <1>3
<1>5. PICK m \in Meanings(d[g]), more \in OneOfEach(W) : y = m \o FlattenSeq(more)
  BY <1>4 DEF Behind
<1>6. \A w \in 1..Len(I) : more[w] \in W[w]
  <2>1. more \in OneOfEach(W)
    BY <1>5
  <2> HIDE DEF W, I
  <2> QED BY <1>1, <1>2, <2>1, OneOfEachIs
<1>7. \A w \in 1..Len(I) : Whole(d)[n - 1][I[w]] # {}
  <2> HIDE DEF W, I
  <2> QED BY <1>2, <1>6
<1> QED BY <1>3, <1>5, <1>7

-----------------------------------------------------------------------------
(* What a file has become of that is being read.                             *)

\* The files that it has included so far are done, next is what is above it on the
\* stack; the tokens behind its own mean what those that are done mean.
Holds(f, n, next, d, done, rest, more) ==
  /\ done \in Seq(DOMAIN d) /\ rest \in Seq(Words) /\ f.tokens = d[f.name] \o rest
  /\ Upto(d[f.name], f.at - 1) = done \o (next \o f.todo)
  /\ ListedAt(more) /\ Len(more) = Len(done)
  /\ \A w \in 1..Len(more) : more[w] \in Whole(d)[n - 1][done[w]]
  /\ FlattenSeq(more) \in Meanings(rest)

Told(f, n, next, d) ==
  /\ f.at <= Len(d[f.name]) + 1
  /\ Plain(d[f.name]) /\ \E m : m \in Meanings(d[f.name])
  /\ \A j \in 1..(f.at - 1) : d[f.name][j] = "include" => FoundAt(d[f.name], j) # <<>>
  /\ \E done, rest, more : Holds(f, n, next, d, done, rest, more)

LEMMA FrameIs ==
  ASSUME Sane, NEW o, NEW d \in Inputs, NEW f, Framed(f, d, o)
  PROVE  /\ f.name \in DOMAIN d /\ d[f.name] \in Seq(Words) /\ Len(d[f.name]) \in Nat
         /\ f.tokens \in Seq(Words) /\ f.own \in Nat /\ f.at \in Nat /\ f.at >= 1
         /\ f.todo \in Seq(DOMAIN d)
         /\ f.own = 0 => f.tokens = d[f.name] /\ f.todo = <<>>
         /\ f.own # 0 => f.own = Len(d[f.name]) /\ \E r \in Seq(Words) : f.tokens = d[f.name] \o r
<1>1. f \in Frames(d) /\ f.at >= 1
  BY DEF Framed
<1>2. /\ f.name \in DOMAIN d /\ f.tokens \in Seq(Words) /\ f.own \in Nat /\ f.at \in Nat
      /\ f.todo \in Seq(DOMAIN d)
  BY <1>1 DEF Frames
<1>3. d[f.name] \in Seq(Words)
  BY <1>2 DEF Sane
<1>4. Len(d[f.name]) \in Nat
  BY <1>3
<1>5. /\ f.own = 0 => f.tokens = d[f.name] /\ f.todo = <<>>
      /\ f.own # 0 => f.own = Len(d[f.name]) /\ \E r \in Seq(Words) : f.tokens = d[f.name] \o r
  BY DEF Framed
<1> QED BY <1>1, <1>2, <1>3, <1>4, <1>5

LEMMA NothingMeant == <<>> \in Meanings(<<>>)
<1>1. Len(<<>>) \in Nat /\ 1 \in 1..(Len(<<>>) + 1) /\ Len(<<>>) + 1 \in 1..(Len(<<>>) + 1) /\ Len(<<>>) = 0
  OBVIOUS
<1>2. NoneLeft(<<>>, 1, Len(<<>>) + 1)
  BY <1>1 DEF NoneLeft
<1>3. <<>> \in Meaning(<<>>, 1, Len(<<>>) + 1)
  BY <1>1, <1>2, MeaningIs
<1> QED BY <1>3, MeaningsIs

LEMMA ToldFirst ==
  ASSUME Sane, NEW o, NEW d \in Inputs, NEW f, Framed(f, d, o), f.own = 0, f.at = 1, NEW m \in Meanings(f.tokens),
         Plain(f.tokens), NEW n
  PROVE  Told([f EXCEPT !.own = Len(f.tokens)], n, <<>>, d)
<1> DEFINE g == [f EXCEPT !.own = Len(f.tokens)]
<1>1. /\ f.name \in DOMAIN d /\ d[f.name] \in Seq(Words) /\ Len(d[f.name]) \in Nat
      /\ f.tokens = d[f.name] /\ f.todo = <<>>
  BY FrameIs
<1>2. g.name = f.name /\ g.tokens = f.tokens /\ g.at = 1 /\ g.todo = <<>>
  BY <1>1 DEF Framed, Frames
<1>3. Holds(g, n, <<>>, d, <<>>, <<>>, <<>>)
  <2>1. Upto(d[f.name], 1 - 1) = <<>>
    <3>1. 1 - 1 = 0
      OBVIOUS
    <3>2. Upto(d[f.name], 0) = <<>>
      BY UptoIs
    <3> QED BY <3>1, <3>2
  <2>2. <<>> \o (<<>> \o <<>>) = <<>>
    OBVIOUS
  <2>3. <<>> \in Seq(DOMAIN d) /\ <<>> \in Seq(Words) /\ d[f.name] = d[f.name] \o <<>>
    BY <1>1
  <2>4. ListedAt(<<>>) /\ Len(<<>>) = 0 /\ FlattenSeq(<<>>) \in Meanings(<<>>)
    BY NoneListed, NothingMeant, FlatNone
  <2> HIDE DEF g
  <2> QED BY <1>1, <1>2, <2>1, <2>2, <2>3, <2>4 DEF Holds
<1> HIDE DEF g
<1>4. Told(g, n, <<>>, d)
  <2>1. 1 <= Len(d[f.name]) + 1 /\ 1..(1 - 1) = {}
    BY <1>1
  <2>2. m \in Meanings(d[f.name]) /\ Plain(d[f.name])
    BY <1>1
  <2> QED BY <1>2, <1>3, <2>1, <2>2 DEF Told
<1> QED BY <1>4 DEF g

FoundIn(f, j) == IF f.tokens[j] = "include" THEN Stands(Token(f.tokens, j + 2)) ELSE <<>>

AsFound(f, d, j) == f.tokens[j] = d[f.name][j] /\ FoundAt(d[f.name], j) = FoundIn(f, j)

\* An include of the file is found where the file has it.
LEMMA FoundIs ==
  ASSUME Sane, NEW o, NEW d \in Inputs, NEW f, Framed(f, d, o), f.own # 0, NEW j \in 1..f.own, NEW m \in Meanings(d[f.name]),
         Plain(d[f.name])
  PROVE  AsFound(f, d, j)
<1> DEFINE t == d[f.name]
<1>1. /\ t \in Seq(Words) /\ Len(t) \in Nat /\ f.own = Len(t)
      /\ \E r \in Seq(Words) : f.tokens = t \o r
  BY FrameIs
<1>2. PICK r \in Seq(Words) : f.tokens = t \o r
  BY <1>1
<1> HIDE DEF t
<1>3. j \in 1..Len(t) /\ \A w \in 1..Len(t) : (t \o r)[w] = t[w]
  BY <1>1
<1>4. t[j] = "include" => j + 3 <= Len(t)
  BY <1>1, <1>3, FinePasses DEF t
<1>5. t[j] = "include" => Token(f.tokens, j + 2) = Token(t, j + 2)
  <2> SUFFICES ASSUME t[j] = "include" PROVE Token(f.tokens, j + 2) = Token(t, j + 2)
    OBVIOUS
  <2>1. j + 2 \in 1..Len(t) /\ j + 2 <= Len(t) /\ j + 2 <= Len(f.tokens)
    BY <1>1, <1>2, <1>3, <1>4
  <2>2. Token(t, j + 2) = t[j + 2] /\ Token(f.tokens, j + 2) = f.tokens[j + 2]
    BY <2>1, TokenAt
  <2> QED BY <1>2, <1>3, <2>1, <2>2
<1>6. f.tokens[j] = t[j]
  BY <1>2, <1>3
<1>7. t[j] = "include" <=> Includes(t, j)
  <2>1. t[j] = "include" => Includes(t, j)
    BY <1>1, <1>3, ValuedIs DEF t
  <2> QED BY <2>1 DEF Includes
<1> QED BY <1>5, <1>6, <1>7 DEF AsFound, FoundAt, FoundIn, t

LEMMA ToldSearched ==
  ASSUME Sane, NEW o, NEW d \in Inputs, NEW f, Framed(f, d, o), f.own # 0, NEW n, Told(f, n, <<>>, d), f.todo = <<>>,
         f.at <= f.own, d[f.name][f.at] = "include" => FoundAt(d[f.name], f.at) # <<>>
  PROVE  Told([f EXCEPT !.at = @ + 1, !.todo = FoundAt(d[f.name], f.at)], n, <<>>, d)
<1> DEFINE t == d[f.name]
           x == FoundAt(t, f.at)
           g == [f EXCEPT !.at = @ + 1, !.todo = x]
<1>1. /\ t \in Seq(Words) /\ Len(t) \in Nat /\ f.own = Len(t) /\ f.at \in Nat /\ f.at >= 1
      /\ x \in Seq(DOMAIN d)
  BY FrameIs, StandsIn DEF FoundAt
<1>2. g.name = f.name /\ g.tokens = f.tokens /\ g.at = f.at + 1 /\ g.todo = x
  BY DEF Framed, Frames
<1>3. PICK done, rest, more : Holds(f, n, <<>>, d, done, rest, more)
  BY DEF Told
<1>4. Upto(t, f.at) = done \o (<<>> \o x)
  <2>1. Upto(t, f.at - 1) = done /\ done \in Seq(DOMAIN d)
    BY <1>3 DEF Holds
  <2>2. f.at - 1 \in Nat /\ (f.at - 1) + 1 = f.at
    BY <1>1
  <2>3. Upto(t, (f.at - 1) + 1) = Upto(t, f.at - 1) \o FoundAt(t, (f.at - 1) + 1)
    BY <2>2, UptoIs
  <2>4. <<>> \o x = x
    BY <1>1
  <2> QED BY <2>1, <2>2, <2>3, <2>4
<1>5. Holds(g, n, <<>>, d, done, rest, more)
  <2>1. (f.at + 1) - 1 = f.at
    BY <1>1
  <2> HIDE DEF g, x
  <2> QED BY <1>2, <1>3, <1>4, <2>1 DEF Holds
<1>6. \A j \in 1..((f.at + 1) - 1) : t[j] = "include" => FoundAt(t, j) # <<>>
  <2> TAKE j \in 1..((f.at + 1) - 1)
  <2>1. j \in 1..(f.at - 1) \/ j = f.at
    BY <1>1
  <2> QED BY <2>1 DEF Told
<1>7. f.at + 1 <= Len(t) + 1
  BY <1>1
<1>8. Plain(t) /\ \E m : m \in Meanings(t)
  BY DEF Told
<1>9. Told(g, n, <<>>, d)
  <2> HIDE DEF g, x
  <2> QED BY <1>2, <1>5, <1>6, <1>7, <1>8 DEF Told
<1> QED BY <1>9

LEMMA ToldNext ==
  ASSUME Sane, NEW o, NEW d \in Inputs, NEW f, Framed(f, d, o), NEW n, Told(f, n, <<>>, d), f.todo # <<>>
  PROVE  /\ Told([f EXCEPT !.todo = Tail(@)], n, <<Head(f.todo)>>, d)
         /\ \E w \in 1..Len(Included(d[f.name])) : Included(d[f.name])[w] = Head(f.todo)
<1> DEFINE g == [f EXCEPT !.todo = Tail(@)]
           x == Head(f.todo)
           b == Tail(f.todo)
<1>0. /\ f.todo \in Seq(DOMAIN d) /\ d[f.name] \in Seq(Words) /\ Len(d[f.name]) \in Nat
      /\ f.at \in Nat /\ f.at >= 1
  BY FrameIs
<1>1. /\ x \in DOMAIN d /\ b \in Seq(DOMAIN d) /\ <<>> \o f.todo = <<x>> \o b
  <2> DEFINE s == f.todo
             c == <<Head(s)>> \o Tail(s)
  <2>1. s \in Seq(DOMAIN d) /\ s # <<>>
    BY <1>0
  <2> HIDE DEF s
  <2>2. Head(s) \in DOMAIN d /\ Tail(s) \in Seq(DOMAIN d) /\ <<>> \o s = s
    BY <2>1
  <2>3. c \in Seq(DOMAIN d) /\ Len(c) = Len(s)
    BY <2>1, <2>2
  <2>4. \A w \in 1..Len(s) : c[w] = s[w]
    BY <2>1, <2>2
  <2>5. c = s
    <3> HIDE DEF c
    <3> QED BY <2>1, <2>3, <2>4, SeqEqual
  <2> QED BY <2>2, <2>5 DEF s
<1>2. g.name = f.name /\ g.tokens = f.tokens /\ g.at = f.at /\ g.todo = b
  BY DEF Framed, Frames
<1> HIDE DEF g, x, b
<1>3. PICK done, rest, more : Holds(f, n, <<>>, d, done, rest, more)
  BY DEF Told
<1>4. Holds(g, n, <<x>>, d, done, rest, more)
  BY <1>1, <1>2, <1>3 DEF Holds
<1>5. Told(g, n, <<x>>, d)
  BY <1>2, <1>4 DEF Told
<1>6. \E w \in 1..Len(Included(d[f.name])) : Included(d[f.name])[w] = x
  <2>1. Upto(d[f.name], f.at - 1) = done \o (<<x>> \o b) /\ done \in Seq(DOMAIN d)
    BY <1>1, <1>3 DEF Holds
  <2>2. f.at - 1 \in 0..Len(d[f.name])
    BY <1>0 DEF Told
  <2> DEFINE q == f.at - 1
             t == d[f.name]
  <2>3. q \in Nat /\ q <= Len(t) /\ t \in Seq(Words) /\ Upto(t, q) = Through(done, x, b)
    BY <1>0, <2>1, <2>2 DEF Through
  <2> HIDE DEF q, t
  <2>4. \E w \in 1..Len(Included(t)) : Included(t)[w] = x
    <3>1. done \in Seq(DOMAIN d) /\ x \in DOMAIN d /\ b \in Seq(DOMAIN d)
      BY <1>1, <2>1
    <3> QED BY <2>3, <3>1, AmongIncluded
  <2> QED BY <2>4 DEF t
<1> QED BY <1>5, <1>6 DEF g, x

\* A file that has come to its end is wholly read.
LEMMA ToldWhole ==
  ASSUME Sane, NEW o, NEW d \in Inputs, NEW f, Framed(f, d, o), f.own # 0, NEW n \in 1..MaxOpen, Told(f, n, <<>>, d),
         f.todo = <<>>, f.at > f.own
  PROVE  \E y : y \in Meanings(f.tokens) /\ y \in Whole(d)[n][f.name]
<1> DEFINE t == d[f.name]
<1>0. /\ f.name \in DOMAIN d /\ t \in Seq(Words) /\ Len(t) \in Nat /\ f.own = Len(t) /\ f.at \in Nat
  BY FrameIs
<1>1. f.at - 1 = Len(t)
  BY <1>0 DEF Told
<1>2. PICK m : m \in Meanings(t)
  BY DEF Told
<1>3. PICK done, rest, more : Holds(f, n, <<>>, d, done, rest, more)
  BY DEF Told
<1>4. Included(t) = done
  <2>1. Upto(t, Len(t)) = done \o (<<>> \o <<>>) /\ done \in Seq(DOMAIN d)
    BY <1>1, <1>3 DEF Holds
  <2> QED BY <2>1, IncludedIs
<1>5. ~Lost(t)
  <2>1. \A j \in 1..Len(t) : t[j] = "include" => FoundAt(t, j) # <<>>
    BY <1>1 DEF Told
  <2> QED BY <2>1 DEF Lost, FoundAt, Includes
<1>6. t # <<>>
  BY <1>0
<1>7. m \o FlattenSeq(more) \in Whole(d)[n][f.name]
  <2>1. PICK S : more \in Seq(S)
    BY <1>3 DEF Holds, ListedAt
  <2>2. Len(more) = Len(Included(t)) /\ \A w \in 1..Len(more) : more[w] \in Whole(d)[n - 1][Included(t)[w]]
    BY <1>3, <1>4 DEF Holds
  <2> QED BY <1>0, <1>2, <1>5, <1>6, <2>1, <2>2, WholeOf
<1>8. m \o FlattenSeq(more) \in Meanings(f.tokens)
  <2>1. rest \in Seq(Words) /\ f.tokens = t \o rest /\ FlattenSeq(more) \in Meanings(rest)
    BY <1>3 DEF Holds
  <2> HIDE DEF t
  <2> QED BY <1>0, <1>2, <2>1, MeaningsJoined
<1> QED BY <1>7, <1>8

\* What a file that was included means goes behind.
LEMMA ToldBehind ==
  ASSUME Sane, NEW o, NEW d \in Inputs, NEW f, Framed(f, d, o), NEW n, NEW x \in DOMAIN d, Told(f, n, <<x>>, d),
         NEW u \in Seq(Words), NEW y \in Meanings(u), y \in Whole(d)[n - 1][x]
  PROVE  Told([f EXCEPT !.tokens = @ \o u], n, <<>>, d)
<1> DEFINE t == d[f.name]
           g == [f EXCEPT !.tokens = @ \o u]
<1>1. /\ t \in Seq(Words) /\ Len(t) \in Nat /\ f.todo \in Seq(DOMAIN d) /\ f.tokens \in Seq(Words)
  BY FrameIs
<1>2. g.name = f.name /\ g.tokens = f.tokens \o u /\ g.at = f.at /\ g.todo = f.todo
  BY DEF Framed, Frames
<1>3. PICK done, rest, more : Holds(f, n, <<x>>, d, done, rest, more)
  BY DEF Told
<1>4. /\ done \in Seq(DOMAIN d) /\ rest \in Seq(Words) /\ f.tokens = t \o rest
      /\ Upto(t, f.at - 1) = done \o (<<x>> \o f.todo)
      /\ ListedAt(more) /\ Len(more) = Len(done)
      /\ \A w \in 1..Len(more) : more[w] \in Whole(d)[n - 1][done[w]]
      /\ FlattenSeq(more) \in Meanings(rest)
  BY <1>3 DEF Holds
<1> HIDE DEF t, g
<1>5. g.tokens = t \o (rest \o u) /\ rest \o u \in Seq(Words)
  <2>1. (t \o rest) \o u = t \o (rest \o u)
    BY <1>1, <1>4, Associates
  <2>2. rest \o u \in Seq(Words)
    BY <1>4, BehindIs
  <2> QED BY <1>2, <1>4, <2>1, <2>2
<1>6. Append(done, x) \in Seq(DOMAIN d) /\ done \o (<<x>> \o f.todo) = Append(done, x) \o (<<>> \o f.todo)
  <2> DEFINE b == f.todo
  <2>1. b \in Seq(DOMAIN d) /\ done \in Seq(DOMAIN d)
    BY <1>1, <1>4
  <2> HIDE DEF b
  <2>2. <<x>> \in Seq(DOMAIN d) /\ Append(done, x) = done \o <<x>> /\ <<>> \o b = b
        /\ Append(done, x) \in Seq(DOMAIN d)
    BY <2>1
  <2>3. (done \o <<x>>) \o b = done \o (<<x>> \o b)
    BY <2>1, <2>2, Associates
  <2> QED BY <2>2, <2>3 DEF b
<1> DEFINE S == {more[w] : w \in 1..Len(more)} \cup {y}
           more2 == Append(more, y)
<1>7. /\ more \in Seq(S) /\ y \in S
      /\ ListedAt(more2) /\ Len(more2) = Len(more) + 1 /\ Len(more) \in Nat
      /\ \A w \in 1..Len(more) : more2[w] = more[w]
      /\ more2[Len(more) + 1] = y
  <2>1. PICK R : more \in Seq(R)
    BY <1>4 DEF ListedAt
  <2>2. more \in Seq(S) /\ y \in S
    BY <2>1
  <2> HIDE DEF S
  <2>3. more2 \in Seq(S)
    BY <2>2
  <2> QED BY <2>2, <2>3 DEF ListedAt
<1>8. ListedAt(y)
  <2>1. y \in Meaning(u, 1, Len(u) + 1) /\ Len(u) \in Nat
    BY MeaningsIs
  <2>2. 1 \in 1..(Len(u) + 1) /\ Len(u) + 1 \in 1..(Len(u) + 1)
    BY <2>1
  <2>3. Sound(y, u, 1, Len(u) + 1)
    BY <2>1, <2>2, MeaningSound
  <2> QED BY <2>3 DEF Sound
<1> HIDE DEF S, more2
<1>9. FlattenSeq(more2) = FlattenSeq(more) \o y
  BY <1>7, <1>8, FlatOn DEF more2
<1>10. FlattenSeq(more2) \in Meanings(rest \o u)
  <2>1. FlattenSeq(more) \o y \in Meanings(rest \o u)
    BY <1>4, MeaningsJoined
  <2> QED BY <1>9, <2>1
<1>11. /\ Len(more2) = Len(Append(done, x))
       /\ \A w \in 1..Len(more2) : more2[w] \in Whole(d)[n - 1][Append(done, x)[w]]
  <2>1. Len(Append(done, x)) = Len(more) + 1 /\ Append(done, x)[Len(more) + 1] = x
        /\ \A w \in 1..Len(more) : Append(done, x)[w] = done[w]
    BY <1>4
  <2>2. ASSUME NEW w \in 1..(Len(more) + 1) PROVE more2[w] \in Whole(d)[n - 1][Append(done, x)[w]]
    <3>1. CASE w \in 1..Len(more)
      BY <1>4, <1>7, <2>1, <3>1
    <3>2. CASE w = Len(more) + 1
      BY <1>7, <2>1, <3>2
    <3>3. Len(more) \in Nat
      BY <1>7
    <3>4. w \in 1..Len(more) \/ w = Len(more) + 1
      BY <3>3
    <3> QED BY <3>1, <3>2, <3>4
  <2> QED BY <1>7, <2>1, <2>2
<1>12. Upto(t, g.at - 1) = Append(done, x) \o (<<>> \o g.todo)
  BY <1>2, <1>4, <1>6
<1>13. Holds(g, n, <<>>, d, Append(done, x), rest \o u, more2)
  <2> HIDE DEF Holds
  <2>1. d[g.name] = t
    BY <1>2 DEF t
  <2> QED BY <1>5, <1>6, <1>7, <1>10, <1>11, <1>12, <2>1 DEF Holds
<1>14. Told(g, n, <<>>, d)
  <2>1. /\ f.at <= Len(t) + 1 /\ Plain(t) /\ \E m : m \in Meanings(t)
        /\ \A j \in 1..(f.at - 1) : t[j] = "include" => FoundAt(t, j) # <<>>
    BY DEF Told, t
  <2>2. d[g.name] = t
    BY <1>2 DEF t
  <2> QED BY <1>2, <1>13, <2>1, <2>2 DEF Told
<1> QED BY <1>14 DEF g

-----------------------------------------------------------------------------
(* What the files on the stack have become.                                  *)

Coming(s, l) == IF l < Len(s) THEN <<s[l + 1].name>> ELSE <<>>

Starts(s) == /\ Len(s) <= MaxOpen /\ s[1].name = Main
             /\ \A l \in 1..Len(s) : s[l].own = 0 => s[l].at = 1

Reads(s, d) == \A l \in 1..Len(s) : s[l].own # 0 => Told(s[l], MaxOpen - l + 1, Coming(s, l), d)

Needs(s, d) == \A l \in 1..Len(s) : Whole(d)[MaxOpen - l + 1][s[l].name] # {}

LEMMA StartsReplaced ==
  ASSUME NEW s, NEW o, NEW d, Stacked(s, d, o), Starts(s), NEW n \in 0..(Len(s) - 1), NEW f, Framed(f, d, o),
         f.name = s[n + 1].name, f.own = 0 => f.at = 1, MaxOpen \in Nat
  PROVE  /\ Starts(SubSeq(s, 1, n) \o <<f>>)
         /\ (Reads(s, d) /\ (f.own # 0 => Told(f, MaxOpen - (n + 1) + 1, <<>>, d)))
               => Reads(SubSeq(s, 1, n) \o <<f>>, d)
         /\ Needs(s, d) => Needs(SubSeq(s, 1, n) \o <<f>>, d)
<1> DEFINE z == SubSeq(s, 1, n) \o <<f>>
<1>1. s \in Seq(Frames(d)) /\ Len(s) \in Nat /\ Len(s) >= 1 /\ <<f>> \in Seq(Frames(d))
  BY DEF Stacked, Framed
<1>2. /\ Len(z) = n + 1 /\ \A l \in 1..n : z[l] = s[l]
      /\ z[n + 1] = f /\ n \in Nat /\ n + 1 <= Len(s)
  <2>1. n \in 0..Len(s) /\ Len(<<f>>) = 1 /\ 1 \in 1..Len(<<f>>) /\ <<f>>[1] = f
    BY <1>1
  <2>2. /\ Len(z) = n + Len(<<f>>) /\ \A l \in 1..n : z[l] = s[l]
        /\ \A l \in 1..Len(<<f>>) : z[n + l] = <<f>>[l]
    BY <1>1, <2>1, PutBack
  <2> HIDE DEF z
  <2> QED BY <1>1, <2>1, <2>2
<1> HIDE DEF z
<1>3. \A l \in 1..(n + 1) : l \in 1..n \/ l = n + 1
  BY <1>2
<1>4. \A l \in 1..(n + 1) : z[l].name = s[l].name
  BY <1>2, <1>3
<1>5. Starts(z)
  <2>1. z[1].name = Main
    <3>1. 1 \in 1..(n + 1)
      BY <1>2
    <3> QED BY <1>4, <3>1 DEF Starts
  <2>2. Len(z) <= MaxOpen
    BY <1>1, <1>2 DEF Starts
  <2>3. \A l \in 1..Len(z) : z[l].own = 0 => z[l].at = 1
    <3>1. \A l \in 1..n : l \in 1..Len(s)
      BY <1>1, <1>2
    <3> QED BY <1>2, <1>3, <3>1 DEF Starts
  <2> QED BY <2>1, <2>2, <2>3 DEF Starts
<1>6. ASSUME Reads(s, d), f.own # 0 => Told(f, MaxOpen - (n + 1) + 1, <<>>, d) PROVE Reads(z, d)
  <2> SUFFICES ASSUME NEW l \in 1..Len(z), z[l].own # 0 PROVE Told(z[l], MaxOpen - l + 1, Coming(z, l), d)
    BY DEF Reads
  <2>1. CASE l = n + 1
    <3>1. Coming(z, l) = <<>>
      BY <1>2, <2>1 DEF Coming
    <3> QED BY <1>2, <1>6, <2>1, <3>1
  <2>2. CASE l \in 1..n
    <3>1. l \in 1..Len(s) /\ l < Len(z) /\ l < Len(s) /\ l + 1 \in 1..(n + 1) /\ z[l] = s[l]
      BY <1>1, <1>2, <2>2
    <3>2. Coming(z, l) = Coming(s, l)
      BY <1>4, <3>1 DEF Coming
    <3> QED BY <1>6, <3>1, <3>2 DEF Reads
  <2> QED BY <1>2, <1>3, <2>1, <2>2
<1>7. ASSUME Needs(s, d) PROVE Needs(z, d)
  <2>1. \A l \in 1..Len(z) : l \in 1..Len(s) /\ l \in 1..(n + 1)
    BY <1>1, <1>2
  <2> QED BY <1>4, <1>7, <2>1 DEF Needs
<1> QED BY <1>5, <1>6, <1>7 DEF z

LEMMA StartsPushed ==
  ASSUME NEW s, NEW o, NEW d, Stacked(s, d, o), Starts(s), NEW f, Framed(f, d, o), NEW g, Framed(g, d, o),
         f.name = s[Len(s)].name, f.own # 0, g.own = 0, g.at = 1, Len(s) # MaxOpen, MaxOpen \in Nat
  PROVE  /\ Starts(SubSeq(s, 1, Len(s) - 1) \o <<f, g>>)
         /\ (Reads(s, d) /\ Told(f, MaxOpen - Len(s) + 1, <<g.name>>, d))
               => Reads(SubSeq(s, 1, Len(s) - 1) \o <<f, g>>, d)
         /\ (Needs(s, d) /\ Whole(d)[MaxOpen - Len(s)][g.name] # {})
               => Needs(SubSeq(s, 1, Len(s) - 1) \o <<f, g>>, d)
<1> DEFINE n == Len(s) - 1
           z == SubSeq(s, 1, n) \o <<f, g>>
<1>1. s \in Seq(Frames(d)) /\ Len(s) \in Nat /\ Len(s) >= 1 /\ <<f, g>> \in Seq(Frames(d))
  BY DEF Stacked, Framed
<1>2. /\ Len(z) = n + 2 /\ \A l \in 1..n : z[l] = s[l]
      /\ z[n + 1] = f /\ z[n + 2] = g /\ n \in Nat /\ n + 1 = Len(s)
  <2>1. n \in 0..Len(s) /\ Len(<<f, g>>) = 2 /\ 1 \in 1..Len(<<f, g>>) /\ 2 \in 1..Len(<<f, g>>)
        /\ <<f, g>>[1] = f /\ <<f, g>>[2] = g
    BY <1>1
  <2> HIDE DEF n
  <2>2. /\ Len(z) = n + Len(<<f, g>>) /\ \A l \in 1..n : z[l] = s[l]
        /\ \A l \in 1..Len(<<f, g>>) : z[n + l] = <<f, g>>[l]
    BY <1>1, <2>1, PutBack
  <2> HIDE DEF z
  <2>3. n \in Nat /\ n + 1 = Len(s)
    BY <1>1 DEF n
  <2> QED BY <2>1, <2>2, <2>3
<1> HIDE DEF z, n
<1>3. \A l \in 1..(n + 2) : l \in 1..n \/ l = n + 1 \/ l = n + 2
  BY <1>2
<1>4. \A l \in 1..(n + 1) : z[l].name = s[l].name
  <2>1. \A l \in 1..(n + 1) : l \in 1..n \/ l = n + 1
    BY <1>2
  <2> QED BY <1>2, <2>1
<1>5. Starts(z)
  <2>1. z[1].name = Main
    <3>1. 1 \in 1..(n + 1)
      BY <1>2
    <3> QED BY <1>4, <3>1 DEF Starts
  <2>2. Len(z) <= MaxOpen
    BY <1>1, <1>2 DEF Starts
  <2>3. \A l \in 1..Len(z) : z[l].own = 0 => z[l].at = 1
    <3>1. \A l \in 1..n : l \in 1..Len(s)
      BY <1>1, <1>2
    <3> QED BY <1>2, <1>3, <3>1 DEF Starts
  <2> QED BY <2>1, <2>2, <2>3 DEF Starts
<1>6. ASSUME Reads(s, d), Told(f, MaxOpen - Len(s) + 1, <<g.name>>, d) PROVE Reads(z, d)
  <2> SUFFICES ASSUME NEW l \in 1..Len(z), z[l].own # 0 PROVE Told(z[l], MaxOpen - l + 1, Coming(z, l), d)
    BY DEF Reads
  <2>1. CASE l = n + 1
    <3>1. Coming(z, l) = <<g.name>> /\ z[l] = f /\ MaxOpen - l + 1 = MaxOpen - Len(s) + 1
      <4>1. l < Len(z) /\ l + 1 = n + 2
        BY <1>2, <2>1
      <4> QED BY <1>2, <2>1, <4>1 DEF Coming
    <3> QED BY <1>6, <3>1
  <2>2. CASE l \in 1..n
    <3>1. l \in 1..Len(s) /\ l < Len(z) /\ l < Len(s) /\ l + 1 \in 1..(n + 1) /\ z[l] = s[l]
      BY <1>1, <1>2, <2>2
    <3>2. Coming(z, l) = Coming(s, l)
      BY <1>4, <3>1 DEF Coming
    <3> QED BY <1>6, <3>1, <3>2 DEF Reads
  <2> QED BY <1>2, <1>3, <2>1, <2>2
<1>7. ASSUME Needs(s, d), Whole(d)[MaxOpen - Len(s)][g.name] # {} PROVE Needs(z, d)
  <2> SUFFICES ASSUME NEW l \in 1..Len(z) PROVE Whole(d)[MaxOpen - l + 1][z[l].name] # {}
    BY DEF Needs
  <2>1. CASE l = n + 2
    <3>1. MaxOpen - l + 1 = MaxOpen - Len(s)
      BY <1>1, <1>2, <2>1
    <3> QED BY <1>2, <1>7, <2>1, <3>1
  <2>2. CASE l \in 1..(n + 1)
    <3>1. l \in 1..Len(s)
      BY <1>1, <1>2, <2>2
    <3> QED BY <1>4, <1>7, <2>2, <3>1 DEF Needs
  <2>3. l \in 1..(n + 1) \/ l = n + 2
    BY <1>2
  <2> QED BY <2>1, <2>2, <2>3
<1> QED BY <1>5, <1>6, <1>7 DEF z, n

-----------------------------------------------------------------------------
(* What is read is what is meant.                                            *)

Understands(d) == Whole(d)[MaxOpen][Main] # {}
Known(d, o) == Understands(d) /\ \A f \in o : ~Misread(d[f])
Fine(d, o) == \A f \in o : ~Faulty(d[f])

Truth(s, d, o, v, c, p) ==
  /\ Starts(s)
  /\ Known(d, o) \/ (~p /\ Fine(d, o)) => Reads(s, d) /\ (v = "ok" => c \in Whole(d)[MaxOpen][Main])
  /\ Known(d, o) => Needs(s, d) /\ v \in {Nil, "ok"}

TruthInv == StackInv /\ past \in BOOLEAN /\ Truth(stack, disk, opened, verdict, cfg, past)

LEMMA TopFrame ==
  ASSUME Sane, StackInv
  PROVE  /\ Top.name \in DOMAIN disk /\ disk[Top.name] \in Seq(Words) /\ Len(disk[Top.name]) \in Nat
         /\ Top.tokens \in Seq(Words) /\ Top.own \in Nat /\ Top.at \in Nat /\ Top.at >= 1
         /\ Top.own = 0 => Top.tokens = disk[Top.name] /\ Top.todo = <<>>
         /\ Top.own # 0 => Top.own = Len(disk[Top.name])
         /\ Top.name \in opened
<1>1. disk \in Inputs /\ Framed(Top, disk, opened)
  BY TopIs DEF StackInv, Stacked
<1>2. Top.name \in opened
  BY <1>1 DEF Framed
<1> DEFINE f == Top
<1>3. Framed(f, disk, opened)
  BY <1>1
<1> HIDE DEF f
<1>4. /\ f.name \in DOMAIN disk /\ disk[f.name] \in Seq(Words) /\ Len(disk[f.name]) \in Nat
      /\ f.tokens \in Seq(Words) /\ f.own \in Nat /\ f.at \in Nat /\ f.at >= 1
      /\ f.own = 0 => f.tokens = disk[f.name] /\ f.todo = <<>>
      /\ f.own # 0 => f.own = Len(disk[f.name])
  BY <1>1, <1>3, FrameIs
<1> QED BY <1>2, <1>4 DEF f

LEMMA TopTold ==
  ASSUME Sane, StackInv, Starts(stack)
  PROVE  /\ disk \in Inputs /\ Len(stack) \in Nat /\ Len(stack) >= 1 /\ MaxOpen \in Nat
         /\ Len(stack) - 1 \in 0..(Len(stack) - 1) /\ (Len(stack) - 1) + 1 = Len(stack)
         /\ Top = stack[Len(stack)] /\ Framed(Top, disk, opened) /\ Stacked(stack, disk, opened)
         /\ MaxOpen - Len(stack) + 1 \in 1..MaxOpen
         /\ Top.own = 0 => Top.at = 1
         /\ Reads(stack, disk) /\ Top.own # 0 => Told(Top, MaxOpen - Len(stack) + 1, <<>>, disk)
         /\ Needs(stack, disk) => Whole(disk)[MaxOpen - Len(stack) + 1][Top.name] # {}
<1>1. disk \in Inputs /\ Len(stack) \in Nat /\ Len(stack) >= 1 /\ Stacked(stack, disk, opened)
  BY DEF StackInv, Stacked
<1>2. Top = stack[Len(stack)] /\ Framed(Top, disk, opened)
  BY TopIs DEF StackInv
<1>3. MaxOpen \in Nat
  BY DEF Sane
<1>4. Len(stack) <= MaxOpen /\ \A l \in 1..Len(stack) : stack[l].own = 0 => stack[l].at = 1
  BY DEF Starts
<1>5. Len(stack) \in 1..Len(stack) /\ Coming(stack, Len(stack)) = <<>>
  BY <1>1 DEF Coming
<1>6. Reads(stack, disk) /\ Top.own # 0 => Told(Top, MaxOpen - Len(stack) + 1, <<>>, disk)
  BY <1>2, <1>5 DEF Reads
<1>7. Needs(stack, disk) => Whole(disk)[MaxOpen - Len(stack) + 1][Top.name] # {}
  BY <1>2, <1>5 DEF Needs
<1>8. /\ Len(stack) - 1 \in 0..(Len(stack) - 1) /\ (Len(stack) - 1) + 1 = Len(stack)
      /\ MaxOpen - Len(stack) + 1 \in 1..MaxOpen
  BY <1>1, <1>3, <1>4
<1>9. Top.own = 0 => Top.at = 1
  BY <1>2, <1>4, <1>5
<1> QED BY <1>1, <1>2, <1>3, <1>6, <1>7, <1>8, <1>9

LEMMA ValidateTruth ==
  ASSUME Sane, TruthInv, ValidateTokens
  PROVE  Truth(stack', disk', opened', verdict', cfg', past')
<1> DEFINE t == Top.tokens
           L == Len(stack)
           f == [Top EXCEPT !.own = Len(Top.tokens)]
<1>1. /\ verdict = Nil /\ Top.own = 0 /\ disk' = disk /\ cfg' = cfg /\ past' = (past \/ Looks(t))
      /\ opened' = opened
      /\ \E b \in BOOLEAN :
           LET v == IF t = <<>> THEN "refused" ELSE Validated(t, b) IN
           IF v = "ok" THEN stack' = Front(stack) \o <<f>> /\ verdict' = verdict
                       ELSE verdict' = v /\ stack' = stack
  BY DEF ValidateTokens, Replace, Running
<1>2. /\ disk \in Inputs /\ L \in Nat /\ L >= 1 /\ MaxOpen \in Nat /\ L - 1 \in 0..(L - 1) /\ (L - 1) + 1 = L
      /\ Top = stack[L] /\ Framed(Top, disk, opened) /\ Stacked(stack, disk, opened) /\ MaxOpen - L + 1 \in 1..MaxOpen
      /\ Top.at = 1 /\ Starts(stack) /\ past \in BOOLEAN
      /\ Needs(stack, disk) => Whole(disk)[MaxOpen - L + 1][Top.name] # {}
  BY <1>1, TopTold DEF TruthInv, Truth
<1>3. t = disk[Top.name] /\ t \in Seq(Words) /\ Len(t) \in Nat /\ Top.name \in DOMAIN disk /\ Top.name \in opened
  BY <1>1, TopFrame DEF TruthInv
<1>4. /\ Known(disk, opened) \/ (~past /\ Fine(disk, opened)) => Reads(stack, disk)
      /\ Known(disk, opened) => Needs(stack, disk)
  BY DEF TruthInv, Truth
<1>5. ASSUME Known(disk, opened) PROVE t # <<>> /\ ~Misread(t) /\ \E m : m \in Meanings(t)
  <2>0. Understands(disk) /\ ~Misread(t)
    BY <1>3, <1>5 DEF Known
  <2>1. Whole(disk)[MaxOpen - L + 1][Top.name] # {}
    BY <1>2, <1>4, <1>5
  <2>2. MaxOpen - L + 1 \in 0..MaxOpen
    BY <1>2
  <2> HIDE DEF L
  <2> QED BY <1>2, <1>3, <2>0, <2>1, <2>2, WholeHas
<1>6. PICK b \in BOOLEAN :
        \/ t # <<>> /\ Validated(t, b) = "ok" /\ stack' = Front(stack) \o <<f>> /\ verdict' = Nil
        \/ (t = <<>> \/ Validated(t, b) # "ok") /\ verdict' # "ok" /\ stack' = stack
  <2> HIDE DEF t, f
  <2> QED BY <1>1
<1> HIDE DEF t, f, L
<1>7. CASE (t = <<>> \/ Validated(t, b) # "ok") /\ verdict' # "ok" /\ stack' = stack
  <2>1. ~Known(disk, opened)
    BY <1>3, <1>5, <1>7, FinePasses
  <2>2. ~past' => ~past
    BY <1>1, <1>2
  <2> QED BY <1>1, <1>2, <1>4, <1>7, <2>1, <2>2 DEF Truth
<1>8. CASE t # <<>> /\ Validated(t, b) = "ok" /\ stack' = Front(stack) \o <<f>> /\ verdict' = Nil
  <2>1. stack' = SubSeq(stack, 1, L - 1) \o <<f>>
    BY <1>8, FrontIs DEF L
  <2>2. Framed(f, disk, opened) /\ f.own # 0 /\ f.name = stack[(L - 1) + 1].name
    <3>1. Framed(f, disk, opened)
      BY <1>1, <1>2, <1>8, ValidatedFramed DEF f, t
    <3>2. f.name = Top.name /\ f.own = Len(t)
      BY <1>2 DEF f, t, Framed, Frames
    <3> QED BY <1>2, <1>3, <1>8, <3>1, <3>2
  <2>3. ASSUME Known(disk, opened) \/ (~past' /\ Fine(disk, opened)) PROVE Told(f, MaxOpen - L + 1, <<>>, disk)
    <3>1. (\E m : m \in Meanings(t)) /\ Plain(t)
      <4>1. CASE Known(disk, opened)
        BY <1>5, <4>1, ClearIs
      <4>2. CASE ~past' /\ Fine(disk, opened)
        <5>1. ~Looks(t) /\ ~Faulty(t) /\ Nil \notin Tokens
          BY <1>1, <1>2, <1>3, <4>2 DEF Fine, Sane
        <5>2. Plain(t)
          BY <5>1, ClearIs
        <5> QED BY <1>3, <1>8, <5>1, <5>2, PassesMeans
      <4> QED BY <2>3, <4>1, <4>2
    <3>2. (\E m : m \in Meanings(Top.tokens)) /\ Plain(Top.tokens)
      BY <3>1 DEF t
    <3>3. PICK m : m \in Meanings(Top.tokens)
      BY <3>2
    <3> QED BY <1>1, <1>2, <3>2, <3>3, ToldFirst DEF f
  <2>4. /\ Starts(stack')
        /\ (Reads(stack, disk) /\ Told(f, MaxOpen - L + 1, <<>>, disk)) => Reads(stack', disk)
        /\ Needs(stack, disk) => Needs(stack', disk)
    <3> DEFINE n == L - 1
    <3>1. n \in 0..(Len(stack) - 1) /\ f.name = stack[n + 1].name /\ MaxOpen - (n + 1) + 1 = MaxOpen - L + 1
      BY <1>2, <2>2 DEF L
    <3> HIDE DEF n
    <3>2. /\ Starts(SubSeq(stack, 1, n) \o <<f>>)
          /\ (Reads(stack, disk) /\ (f.own # 0 => Told(f, MaxOpen - (n + 1) + 1, <<>>, disk)))
                => Reads(SubSeq(stack, 1, n) \o <<f>>, disk)
          /\ Needs(stack, disk) => Needs(SubSeq(stack, 1, n) \o <<f>>, disk)
      BY <1>2, <2>2, <3>1, StartsReplaced
    <3> QED BY <2>1, <3>1, <3>2 DEF n
  <2>5. ~past' => ~past
    BY <1>1, <1>2
  <2>6. verdict' # "ok" /\ verdict' \in {Nil, "ok"}
    <3>1. Nil # "ok"
      BY DEF Sane
    <3> QED BY <1>8, <3>1
  <2> QED BY <1>1, <1>4, <2>3, <2>4, <2>5, <2>6 DEF Truth
<1> QED BY <1>6, <1>7, <1>8

LEMMA TopReplaced ==
  ASSUME Sane, StackInv, Starts(stack), NEW f, Framed(f, disk, opened), f.name = Top.name, f.own # 0,
         stack' = Front(stack) \o <<f>>
  PROVE  /\ Starts(stack')
         /\ (Reads(stack, disk) /\ Told(f, MaxOpen - Len(stack) + 1, <<>>, disk)) => Reads(stack', disk)
         /\ Needs(stack, disk) => Needs(stack', disk)
<1> DEFINE n == Len(stack) - 1
<1>1. /\ n \in 0..(Len(stack) - 1) /\ f.name = stack[n + 1].name /\ MaxOpen \in Nat /\ n + 1 = Len(stack)
      /\ Stacked(stack, disk, opened)
  BY TopTold
<1>2. stack' = SubSeq(stack, 1, n) \o <<f>>
  BY FrontIs
<1> HIDE DEF n
<1>3. /\ Starts(SubSeq(stack, 1, n) \o <<f>>)
      /\ (Reads(stack, disk) /\ (f.own # 0 => Told(f, MaxOpen - (n + 1) + 1, <<>>, disk)))
            => Reads(SubSeq(stack, 1, n) \o <<f>>, disk)
      /\ Needs(stack, disk) => Needs(SubSeq(stack, 1, n) \o <<f>>, disk)
  BY <1>1, StartsReplaced
<1> QED BY <1>1, <1>2, <1>3

LEMMA IncludeTruth ==
  ASSUME Sane, TruthInv, Include
  PROVE  Truth(stack', disk', opened', verdict', cfg', past')
<1> DEFINE t == disk[Top.name]
           L == Len(stack)
           n == MaxOpen - L + 1
           word == Top.tokens[Top.at]
           found == IF word = "include" THEN Stands(Token(Top.tokens, Top.at + 2)) ELSE <<>>
           f == [Top EXCEPT !.at = @ + 1, !.todo = found]
<1>1. /\ verdict = Nil /\ Top.own > 0 /\ Top.todo = <<>> /\ Top.at <= Top.own
      /\ disk' = disk /\ cfg' = cfg /\ opened' = opened
      /\ \/ word = "include" /\ found = <<>> /\ verdict' = "refused" /\ stack' = stack
         \/ ~(word = "include" /\ found = <<>>) /\ stack' = Front(stack) \o <<f>> /\ verdict' = Nil
  BY DEF Include, Reading, Running, Replace, Limit
<1>2. past \in BOOLEAN /\ (~past' => ~past)
  BY DEF Include, TruthInv
<1>3. /\ disk \in Inputs /\ Framed(Top, disk, opened) /\ n \in 1..MaxOpen /\ n \in 0..MaxOpen /\ MaxOpen \in Nat
      /\ Starts(stack)
      /\ Reads(stack, disk) /\ Top.own # 0 => Told(Top, n, <<>>, disk)
      /\ Needs(stack, disk) => Whole(disk)[n][Top.name] # {}
  BY TopTold DEF TruthInv, Truth
<1>4. /\ Top.name \in DOMAIN disk /\ t \in Seq(Words) /\ Len(t) \in Nat /\ Top.own \in Nat /\ Top.own # 0
      /\ Top.own = Len(t) /\ Top.at \in Nat /\ Top.at >= 1 /\ Top.at \in 1..Top.own
      /\ Top.name \in opened
  <2>1. /\ Top.name \in DOMAIN disk /\ t \in Seq(Words) /\ Len(t) \in Nat /\ Top.own \in Nat /\ Top.own # 0
        /\ Top.own = Len(t) /\ Top.at \in Nat /\ Top.at >= 1 /\ Top.name \in opened
    BY <1>1, TopFrame DEF TruthInv
  <2> QED BY <1>1, <2>1
<1>5. /\ Known(disk, opened) \/ (~past /\ Fine(disk, opened)) => Reads(stack, disk)
      /\ Known(disk, opened) => Needs(stack, disk)
  BY DEF TruthInv, Truth
<1> HIDE DEF n, L, word, found, f
<1>6. ASSUME NEW m \in Meanings(disk[Top.name]), Plain(disk[Top.name])
      PROVE  found = FoundAt(disk[Top.name], Top.at) /\ word = disk[Top.name][Top.at]
  <2>1. FoundAt(disk[Top.name], Top.at) = FoundIn(Top, Top.at) /\ word = disk[Top.name][Top.at]
    <3> DEFINE q == Top.at
    <3>1. q \in 1..Top.own
      BY <1>4
    <3> HIDE DEF q
    <3>2. Top.tokens[q] = disk[Top.name][q] /\ FoundAt(disk[Top.name], q) = FoundIn(Top, q)
      <4>1. disk \in Inputs /\ Framed(Top, disk, opened) /\ Top.own # 0 /\ m \in Meanings(disk[Top.name])
            /\ Plain(disk[Top.name])
        BY <1>3, <1>4, <1>6
      <4> DEFINE y == Top
      <4>2. y = Top /\ Framed(y, disk, opened) /\ y.own # 0 /\ q \in 1..y.own
            /\ m \in Meanings(disk[y.name]) /\ Plain(disk[y.name])
        BY <3>1, <4>1
      <4> HIDE DEF y
      <4>3. AsFound(y, disk, q)
        BY <4>1, <4>2, FoundIs
      <4> QED BY <4>2, <4>3 DEF AsFound
    <3> QED BY <3>2 DEF q, word
  <2> QED BY <2>1 DEF found, word, FoundIn
<1>7. CASE word = "include" /\ found = <<>> /\ verdict' = "refused" /\ stack' = stack
  <2>1. ASSUME Known(disk, opened) PROVE FALSE
    <3>1. Whole(disk)[n][Top.name] # {}
      BY <1>3, <1>5, <2>1
    <3>2. ~Lost(disk[Top.name]) /\ \E m : m \in Meanings(disk[Top.name])
      BY <1>3, <1>4, <3>1, WholeHas
    <3>3. Plain(disk[Top.name])
      BY <1>4, <2>1, ClearIs DEF Known
    <3>4. found = FoundAt(disk[Top.name], Top.at) /\ word = disk[Top.name][Top.at]
      BY <1>6, <3>2, <3>3
    <3>5. Includes(disk[Top.name], Top.at)
      BY <1>4, <1>7, <3>3, <3>4, ValuedIs
    <3>6. found # <<>>
      BY <1>4, <3>2, <3>4, <3>5 DEF Lost, FoundAt
    <3> QED BY <1>7, <3>6
  <2> QED BY <1>1, <1>2, <1>3, <1>5, <1>7, <2>1 DEF Truth
<1>8. CASE ~(word = "include" /\ found = <<>>) /\ stack' = Front(stack) \o <<f>> /\ verdict' = Nil
  <2>1. f.name = Top.name /\ f.own = Top.own /\ Framed(f, disk, opened)
    <3>1. found \in Seq(DOMAIN disk)
      BY <1>3, StandsIn DEF found
    <3>2. Framed(f, disk, opened)
      BY <1>3, <1>4, <3>1, SearchedFramed DEF f
    <3>3. f.name = Top.name /\ f.own = Top.own
      BY <1>3 DEF f, Framed, Frames
    <3> QED BY <3>2, <3>3
  <2>2. ASSUME Reads(stack, disk) PROVE Told(f, n, <<>>, disk)
    <3>1. Told(Top, n, <<>>, disk)
      BY <1>3, <1>4, <2>2
    <3>2. Plain(disk[Top.name]) /\ \E m : m \in Meanings(disk[Top.name])
      BY <3>1 DEF Told
    <3>3. found = FoundAt(disk[Top.name], Top.at) /\ word = disk[Top.name][Top.at]
      BY <1>6, <3>2
    <3>4. disk[Top.name][Top.at] = "include" => FoundAt(disk[Top.name], Top.at) # <<>>
      BY <1>8, <3>3
    <3>5. Told([Top EXCEPT !.at = @ + 1, !.todo = FoundAt(disk[Top.name], Top.at)], n, <<>>, disk)
      BY <1>1, <1>3, <1>4, <3>1, <3>4, ToldSearched
    <3> QED BY <3>3, <3>5 DEF f
  <2>3. /\ Starts(stack')
        /\ (Reads(stack, disk) /\ Told(f, MaxOpen - Len(stack) + 1, <<>>, disk)) => Reads(stack', disk)
        /\ Needs(stack, disk) => Needs(stack', disk)
    BY <1>3, <1>4, <1>8, <2>1, TopReplaced DEF TruthInv
  <2>4. verdict' # "ok" /\ verdict' \in {Nil, "ok"}
    BY <1>8 DEF Sane
  <2>5. Reads(stack, disk) => Reads(stack', disk)
    BY <2>2, <2>3 DEF n, L
  <2> QED BY <1>1, <1>2, <1>5, <2>3, <2>4, <2>5 DEF Truth
<1> QED BY <1>1, <1>7, <1>8

LEMMA OpenNextTruth ==
  ASSUME Sane, TruthInv, OpenNext
  PROVE  Truth(stack', disk', opened', verdict', cfg', past')
<1> DEFINE L == Len(stack)
           n == MaxOpen - L + 1
           x == Head(Top.todo)
           f == [Top EXCEPT !.todo = Tail(@)]
           g == [name |-> x, tokens |-> disk[x], own |-> 0, at |-> 1, todo |-> <<>>]
<1>1. /\ verdict = Nil /\ Top.todo # <<>>
      /\ disk' = disk /\ cfg' = cfg /\ past' = past
      /\ \/ L = MaxOpen /\ verdict' = "refused" /\ stack' = stack /\ opened' = opened
         \/ L # MaxOpen /\ opened' = opened \cup {x} /\ stack' = Front(stack) \o <<f, g>> /\ verdict' = Nil
  BY DEF OpenNext, Running, Frame
<1>2. /\ disk \in Inputs /\ Framed(Top, disk, opened) /\ n \in 1..MaxOpen /\ n \in 0..MaxOpen /\ MaxOpen \in Nat
      /\ L \in Nat /\ L >= 1 /\ Top = stack[L] /\ Stacked(stack, disk, opened) /\ Starts(stack)
      /\ Reads(stack, disk) /\ Top.own # 0 => Told(Top, n, <<>>, disk)
      /\ Needs(stack, disk) => Whole(disk)[n][Top.name] # {}
  BY TopTold DEF TruthInv, Truth
<1>3. Top.own # 0 /\ Top.name \in DOMAIN disk
  BY <1>1, TopFrame DEF TruthInv
<1>4. /\ Known(disk, opened) \/ (~past /\ Fine(disk, opened)) => Reads(stack, disk)
      /\ Known(disk, opened) => Needs(stack, disk)
  BY DEF TruthInv, Truth
<1>5. x \in DOMAIN disk /\ Framed(f, disk, opened) /\ f.own # 0 /\ f.name = Top.name
  <2>1. x \in DOMAIN disk /\ Framed(f, disk, opened) /\ f.own # 0
    BY <1>1, <1>2, NextFramed
  <2>2. f.name = Top.name
    BY <1>2 DEF Framed, Frames
  <2> QED BY <2>1, <2>2
<1>6. Framed(g, disk, opened \cup {x}) /\ g.own = 0 /\ g.at = 1 /\ g.name = x
  <2> HIDE DEF x
  <2> DEFINE o == opened \cup {x}
  <2>1. x \in o
    OBVIOUS
  <2> HIDE DEF o
  <2>2. Framed(g, disk, o)
    BY <1>2, <1>5, <2>1, FreshFramed
  <2> QED BY <2>2 DEF o
<1> HIDE DEF f, g, L, n
<1>7. ASSUME Reads(stack, disk)
      PROVE  /\ Told(f, n, <<x>>, disk)
             /\ \E w \in 1..Len(Included(disk[Top.name])) : Included(disk[Top.name])[w] = x
  <2>1. Told(Top, n, <<>>, disk)
    BY <1>2, <1>3, <1>7
  <2> DEFINE y == Top
  <2>2. y = Top /\ Framed(y, disk, opened) /\ Told(y, n, <<>>, disk) /\ y.todo # <<>>
    BY <1>1, <1>2, <2>1
  <2> HIDE DEF y, x
  <2>3. /\ Told([y EXCEPT !.todo = Tail(@)], n, <<Head(y.todo)>>, disk)
        /\ \E w \in 1..Len(Included(disk[y.name])) : Included(disk[y.name])[w] = Head(y.todo)
    BY <1>2, <2>2, ToldNext
  <2> QED BY <2>2, <2>3 DEF f, x
<1>8. ASSUME Known(disk, opened) PROVE Whole(disk)[n - 1][x] # {} /\ n - 1 # 0
  <2>1. Reads(stack, disk) /\ Whole(disk)[n][Top.name] # {}
    BY <1>2, <1>4, <1>8
  <2>2. PICK w \in 1..Len(Included(disk[Top.name])) : Included(disk[Top.name])[w] = x
    BY <1>7, <2>1
  <2>3. Whole(disk)[n - 1][Included(disk[Top.name])[w]] # {}
    BY <1>2, <1>3, <2>1, <2>2, WholeHas
  <2>4. Whole(disk)[n - 1][x] # {}
    BY <2>2, <2>3
  <2>5. n - 1 \in 0..MaxOpen
    BY <1>2
  <2>6. n - 1 # 0
    <3> DEFINE q == n - 1
    <3>1. q \in 0..MaxOpen /\ Whole(disk)[q][x] # {}
      BY <2>4, <2>5
    <3> HIDE DEF q
    <3>2. q # 0
      BY <1>2, <1>5, <3>1, WholeHas
    <3> QED BY <3>2 DEF q
  <2> QED BY <2>4, <2>6
<1>9. CASE L = MaxOpen /\ verdict' = "refused" /\ stack' = stack /\ opened' = opened
  <2>1. ~Known(disk, opened)
    <3>1. n - 1 = 0
      BY <1>2, <1>9 DEF n
    <3> QED BY <1>8, <3>1
  <2> QED BY <1>1, <1>2, <1>4, <1>9, <2>1 DEF Truth
<1>10. CASE L # MaxOpen /\ opened' = opened \cup {x} /\ stack' = Front(stack) \o <<f, g>> /\ verdict' = Nil
  <2>1. stack' = SubSeq(stack, 1, Len(stack) - 1) \o <<f, g>>
    BY <1>10, FrontIs
  <2>2. /\ Starts(SubSeq(stack, 1, Len(stack) - 1) \o <<f, g>>)
        /\ (Reads(stack, disk) /\ Told(f, MaxOpen - Len(stack) + 1, <<g.name>>, disk))
              => Reads(SubSeq(stack, 1, Len(stack) - 1) \o <<f, g>>, disk)
        /\ (Needs(stack, disk) /\ Whole(disk)[MaxOpen - Len(stack)][g.name] # {})
              => Needs(SubSeq(stack, 1, Len(stack) - 1) \o <<f, g>>, disk)
    <3>1. f.name = stack[Len(stack)].name /\ Len(stack) # MaxOpen
      BY <1>2, <1>5, <1>10 DEF L
    <3> DEFINE o == opened \cup {x}
    <3>2. opened \subseteq o
      OBVIOUS
    <3>3. Framed(g, disk, o)
      BY <1>6
    <3> HIDE DEF o
    <3>4. Stacked(stack, disk, o)
      BY <1>2, <3>2, StackedMore
    <3>5. Framed(f, disk, o)
      BY <1>5, <3>2, FramedMore
    <3> QED BY <1>2, <1>5, <1>6, <3>1, <3>3, <3>4, <3>5, StartsPushed
  <2>3. Reads(stack, disk) => Reads(stack', disk)
    BY <1>6, <1>7, <2>1, <2>2 DEF n, L
  <2>4. Known(disk, opened) => Needs(stack', disk)
    <3>1. n - 1 = MaxOpen - Len(stack)
      BY <1>2 DEF n, L
    <3> QED BY <1>4, <1>6, <1>8, <2>1, <2>2, <3>1
  <2>5. verdict' # "ok" /\ verdict' \in {Nil, "ok"}
    BY <1>10 DEF Sane
  <2>6. Starts(stack')
    BY <2>1, <2>2
  <2>7. /\ Known(disk, opened') => Known(disk, opened)
        /\ Fine(disk, opened') => Fine(disk, opened)
    BY <1>10 DEF Known, Fine
  <2> QED BY <1>1, <1>4, <2>3, <2>4, <2>5, <2>6, <2>7 DEF Truth
<1> QED BY <1>1, <1>9, <1>10

LEMMA CloseTruth ==
  ASSUME Sane, TruthInv, Close
  PROVE  Truth(stack', disk', opened', verdict', cfg', past')
<1> DEFINE L == Len(stack)
           n == MaxOpen - L + 1
           x == Top.name
           u == stack[L - 1]
           t == Top.tokens
           f == [u EXCEPT !.tokens = @ \o t]
<1>1. /\ verdict = Nil /\ Top.own > 0 /\ Top.todo = <<>> /\ Top.at > Top.own /\ L > 1
      /\ disk' = disk /\ cfg' = cfg /\ past' = past /\ verdict' = Nil /\ opened' = opened
      /\ stack' = SubSeq(stack, 1, L - 2) \o <<f>>
  BY DEF Close, Reading, Running, Limit
<1>2. /\ disk \in Inputs /\ Framed(Top, disk, opened) /\ n \in 1..MaxOpen /\ MaxOpen \in Nat
      /\ L \in Nat /\ Top = stack[L] /\ Stacked(stack, disk, opened) /\ Starts(stack)
      /\ Reads(stack, disk) /\ Top.own # 0 => Told(Top, n, <<>>, disk)
  BY TopTold DEF TruthInv, Truth
<1>3. Top.own # 0 /\ x \in DOMAIN disk /\ t \in Seq(Words)
  BY <1>1, TopFrame DEF TruthInv
<1>4. /\ Known(disk, opened) \/ (~past /\ Fine(disk, opened)) => Reads(stack, disk)
      /\ Known(disk, opened) => Needs(stack, disk)
  BY DEF TruthInv, Truth
<1>5. L - 1 \in 1..L /\ L - 1 < L /\ L - 2 \in 0..(L - 1) /\ (L - 2) + 1 = L - 1
  BY <1>1, <1>2
<1>6. Framed(u, disk, opened) /\ u.own # 0
  <2> HIDE DEF L
  <2>1. Framed(stack[L - 1], disk, opened) /\ stack[L - 1].own # 0
    BY <1>2, <1>5 DEF Stacked, L
  <2> QED BY <2>1
<1>7. Framed(f, disk, opened) /\ f.own # 0 /\ f.name = u.name
  <2> HIDE DEF u
  <2>1. Framed(f, disk, opened)
    BY <1>2, <1>3, <1>6, MoreFramed
  <2>2. f.own = u.own /\ f.name = u.name
    BY <1>6 DEF Framed, Frames
  <2> QED BY <1>6, <2>1, <2>2
<1>8. ASSUME Reads(stack, disk) PROVE Told(f, n + 1, <<>>, disk)
  <2>1. Told(Top, n, <<>>, disk)
    BY <1>2, <1>3, <1>8
  <2>2. \E y : y \in Meanings(t) /\ y \in Whole(disk)[n][x]
    <3> HIDE DEF n
    <3> QED BY <1>1, <1>2, <1>3, <2>1, ToldWhole
  <2>3. Told(u, n + 1, <<x>>, disk)
    <3>1. Coming(stack, L - 1) = <<x>>
      BY <1>2, <1>5 DEF Coming
    <3>2. MaxOpen - (L - 1) + 1 = n + 1
      BY <1>2
    <3> HIDE DEF n, x
    <3> QED BY <1>5, <1>6, <1>8, <3>1, <3>2 DEF Reads
  <2>4. (n + 1) - 1 = n
    BY <1>2
  <2> HIDE DEF n, x, t, u
  <2>5. PICK y : y \in Meanings(t) /\ y \in Whole(disk)[n][x]
    BY <2>2
  <2>6. y \in Whole(disk)[(n + 1) - 1][x]
    BY <2>4, <2>5
  <2> DEFINE q == n + 1
  <2>7. y \in Whole(disk)[q - 1][x] /\ Told(u, q, <<x>>, disk)
    BY <2>3, <2>6
  <2> HIDE DEF q
  <2>8. Told([u EXCEPT !.tokens = @ \o t], q, <<>>, disk)
    BY <1>2, <1>3, <1>6, <2>5, <2>7, ToldBehind
  <2> QED BY <2>8 DEF q
<1>9. /\ Starts(stack')
      /\ Reads(stack, disk) => Reads(stack', disk)
      /\ Needs(stack, disk) => Needs(stack', disk)
  <2> DEFINE p == L - 2
  <2>1. p \in 0..(Len(stack) - 1) /\ f.name = stack[p + 1].name /\ MaxOpen - (p + 1) + 1 = n + 1
    BY <1>2, <1>5, <1>7
  <2>2. stack' = SubSeq(stack, 1, p) \o <<f>>
    BY <1>1
  <2> HIDE DEF p, f, n
  <2>3. /\ Starts(SubSeq(stack, 1, p) \o <<f>>)
        /\ (Reads(stack, disk) /\ (f.own # 0 => Told(f, MaxOpen - (p + 1) + 1, <<>>, disk)))
              => Reads(SubSeq(stack, 1, p) \o <<f>>, disk)
        /\ Needs(stack, disk) => Needs(SubSeq(stack, 1, p) \o <<f>>, disk)
    BY <1>2, <1>7, <2>1, StartsReplaced
  <2> QED BY <1>8, <2>1, <2>2, <2>3
<1>10. verdict' # "ok" /\ verdict' \in {Nil, "ok"}
  BY <1>1 DEF Sane
<1> QED BY <1>1, <1>4, <1>9, <1>10 DEF Truth

\* What was read is made into blocks and assignments.
LEMMA ProcessTruth ==
  ASSUME Sane, TruthInv, Process
  PROVE  Truth(stack', disk', opened', verdict', cfg', past')
<1> DEFINE t == Top.tokens
<1>1. /\ verdict = Nil /\ Top.own > 0 /\ Top.todo = <<>> /\ Top.at > Top.own /\ Len(stack) = 1
      /\ disk' = disk /\ stack' = stack /\ verdict' = "ok" /\ opened' = opened
      /\ cfg' = recursiveparse(t, 1, Len(t) + 1)
  BY DEF Process, Reading, Running, Limit
<1>2. past \in BOOLEAN /\ (~past' => ~past)
  BY DEF Process, TruthInv
<1>3. /\ disk \in Inputs /\ Framed(Top, disk, opened) /\ MaxOpen \in Nat /\ MaxOpen \in 1..MaxOpen
      /\ Top = stack[1] /\ Starts(stack)
      /\ Reads(stack, disk) /\ Top.own # 0 => Told(Top, MaxOpen, <<>>, disk)
  <2>1. /\ disk \in Inputs /\ Framed(Top, disk, opened) /\ MaxOpen \in Nat /\ Top = stack[Len(stack)] /\ Starts(stack)
        /\ MaxOpen - Len(stack) + 1 \in 1..MaxOpen
        /\ Reads(stack, disk) /\ Top.own # 0 => Told(Top, MaxOpen - Len(stack) + 1, <<>>, disk)
    BY TopTold DEF TruthInv, Truth
  <2>2. MaxOpen - Len(stack) + 1 = MaxOpen
    BY <1>1, <2>1
  <2> QED BY <1>1, <2>1, <2>2
<1>4. Top.own # 0 /\ t \in Seq(Words) /\ Len(t) \in Nat /\ Top.name = Main
  <2>1. Top.own # 0 /\ t \in Seq(Words)
    BY <1>1, TopFrame DEF TruthInv
  <2> QED BY <1>3, <2>1 DEF Starts
<1>5. /\ Known(disk, opened) \/ (~past /\ Fine(disk, opened)) => Reads(stack, disk)
      /\ Known(disk, opened) => Needs(stack, disk)
  BY DEF TruthInv, Truth
<1>6. ASSUME Reads(stack, disk) PROVE cfg' \in Whole(disk)[MaxOpen][Main]
  <2>1. Told(Top, MaxOpen, <<>>, disk)
    BY <1>3, <1>4, <1>6
  <2>2. PICK y : y \in Meanings(t) /\ y \in Whole(disk)[MaxOpen][Top.name]
    BY <1>1, <1>3, <1>4, <2>1, ToldWhole
  <2> HIDE DEF t
  <2>3. y = cfg'
    <3> DEFINE e == Len(t) + 1
    <3>1. 1 \in 1..(Len(t) + 1) /\ e \in 1..(Len(t) + 1)
      BY <1>4
    <3>2. y \in Meaning(t, 1, e)
      BY <2>2, MeaningsIs
    <3>3. cfg' = Parse(t, 1, e, 0)
      BY <1>1, ParseByRows
    <3> HIDE DEF e
    <3> QED BY <1>4, <3>1, <3>2, <3>3, MeaningParsed DEF Sane
  <2> QED BY <1>4, <2>2, <2>3
<1> QED BY <1>1, <1>2, <1>3, <1>5, <1>6 DEF Truth

LEMMA TruthStep == ASSUME Sane, TruthInv, [SyntaxNext]_syntaxVars PROVE TruthInv'
<1>1. StackInv'
  BY StackStep DEF TruthInv
<1>2. past' \in BOOLEAN
  BY DEF TruthInv, SyntaxNext, ValidateTokens, Include, OpenNext, Close, Process, syntaxVars
<1>3. Truth(stack', disk', opened', verdict', cfg', past')
  <2>1. CASE UNCHANGED syntaxVars
    BY <2>1 DEF TruthInv, syntaxVars
  <2> QED BY <2>1, ValidateTruth, IncludeTruth, OpenNextTruth, CloseTruth, ProcessTruth DEF SyntaxNext
<1>4. Truth(stack, disk, opened, verdict, cfg, past)'
  BY <1>3 DEF Truth, Starts, Reads, Needs, Understands, Known, Fine
<1> QED BY <1>1, <1>2, <1>4 DEF TruthInv

LEMMA TruthInit == ASSUME Sane, SyntaxInit PROVE TruthInv
<1> DEFINE f == [name |-> Main, tokens |-> disk[Main], own |-> 0, at |-> 1, todo |-> <<>>]
<1>1. disk \in Inputs /\ stack = <<f>> /\ verdict = Nil /\ past = FALSE /\ opened = {Main}
  BY DEF SyntaxInit, Frame
<1>2. f.name = Main /\ f.own = 0 /\ f.at = 1
  OBVIOUS
<1> HIDE DEF f
<1>3. Len(stack) = 1 /\ stack[1] = f /\ MaxOpen \in Nat /\ MaxOpen >= 1 /\ MaxOpen - 1 + 1 = MaxOpen
  BY <1>1 DEF Sane
<1>4. Starts(stack) /\ Reads(stack, disk)
  BY <1>2, <1>3 DEF Starts, Reads
<1>5. Known(disk, opened) => Needs(stack, disk)
  BY <1>2, <1>3 DEF Known, Understands, Needs
<1>6. verdict # "ok"
  BY <1>1 DEF Sane
<1> QED BY <1>1, <1>4, <1>5, <1>6, StackInit DEF TruthInv, Truth

\* A configuration that is well formed by the manual is read, with all that it
\* includes, to exactly what it means, unless a file that was opened has a word that
\* the code does not take for what the manual says it is (`allow`, or a keyword of
\* arglist or `include` for a value): the tokens that recursiveparse is given at the end mean what the file
\* and those that it includes mean, one behind the other, and there is one meaning.
THEOREM SyntaxUnderstood == SyntaxSpec => []Understood
<1>0. Sane
  BY SyntaxAssumption, GivenIs
<1>1. SyntaxInit => TruthInv
  BY <1>0, TruthInit
<1>2. TruthInv /\ [SyntaxNext]_syntaxVars => TruthInv'
  BY <1>0, TruthStep
<1>3. TruthInv => Understood
  <2>1. Expected(Main, MaxOpen) = Whole(disk)[MaxOpen][Main]
    BY ExpectedByRows
  <2> QED BY <2>1 DEF TruthInv, Truth, Known, Understands, Understood
<1> QED BY <1>1, <1>2, <1>3, PTL DEF SyntaxSpec

\* Nothing else is read: a configuration that is accepted means what was read of it,
\* or one of the files it was read from has one of the faults that the checks let
\* pass, or tokens past the end of a list were looked at.
THEOREM SyntaxNothingElse == SyntaxSpec => []NothingElse
<1>0. Sane
  BY SyntaxAssumption, GivenIs
<1>1. SyntaxInit => TruthInv
  BY <1>0, TruthInit
<1>2. TruthInv /\ [SyntaxNext]_syntaxVars => TruthInv'
  BY <1>0, TruthStep
<1>3. TruthInv => NothingElse
  <2>1. Expected(Main, MaxOpen) = Whole(disk)[MaxOpen][Main]
    BY ExpectedByRows
  <2> QED BY <2>1 DEF TruthInv, Truth, Fine, NothingElse
<1> QED BY <1>1, <1>2, <1>3, PTL DEF SyntaxSpec
=============================================================================
