--------------------------- MODULE AccessListProofs ---------------------------
(***************************************************************************)
(* Theorems of module AccessList: a verdict is that of a list that was in  *)
(* force during the check, by the meaning qaoed.conf.5 gives its block;    *)
(* what SETACL reports as done is done; all paths end alike.               *)
(*                                                                         *)
(* The list of a block is made by a recursive function.  That its rows are *)
(* the accept and reject statements, in order, is shown for the first k    *)
(* statements and a least k for which it fails.                            *)
(***************************************************************************)
EXTENDS AccessList, SequenceTheorems, WellFoundedInduction, TLAPS

-----------------------------------------------------------------------------
(* Natural numbers.                                                          *)

Smaller == {ss \in Nat \X Nat : ss[1] < ss[2]}

LEMMA SmallerWF == IsWellFoundedOn(Smaller, Nat)
<1>1. Smaller = OpToRel(<, Nat)
  BY DEF Smaller, OpToRel
<1> QED BY <1>1, NatLessThanWellFounded

\* Every set of numbers that has a member has a least one.
LEMMA Least ==
  ASSUME NEW T, T \subseteq Nat, T # {}
  PROVE  \E x \in T : \A y \in T : x <= y
<1>1. PICK x \in T : \A y \in T : <<y, x>> \notin Smaller
  BY SmallerWF, WFMin
<1>2. ASSUME NEW y \in T PROVE x <= y
  <2>1. x \in Nat /\ y \in Nat /\ <<y, x>> \notin Smaller
    BY <1>1
  <2>2. y < x => <<y, x>> \in Smaller
    BY <2>1 DEF Smaller
  <2> QED BY <2>1, <2>2
<1> QED BY <1>2

\* A set of numbers with a bound that has a member has a greatest one.
LEMMA Greatest ==
  ASSUME NEW n \in Nat, NEW T, T \subseteq 1..n, T # {}
  PROVE  \E x \in T : \A y \in T : x >= y
<1> DEFINE D == {n - x : x \in T}
<1>1. D \subseteq Nat /\ D # {}
  <2>1. ASSUME NEW x \in T PROVE n - x \in Nat
    OBVIOUS
  <2> QED BY <2>1
<1>2. PICK e \in D : \A y \in D : e <= y
  BY <1>1, Least
<1>3. PICK x \in T : e = n - x
  OBVIOUS
<1>4. ASSUME NEW y \in T PROVE x >= y
  <2>1. n - x <= n - y
    BY <1>2, <1>3
  <2> QED BY <2>1
<1> QED BY <1>4

-----------------------------------------------------------------------------
(* The list of a block.                                                      *)

Empty == [acl |-> <<>>, defaultpolicy |-> ACL_ERROR, log |-> FALSE]

\* g[k] is the list of the first k statements of the block.
Reads(g, block) ==
  g = [k \in 0..Len(block) |-> IF k = 0 THEN Empty ELSE Parsed(g[k - 1], block[k])]

\* There is such a g: the one that is made so for the first n statements.
LEMMA ReadsUpTo ==
  ASSUME NEW block
  PROVE  \A n \in Nat :
           \E g : g = [k \in 0..n |-> IF k = 0 THEN Empty ELSE Parsed(g[k - 1], block[k])]
<1> DEFINE Row(f, k) == IF k = 0 THEN Empty ELSE Parsed(f[k - 1], block[k])
           T == {n \in Nat : ~ \E g : g = [k \in 0..n |-> Row(g, k)]}
<1> SUFFICES ASSUME T # {} PROVE FALSE
  OBVIOUS
<1>1. PICK n \in T : \A m \in T : n <= m
  <2>1. T \subseteq Nat
    OBVIOUS
  <2> HIDE DEF T
  <2> QED BY <2>1, Least
<1>2. n \in Nat /\ ~ \E g : g = [k \in 0..n |-> Row(g, k)]
  OBVIOUS
<1>3. CASE n = 0
  <2> DEFINE g == [k \in 0..0 |-> Empty]
  <2>1. g = [k \in 0..0 |-> Row(g, k)]
    OBVIOUS
  <2> QED BY <1>2, <1>3, <2>1
<1>4. CASE n # 0
  <2>1. n - 1 \in Nat /\ n - 1 \notin T
    BY <1>1, <1>2, <1>4
  <2>2. PICK g : g = [k \in 0..(n - 1) |-> Row(g, k)]
    BY <2>1
  <2> DEFINE h == [k \in 0..n |-> IF k = n THEN Row(g, n) ELSE g[k]]
  <2>3. ASSUME NEW k \in 0..n PROVE h[k] = Row(h, k)
    <3>1. h[k] = Row(g, k)
      <4> HIDE DEF Row
      <4>1. k # n => k \in 0..(n - 1)
        BY <1>2
      <4> QED BY <2>2, <4>1
    <3>2. k # 0 => k - 1 \in 0..n /\ k - 1 # n
      BY <1>2
    <3>3. k # 0 => h[k - 1] = g[k - 1]
      BY <3>2
    <3>4. Row(g, k) = Row(h, k)
      <4> HIDE DEF h
      <4> QED BY <3>3
    <3> QED BY <3>1, <3>4
  <2>4. h = [k \in 0..n |-> Row(h, k)]
    <3> HIDE DEF Row
    <3>1. h = [k \in 0..n |-> h[k]]
      OBVIOUS
    <3> HIDE DEF h
    <3> QED BY <2>3, <3>1
  <2> QED BY <1>2, <2>4
<1> QED BY <1>3, <1>4

LEMMA MadeIs ==
  ASSUME NEW block, Len(block) \in Nat
  PROVE  \E g : Reads(g, block) /\ Made(block) = g[Len(block)]
<1>1. \E g : Reads(g, block)
  BY ReadsUpTo DEF Reads
<1>2. Reads(CHOOSE g : Reads(g, block), block)
  BY <1>1
<1>3. Made(block) = (CHOOSE g : Reads(g, block))[Len(block)]
  BY DEF Made, Reads, Empty
<1> QED BY <1>2, <1>3

\* The row that statement i makes, if it makes one.
Row(block, i) == [rule |-> aclpolicy(block[i].key), h_dest |-> block[i].value]
Rows(block) == {Row(block, i) : i \in 1..Len(block)}

IsRow(block, i) == block[i].key \in {"accept", "reject"}
IsPolicy(block, i) == block[i].key = "policy"

\* f leads from the rows of l to the statements among the first k that made them.
Origin(block, k, l, f) ==
  LET R == Len(l.acl) IN
  /\ f \in [1..R -> 1..k]
  /\ \A i, j \in 1..R : i < j => f[i] < f[j]
  /\ \A i \in 1..R : IsRow(block, f[i]) /\ l.acl[i] = Row(block, f[i])
  /\ \A i \in 1..k : IsRow(block, i) => \E j \in 1..R : f[j] = i

\* The policy of l is that of the last policy statement among the first k.
LastPolicy(block, k, l) ==
  \/ l.defaultpolicy = ACL_ERROR /\ \A i \in 1..k : ~IsPolicy(block, i)
  \/ \E i \in 1..k : /\ IsPolicy(block, i) /\ l.defaultpolicy = aclpolicy(block[i].value)
                     /\ \A j \in 1..k : IsPolicy(block, j) => j <= i

Lists(block) == [acl : Seq(Rows(block)), defaultpolicy : {ACCEPT, ACL_ERROR}, log : BOOLEAN]

Stands(block, k, l) ==
  l \in Lists(block) /\ LastPolicy(block, k, l) /\ \E f : Origin(block, k, l, f)

LEMMA EmptyStands == \A block : Stands(block, 0, Empty)
<1> TAKE block
<1>1. Empty \in Lists(block)
  <2>1. <<>> \in Seq(Rows(block))
    OBVIOUS
  <2> QED BY <2>1 DEF Empty, Lists
<1>2. Empty.acl = <<>> /\ Len(Empty.acl) = 0 /\ Empty.defaultpolicy = ACL_ERROR
  BY DEF Empty
<1>3. LastPolicy(block, 0, Empty)
  BY <1>2 DEF LastPolicy
<1>4. Origin(block, 0, Empty, [i \in 1..0 |-> i])
  BY <1>2 DEF Origin
<1> QED BY <1>1, <1>3, <1>4 DEF Stands

\* One statement more.
LEMMA ParsedStands ==
  ASSUME NEW block, Len(block) \in Nat, NEW k \in 1..Len(block), NEW l, Stands(block, k - 1, l)
  PROVE  Stands(block, k, Parsed(l, block[k]))
<1> DEFINE s == block[k]
           n == Parsed(l, s)
           R == Len(l.acl)
<1>1. /\ l \in Lists(block) /\ LastPolicy(block, k - 1, l)
      /\ k \in Nat /\ k - 1 \in Nat /\ \A i \in 1..k : i = k \/ i \in 1..(k - 1)
      /\ \A i \in 1..(k - 1) : i \in 1..k /\ i # k /\ i <= k
      /\ l.acl \in Seq(Rows(block)) /\ R \in Nat
  <2>1. l \in Lists(block) /\ LastPolicy(block, k - 1, l)
    BY DEF Stands
  <2>2. l.acl \in Seq(Rows(block))
    BY <2>1 DEF Lists
  <2>3. R \in Nat
    BY <2>2, LenProperties
  <2> QED BY <2>1, <2>2, <2>3
<1>2. PICK f : Origin(block, k - 1, l, f)
  BY DEF Stands
<1>3. CASE IsRow(block, k)
  <2> DEFINE r == Row(block, k)
             g == [i \in 1..(R + 1) |-> IF i = R + 1 THEN k ELSE f[i]]
  <2>1. n = [l EXCEPT !.acl = Append(l.acl, r)]
    BY <1>3 DEF Parsed, Row, IsRow
  <2>2. r \in Rows(block)
    BY DEF Rows
  <2> HIDE DEF r
  <2>3. /\ Append(l.acl, r) \in Seq(Rows(block)) /\ Len(Append(l.acl, r)) = R + 1
        /\ Append(l.acl, r)[R + 1] = r /\ \A i \in 1..R : Append(l.acl, r)[i] = l.acl[i]
    BY <1>1, <2>2, AppendProperties
  <2>4. n.acl = Append(l.acl, r) /\ n.defaultpolicy = l.defaultpolicy /\ n \in Lists(block)
    BY <1>1, <2>1, <2>3 DEF Lists
  <2> HIDE DEF n
  <2>5. ~IsPolicy(block, k)
    BY <1>3 DEF IsRow, IsPolicy
  <2>6. LastPolicy(block, k, n)
    BY <1>1, <2>4, <2>5 DEF LastPolicy
  <2>7. Origin(block, k, n, g)
    <3>1. \A i \in 1..(R + 1) : i = R + 1 \/ i \in 1..R
      BY <1>1
    <3>2. /\ f \in [1..R -> 1..(k - 1)]
          /\ \A i, j \in 1..R : i < j => f[i] < f[j]
          /\ \A i \in 1..R : IsRow(block, f[i]) /\ l.acl[i] = Row(block, f[i])
          /\ \A i \in 1..(k - 1) : IsRow(block, i) => \E j \in 1..R : f[j] = i
      BY <1>2 DEF Origin
    <3>3. \A i \in 1..R : i \in 1..(R + 1) /\ i # R + 1
      BY <1>1
    <3>4. g[R + 1] = k /\ \A i \in 1..R : g[i] = f[i]
      BY <1>1, <3>3
    <3>5. g \in [1..(R + 1) -> 1..k]
      BY <1>1, <3>1, <3>2
    <3> HIDE DEF g
    <3>6. ASSUME NEW i \in 1..(R + 1), NEW j \in 1..(R + 1), i < j PROVE g[i] < g[j]
      <4>1. i \in 1..R
        BY <1>1, <3>6
      <4>2. CASE j \in 1..R
        BY <3>2, <3>4, <3>6, <4>1, <4>2
      <4>3. CASE j = R + 1
        <5>1. g[i] = f[i] /\ f[i] \in 1..(k - 1) /\ g[j] = k
          BY <3>2, <3>4, <4>1, <4>3
        <5> QED BY <1>1, <5>1
      <4> QED BY <3>1, <4>2, <4>3
    <3>7. \A i \in 1..(R + 1) : IsRow(block, g[i]) /\ n.acl[i] = Row(block, g[i])
      BY <1>3, <2>3, <2>4, <3>1, <3>2, <3>4 DEF r
    <3>8. \A i \in 1..k : IsRow(block, i) => \E j \in 1..(R + 1) : g[j] = i
      <4>1. R + 1 \in 1..(R + 1)
        BY <1>1
      <4> QED BY <1>1, <3>2, <3>3, <3>4, <4>1
    <3>9. Len(n.acl) = R + 1
      BY <2>3, <2>4
    <3> QED BY <3>5, <3>6, <3>7, <3>8, <3>9 DEF Origin
  <2> QED BY <2>4, <2>6, <2>7 DEF Stands, n
<1>4. CASE ~IsRow(block, k)
  <2>1. n.acl = l.acl /\ n \in Lists(block)
    BY <1>1, <1>4 DEF Parsed, IsRow, Lists, aclpolicy
  <2>2. LastPolicy(block, k, n)
    <3>1. CASE IsPolicy(block, k)
      <4>1. n.defaultpolicy = aclpolicy(block[k].value)
        BY <1>1, <1>4, <3>1 DEF Parsed, IsRow, IsPolicy, Lists
      <4> HIDE DEF n
      <4>2. k \in 1..k
        BY <1>1
      <4> QED BY <1>1, <3>1, <4>1, <4>2 DEF LastPolicy
    <3>2. CASE ~IsPolicy(block, k)
      <4>1. n.defaultpolicy = l.defaultpolicy
        BY <1>1, <1>4, <3>2 DEF Parsed, IsRow, IsPolicy, Lists
      <4> HIDE DEF n
      <4> QED BY <1>1, <3>2, <4>1 DEF LastPolicy
    <3> QED BY <3>1, <3>2
  <2> HIDE DEF n
  <2>3. Origin(block, k, n, f)
    BY <1>1, <1>2, <1>4, <2>1 DEF Origin
  <2> QED BY <2>1, <2>2, <2>3 DEF Stands, n
<1> QED BY <1>3, <1>4

LEMMA MadeStands ==
  ASSUME NEW block, Len(block) \in Nat
  PROVE  Stands(block, Len(block), Made(block))
<1>1. PICK g : Reads(g, block) /\ Made(block) = g[Len(block)]
  BY MadeIs
<1>2. \A k \in 0..Len(block) : g[k] = IF k = 0 THEN Empty ELSE Parsed(g[k - 1], block[k])
  BY <1>1 DEF Reads
<1> DEFINE T == {k \in 0..Len(block) : ~Stands(block, k, g[k])}
<1>3. T = {}
  <2> SUFFICES ASSUME T # {} PROVE FALSE
    OBVIOUS
  <2>1. PICK k \in T : \A j \in T : k <= j
    <3>1. T \subseteq Nat
      OBVIOUS
    <3> HIDE DEF T
    <3> QED BY <3>1, Least
  <2>2. k \in 0..Len(block) /\ ~Stands(block, k, g[k])
    OBVIOUS
  <2>3. k # 0
    BY <1>2, <2>2, EmptyStands
  <2>4. k - 1 \in 0..Len(block) /\ k - 1 \notin T /\ k \in 1..Len(block)
    BY <2>1, <2>2, <2>3
  <2>5. Stands(block, k - 1, g[k - 1])
    BY <2>4
  <2>6. Stands(block, k, Parsed(g[k - 1], block[k]))
    BY <2>4, <2>5, ParsedStands
  <2> QED BY <1>2, <2>2, <2>3, <2>6
<1> QED BY <1>1, <1>3

\* The walk down a list finds what qaoed.conf.5 says its block means: at the first
\* row with the source, or at the end where there is none.
LEMMA WalkMeans ==
  ASSUME NEW b \in Names, NEW m
  PROVE  LET l == List[b] IN
         /\ Len(l.acl) \in Nat
         /\ \A k \in 1..Len(l.acl) :
              l.acl[k].h_dest = m /\ (\A j \in 1..(k - 1) : l.acl[j].h_dest # m)
                => ((l.acl[k].rule = ACCEPT) = (Rule(Block[b], m) = "accept"))
         /\ (\A j \in 1..Len(l.acl) : l.acl[j].h_dest # m)
                => ((l.defaultpolicy = ACCEPT) = (Rule(Block[b], m) = "accept"))
<1> DEFINE l == Made(Block[b])
           R == Len(l.acl)
           L == Len(Block[b])
           hits == {k \in DOMAIN Block[b] : /\ Block[b][k].key \in {"accept", "reject"}
                                            /\ Block[b][k].value = m}
           policies == {k \in DOMAIN Block[b] : Block[b][k].key = "policy"}
<1>1. L \in Nat /\ DOMAIN Block[b] = 1..L /\ List[b] = l
  BY AccessAssumption DEF List
<1>2. Stands(Block[b], L, l)
  BY <1>1, MadeStands
<1> HIDE DEF l
<1>3. PICK f : Origin(Block[b], L, l, f)
  BY <1>2 DEF Stands
<1>4. /\ f \in [1..R -> 1..L]
      /\ \A i, j \in 1..R : i < j => f[i] < f[j]
      /\ \A i \in 1..R : IsRow(Block[b], f[i]) /\ l.acl[i] = Row(Block[b], f[i])
      /\ \A i \in 1..L : IsRow(Block[b], i) => \E j \in 1..R : f[j] = i
  BY <1>3 DEF Origin
<1>5. R \in Nat /\ LastPolicy(Block[b], L, l)
  <2>1. l.acl \in Seq(Rows(Block[b])) /\ LastPolicy(Block[b], L, l)
    BY <1>2 DEF Stands, Lists
  <2> QED BY <2>1, LenProperties
<1>6. \A i \in 1..R : /\ l.acl[i].rule = aclpolicy(Block[b][f[i]].key)
                      /\ l.acl[i].h_dest = Block[b][f[i]].value
                      /\ Block[b][f[i]].key \in {"accept", "reject"} /\ f[i] \in 1..L
  <2> TAKE i \in 1..R
  <2>1. IsRow(Block[b], f[i]) /\ l.acl[i] = Row(Block[b], f[i]) /\ f[i] \in 1..L
    BY <1>4
  <2>2. l.acl[i] = [rule |-> aclpolicy(Block[b][f[i]].key), h_dest |-> Block[b][f[i]].value]
    BY <2>1 DEF Row
  <2> QED BY <2>1, <2>2 DEF IsRow
<1>7. \A i \in hits : i \in 1..L /\ \E j \in 1..R : f[j] = i /\ l.acl[j].h_dest = m
  <2> SUFFICES ASSUME NEW i \in hits
               PROVE  i \in 1..L /\ \E j \in 1..R : f[j] = i /\ l.acl[j].h_dest = m
    OBVIOUS
  <2>1. i \in 1..L /\ IsRow(Block[b], i) /\ Block[b][i].value = m
    BY <1>1 DEF IsRow
  <2>2. PICK j \in 1..R : f[j] = i
    BY <1>4, <2>1
  <2>3. l.acl[j].h_dest = m
    BY <1>6, <2>1, <2>2
  <2> QED BY <2>1, <2>2, <2>3
<1>8. \A word : (aclpolicy(word) = ACCEPT) = (word = "accept")
  BY DEF aclpolicy, ACCEPT, ACL_ERROR
<1>9. Rule(Block[b], m) = IF hits # {} THEN Block[b][Min(hits)].key
                          ELSE IF policies # {} THEN Block[b][Max(policies)].value ELSE "reject"
  BY DEF Rule
<1>10. ASSUME NEW k \in 1..R, l.acl[k].h_dest = m, \A j \in 1..(k - 1) : l.acl[j].h_dest # m
       PROVE  (l.acl[k].rule = ACCEPT) = (Rule(Block[b], m) = "accept")
  <2>1. f[k] \in hits
    BY <1>1, <1>6, <1>10
  <2> HIDE DEF hits, policies
  <2>2. ASSUME NEW i \in hits PROVE f[k] <= i
    <3>1. PICK j \in 1..R : f[j] = i /\ l.acl[j].h_dest = m
      BY <1>7
    <3>2. ~(j < k)
      <4>1. j < k => j \in 1..(k - 1)
        BY <1>5
      <4> QED BY <1>10, <3>1, <4>1
    <3>3. j = k \/ k < j
      BY <1>5, <3>2
    <3>4. f[k] \in 1..L /\ f[j] \in 1..L
      BY <1>6
    <3> QED BY <1>4, <3>1, <3>3, <3>4
  <2>3. Min(hits) \in hits /\ \A i \in hits : Min(hits) <= i
    BY <2>1, <2>2 DEF Min
  <2>4. Min(hits) \in 1..L /\ f[k] \in 1..L
    BY <1>6, <1>7, <2>3
  <2>5. Min(hits) = f[k]
    BY <2>1, <2>2, <2>3, <2>4
  <2> QED BY <1>6, <1>8, <1>9, <2>1, <2>5
<1>11. ASSUME \A j \in 1..R : l.acl[j].h_dest # m
       PROVE  (l.defaultpolicy = ACCEPT) = (Rule(Block[b], m) = "accept")
  <2>1. hits = {}
    BY <1>7, <1>11
  <2>2. CASE l.defaultpolicy = ACL_ERROR /\ \A i \in 1..L : ~IsPolicy(Block[b], i)
    <3>1. policies = {}
      BY <1>1, <2>2 DEF IsPolicy
    <3> HIDE DEF hits, policies
    <3> QED BY <1>9, <2>1, <2>2, <3>1 DEF ACCEPT, ACL_ERROR
  <2>3. ASSUME NEW i \in 1..L, IsPolicy(Block[b], i),
               l.defaultpolicy = aclpolicy(Block[b][i].value),
               \A j \in 1..L : IsPolicy(Block[b], j) => j <= i
        PROVE  (l.defaultpolicy = ACCEPT) = (Rule(Block[b], m) = "accept")
    <3>1. i \in policies /\ \A j \in policies : j \in 1..L /\ j <= i
      BY <1>1, <2>3 DEF IsPolicy
    <3> HIDE DEF hits, policies
    <3>2. Max(policies) \in policies /\ \A j \in policies : Max(policies) >= j
      BY <3>1 DEF Max
    <3>3. Max(policies) = i
      <4>1. Max(policies) \in 1..L /\ Max(policies) <= i /\ Max(policies) >= i /\ i \in 1..L
        BY <3>1, <3>2, <2>3
      <4> QED BY <1>1, <4>1
    <3> QED BY <1>8, <1>9, <2>1, <2>3, <3>1, <3>3
  <2> QED BY <1>5, <2>2, <2>3 DEF LastPolicy
<1> QED BY <1>1, <1>5, <1>10, <1>11

-----------------------------------------------------------------------------
(* The checks of the workers.                                                *)

\* Fields are all different, and a field is one of them.
LEMMA FieldsAre ==
  /\ \A f \in Range(Fields) : \E k \in DOMAIN Fields : Fields[k] = f
  /\ \A k \in DOMAIN Fields : Fields[k] \in Range(Fields)
  /\ \A j, k \in DOMAIN Fields : Fields[j] = Fields[k] => j = k
  BY AccessAssumption DEF Range, IsInjective

\* The list that is in force is the one the device points to, or there is none.
LEMMA ForceIs ==
  ASSUME TypeOK, Progress, NEW d \in Devices, NEW f \in Range(Fields)
  PROVE  /\ acl[d][f] \in Names \cup {None}
         /\ InForce(d, f) \in {acl[d][f], "gap"}
         /\ InForce(d, f) = "gap" => acl[d][f] \in {None, "gap"}
<1>1. acl[d][f] \in Names \cup {None}
  BY DEF TypeOK
<1>2. CASE api # None /\ api.now # None /\ api.now[1] = d /\ Fields[api.now[2]] = f
  <2>1. acl[d][f] = None
    BY <1>2 DEF Progress
  <2> QED BY <1>1, <1>2, <2>1 DEF InForce
<1>3. CASE ~(api # None /\ api.now # None /\ api.now[1] = d /\ Fields[api.now[2]] = f)
  <2>1. InForce(d, f) = acl[d][f]
    BY <1>3 DEF InForce
  <2>2. "gap" \notin Names
    BY AccessAssumption
  <2> QED BY <1>1, <2>1, <2>2
<1> QED BY <1>2, <1>3

\* A check in its parts.
LEMMA CheckIs ==
  ASSUME TypeOK, NEW d \in Devices, check[d] # None
  PROVE  LET c == check[d] IN
         /\ c \in Checks
         /\ c = [at |-> c.at, src |-> c.src, op |-> c.op, seen |-> c.seen, list |-> c.list,
                 row |-> c.row, rule |-> c.rule, logged |-> c.logged]
         /\ c.op \in Range(Fields) /\ c.seen \subseteq Names \cup {None, "gap"} /\ c.row \in Nat
         /\ c.src \in Macs /\ c.list \in Names \cup {None} /\ c.rule \in {0, ACCEPT, ACL_ERROR}
         /\ c.at \in {"test", "call", "scan", "decided"}
         /\ c.logged \in {None, "allow", "reject"}
<1>1. check[d] \in Checks
  BY DEF TypeOK
<1> QED BY <1>1 DEF Checks

\* A step of the worker of d, which leaves everything else alone.
LEMMA WorkerKeeps ==
  ASSUME IInv, NEW d \in Devices, UNCHANGED <<acl, api>>, dead' \in BOOLEAN,
         NEW c \in Checks \cup {None}, check' = [check EXCEPT ![d] = c], Checked(d)'
  PROVE  IInv'
<1>1. TypeOK'
  BY DEF IInv, TypeOK
<1>2. Progress'
  BY DEF IInv, Progress
<1>3. ASSUME NEW e \in Devices, e # d PROVE Checked(e)'
  <2>1. check'[e] = check[e]
    BY <1>3 DEF IInv, TypeOK
  <2>2. InForce(e, check[e].op)' = InForce(e, check[e].op)
    BY <2>1 DEF InForce
  <2>3. \A l, m : Lets(l, m)' = Lets(l, m)
    BY DEF Lets
  <2> QED BY <2>1, <2>2 DEF IInv, Checked, List
<1> QED BY <1>1, <1>2, <1>3 DEF IInv

LEMMA BeginKeeps ==
  ASSUME IInv, NEW d \in Devices, NEW m \in Macs, NEW f \in Range(Fields), Begin(d, m, f)
  PROVE  IInv'
<1> DEFINE c == [at |-> "test", src |-> m, op |-> f, seen |-> {InForce(d, f)},
                 list |-> None, row |-> 1, rule |-> 0, logged |-> None]
<1>1. UNCHANGED <<acl, api, dead>> /\ check' = [check EXCEPT ![d] = c]
  BY DEF Begin
<1>2. InForce(d, f) \in Names \cup {None, "gap"}
  BY ForceIs DEF IInv
<1>3. c \in Checks
  BY <1>2 DEF Checks
<1>4. check'[d] = c
  BY <1>1 DEF IInv, TypeOK
<1>5. c.seen = {InForce(d, f)} /\ c.op = f /\ c.at = "test" /\ c.row = 1
  OBVIOUS
<1> HIDE DEF c
<1>6. InForce(d, f)' = InForce(d, f)
  BY <1>1 DEF InForce
<1>7. Checked(d)'
  BY <1>4, <1>5, <1>6 DEF Checked
<1>8. dead' \in BOOLEAN
  BY <1>1 DEF IInv, TypeOK
<1> QED BY <1>1, <1>3, <1>7, <1>8, WorkerKeeps

LEMMA TestKeeps ==
  ASSUME IInv, NEW d \in Devices, Test(d)
  PROVE  IInv'
<1> DEFINE c == check[d]
           l == acl[d][c.op]
<1>1. /\ TypeOK /\ Progress /\ Checked(d) /\ check[d] # None /\ c.at = "test"
      /\ UNCHANGED <<acl, api, dead>> /\ dead' \in BOOLEAN
  BY DEF IInv, TypeOK, Test, At
<1>2. /\ c \in Checks /\ c.op \in Range(Fields) /\ c.seen \subseteq Names \cup {None, "gap"}
      /\ c.row = 1
  BY <1>1, CheckIs DEF Checked
<1>3. InForce(d, c.op) \in c.seen /\ \A f : InForce(d, f)' = InForce(d, f)
  BY <1>1 DEF Checked, InForce
<1>4. /\ l \in Names \cup {None} /\ InForce(d, c.op) \in {l, "gap"}
      /\ InForce(d, c.op) = "gap" => l \in {None, "gap"}
  BY <1>1, <1>2, ForceIs
<1>5. CASE l = None
  <2> DEFINE n == [c EXCEPT !.at = "decided", !.rule = ACCEPT]
  <2>1. check' = [check EXCEPT ![d] = n]
    BY <1>5 DEF Test
  <2>2. n \in Checks /\ n.op = c.op /\ n.seen = c.seen /\ n.at = "decided" /\ n.rule = ACCEPT
    BY <1>2 DEF Checks
  <2> HIDE DEF n
  <2>3. check'[d] = n
    BY <1>1, <2>1 DEF TypeOK
  <2>4. Lets(InForce(d, c.op), n.src)
    BY <1>4, <1>5 DEF Lets
  <2>5. \E k \in n.seen : Lets(k, n.src) = (n.rule = ACCEPT)
    BY <1>3, <2>2, <2>4
  <2>6. Checked(d)'
    BY <1>3, <2>2, <2>3, <2>5 DEF Checked
  <2> QED BY <1>1, <2>1, <2>2, <2>6, WorkerKeeps
<1>6. CASE l # None
  <2> DEFINE n == [c EXCEPT !.at = "call", !.list = l]
  <2>1. check' = [check EXCEPT ![d] = n]
    BY <1>6 DEF Test
  <2>2. n \in Checks /\ n.op = c.op /\ n.seen = c.seen /\ n.at = "call" /\ n.list = l /\ n.row = 1
    BY <1>2, <1>4 DEF Checks
  <2> HIDE DEF n
  <2>3. check'[d] = n
    BY <1>1, <2>1 DEF TypeOK
  <2>4. l \in Names \cap c.seen
    BY <1>3, <1>4, <1>6, AccessAssumption
  <2>5. Checked(d)'
    BY <1>3, <2>2, <2>3, <2>4 DEF Checked
  <2> QED BY <1>1, <2>1, <2>2, <2>5, WorkerKeeps
<1> QED BY <1>5, <1>6

LEMMA CallKeeps ==
  ASSUME IInv, NEW d \in Devices, Call(d)
  PROVE  IInv'
<1> DEFINE c == check[d]
<1>1. /\ TypeOK /\ Progress /\ Checked(d) /\ check[d] # None /\ c.at = "call"
      /\ UNCHANGED <<acl, api>> /\ (dead' = TRUE \/ dead' = dead) /\ dead' \in BOOLEAN
  BY DEF IInv, TypeOK, Call, At
<1>2. /\ c \in Checks /\ c.op \in Range(Fields) /\ c.seen \subseteq Names \cup {None, "gap"}
      /\ c.row = 1 /\ c.list \in Names \cap c.seen
  BY <1>1, CheckIs DEF Checked
<1>3. InForce(d, c.op) \in c.seen /\ \A f : InForce(d, f)' = InForce(d, f)
  BY <1>1 DEF Checked, InForce
<1>4. PICK l \in {c.list, acl[d][c.op]} :
        IF l = None THEN check' = check
        ELSE check' = [check EXCEPT ![d].at = "scan", ![d].list = l]
  BY DEF Call
<1>5. CASE l = None
  <2>1. check' = [check EXCEPT ![d] = c]
    BY <1>1, <1>4, <1>5 DEF TypeOK
  <2>2. check'[d] = c
    BY <1>4, <1>5
  <2>3. Checked(d)'
    BY <1>1, <1>2, <1>3, <2>2 DEF Checked
  <2> QED BY <1>1, <1>2, <2>1, <2>3, WorkerKeeps
<1>6. CASE l # None
  <2> DEFINE n == [c EXCEPT !.at = "scan", !.list = l]
  <2>1. check' = [check EXCEPT ![d] = n]
    BY <1>4, <1>6
  <2>2. l \in Names \cap c.seen
    BY <1>1, <1>2, <1>3, <1>6, ForceIs, AccessAssumption
  <2>3. n \in Checks /\ n.op = c.op /\ n.seen = c.seen /\ n.at = "scan" /\ n.list = l /\ n.row = 1
    BY <1>2, <2>2 DEF Checks
  <2> HIDE DEF n
  <2>4. check'[d] = n
    BY <1>1, <2>1 DEF TypeOK
  <2>5. 1 \in 1..(Len(List[l].acl) + 1) /\ \A j \in 1..(1 - 1) : List[l].acl[j].h_dest # n.src
    BY <2>2, WalkMeans
  <2>6. Checked(d)'
    BY <1>3, <2>2, <2>3, <2>4, <2>5 DEF Checked
  <2> QED BY <1>1, <2>1, <2>3, <2>6, WorkerKeeps
<1> QED BY <1>5, <1>6

\* What a walk down l finds for m is what block b says of it.
Finds(l, b, m) ==
  /\ Len(l.acl) \in Nat
  /\ \A k \in 1..Len(l.acl) :
       l.acl[k].h_dest = m /\ (\A j \in 1..(k - 1) : l.acl[j].h_dest # m)
         => ((l.acl[k].rule = ACCEPT) = (Rule(Block[b], m) = "accept"))
  /\ (\A j \in 1..Len(l.acl) : l.acl[j].h_dest # m)
         => ((l.defaultpolicy = ACCEPT) = (Rule(Block[b], m) = "accept"))

LEMMA WalkFinds == \A b \in Names : \A m : Finds(List[b], b, m)
  BY WalkMeans DEF Finds

LEMMA ScanKeeps ==
  ASSUME IInv, NEW d \in Devices, Scan(d)
  PROVE  IInv'
<1> DEFINE c == check[d]
<1>1. PICK l : l = List[c.list]
  OBVIOUS
<1>2. PICK k : k = c.row
  OBVIOUS
<1> DEFINE R == Len(l.acl)
           Ends(rule) == check' = [check EXCEPT ![d].at = "decided", ![d].rule = rule,
                                                ![d].logged = Logged(l, rule)]
<1>3. /\ TypeOK /\ Progress /\ Checked(d) /\ check[d] # None /\ c.at = "scan"
      /\ UNCHANGED <<acl, api, dead>> /\ dead' \in BOOLEAN
  BY DEF IInv, TypeOK, Scan, At
<1>4. /\ c \in Checks /\ c.op \in Range(Fields) /\ c.seen \subseteq Names \cup {None, "gap"}
      /\ c.list \in Names \cap c.seen /\ c.row \in 1..(R + 1)
      /\ \A j \in 1..(c.row - 1) : l.acl[j].h_dest # c.src
  BY <1>1, <1>3, CheckIs DEF Checked
<1>5. /\ R \in Nat
      /\ \A j \in 1..R :
           l.acl[j].h_dest = c.src /\ (\A i \in 1..(j - 1) : l.acl[i].h_dest # c.src)
             => ((l.acl[j].rule = ACCEPT) = (Rule(Block[c.list], c.src) = "accept"))
      /\ (\A j \in 1..R : l.acl[j].h_dest # c.src)
             => ((l.defaultpolicy = ACCEPT) = (Rule(Block[c.list], c.src) = "accept"))
  <2>1. c.list \in Names
    BY <1>4
  <2>2. Finds(List[c.list], c.list, c.src)
    BY <2>1, WalkFinds
  <2> QED BY <1>1, <2>2 DEF Finds
<1>6. InForce(d, c.op) \in c.seen /\ \A f : InForce(d, f)' = InForce(d, f)
  BY <1>3 DEF Checked, InForce
<1>7. l.defaultpolicy \in {ACCEPT, ACL_ERROR} /\ \A j \in 1..R : l.acl[j].rule \in {ACCEPT, ACL_ERROR}
  <2>1. Len(Block[c.list]) \in Nat /\ l = Made(Block[c.list])
    BY <1>1, <1>4, AccessAssumption DEF List
  <2>2. l \in Lists(Block[c.list])
    BY <2>1, MadeStands DEF Stands
  <2>3. l.acl \in Seq(Rows(Block[c.list])) /\ l.defaultpolicy \in {ACCEPT, ACL_ERROR}
    BY <2>2 DEF Lists
  <2>4. \A j \in 1..R : l.acl[j] \in Rows(Block[c.list])
    BY <2>3, ElementOfSeq
  <2>5. \A r \in Rows(Block[c.list]) : r.rule \in {ACCEPT, ACL_ERROR}
    BY DEF Rows, Row, aclpolicy
  <2> QED BY <2>3, <2>4, <2>5
<1>8. \/ k > R /\ Ends(l.defaultpolicy)
      \/ k \in 1..R /\ l.acl[k].h_dest = c.src /\ Ends(l.acl[k].rule)
      \/ k \in 1..R /\ l.acl[k].h_dest # c.src /\ check' = [check EXCEPT ![d].row = k + 1]
  <2>1. k > R \/ k \in 1..R
    BY <1>2, <1>4, <1>5
  <2>2. k > R => ~(k <= R)
    BY <1>2, <1>4, <1>5
  <2>3. \/ k > R /\ Ends(l.defaultpolicy)
        \/ k <= R /\ l.acl[k].h_dest = c.src /\ Ends(l.acl[k].rule)
        \/ k <= R /\ l.acl[k].h_dest # c.src /\ check' = [check EXCEPT ![d].row = k + 1]
    BY <1>1, <1>2 DEF Scan, Return
  <2> HIDE DEF Ends, R
  <2> QED BY <2>1, <2>2, <2>3
<1> HIDE DEF Ends
\* A verdict.
<1>9. ASSUME NEW rule \in {ACCEPT, ACL_ERROR}, Ends(rule),
             (rule = ACCEPT) = (Rule(Block[c.list], c.src) = "accept")
      PROVE  IInv'
  <2> DEFINE n == [c EXCEPT !.at = "decided", !.rule = rule, !.logged = Logged(l, rule)]
  <2>1. check' = [check EXCEPT ![d] = n]
    BY <1>9 DEF Ends
  <2>2. Logged(l, rule) \in {None, "allow", "reject"}
    BY DEF Logged
  <2>3. n \in Checks /\ n.op = c.op /\ n.seen = c.seen /\ n.at = "decided" /\ n.rule = rule
        /\ n.src = c.src
    BY <1>4, <2>2 DEF Checks
  <2> HIDE DEF n
  <2>4. check'[d] = n
    BY <1>3, <2>1 DEF TypeOK
  <2>5. c.list # None /\ c.list # "gap"
    BY <1>4, AccessAssumption
  <2>6. Lets(c.list, n.src) = (n.rule = ACCEPT)
    <3>1. Lets(c.list, c.src) <=> Rule(Block[c.list], c.src) = "accept"
      BY <1>4, <2>5 DEF Lets
    <3>2. n.rule = ACCEPT <=> Rule(Block[c.list], c.src) = "accept"
      BY <1>9, <2>3
    <3>3. Lets(c.list, n.src) \in BOOLEAN
      BY <2>5 DEF Lets
    <3> HIDE DEF c
    <3> QED BY <2>3, <3>1, <3>2, <3>3
  <2>7. \E i \in n.seen : Lets(i, n.src) = (n.rule = ACCEPT)
    BY <1>4, <2>3, <2>6
  <2>8. Checked(d)'
    BY <1>6, <2>3, <2>4, <2>7 DEF Checked
  <2> QED BY <1>3, <2>1, <2>3, <2>8, WorkerKeeps
<1>10. CASE k > R /\ Ends(l.defaultpolicy)
  <2>1. c.row - 1 = R
    BY <1>2, <1>4, <1>5, <1>10
  <2> QED BY <1>4, <1>5, <1>7, <1>9, <1>10, <2>1
<1>11. CASE k \in 1..R /\ l.acl[k].h_dest = c.src /\ Ends(l.acl[k].rule)
  BY <1>2, <1>4, <1>5, <1>7, <1>9, <1>11
<1>12. CASE k \in 1..R /\ l.acl[k].h_dest # c.src /\ check' = [check EXCEPT ![d].row = k + 1]
  <2>0. PICK n : n = [c EXCEPT !.row = k + 1]
    OBVIOUS
  <2>1. check' = [check EXCEPT ![d] = n]
    BY <1>12, <2>0
  <2>2. k + 1 \in Nat /\ k + 1 \in 1..(R + 1) /\ \A j \in 1..(k + 1 - 1) : j = k \/ j \in 1..(k - 1)
    BY <1>5, <1>12
  <2>3. n \in Checks /\ n.op = c.op /\ n.seen = c.seen /\ n.at = "scan" /\ n.row = k + 1
        /\ n.src = c.src /\ n.list = c.list
    BY <1>3, <1>4, <2>0, <2>2 DEF Checks
  <2>4. check'[d] = n
    BY <1>3, <2>1 DEF TypeOK
  <2>5. \A j \in 1..(k + 1 - 1) : List[n.list].acl[j].h_dest # n.src
    BY <1>1, <1>2, <1>4, <1>12, <2>2, <2>3
  <2>6. Checked(d)'
    <3>1. n.row \in 1..(Len(List[n.list].acl) + 1)
      BY <1>1, <2>2, <2>3
    <3>2. n.list \in Names \cap n.seen
      BY <1>4, <2>3
    <3>3. \A f : InForce(d, f)' = InForce(d, f)
      BY <1>6
    <3>4. InForce(d, n.op) \in n.seen
      BY <1>6, <2>3, Zenon
    <3>5. InForce(d, n.op)' \in n.seen
      BY <3>3, <3>4
    <3>6. \A j \in 1..(n.row - 1) : List[n.list].acl[j].h_dest # n.src
      <4>1. n.row = k + 1 /\ k \in Nat /\ n.row - 1 = k /\ k + 1 - 1 = k
        BY <1>5, <1>12, <2>3
      <4> QED BY <2>5, <4>1
    <3> QED BY <2>3, <2>4, <3>1, <3>2, <3>5, <3>6 DEF Checked
  <2> QED BY <1>3, <2>1, <2>3, <2>6, WorkerKeeps
<1> QED BY <1>8, <1>10, <1>11, <1>12

LEMMA FinishKeeps ==
  ASSUME IInv, NEW d \in Devices, Finish(d)
  PROVE  IInv'
<1>1. UNCHANGED <<acl, api, dead>> /\ check' = [check EXCEPT ![d] = None] /\ dead' \in BOOLEAN
  BY DEF Finish, IInv, TypeOK
<1>2. check'[d] = None
  BY <1>1 DEF IInv, TypeOK
<1>3. Checked(d)'
  BY <1>2 DEF Checked
<1> QED BY <1>1, <1>3, WorkerKeeps

-----------------------------------------------------------------------------
(* SETACL.                                                                   *)

\* A check goes on when what it has seen grows to hold the list in force.
LEMMA SeenGrows ==
  ASSUME TypeOK, NEW d \in Devices, Checked(d), NEW seen,
         check[d] = None => check'[d] = None,
         check[d] # None => /\ check'[d] = [check[d] EXCEPT !.seen = seen]
                            /\ check[d].seen \subseteq seen
                            /\ InForce(d, check[d].op)' \in seen
  PROVE  Checked(d)'
<1>1. CASE check[d] = None
  BY <1>1 DEF Checked
<1>2. CASE check[d] # None
  <2>0. PICK c : c = check[d]
    OBVIOUS
  <2>1. PICK n : n = [c EXCEPT !.seen = seen]
    OBVIOUS
  <2>2. /\ n.at = c.at /\ n.op = c.op /\ n.src = c.src /\ n.list = c.list
        /\ n.row = c.row /\ n.rule = c.rule /\ n.seen = seen
    BY <1>2, <2>0, <2>1, CheckIs DEF Checks
  <2>3. check'[d] = n /\ InForce(d, n.op)' \in n.seen /\ c.seen \subseteq seen
    BY <1>2, <2>0, <2>1, <2>2
  <2>4. /\ c.at \in {"call", "scan"} => c.list \in Names \cap c.seen
        /\ c.at \in {"test", "call"} => c.row = 1
        /\ c.at = "scan" =>
             /\ c.row \in 1..(Len(List[c.list].acl) + 1)
             /\ \A j \in 1..(c.row - 1) : List[c.list].acl[j].h_dest # c.src
        /\ c.at = "decided" => \E l \in c.seen : Lets(l, c.src) = (c.rule = ACCEPT)
    BY <1>2, <2>0 DEF Checked
  <2>5. n.at = "decided" => \E l \in n.seen : Lets(l, n.src) = (n.rule = ACCEPT)
    BY <2>2, <2>3, <2>4
  <2>6. n.at \in {"call", "scan"} => n.list \in Names \cap n.seen
    BY <2>2, <2>3, <2>4
  <2>7. n.at = "scan" => /\ n.row \in 1..(Len(List[n.list].acl) + 1)
                         /\ \A j \in 1..(n.row - 1) : List[n.list].acl[j].h_dest # n.src
    BY <2>2, <2>4
  <2> QED BY <2>2, <2>3, <2>4, <2>5, <2>6, <2>7 DEF Checked
<1> QED BY <1>1, <1>2

\* A step that leaves the checks and what is in force alone.
LEMMA ForceKeeps ==
  ASSUME IInv, NEW d \in Devices, check' = check,
         \A f \in Range(Fields) : InForce(d, f)' = InForce(d, f)
  PROVE  Checked(d)'
<1>1. TypeOK /\ Checked(d)
  BY DEF IInv
<1>2. CASE check[d] = None
  BY <1>2 DEF Checked
<1>3. CASE check[d] # None
  <2>1. PICK c : c = check[d]
    OBVIOUS
  <2>2. PICK seen : seen = c.seen
    OBVIOUS
  <2>3. c \in Checks /\ c.op \in Range(Fields)
    BY <1>1, <1>3, <2>1, CheckIs
  <2>4. c = [c EXCEPT !.seen = seen]
    BY <2>2, <2>3 DEF Checks
  <2>5. InForce(d, c.op)' \in seen
    BY <1>1, <1>3, <2>1, <2>2, <2>3 DEF Checked
  <2> QED BY <1>1, <1>3, <2>1, <2>2, <2>4, <2>5, SeenGrows
<1> QED BY <1>2, <1>3

\* One field of one device gets the list l, the others keep theirs.
FieldIs(d, k, l) ==
  /\ acl' \in [Devices -> [Range(Fields) -> Names \cup {None}]]
  /\ acl'[d][Fields[k]] = l
  /\ \A e \in Devices, f \in Range(Fields) : e # d \/ f # Fields[k] => acl'[e][f] = acl[e][f]
  /\ \A e \in Devices, j \in DOMAIN Fields :
       <<e, j>> # <<d, k>> => acl'[e][Fields[j]] = acl[e][Fields[j]]

LEMMA FieldSet ==
  ASSUME TypeOK, NEW d \in Devices, NEW k \in DOMAIN Fields, NEW l \in Names \cup {None},
         acl' = [acl EXCEPT ![d][Fields[k]] = l]
  PROVE  FieldIs(d, k, l)
<1>1. Fields[k] \in Range(Fields)
  BY FieldsAre
<1>2. PICK row : row = [acl[d] EXCEPT ![Fields[k]] = l]
  OBVIOUS
<1>3. acl' = [acl EXCEPT ![d] = row] /\ acl[d] \in [Range(Fields) -> Names \cup {None}]
  BY <1>2 DEF TypeOK
<1>4. /\ row \in [Range(Fields) -> Names \cup {None}] /\ row[Fields[k]] = l
      /\ \A f \in Range(Fields) : f # Fields[k] => row[f] = acl[d][f]
  BY <1>1, <1>2, <1>3
<1>5. acl'[d] = row /\ \A e \in Devices : e # d => acl'[e] = acl[e]
  BY <1>3 DEF TypeOK
<1>6. acl' \in [Devices -> [Range(Fields) -> Names \cup {None}]]
  BY <1>3, <1>4 DEF TypeOK
<1>7. \A e \in Devices, f \in Range(Fields) : e # d \/ f # Fields[k] => acl'[e][f] = acl[e][f]
  BY <1>4, <1>5
<1>8. ASSUME NEW e \in Devices, NEW j \in DOMAIN Fields, <<e, j>> # <<d, k>>
      PROVE  acl'[e][Fields[j]] = acl[e][Fields[j]]
  <2>1. e # d \/ Fields[j] # Fields[k]
    BY <1>8, FieldsAre
  <2> QED BY <1>7, <2>1, FieldsAre
<1> QED BY <1>4, <1>5, <1>6, <1>7, <1>8 DEF FieldIs

\* The assignment to one field, in the middle of a change of that field or not.
LEMMA AssignKeeps ==
  ASSUME IInv, NEW d \in Devices, NEW k \in DOMAIN Fields, NEW l \in Names \cup {None},
         Assign(d, Fields[k], l), api # None, api.now \in {None, <<d, k>>},
         api'.now \in {None, <<d, k>>}
  PROVE  /\ acl' = [acl EXCEPT ![d][Fields[k]] = l]
         /\ check' \in [Devices -> Checks \cup {None}]
         /\ \A e \in Devices : Checked(e)'
<1>1. /\ TypeOK /\ acl' = [acl EXCEPT ![d][Fields[k]] = l]
      /\ \A e \in Devices : Checked(e)
  BY DEF IInv, Assign
<1>2. PICK g : g = Fields[k]
  OBVIOUS
<1>3. g \in Range(Fields)
  BY <1>2, FieldsAre
<1>4. /\ acl'[d][g] = l
      /\ \A e \in Devices, f \in Range(Fields) : e # d \/ f # g => acl'[e][f] = acl[e][f]
  <2>1. FieldIs(d, k, l)
    BY <1>1, FieldSet, Zenon
  <2> QED BY <1>2, <2>1 DEF FieldIs
<1>5. InForce(d, g)' \in Names \cup {None, "gap"}
  BY <1>2, <1>4 DEF InForce
<1>6. ASSUME NEW e \in Devices, NEW f \in Range(Fields), e # d \/ f # g
      PROVE  InForce(e, f)' = InForce(e, f)
  <2>1. InForce(e, f) = acl[e][f]
    BY <1>2, <1>6 DEF InForce
  <2>2. InForce(e, f)' = acl'[e][f]
    BY <1>2, <1>6 DEF InForce
  <2> QED BY <1>4, <1>6, <2>1, <2>2
<1>7. CASE check[d] # None /\ check[d].op = g
  <2>1. PICK c : c = check[d]
    OBVIOUS
  <2>2. PICK seen : seen = c.seen \cup {InForce(d, g)'}
    OBVIOUS
  <2>3. PICK n : n = [c EXCEPT !.seen = seen]
    OBVIOUS
  <2>4. check' = [check EXCEPT ![d] = n]
    BY <1>2, <1>7, <2>1, <2>2, <2>3 DEF Assign
  <2>5. n \in Checks
    <3>1. c \in Checks /\ seen \subseteq Names \cup {None, "gap"}
      BY <1>1, <1>5, <1>7, <2>1, <2>2, CheckIs
    <3> QED BY <2>3, <3>1 DEF Checks
  <2>6. check' \in [Devices -> Checks \cup {None}]
    BY <1>1, <2>4, <2>5 DEF TypeOK
  <2>7. check'[d] = n /\ \A e \in Devices : e # d => check'[e] = check[e]
    BY <1>1, <2>4 DEF TypeOK
  <2>8. Checked(d)'
    <3>1. check[d] # None => /\ check'[d] = [check[d] EXCEPT !.seen = seen]
                             /\ check[d].seen \subseteq seen
                             /\ InForce(d, check[d].op)' \in seen
      BY <1>7, <2>1, <2>2, <2>3, <2>7
    <3> QED BY <1>1, <1>7, <3>1, SeenGrows
  <2>9. ASSUME NEW e \in Devices, e # d PROVE Checked(e)'
    <3>1. CASE check[e] = None
      BY <2>7, <2>9, <3>1 DEF Checked
    <3>2. CASE check[e] # None
      <4>1. PICK m : m = check[e]
        OBVIOUS
      <4>2. m \in Checks /\ m.op \in Range(Fields)
        BY <1>1, <3>2, <4>1, CheckIs
      <4>3. PICK s : s = m.seen
        OBVIOUS
      <4>4. m = [m EXCEPT !.seen = s]
        BY <4>2, <4>3 DEF Checks
      <4>5. InForce(e, m.op)' \in s
        <5>1. InForce(e, m.op) \in s
          BY <1>1, <3>2, <4>1, <4>3 DEF Checked
        <5> QED BY <1>6, <2>9, <4>2, <5>1
      <4> QED BY <1>1, <2>7, <2>9, <3>2, <4>1, <4>3, <4>4, <4>5, SeenGrows
    <3> QED BY <3>1, <3>2
  <2> QED BY <1>1, <2>6, <2>8, <2>9
<1>8. CASE ~(check[d] # None /\ check[d].op = g)
  <2>1. check' = check
    BY <1>2, <1>8 DEF Assign
  <2>2. ASSUME NEW e \in Devices PROVE Checked(e)'
    <3>1. CASE check[e] = None
      BY <2>1, <3>1 DEF Checked
    <3>2. CASE check[e] # None
      <4>1. PICK m : m = check[e]
        OBVIOUS
      <4>2. m \in Checks /\ m.op \in Range(Fields)
        BY <1>1, <3>2, <4>1, CheckIs
      <4>3. PICK s : s = m.seen
        OBVIOUS
      <4>4. m = [m EXCEPT !.seen = s]
        BY <4>2, <4>3 DEF Checks
      <4>5. InForce(e, m.op)' \in s
        <5>1. InForce(e, m.op) \in s
          BY <1>1, <3>2, <4>1, <4>3 DEF Checked
        <5>2. e # d \/ m.op # g
          BY <1>8, <3>2, <4>1
        <5> QED BY <1>6, <4>2, <5>1, <5>2
      <4> QED BY <1>1, <2>1, <3>2, <4>1, <4>3, <4>4, <4>5, SeenGrows
    <3> QED BY <3>1, <3>2
  <2>3. check' \in [Devices -> Checks \cup {None}]
    BY <1>1, <2>1 DEF TypeOK
  <2> QED BY <1>1, <2>2, <2>3
<1> QED BY <1>7, <1>8

LEMMA SetaclKeeps ==
  ASSUME IInv, NEW want \in [Range(Fields) -> Wanted], NEW path \in Devices \cup {All, None},
         Setacl(want, path)
  PROVE  IInv'
<1>1. PICK chosen : chosen = CASE path = All -> Devices [] path = None -> {} [] OTHER -> {path}
  OBVIOUS
<1>2. chosen \subseteq Devices
  BY <1>1
<1>3. /\ api = None /\ UNCHANGED <<acl, check, dead>>
      /\ api' = [want |-> want, chosen |-> chosen, left |-> chosen \X DOMAIN Fields,
                 now |-> None, ok |-> TRUE]
  BY <1>1 DEF Setacl
<1>4. /\ api'.want = want /\ api'.chosen = chosen /\ api'.left = chosen \X DOMAIN Fields
      /\ api'.now = None
  BY <1>3
<1>5. chosen \X DOMAIN Fields \subseteq Devices \X DOMAIN Fields
  BY <1>2
<1>6. TypeOK'
  BY <1>2, <1>3, <1>5 DEF IInv, TypeOK, Setacls
<1>7. Progress'
  BY <1>4 DEF Progress
<1>8. \A d \in Devices, f \in Range(Fields) : InForce(d, f)' = InForce(d, f)
  BY <1>3, <1>4 DEF InForce
<1>9. \A d \in Devices : Checked(d)'
  BY <1>3, <1>8, ForceKeeps
<1> QED BY <1>6, <1>7, <1>9 DEF IInv

\* The SETACL that is carried out, in its parts.
LEMMA SetaclIs ==
  ASSUME TypeOK, api # None
  PROVE  /\ api \in Setacls /\ api.want \in [Range(Fields) -> Wanted]
         /\ api.chosen \subseteq Devices /\ api.left \subseteq Devices \X DOMAIN Fields
         /\ api.now \in (Devices \X DOMAIN Fields) \cup {None} /\ api.ok \in BOOLEAN
  BY DEF TypeOK, Setacls

\* One field done: what is left loses it, what is done gains it.
LEMMA DoneKeeps ==
  ASSUME IInv, NEW d \in Devices, NEW k \in DOMAIN Fields, NEW ok \in BOOLEAN, api # None,
         <<d, k>> \in api.left,
         api' = [api EXCEPT !.now = None, !.left = @ \ {<<d, k>>}, !.ok = ok],
         LET w == api.want[Fields[k]]
             l == IF w \in Names THEN w ELSE None
         IN Assign(d, Fields[k], l) /\ (ok => api.ok /\ w \in Names \cup {None}),
         api.now \in {None, <<d, k>>}, dead' = dead
  PROVE  IInv'
<1>1. PICK w : w = api.want[Fields[k]]
  OBVIOUS
<1>2. PICK l : l = IF w \in Names THEN w ELSE None
  OBVIOUS
<1>3. l \in Names \cup {None} /\ Assign(d, Fields[k], l) /\ (ok => api.ok /\ w \in Names \cup {None})
  BY <1>1, <1>2
<1>4. TypeOK /\ Progress
  BY DEF IInv
<1>5. /\ api'.want = api.want /\ api'.chosen = api.chosen /\ api'.left = api.left \ {<<d, k>>}
      /\ api'.now = None /\ api'.ok = ok /\ api' \in Setacls
  BY <1>4, SetaclIs DEF Setacls
<1>6. /\ acl' = [acl EXCEPT ![d][Fields[k]] = l]
      /\ check' \in [Devices -> Checks \cup {None}]
      /\ \A e \in Devices : Checked(e)'
  <2>1. api'.now \in {None, <<d, k>>}
    BY <1>5
  <2> QED BY <1>3, <2>1, AssignKeeps
<1>7. /\ acl' \in [Devices -> [Range(Fields) -> Names \cup {None}]] /\ acl'[d][Fields[k]] = l
      /\ \A e \in Devices, j \in DOMAIN Fields :
           <<e, j>> # <<d, k>> => acl'[e][Fields[j]] = acl[e][Fields[j]]
  <2>1. FieldIs(d, k, l)
    BY <1>3, <1>4, <1>6, FieldSet, Zenon
  <2> QED BY <2>1 DEF FieldIs
<1>8. TypeOK'
  BY <1>4, <1>5, <1>6, <1>7 DEF TypeOK
<1>9. Progress'
  <2>1. api'.left \subseteq api'.chosen \X DOMAIN Fields
    BY <1>4, <1>5 DEF Progress
  <2>2. ASSUME NEW e \in api.chosen, NEW j \in DOMAIN Fields, <<e, j>> \notin api'.left
        PROVE  /\ acl'[e][Fields[j]] = (IF api.want[Fields[j]] \in Names
                                        THEN api.want[Fields[j]] ELSE None)
               /\ api'.ok => api.want[Fields[j]] \in Names \cup {None}
    <3>1. e \in Devices
      BY <1>4, SetaclIs
    <3>2. CASE <<e, j>> = <<d, k>>
      <4>1. e = d /\ j = k
        BY <3>2
      <4> QED BY <1>1, <1>2, <1>3, <1>5, <1>7, <4>1
    <3>3. CASE <<e, j>> # <<d, k>>
      <4>1. <<e, j>> \notin api.left
        BY <1>5, <2>2, <3>3
      <4>2. /\ acl[e][Fields[j]] = (IF api.want[Fields[j]] \in Names
                                    THEN api.want[Fields[j]] ELSE None)
            /\ api.ok => api.want[Fields[j]] \in Names \cup {None}
        BY <1>4, <4>1 DEF Progress
      <4>3. acl'[e][Fields[j]] = acl[e][Fields[j]]
        BY <1>7, <3>1, <3>3
      <4> QED BY <1>3, <1>5, <4>2, <4>3
    <3> QED BY <3>2, <3>3
  <2> QED BY <1>5, <2>1, <2>2 DEF Progress
<1> QED BY <1>4, <1>6, <1>8, <1>9 DEF IInv

LEMMA ClearKeeps ==
  ASSUME IInv, NEW d \in Devices, NEW k \in DOMAIN Fields, Clear(d, k)
  PROVE  IInv'
<1>1. /\ TypeOK /\ Progress /\ api # None /\ api.now = None /\ <<d, k>> \in api.left
      /\ Assign(d, Fields[k], None) /\ dead' = dead
  BY DEF IInv, Clear, Turn
<1>2. CASE api.want[Fields[k]] = None
  <2>1. api' = [api EXCEPT !.left = @ \ {<<d, k>>}]
    BY <1>2 DEF Clear
  <2>2. PICK ok \in BOOLEAN : ok = api.ok
    BY <1>1, SetaclIs
  <2>3. api' = [api EXCEPT !.now = None, !.left = @ \ {<<d, k>>}, !.ok = ok]
    BY <1>1, <2>1, <2>2, SetaclIs DEF Setacls
  <2>4. None \notin Names
    BY AccessAssumption
  <2> QED BY <1>1, <1>2, <2>2, <2>3, <2>4, DoneKeeps
<1>3. CASE api.want[Fields[k]] # None
  <2>1. api' = [api EXCEPT !.now = <<d, k>>]
    BY <1>3 DEF Clear
  <2>2. /\ api'.want = api.want /\ api'.chosen = api.chosen /\ api'.left = api.left
        /\ api'.now = <<d, k>> /\ api'.ok = api.ok /\ api' \in Setacls
    BY <1>1, <2>1, SetaclIs DEF Setacls
  <2>3. /\ acl' = [acl EXCEPT ![d][Fields[k]] = None]
        /\ check' \in [Devices -> Checks \cup {None}]
        /\ \A e \in Devices : Checked(e)'
    <3>1. None \in Names \cup {None} /\ api'.now \in {None, <<d, k>>} /\ api.now \in {None, <<d, k>>}
      BY <1>1, <2>2
    <3> QED BY <1>1, <3>1, AssignKeeps
  <2>4. /\ acl' \in [Devices -> [Range(Fields) -> Names \cup {None}]] /\ acl'[d][Fields[k]] = None
        /\ \A e \in Devices, j \in DOMAIN Fields :
             <<e, j>> # <<d, k>> => acl'[e][Fields[j]] = acl[e][Fields[j]]
    <3>0. None \in Names \cup {None}
      OBVIOUS
    <3>1. FieldIs(d, k, None)
      BY <1>1, <2>3, <3>0, FieldSet, Zenon
    <3> QED BY <3>1 DEF FieldIs
  <2>5. TypeOK'
    BY <1>1, <2>2, <2>3, <2>4 DEF TypeOK
  <2>6. Progress'
    <3>1. api'.left \subseteq api'.chosen \X DOMAIN Fields
      BY <1>1, <2>2 DEF Progress
    <3>2. api'.now \in api'.left /\ acl'[api'.now[1]][Fields[api'.now[2]]] = None
      BY <1>1, <2>2, <2>4
    <3>3. ASSUME NEW e \in api.chosen, NEW j \in DOMAIN Fields, <<e, j>> \notin api.left
          PROVE  /\ acl'[e][Fields[j]] = (IF api.want[Fields[j]] \in Names
                                          THEN api.want[Fields[j]] ELSE None)
                 /\ api.ok => api.want[Fields[j]] \in Names \cup {None}
      <4>1. /\ acl[e][Fields[j]] = (IF api.want[Fields[j]] \in Names
                                    THEN api.want[Fields[j]] ELSE None)
            /\ api.ok => api.want[Fields[j]] \in Names \cup {None}
        BY <1>1, <3>3 DEF Progress
      <4>2. e \in Devices /\ <<e, j>> # <<d, k>>
        BY <1>1, <3>3, SetaclIs
      <4> QED BY <2>4, <4>1, <4>2
    <3> QED BY <2>2, <3>1, <3>2, <3>3 DEF Progress
  <2> QED BY <2>3, <2>5, <2>6 DEF IInv
<1> QED BY <1>2, <1>3

LEMMA ResolveKeeps ==
  ASSUME IInv, NEW d \in Devices, NEW k \in DOMAIN Fields, Resolve(d, k)
  PROVE  IInv'
<1>1. PICK w : w = api.want[Fields[k]]
  OBVIOUS
<1>2. PICK ok : ok = (api.ok /\ w \in Names)
  OBVIOUS
<1>3. /\ TypeOK /\ Progress /\ api # None /\ api.now = <<d, k>> /\ dead' = dead
      /\ api' = [api EXCEPT !.now = None, !.left = @ \ {<<d, k>>}, !.ok = ok]
      /\ Assign(d, Fields[k], IF w \in Names THEN w ELSE None)
  BY <1>1, <1>2 DEF IInv, Resolve
<1>4. ok \in BOOLEAN /\ (ok => api.ok /\ w \in Names \cup {None})
  BY <1>2
<1>5. <<d, k>> \in api.left
  <2>1. <<d, k>> # None
    BY NoneAssumption
  <2> QED BY <1>3, <2>1 DEF Progress
<1>6. api.now \in {None, <<d, k>>}
  BY <1>3
<1> QED BY <1>1, <1>3, <1>4, <1>5, <1>6, DoneKeeps

LEMMA ReplyKeeps ==
  ASSUME IInv, Reply
  PROVE  IInv'
<1>1. /\ TypeOK /\ Progress /\ api # None /\ api.left = {} /\ api' = None
      /\ UNCHANGED <<acl, check, dead>>
  BY DEF IInv, Reply
<1>2. api.now = None
  BY <1>1 DEF Progress
<1>3. \A d \in Devices, f \in Range(Fields) : InForce(d, f)' = InForce(d, f)
  BY <1>1, <1>2 DEF InForce
<1>4. \A d \in Devices : Checked(d)'
  BY <1>1, <1>3, ForceKeeps
<1>5. TypeOK' /\ Progress'
  BY <1>1 DEF TypeOK, Progress
<1> QED BY <1>4, <1>5 DEF IInv

-----------------------------------------------------------------------------
(* The theorems.                                                             *)

LEMMA InitHolds == Init => IInv
<1> SUFFICES ASSUME Init PROVE IInv
  OBVIOUS
<1>1. \A d \in Devices : check[d] = None
  BY DEF Init
<1>2. TypeOK /\ Progress
  BY DEF Init, TypeOK, Progress
<1> QED BY <1>1, <1>2 DEF IInv, Checked

LEMMA Step == IInv /\ [Next]_vars => IInv'
<1> SUFFICES ASSUME IInv, [Next]_vars PROVE IInv'
  OBVIOUS
<1>1. ASSUME NEW d \in Followed, NEW m \in Macs, NEW f \in Range(Fields), Begin(d, m, f)
      PROVE  IInv'
  BY <1>1, BeginKeeps, AccessAssumption
<1>2. ASSUME NEW d \in Followed, Test(d) \/ Call(d) \/ Scan(d) \/ Finish(d) PROVE IInv'
  BY <1>2, TestKeeps, CallKeeps, ScanKeeps, FinishKeeps, AccessAssumption
<1>3. ASSUME NEW d \in Devices, NEW k \in DOMAIN Fields, Clear(d, k) \/ Resolve(d, k) PROVE IInv'
  BY <1>3, ClearKeeps, ResolveKeeps
<1>4. ASSUME NEW want \in [Range(Fields) -> Wanted], NEW path \in Devices \cup {All, None},
             Setacl(want, path)
      PROVE  IInv'
  BY <1>4, SetaclKeeps
<1>5. CASE Reply
  BY <1>5, ReplyKeeps
<1>6. CASE UNCHANGED vars
  <2>1. UNCHANGED <<acl, api, check, dead>>
    BY <1>6 DEF vars
  <2>2. TypeOK' /\ Progress'
    BY <2>1 DEF IInv, TypeOK, Progress
  <2>3. \A d \in Devices, f \in Range(Fields) : InForce(d, f)' = InForce(d, f)
    BY <2>1 DEF InForce
  <2>4. \A d \in Devices : Checked(d)'
    BY <2>1, <2>3, ForceKeeps
  <2> QED BY <2>2, <2>4 DEF IInv
<1> QED BY <1>1, <1>2, <1>3, <1>4, <1>5, <1>6 DEF Next

\* Whatever the lists say, whatever SETACL changes and when, the state is as IInv
\* has it.
THEOREM Invariance == Spec => []IInv
<1> QED BY InitHolds, Step, PTL DEF Spec

\* Every verdict of aclmatch is one that a list in force during the check gives, by
\* what qaoed.conf.5 says of its block.
THEOREM VerdictsAreJustified == Spec => []Justified
<1>1. IInv => Justified
  BY DEF IInv, Checked, Justified, At
<1> QED BY <1>1, Invariance, PTL

\* When nothing is left, the devices have what the request names, and NULL where no
\* list has the name.
LEMMA AllDone ==
  ASSUME IInv, Reply, NEW d \in api.chosen
  PROVE  /\ acl[d] \in [Range(Fields) -> Names \cup {None}]
         /\ \A f \in Range(Fields) :
              LET w == api.want[f] IN
              acl[d][f] = (IF w \in Names THEN w ELSE None) /\ (api.ok => w \in Names \cup {None})
<1>1. TypeOK /\ Progress /\ api # None /\ api.left = {}
  BY DEF IInv, Reply
<1>2. d \in Devices
  BY <1>1, SetaclIs
<1>3. acl[d] \in [Range(Fields) -> Names \cup {None}]
  BY <1>1, <1>2 DEF TypeOK
<1>4. ASSUME NEW f \in Range(Fields)
      PROVE  LET w == api.want[f] IN
             acl[d][f] = (IF w \in Names THEN w ELSE None) /\ (api.ok => w \in Names \cup {None})
  <2>1. PICK k \in DOMAIN Fields : Fields[k] = f
    BY FieldsAre
  <2>2. <<d, k>> \notin api.left
    BY <1>1
  <2> QED BY <1>1, <2>1, <2>2 DEF Progress
<1> QED BY <1>3, <1>4

\* The answer that a SETACL succeeded means that each of its lists is in its place.
THEOREM SuccessIsTrue == Spec => SuccessMeansSet
<1>1. ASSUME IInv, Reply, api.ok, NEW d \in api.chosen
      PROVE  acl[d] = api.want
  <2>1. api.want \in [Range(Fields) -> Wanted]
    BY <1>1, SetaclIs DEF IInv, Reply
  <2>2. \A f \in Range(Fields) : acl[d][f] = api.want[f]
    BY <1>1, AllDone
  <2>3. acl[d] \in [Range(Fields) -> Names \cup {None}]
    BY <1>1, AllDone
  <2> QED BY <2>1, <2>2, <2>3
<1>2. IInv => [Reply /\ api.ok => \A d \in api.chosen : acl[d] = api.want]_vars
  BY <1>1
<1> QED BY <1>2, Invariance, PTL DEF SuccessMeansSet

\* After a SETACL for all paths no path is guarded otherwise than the others.
THEOREM PathsEndAlike == Spec => PathsAlike
<1>1. ASSUME IInv, Reply, api.chosen = Devices, NEW d \in Devices, NEW e \in Devices
      PROVE  acl[d] = acl[e]
  <2>1. \A f \in Range(Fields) : acl[d][f] = acl[e][f]
    BY <1>1, AllDone
  <2>2. /\ acl[d] \in [Range(Fields) -> Names \cup {None}]
        /\ acl[e] \in [Range(Fields) -> Names \cup {None}]
    BY <1>1, AllDone
  <2> QED BY <2>1, <2>2
<1>2. IInv => [Reply /\ api.chosen = Devices => \A d, e \in Devices : acl[d] = acl[e]]_vars
  BY <1>1
<1> QED BY <1>2, Invariance, PTL DEF PathsAlike
=============================================================================
