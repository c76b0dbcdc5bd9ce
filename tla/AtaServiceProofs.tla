--------------------------- MODULE AtaServiceProofs ----------------------------
(***************************************************************************)
(* Theorems of module AtaService: for a target with one path, whatever is  *)
(* lost, sent again, carried out twice, fails or falls short, a write that *)
(* was acknowledged is in the file and a read is answered with what was    *)
(* written last.                                                           *)
(*                                                                         *)
(* The requests queued on a path and those on the wire are one line; a     *)
(* step puts a request at its end, or makes it thinner.                    *)
(***************************************************************************)
EXTENDS AtaService, SequenceTheorems, FiniteSetTheorems, TLAPS

-----------------------------------------------------------------------------
(* Requests and lines.                                                       *)

LEMMA SendableIs ==
  ASSUME NEW r \in Sendable
  PROVE  /\ r \in Requests /\ r.tag \in Tags /\ r.tag \in Nat /\ r.op \in Ops
         /\ r.lba \in Nat /\ r.nsect \in 1..2 /\ Covers(r) \subseteq Sectors
         /\ Covers(r) = r.lba..(r.lba + r.nsect - 1)
<1>1. r \in Requests /\ Covers(r) \subseteq Sectors
  BY DEF Sendable
<1>2. r.tag \in Tags /\ r.op \in Ops /\ r.lba \in Sectors /\ r.nsect \in 1..2
  BY <1>1 DEF Requests
<1>3. r.tag \in Nat /\ r.lba \in Nat
  BY <1>2, AtaAssumption DEF Tags, Sectors
<1> QED BY <1>1, <1>2, <1>3 DEF Covers

\* M has members of L, in the order they have in L.
Thins(M, L) ==
  \E f \in [DOMAIN M -> DOMAIN L] :
    /\ \A i, j \in DOMAIN M : i < j => f[i] < f[j]
    /\ \A i \in DOMAIN M : M[i] = L[f[i]]

LEMMA SameThins ==
  ASSUME NEW L
  PROVE  Thins(L, L)
<1>1. [i \in DOMAIN L |-> i] \in [DOMAIN L -> DOMAIN L]
  OBVIOUS
<1> QED BY <1>1 DEF Thins

\* A line that loses the member at k.
LEMMA DropThins ==
  ASSUME NEW S, NEW L \in Seq(S), NEW M \in Seq(S), NEW k \in 1..Len(L), Len(M) = Len(L) - 1,
         \A i \in 1..Len(M) : M[i] = IF i < k THEN L[i] ELSE L[i + 1]
  PROVE  Thins(M, L)
<1> DEFINE f == [i \in 1..Len(M) |-> IF i < k THEN i ELSE i + 1]
<1>1. Len(L) \in Nat /\ Len(M) \in Nat /\ DOMAIN L = 1..Len(L) /\ DOMAIN M = 1..Len(M)
  BY LenProperties
<1>2. f \in [DOMAIN M -> DOMAIN L]
  <2>1. ASSUME NEW i \in 1..Len(M) PROVE (IF i < k THEN i ELSE i + 1) \in 1..Len(L)
    BY <1>1
  <2> QED BY <1>1, <2>1
<1>3. ASSUME NEW i \in 1..Len(M), NEW j \in 1..Len(M), i < j PROVE f[i] < f[j]
  <2>1. i \in Nat /\ j \in Nat /\ k \in Nat
    BY <1>1
  <2> QED BY <1>3, <2>1
<1>4. \A i \in 1..Len(M) : M[i] = L[f[i]]
  OBVIOUS
<1> HIDE DEF f
<1> QED BY <1>1, <1>2, <1>3, <1>4 DEF Thins

LEMMA LineIs ==
  ASSUME TypeOK, NEW p \in Paths
  PROVE  Line(p) \in Seq(Sendable) /\ queue[p] \in Seq(Sendable) /\ wire \in Seq(Sendable)
<1>1. queue[p] \in Seq(Sendable) /\ wire \in Seq(Sendable)
  BY DEF TypeOK
<1> QED BY <1>1, ConcatProperties DEF Line

LEMMA Joined ==
  ASSUME NEW S, NEW a \in Seq(S), NEW b \in Seq(S), NEW x, x = a \o b
  PROVE  /\ x \in Seq(S) /\ Len(x) = Len(a) + Len(b)
         /\ \A i \in 1..Len(x) : x[i] = IF i <= Len(a) THEN a[i] ELSE b[i - Len(a)]
  BY ConcatProperties

\* The listener moves a request from the wire to the queue: the line is the same.
LEMMA ListenLine ==
  ASSUME NEW S, NEW q \in Seq(S), NEW w \in Seq(S), w # <<>>
  PROVE  Append(q, Head(w)) \o Tail(w) = q \o w
<1>1. Head(w) \in S /\ Tail(w) \in Seq(S) /\ Len(Tail(w)) = Len(w) - 1 /\ Len(w) \in Nat \ {0}
      /\ \A i \in 1..Len(Tail(w)) : Tail(w)[i] = w[i + 1]
  BY HeadTailProperties, EmptySeq, LenProperties
<1>2. Head(w) = w[1]
  OBVIOUS
<1>3. PICK h : h = Head(w)
  OBVIOUS
<1>4. PICK a : a = Append(q, h)
  OBVIOUS
<1>5. PICK t : t = Tail(w)
  OBVIOUS
<1>6. /\ a \in Seq(S) /\ Len(a) = Len(q) + 1 /\ a[Len(q) + 1] = h
      /\ \A i \in 1..Len(q) : a[i] = q[i]
  BY <1>1, <1>3, <1>4, AppendProperties
<1>7. PICK x : x = a \o t
  OBVIOUS
<1>8. PICK y : y = q \o w
  OBVIOUS
<1>9. /\ x \in Seq(S) /\ Len(x) = Len(a) + Len(t)
      /\ \A i \in 1..Len(x) : x[i] = IF i <= Len(a) THEN a[i] ELSE t[i - Len(a)]
  <2>1. a \in Seq(S) /\ t \in Seq(S)
    BY <1>1, <1>5, <1>6
  <2> QED BY <1>7, <2>1, Joined
<1>10. /\ y \in Seq(S) /\ Len(y) = Len(q) + Len(w)
       /\ \A i \in 1..Len(y) : y[i] = IF i <= Len(q) THEN q[i] ELSE w[i - Len(q)]
  BY <1>8, Joined
<1>11. Len(q) \in Nat /\ Len(w) \in Nat \ {0} /\ Len(t) = Len(w) - 1 /\ Len(x) = Len(y)
  BY <1>1, <1>5, <1>6, <1>9, <1>10, LenProperties
<1>12. ASSUME NEW i \in 1..Len(x) PROVE x[i] = y[i]
  <2>1. CASE i <= Len(q)
    <3>1. i \in 1..Len(q) /\ i <= Len(a)
      BY <1>6, <1>11, <2>1
    <3> QED BY <1>6, <1>9, <1>10, <1>11, <2>1, <3>1
  <2>2. CASE i = Len(q) + 1
    <3>1. i <= Len(a) /\ ~(i <= Len(q)) /\ i - Len(q) = 1
      BY <1>6, <1>11, <2>2
    <3>2. x[i] = h /\ y[i] = w[1]
      BY <1>6, <1>9, <1>10, <1>11, <2>2, <3>1
    <3> QED BY <1>2, <1>3, <3>2
  <2>3. CASE i > Len(q) + 1
    <3>1. PICK j : j = i - Len(a)
      OBVIOUS
    <3>2. ~(i <= Len(a)) /\ ~(i <= Len(q)) /\ j \in 1..Len(t) /\ i - Len(q) = j + 1
      BY <1>6, <1>9, <1>11, <2>3, <3>1
    <3>3. x[i] = t[j] /\ y[i] = w[j + 1]
      BY <1>9, <1>10, <1>11, <3>1, <3>2
    <3> QED BY <1>1, <1>5, <3>2, <3>3
  <2>4. i <= Len(q) \/ i = Len(q) + 1 \/ i > Len(q) + 1
    BY <1>11
  <2> QED BY <2>1, <2>2, <2>3, <2>4
<1>13. x = y
  BY <1>9, <1>10, <1>11, <1>12, SeqEqual
<1> QED BY <1>3, <1>4, <1>5, <1>7, <1>8, <1>13

\* A request put on the wire is at the end of the line.
LEMMA SendLine ==
  ASSUME NEW S, NEW q \in Seq(S), NEW w \in Seq(S), NEW e \in S
  PROVE  q \o Append(w, e) = Append(q \o w, e)
<1>1. PICK a : a = Append(w, e)
  OBVIOUS
<1>2. PICK y : y = q \o w
  OBVIOUS
<1>3. PICK x : x = q \o a
  OBVIOUS
<1>4. PICK z : z = Append(y, e)
  OBVIOUS
<1>5. /\ a \in Seq(S) /\ Len(a) = Len(w) + 1 /\ a[Len(w) + 1] = e
      /\ \A i \in 1..Len(w) : a[i] = w[i]
  BY <1>1, AppendProperties
<1>6. /\ y \in Seq(S) /\ Len(y) = Len(q) + Len(w)
      /\ \A i \in 1..Len(y) : y[i] = IF i <= Len(q) THEN q[i] ELSE w[i - Len(q)]
  BY <1>2, Joined
<1>7. /\ x \in Seq(S) /\ Len(x) = Len(q) + Len(a)
      /\ \A i \in 1..Len(x) : x[i] = IF i <= Len(q) THEN q[i] ELSE a[i - Len(q)]
  <2>1. a \in Seq(S)
    BY <1>5
  <2> QED BY <1>3, <2>1, Joined
<1>8. /\ z \in Seq(S) /\ Len(z) = Len(y) + 1 /\ z[Len(y) + 1] = e
      /\ \A i \in 1..Len(y) : z[i] = y[i]
  BY <1>4, <1>6, AppendProperties
<1>9. Len(q) \in Nat /\ Len(w) \in Nat /\ Len(x) = Len(z)
  BY <1>5, <1>6, <1>7, <1>8, LenProperties
<1>10. ASSUME NEW i \in 1..Len(x) PROVE x[i] = z[i]
  <2>1. CASE i = Len(y) + 1
    <3>1. ~(i <= Len(q)) /\ i - Len(q) = Len(w) + 1
      BY <1>6, <1>9, <2>1
    <3> QED BY <1>5, <1>7, <1>8, <2>1, <3>1
  <2>2. CASE i # Len(y) + 1
    <3>1. i \in 1..Len(y) /\ (~(i <= Len(q)) => i - Len(q) \in 1..Len(w))
      BY <1>6, <1>8, <1>9, <2>2
    <3> QED BY <1>5, <1>6, <1>7, <1>8, <3>1
  <2> QED BY <2>1, <2>2
<1>11. x = z
  BY <1>7, <1>8, <1>9, <1>10, SeqEqual
<1> QED BY <1>1, <1>2, <1>3, <1>4, <1>11

\* A request lost on the wire is missing from the line.
LEMMA LoseLine ==
  ASSUME NEW S, NEW q \in Seq(S), NEW w \in Seq(S), w # <<>>
  PROVE  Thins(q \o Tail(w), q \o w)
<1>1. PICK t : t = Tail(w)
  OBVIOUS
<1>2. PICK y : y = q \o w
  OBVIOUS
<1>3. PICK x : x = q \o t
  OBVIOUS
<1>4. /\ t \in Seq(S) /\ Len(t) = Len(w) - 1 /\ Len(w) \in Nat \ {0} /\ Len(q) \in Nat
      /\ \A i \in 1..Len(t) : t[i] = w[i + 1]
  BY <1>1, HeadTailProperties, EmptySeq, LenProperties
<1>5. /\ y \in Seq(S) /\ Len(y) = Len(q) + Len(w)
      /\ \A i \in 1..Len(y) : y[i] = IF i <= Len(q) THEN q[i] ELSE w[i - Len(q)]
  BY <1>2, Joined
<1>6. /\ x \in Seq(S) /\ Len(x) = Len(q) + Len(t)
      /\ \A i \in 1..Len(x) : x[i] = IF i <= Len(q) THEN q[i] ELSE t[i - Len(q)]
  BY <1>3, <1>4, Joined
<1>7. PICK k : k = Len(q) + 1
  OBVIOUS
<1>8. k \in 1..Len(y) /\ Len(x) = Len(y) - 1
  BY <1>4, <1>5, <1>6, <1>7
<1>9. ASSUME NEW i \in 1..Len(x) PROVE x[i] = IF i < k THEN y[i] ELSE y[i + 1]
  <2>1. CASE i < k
    <3>1. i <= Len(q) /\ i \in 1..Len(y)
      BY <1>4, <1>7, <1>8, <2>1
    <3> QED BY <1>5, <1>6, <2>1, <3>1
  <2>2. CASE ~(i < k)
    <3>1. PICK j : j = i - Len(q)
      OBVIOUS
    <3>2. /\ ~(i <= Len(q)) /\ ~(i + 1 <= Len(q)) /\ i + 1 \in 1..Len(y) /\ j \in 1..Len(t)
          /\ (i + 1) - Len(q) = j + 1
      BY <1>4, <1>6, <1>7, <1>8, <2>2, <3>1
    <3>3. x[i] = t[j] /\ y[i + 1] = w[j + 1]
      BY <1>5, <1>6, <3>1, <3>2
    <3> QED BY <1>4, <2>2, <3>2, <3>3
  <2> QED BY <2>1, <2>2
<1>10. Thins(x, y)
  BY <1>5, <1>6, <1>8, <1>9, DropThins
<1> QED BY <1>1, <1>2, <1>3, <1>10

\* The worker takes the first request of the line.
LEMMA WorkLine ==
  ASSUME NEW S, NEW q \in Seq(S), NEW w \in Seq(S), q # <<>>
  PROVE  /\ Tail(q) \o w \in Seq(S) /\ q \o w \in Seq(S)
         /\ Len(Tail(q) \o w) = Len(q \o w) - 1
         /\ Len(q \o w) \in Nat \ {0} /\ (q \o w)[1] = Head(q)
         /\ \A i \in 1..Len(Tail(q) \o w) : (Tail(q) \o w)[i] = (q \o w)[i + 1]
<1>1. PICK t : t = Tail(q)
  OBVIOUS
<1>2. PICK y : y = q \o w
  OBVIOUS
<1>3. PICK x : x = t \o w
  OBVIOUS
<1>4. /\ t \in Seq(S) /\ Len(t) = Len(q) - 1 /\ Len(q) \in Nat \ {0} /\ Len(w) \in Nat
      /\ \A i \in 1..Len(t) : t[i] = q[i + 1]
  BY <1>1, HeadTailProperties, EmptySeq, LenProperties
<1>5. /\ y \in Seq(S) /\ Len(y) = Len(q) + Len(w)
      /\ \A i \in 1..Len(y) : y[i] = IF i <= Len(q) THEN q[i] ELSE w[i - Len(q)]
  BY <1>2, Joined
<1>6. /\ x \in Seq(S) /\ Len(x) = Len(t) + Len(w)
      /\ \A i \in 1..Len(x) : x[i] = IF i <= Len(t) THEN t[i] ELSE w[i - Len(t)]
  <2>1. t \in Seq(S)
    BY <1>4
  <2> QED BY <1>3, <2>1, Joined
<1>7. Head(q) = q[1] /\ y[1] = q[1]
  <2>1. 1 \in 1..Len(y) /\ 1 <= Len(q)
    BY <1>4, <1>5
  <2> QED BY <1>5, <2>1
<1>8. ASSUME NEW i \in 1..Len(x) PROVE x[i] = y[i + 1]
  <2>1. i + 1 \in 1..Len(y)
    BY <1>4, <1>5, <1>6
  <2>2. CASE i <= Len(t)
    <3>1. i \in 1..Len(t) /\ i + 1 <= Len(q)
      BY <1>4, <2>2
    <3> QED BY <1>4, <1>5, <1>6, <2>1, <2>2, <3>1
  <2>3. CASE ~(i <= Len(t))
    <3>1. ~(i + 1 <= Len(q)) /\ i - Len(t) = (i + 1) - Len(q)
      BY <1>4, <2>3
    <3> QED BY <1>5, <1>6, <2>1, <2>3, <3>1
  <2> QED BY <2>2, <2>3
<1>9. Len(x) = Len(y) - 1 /\ Len(y) \in Nat \ {0}
  BY <1>4, <1>5, <1>6
<1> QED BY <1>1, <1>2, <1>3, <1>5, <1>6, <1>7, <1>8, <1>9

-----------------------------------------------------------------------------
(* What a step does to a line.                                               *)

\* The invariant of the next state, from what each line has become.
LEMMA Collect ==
  ASSUME TypeOK', Waits',
         \A p \in Paths : \E M :
           /\ M = queue'[p] \o wire' /\ Ordered(M)'
           /\ Cardinality(Paths) = 1 => Stored(M)' /\ Answered(M)'
  PROVE  IInv'
<1>1. ASSUME NEW p \in Paths
      PROVE  /\ Ordered(Line(p))'
             /\ Cardinality(Paths) = 1 => Stored(Line(p))' /\ Answered(Line(p))'
  <2>1. PICK M : /\ M = queue'[p] \o wire' /\ Ordered(M)'
                 /\ Cardinality(Paths) = 1 => Stored(M)' /\ Answered(M)'
    OBVIOUS
  <2>2. M = Line(p)'
    BY <2>1 DEF Line
  <2>3. Ordered(Line(p))'
    BY <2>1, <2>2 DEF Ordered
  <2>4. Cardinality(Paths) = 1 => Stored(Line(p))'
    BY <2>1, <2>2 DEF Stored
  <2>5. Cardinality(Paths) = 1 => Answered(Line(p))'
    BY <2>1, <2>2 DEF Answered
  <2> QED BY <2>3, <2>4, <2>5
<1> QED BY <1>1 DEF IInv

\* A line that grows thinner stays in order, also when a request is answered.
LEMMA OrderedThins ==
  ASSUME NEW L, NEW M, Thins(M, L), DOMAIN L \subseteq Nat, DOMAIN M \subseteq Nat,
         Ordered(L), pending' \subseteq pending, sent' = sent
  PROVE  Ordered(M)'
<1>1. PICK f \in [DOMAIN M -> DOMAIN L] :
        /\ \A i, j \in DOMAIN M : i < j => f[i] < f[j]
        /\ \A i \in DOMAIN M : M[i] = L[f[i]]
  BY DEF Thins
<1>2. \A i \in DOMAIN M : f[i] \in DOMAIN L
  OBVIOUS
<1>3. \A i \in DOMAIN M : M[i].tag <= sent'
  BY <1>1, <1>2 DEF Ordered
<1>4. \A r \in pending', i \in DOMAIN M : M[i].tag = r.tag => M[i] = r
  BY <1>1, <1>2 DEF Ordered
<1>5. ASSUME NEW r \in pending', NEW i \in DOMAIN M, NEW j \in DOMAIN M,
             i < j, M[i].tag = r.tag, Meet(M[j], r)
      PROVE  M[j].tag = r.tag
  <2>1. f[i] < f[j] /\ M[i] = L[f[i]] /\ M[j] = L[f[j]] /\ r \in pending
    BY <1>1, <1>5
  <2> QED BY <1>2, <1>5, <2>1 DEF Ordered
<1>6. \A q, r : Meet(q, r)' = Meet(q, r)
  BY DEF Meet, Covers
<1> QED BY <1>3, <1>4, <1>5, <1>6 DEF Ordered

\* A request at the end of the line: a new one, or a copy of one that is waited for.
LEMMA OrderedGrows ==
  ASSUME NEW L \in Seq(Sendable), NEW r \in Sendable, Ordered(L), sent \in Nat, sent' \in Nat,
         pending \subseteq Sendable,
         \A q \in pending : q.tag <= sent,
         \/ r \in pending /\ pending' = pending /\ sent' = sent
            /\ \A q \in pending : q # r => q.tag # r.tag /\ ~Meet(q, r)
         \/ r.tag = sent + 1 /\ pending' = pending \cup {r} /\ sent' = r.tag
            /\ \A q \in pending : ~Meet(q, r)
  PROVE  Ordered(Append(L, r))'
<1>1. PICK M : M = Append(L, r)
  OBVIOUS
<1>2. PICK n : n = Len(L)
  OBVIOUS
<1>3. /\ M \in Seq(Sendable) /\ Len(M) = n + 1 /\ n \in Nat /\ M[n + 1] = r
      /\ \A i \in 1..n : M[i] = L[i]
  BY <1>1, <1>2, AppendProperties, LenProperties
<1>4. DOMAIN L = 1..n /\ DOMAIN M = 1..(n + 1)
  BY <1>2, <1>3, LenProperties
<1>5. \A i \in 1..(n + 1) : i = n + 1 \/ i \in 1..n
  BY <1>3
<1>6. r.tag \in Nat /\ \A q \in pending : q.tag \in Nat
  BY SendableIs
<1>7. \A i \in 1..n : L[i].tag <= sent /\ L[i].tag \in Nat
  <2>1. \A i \in 1..n : L[i] \in Sendable
    BY <1>2, ElementOfSeq
  <2> QED BY <1>4, <2>1, SendableIs DEF Ordered
<1>8. r.tag <= sent' /\ sent <= sent'
  BY <1>6
<1>9. \A i \in 1..(n + 1) : M[i].tag <= sent'
  BY <1>3, <1>5, <1>7, <1>8
<1>10. ASSUME NEW q \in pending', NEW i \in 1..(n + 1), M[i].tag = q.tag PROVE M[i] = q
  <2>1. CASE r \in pending
    <3>1. q \in pending
      BY <1>6, <2>1
    <3> QED BY <1>3, <1>4, <1>5, <1>6, <1>10, <2>1, <3>1 DEF Ordered
  <2>2. CASE r \notin pending
    <3>1. r.tag = sent + 1 /\ pending' = pending \cup {r}
      BY <2>2
    <3>2. CASE q = r
      BY <1>3, <1>5, <1>6, <1>7, <1>10, <3>1, <3>2
    <3>3. CASE q # r
      <4>1. q \in pending /\ q.tag # r.tag
        BY <1>6, <3>1, <3>3
      <4> QED BY <1>3, <1>4, <1>5, <1>10, <4>1 DEF Ordered
    <3> QED BY <3>2, <3>3
  <2> QED BY <2>1, <2>2
<1>11. ASSUME NEW q \in pending', NEW i \in 1..(n + 1), NEW j \in 1..(n + 1),
              i < j, M[i].tag = q.tag, Meet(M[j], q)
       PROVE  M[j].tag = q.tag
  <2>1. i \in 1..n
    BY <1>3, <1>11
  <2>2. q \in pending
    <3>1. CASE r \in pending
      BY <1>6, <3>1
    <3>2. CASE r \notin pending
      <4>1. q = r => q.tag = sent + 1
        BY <3>2
      <4>2. q # r
        BY <1>3, <1>6, <1>7, <1>11, <2>1, <4>1
      <4> QED BY <3>2, <4>2
    <3> QED BY <3>1, <3>2
  <2>3. CASE j \in 1..n
    BY <1>3, <1>4, <1>11, <2>1, <2>2, <2>3 DEF Ordered
  <2>4. CASE j = n + 1
    <3>1. Meet(q, r)
      BY <1>3, <1>11, <2>4 DEF Meet
    <3>2. q = r
      BY <2>2, <3>1
    <3> QED BY <1>3, <2>4, <3>2
  <2> QED BY <1>5, <2>3, <2>4
<1>12. \A q, x : Meet(q, x)' = Meet(q, x)
  BY DEF Meet, Covers
<1>13. Ordered(M)'
  BY <1>4, <1>9, <1>10, <1>11, <1>12 DEF Ordered
<1> QED BY <1>1, <1>13 DEF Ordered

\* A line that grows thinner while nothing else changes but that an answer may be lost.
LEMMA ThinsKeeps ==
  ASSUME NEW L, NEW M, Thins(M, L), Stored(L), Answered(L),
         UNCHANGED <<known, file, cut, pending>>, replies' \subseteq replies
  PROVE  Stored(M)' /\ Answered(M)'
<1>1. \A i \in DOMAIN M : \E j \in DOMAIN L : M[i] = L[j]
  BY DEF Thins
<1>2. \A r, s : Writes(r, s)' = Writes(r, s) /\ Covers(r)' = Covers(r)
  BY DEF Writes, Covers
<1>3. Stored(M)'
  BY <1>1, <1>2 DEF Stored
<1>4. Answered(M)'
  <2> SUFFICES ASSUME NEW a \in replies, NEW r \in pending, a.tag = r.tag, a.ok,
                      NEW s \in Covers(r) \ cut
               PROVE  /\ r.op = "write" =>
                           /\ s < Len(file) /\ file[s + 1] = r.tag
                           /\ \A i \in DOMAIN M : Writes(M[i], s) => M[i].tag = r.tag
                      /\ r.op = "read" => a.data[s - r.lba + 1] \in known[s]
    BY <1>2 DEF Answered
  <2>1. /\ r.op = "write" =>
             /\ s < Len(file) /\ file[s + 1] = r.tag
             /\ \A i \in DOMAIN L : Writes(L[i], s) => L[i].tag = r.tag
        /\ r.op = "read" => a.data[s - r.lba + 1] \in known[s]
    BY DEF Answered
  <2> QED BY <1>1, <2>1
<1> QED BY <1>3, <1>4

LEMMA SendLines ==
  \A q, w \in Seq(Sendable) : \A e \in Sendable : q \o Append(w, e) = Append(q \o w, e)
<1> TAKE q, w \in Seq(Sendable)
<1> TAKE e \in Sendable
<1> QED BY SendLine

-----------------------------------------------------------------------------
(* The client and the network.                                               *)

LEMMA Typed ==
  ASSUME IInv
  PROVE  /\ TypeOK /\ Waits /\ sent \in Nat /\ pending \subseteq Sendable
         /\ wire \in Seq(Sendable) /\ cut \subseteq Nat
         /\ \A p \in Paths : /\ queue[p] \in Seq(Sendable) /\ Line(p) \in Seq(Sendable)
                             /\ DOMAIN Line(p) \subseteq Nat /\ Ordered(Line(p))
                             /\ Line(p) = queue[p] \o wire
<1>1. TypeOK /\ Waits /\ \A p \in Paths : Ordered(Line(p))
  BY DEF IInv
<1>2. ASSUME NEW p \in Paths PROVE Line(p) \in Seq(Sendable) /\ DOMAIN Line(p) \subseteq Nat
  <2>1. Line(p) \in Seq(Sendable)
    BY <1>1, LineIs
  <2>2. DOMAIN Line(p) = 1..Len(Line(p))
    BY <2>1, LenProperties
  <2> QED BY <2>1, <2>2
<1>3. sent \in Nat
  BY <1>1, AtaAssumption DEF TypeOK
<1> QED BY <1>1, <1>2, <1>3 DEF TypeOK, Line

LEMMA SendKeeps ==
  ASSUME IInv, NEW r \in Requests, Send(r)
  PROVE  IInv'
<1>1. /\ sent < MaxTag /\ r.tag = sent + 1 /\ Covers(r) \subseteq Sectors
      /\ \A q \in pending : Covers(q) \cap Covers(r) = {}
      /\ sent' = r.tag /\ pending' = pending \cup {r} /\ wire' = Append(wire, r)
      /\ known' = [s \in Sectors |->
           known[s] \cup IF r.op = "write" /\ s \in Covers(r) THEN {r.tag} ELSE {}]
      /\ UNCHANGED <<queue, file, replies, cut>>
  BY DEF Send
<1>2. r \in Sendable
  BY <1>1 DEF Sendable
<1>3. r.tag \in 1..MaxTag /\ r.tag \in Nat
  BY <1>2, SendableIs DEF Tags
<1>4. \A s \in Sectors : /\ known[s] \subseteq known'[s]
                         /\ Writes(r, s) => r.tag \in known'[s]
  BY <1>1 DEF Writes
<1>5. TypeOK'
  <2>1. known' \in [Sectors -> SUBSET Values]
    BY <1>1, <1>3, Typed DEF TypeOK, Values
  <2>2. wire' \in Seq(Sendable)
    BY <1>1, <1>2, Typed, AppendProperties
  <2>3. sent' \in 0..MaxTag /\ pending' \subseteq Sendable
    BY <1>1, <1>2, <1>3, Typed
  <2> QED BY <1>1, <2>1, <2>2, <2>3, Typed DEF TypeOK
<1>6. \A q \in pending : q.tag \in Nat /\ q.tag <= sent /\ q.tag # r.tag /\ ~Meet(q, r) /\ ~Meet(r, q)
  <2> TAKE q \in pending
  <2>1. q.tag \in Nat /\ q.tag <= sent
    BY Typed, SendableIs DEF Waits
  <2>2. Covers(q) \cap Covers(r) = {}
    BY <1>1
  <2> QED BY <1>1, <2>1, <2>2, Typed DEF Meet
<1>7. \A q, x : Meet(q, x)' = Meet(q, x)
  BY DEF Meet, Covers
<1>8. \A q, s : Writes(q, s)' = Writes(q, s) /\ Covers(q)' = Covers(q)
  BY DEF Writes, Covers
<1>9. Waits'
  <2>1. \A q \in pending' : q.tag <= sent'
    BY <1>1, <1>3, <1>6, Typed
  <2>2. \A q, x \in pending' : q # x => q.tag # x.tag /\ ~Meet(q, x)
    BY <1>1, <1>6, Typed DEF Waits
  <2>3. \A a \in replies' : \E q \in pending' : a.tag = q.tag
    BY <1>1, Typed DEF Waits
  <2>4. \A q \in pending', s \in Sectors : Writes(q, s) => q.tag \in known'[s]
    BY <1>1, <1>4, Typed DEF Waits
  <2> QED BY <1>7, <1>8, <2>1, <2>2, <2>3, <2>4 DEF Waits
<1>10. ASSUME NEW p \in Paths
       PROVE  \E M : /\ M = queue'[p] \o wire' /\ Ordered(M)'
                     /\ Cardinality(Paths) = 1 => Stored(M)' /\ Answered(M)'
  <2>1. PICK L : L = Line(p)
    OBVIOUS
  <2>2. PICK M : M = Append(L, r)
    OBVIOUS
  <2>3. L \in Seq(Sendable) /\ Ordered(L) /\ L = queue[p] \o wire
    BY <2>1, Typed
  <2>4. M = queue'[p] \o wire'
    <3>1. queue[p] \in Seq(Sendable) /\ wire \in Seq(Sendable)
      BY Typed
    <3>2. queue[p] \o Append(wire, r) = Append(queue[p] \o wire, r)
      BY <1>2, <3>1, SendLines, Zenon
    <3> QED BY <1>1, <1>2, <2>2, <2>3, <3>2
  <2>5. Ordered(M)'
    <3>1. Ordered(Append(L, r))'
      <4>1. sent' \in Nat
        BY <1>1, <1>3
      <4> QED BY <1>1, <1>2, <1>6, <2>3, <4>1, Typed, OrderedGrows
    <3> QED BY <2>2, <3>1 DEF Ordered
  <2>6. \A i \in DOMAIN M : M[i] = r \/ \E j \in DOMAIN L : M[i] = L[j]
    BY <1>2, <2>2, <2>3, AppendProperties, LenProperties
  <2>7. ASSUME Cardinality(Paths) = 1 PROVE Stored(M)' /\ Answered(M)'
    <3>1. Stored(L) /\ Answered(L)
      BY <2>1, <2>7 DEF IInv
    <3>2. Stored(M)'
      <4> SUFFICES ASSUME NEW s \in Sectors \ cut
                   PROVE  /\ IF s < Len(file) THEN file[s + 1] \in known'[s]
                             ELSE {0, Junk} \subseteq known'[s]
                          /\ \A i \in DOMAIN M : Writes(M[i], s) => M[i].tag \in known'[s]
        BY <1>1, <1>8 DEF Stored
      <4>1. /\ IF s < Len(file) THEN file[s + 1] \in known[s] ELSE {0, Junk} \subseteq known[s]
            /\ \A i \in DOMAIN L : Writes(L[i], s) => L[i].tag \in known[s]
        BY <3>1 DEF Stored
      <4> QED BY <1>4, <2>6, <4>1
    <3>3. Answered(M)'
      <4> SUFFICES ASSUME NEW a \in replies, NEW q \in pending', a.tag = q.tag, a.ok,
                          NEW s \in Covers(q) \ cut
                   PROVE  /\ q.op = "write" =>
                               /\ s < Len(file) /\ file[s + 1] = q.tag
                               /\ \A i \in DOMAIN M : Writes(M[i], s) => M[i].tag = q.tag
                          /\ q.op = "read" => a.data[s - q.lba + 1] \in known'[s]
        <5>1. replies' = replies /\ cut' = cut /\ file' = file
          BY <1>1
        <5>2. /\ \A q : Covers(q)' = Covers(q)
              /\ \A q, s : Writes(q, s)' = Writes(q, s)
          BY DEF Writes, Covers
        <5> QED BY <5>1, <5>2 DEF Answered
      <4>1. q \in pending
        BY <1>1, <1>6, Typed DEF Waits
      <4>2. /\ q.op = "write" =>
                 /\ s < Len(file) /\ file[s + 1] = q.tag
                 /\ \A i \in DOMAIN L : Writes(L[i], s) => L[i].tag = q.tag
            /\ q.op = "read" => a.data[s - q.lba + 1] \in known[s]
        BY <3>1, <4>1 DEF Answered
      <4>3. ~Writes(r, s)
        BY <1>1, <4>1 DEF Writes
      <4>4. s \in Sectors
        BY <4>1, Typed, SendableIs
      <4> QED BY <1>4, <2>6, <4>2, <4>3, <4>4
    <3> QED BY <3>2, <3>3
  <2> QED BY <2>4, <2>5, <2>7
<1> QED BY <1>5, <1>9, <1>10, Collect

LEMMA ResendKeeps ==
  ASSUME IInv, NEW t, Resend(t)
  PROVE  IInv'
<1>1. PICK r \in pending : r.tag = t /\ wire' = Append(wire, r)
  BY DEF Resend
<1>2. UNCHANGED <<sent, pending, known, queue, file, replies, cut>>
  BY DEF Resend
<1>3. r \in Sendable
  BY Typed
<1>4. TypeOK'
  <2>1. wire' \in Seq(Sendable)
    BY <1>1, <1>3, Typed, AppendProperties
  <2> QED BY <1>2, <2>1, Typed DEF TypeOK
<1>5. \A q, x : Meet(q, x)' = Meet(q, x)
  BY DEF Meet, Covers
<1>6. \A q, s : Writes(q, s)' = Writes(q, s) /\ Covers(q)' = Covers(q)
  BY DEF Writes, Covers
<1>7. Waits'
  BY <1>2, <1>5, <1>6, Typed DEF Waits
<1>8. ASSUME NEW p \in Paths
      PROVE  \E M : /\ M = queue'[p] \o wire' /\ Ordered(M)'
                    /\ Cardinality(Paths) = 1 => Stored(M)' /\ Answered(M)'
  <2>1. PICK L : L = Line(p)
    OBVIOUS
  <2>2. PICK M : M = Append(L, r)
    OBVIOUS
  <2>3. L \in Seq(Sendable) /\ Ordered(L) /\ L = queue[p] \o wire
    BY <2>1, Typed
  <2>4. M = queue'[p] \o wire'
    <3>1. queue[p] \in Seq(Sendable) /\ wire \in Seq(Sendable)
      BY Typed
    <3>2. queue[p] \o Append(wire, r) = Append(queue[p] \o wire, r)
      BY <1>3, <3>1, SendLines, Zenon
    <3> QED BY <1>1, <1>2, <2>2, <2>3, <3>2
  <2>5. Ordered(M)'
    <3>1. Ordered(Append(L, r))'
      <4>1. \A q \in pending : q.tag <= sent /\ (q # r => q.tag # r.tag /\ ~Meet(q, r))
        BY Typed DEF Waits
      <4> QED BY <1>2, <1>3, <2>3, <4>1, Typed, OrderedGrows
    <3> QED BY <2>2, <3>1 DEF Ordered
  <2>6. \A i \in DOMAIN M : M[i] = r \/ \E j \in DOMAIN L : M[i] = L[j]
    BY <1>3, <2>2, <2>3, AppendProperties, LenProperties
  <2>7. ASSUME Cardinality(Paths) = 1 PROVE Stored(M)' /\ Answered(M)'
    <3>1. Stored(L) /\ Answered(L)
      BY <2>1, <2>7 DEF IInv
    <3>2. Stored(M)'
      <4> SUFFICES ASSUME NEW s \in Sectors \ cut
                   PROVE  /\ IF s < Len(file) THEN file[s + 1] \in known[s]
                             ELSE {0, Junk} \subseteq known[s]
                          /\ \A i \in DOMAIN M : Writes(M[i], s) => M[i].tag \in known[s]
        BY <1>2, <1>6 DEF Stored
      <4>1. /\ IF s < Len(file) THEN file[s + 1] \in known[s] ELSE {0, Junk} \subseteq known[s]
            /\ \A i \in DOMAIN L : Writes(L[i], s) => L[i].tag \in known[s]
        BY <3>1 DEF Stored
      <4>2. Writes(r, s) => r.tag \in known[s]
        BY Typed DEF Waits
      <4> QED BY <2>6, <4>1, <4>2
    <3>3. Answered(M)'
      <4> SUFFICES ASSUME NEW a \in replies, NEW q \in pending, a.tag = q.tag, a.ok,
                          NEW s \in Covers(q) \ cut
                   PROVE  /\ q.op = "write" =>
                               /\ s < Len(file) /\ file[s + 1] = q.tag
                               /\ \A i \in DOMAIN M : Writes(M[i], s) => M[i].tag = q.tag
                          /\ q.op = "read" => a.data[s - q.lba + 1] \in known[s]
        BY <1>2, <1>6 DEF Answered
      <4>1. /\ q.op = "write" =>
                 /\ s < Len(file) /\ file[s + 1] = q.tag
                 /\ \A i \in DOMAIN L : Writes(L[i], s) => L[i].tag = q.tag
            /\ q.op = "read" => a.data[s - q.lba + 1] \in known[s]
        BY <3>1 DEF Answered
      <4>2. Writes(r, s) => r = q
        BY Typed DEF Waits, Writes, Meet
      <4> QED BY <2>6, <4>1, <4>2
    <3> QED BY <3>2, <3>3
  <2> QED BY <2>4, <2>5, <2>7
<1> QED BY <1>4, <1>7, <1>8, Collect

LEMMA LoseKeeps ==
  ASSUME IInv, Lose
  PROVE  IInv'
<1>1. /\ UNCHANGED <<sent, pending, known, queue, file, cut>> /\ replies' \subseteq replies
      /\ \/ wire # <<>> /\ wire' = Tail(wire)
         \/ wire' = wire
  BY DEF Lose
<1>2. TypeOK'
  <2>1. wire' \in Seq(Sendable)
    BY <1>1, Typed, HeadTailProperties
  <2> QED BY <1>1, <2>1, Typed DEF TypeOK
<1>3. Waits'
  <2>1. \A q, x : Meet(q, x)' = Meet(q, x) /\ Writes(q, x)' = Writes(q, x)
    BY DEF Meet, Covers, Writes
  <2> QED BY <1>1, <2>1, Typed DEF Waits
<1>4. ASSUME NEW p \in Paths
      PROVE  \E M : /\ M = queue'[p] \o wire' /\ Ordered(M)'
                    /\ Cardinality(Paths) = 1 => Stored(M)' /\ Answered(M)'
  <2>1. PICK L : L = Line(p)
    OBVIOUS
  <2>2. PICK M : M = queue[p] \o wire'
    OBVIOUS
  <2>3. L \in Seq(Sendable) /\ Ordered(L) /\ DOMAIN L \subseteq Nat /\ L = queue[p] \o wire
    BY <2>1, Typed
  <2>4. Thins(M, L)
    <3>1. CASE wire # <<>> /\ wire' = Tail(wire)
      BY <2>2, <2>3, <3>1, Typed, LoseLine
    <3>2. CASE wire' = wire
      BY <2>2, <2>3, <3>2, SameThins
    <3> QED BY <1>1, <3>1, <3>2
  <2>5. DOMAIN M \subseteq Nat
    <3>1. wire' \in Seq(Sendable) /\ queue[p] \in Seq(Sendable)
      BY <1>2, Typed DEF TypeOK
    <3>2. M \in Seq(Sendable)
      BY <2>2, <3>1, ConcatProperties
    <3>3. DOMAIN M = 1..Len(M)
      BY <3>2, LenProperties
    <3> QED BY <3>3
  <2>6. Ordered(M)'
    BY <1>1, <2>3, <2>4, <2>5, OrderedThins
  <2>7. Cardinality(Paths) = 1 => Stored(M)' /\ Answered(M)'
    <3>1. Cardinality(Paths) = 1 => Stored(L) /\ Answered(L)
      BY <2>1 DEF IInv
    <3> QED BY <1>1, <2>4, <3>1, ThinsKeeps
  <2> QED BY <1>1, <2>2, <2>6, <2>7
<1> QED BY <1>2, <1>3, <1>4, Collect

LEMMA ReceiveKeeps ==
  ASSUME IInv, NEW t, Receive(t)
  PROVE  IInv'
<1>1. PICK a \in replies, r \in pending :
        /\ a.tag = t /\ r.tag = t
        /\ replies' = {b \in replies : b.tag # t} /\ pending' = pending \ {r}
        /\ known' = [s \in Sectors |->
             IF a.ok /\ r.op = "write" /\ s \in Covers(r) THEN {t} ELSE known[s]]
  BY DEF Receive
<1>2. UNCHANGED <<sent, wire, queue, file, cut>>
  BY DEF Receive
<1>3. r \in Sendable /\ t \in Tags
  BY <1>1, Typed, SendableIs
<1>4. TypeOK'
  <2>1. t \in Values
    BY <1>3 DEF Tags, Values
  <2>2. known' \in [Sectors -> SUBSET Values]
    BY <1>1, <2>1, Typed DEF TypeOK
  <2> QED BY <1>1, <1>2, <2>2, Typed DEF TypeOK
<1>5. \A q \in pending' : q \in pending /\ q # r /\ q.tag # t /\ \A s \in Covers(q) : s \notin Covers(r)
  <2> SUFFICES ASSUME NEW q \in pending'
               PROVE  q \in pending /\ q # r /\ q.tag # t /\ \A s \in Covers(q) : s \notin Covers(r)
    OBVIOUS
  <2>1. q \in pending /\ q # r
    BY <1>1
  <2>2. q.tag # r.tag /\ ~Meet(q, r)
    BY <2>1, Typed DEF Waits
  <2> QED BY <1>1, <2>1, <2>2 DEF Meet
<1>6. /\ \A q : Covers(q)' = Covers(q)
      /\ \A q, s : Writes(q, s)' = Writes(q, s) /\ Meet(q, s)' = Meet(q, s)
  BY DEF Writes, Covers, Meet
<1>7. \A q \in pending', s \in Sectors : s \in Covers(q) => known'[s] = known[s]
  BY <1>1, <1>5
<1>8. Waits'
  <2>1. \A q \in pending' : q.tag <= sent'
    BY <1>2, <1>5, Typed DEF Waits
  <2>2. \A q, x \in pending' : q # x => q.tag # x.tag /\ ~Meet(q, x)
    BY <1>5, Typed DEF Waits
  <2>3. \A b \in replies' : \E q \in pending' : b.tag = q.tag
    <3> SUFFICES ASSUME NEW b \in replies' PROVE \E q \in pending' : b.tag = q.tag
      OBVIOUS
    <3>1. b \in replies /\ b.tag # t
      BY <1>1
    <3>2. PICK q \in pending : b.tag = q.tag
      BY <3>1, Typed DEF Waits
    <3>3. q # r
      BY <1>1, <3>1, <3>2
    <3> QED BY <1>1, <3>2, <3>3
  <2>4. \A q \in pending', s \in Sectors : Writes(q, s) => q.tag \in known'[s]
    BY <1>5, <1>7, Typed DEF Waits, Writes
  <2> QED BY <1>6, <2>1, <2>2, <2>3, <2>4 DEF Waits
<1>9. ASSUME NEW p \in Paths
      PROVE  \E M : /\ M = queue'[p] \o wire' /\ Ordered(M)'
                    /\ Cardinality(Paths) = 1 => Stored(M)' /\ Answered(M)'
  <2>1. PICK L : L = Line(p)
    OBVIOUS
  <2>2. L \in Seq(Sendable) /\ Ordered(L) /\ DOMAIN L \subseteq Nat /\ L = queue'[p] \o wire'
    BY <1>2, <2>1, Typed
  <2>3. Ordered(L)'
    BY <1>1, <1>2, <2>2, SameThins, OrderedThins
  <2>4. ASSUME Cardinality(Paths) = 1 PROVE Stored(L)' /\ Answered(L)'
    <3>1. Stored(L) /\ Answered(L)
      BY <2>1, <2>4 DEF IInv
    <3>2. Stored(L)'
      <4> SUFFICES ASSUME NEW s \in Sectors \ cut
                   PROVE  /\ IF s < Len(file) THEN file[s + 1] \in known'[s]
                             ELSE {0, Junk} \subseteq known'[s]
                          /\ \A i \in DOMAIN L : Writes(L[i], s) => L[i].tag \in known'[s]
        BY <1>2, <1>6 DEF Stored
      <4>1. /\ IF s < Len(file) THEN file[s + 1] \in known[s] ELSE {0, Junk} \subseteq known[s]
            /\ \A i \in DOMAIN L : Writes(L[i], s) => L[i].tag \in known[s]
        BY <3>1 DEF Stored
      <4>2. CASE a.ok /\ r.op = "write" /\ s \in Covers(r)
        <5>1. known'[s] = {t}
          BY <1>1, <4>2
        <5>2. s < Len(file) /\ file[s + 1] = t /\ \A i \in DOMAIN L : Writes(L[i], s) => L[i].tag = t
          BY <1>1, <3>1, <4>2 DEF Answered
        <5> QED BY <5>1, <5>2
      <4>3. CASE ~(a.ok /\ r.op = "write" /\ s \in Covers(r))
        <5>1. known'[s] = known[s]
          BY <1>1, <4>3
        <5> QED BY <4>1, <5>1
      <4> QED BY <4>2, <4>3
    <3>3. Answered(L)'
      <4> SUFFICES ASSUME NEW b \in replies', NEW q \in pending', b.tag = q.tag, b.ok,
                          NEW s \in Covers(q) \ cut
                   PROVE  /\ q.op = "write" =>
                               /\ s < Len(file) /\ file[s + 1] = q.tag
                               /\ \A i \in DOMAIN L : Writes(L[i], s) => L[i].tag = q.tag
                          /\ q.op = "read" => b.data[s - q.lba + 1] \in known'[s]
        BY <1>2, <1>6 DEF Answered
      <4>1. b \in replies /\ q \in pending
        BY <1>1, <1>5
      <4>2. /\ q.op = "write" =>
                 /\ s < Len(file) /\ file[s + 1] = q.tag
                 /\ \A i \in DOMAIN L : Writes(L[i], s) => L[i].tag = q.tag
            /\ q.op = "read" => b.data[s - q.lba + 1] \in known[s]
        BY <3>1, <4>1 DEF Answered
      <4>3. known'[s] = known[s]
        <5>1. s \in Sectors
          BY <4>1, Typed, SendableIs
        <5> QED BY <1>7, <5>1
      <4> QED BY <4>2, <4>3
    <3> QED BY <3>2, <3>3
  <2> QED BY <2>2, <2>3, <2>4
<1> QED BY <1>4, <1>8, <1>9, Collect

-----------------------------------------------------------------------------
(* The daemon.                                                               *)

LEMMA ListenLines ==
  \A q, w \in Seq(Sendable) : w # <<>> => Append(q, Head(w)) \o Tail(w) = q \o w
<1> TAKE q, w \in Seq(Sendable)
<1> QED BY ListenLine

LEMMA ListenKeeps ==
  ASSUME IInv, NEW t, Listen(t)
  PROVE  IInv'
<1>1. /\ wire # <<>> /\ wire' = Tail(wire)
      /\ queue' = [p \in Paths |-> Append(queue[p], Head(wire))]
      /\ UNCHANGED <<sent, pending, known, file, replies, cut>>
  BY DEF Listen
<1>2. TypeOK'
  <2>1. Head(wire) \in Sendable /\ wire' \in Seq(Sendable)
    BY <1>1, Typed, HeadTailProperties
  <2>2. \A p \in Paths : Append(queue[p], Head(wire)) \in Seq(Sendable)
    BY <2>1, Typed, AppendProperties
  <2>3. queue' \in [Paths -> Seq(Sendable)]
    BY <1>1, <2>2
  <2> QED BY <1>1, <2>1, <2>3, Typed DEF TypeOK
<1>3. Waits'
  <2>1. \A q, x : Meet(q, x)' = Meet(q, x) /\ Writes(q, x)' = Writes(q, x)
    BY DEF Meet, Covers, Writes
  <2> QED BY <1>1, <2>1, Typed DEF Waits
<1>4. ASSUME NEW p \in Paths
      PROVE  \E M : /\ M = queue'[p] \o wire' /\ Ordered(M)'
                    /\ Cardinality(Paths) = 1 => Stored(M)' /\ Answered(M)'
  <2>1. PICK L : L = Line(p)
    OBVIOUS
  <2>2. Ordered(L) /\ DOMAIN L \subseteq Nat /\ L = queue[p] \o wire
    BY <2>1, Typed
  <2>3. L = queue'[p] \o wire'
    <3>1. queue[p] \in Seq(Sendable) /\ wire \in Seq(Sendable)
      BY Typed
    <3>2. Append(queue[p], Head(wire)) \o Tail(wire) = queue[p] \o wire
      BY <1>1, <3>1, ListenLines, Zenon
    <3>3. queue'[p] = Append(queue[p], Head(wire))
      BY <1>1
    <3> QED BY <1>1, <2>2, <3>2, <3>3
  <2>4. Ordered(L)'
    BY <1>1, <2>2, SameThins, OrderedThins
  <2>5. Cardinality(Paths) = 1 => Stored(L)' /\ Answered(L)'
    <3>1. Cardinality(Paths) = 1 => Stored(L) /\ Answered(L)
      BY <2>1 DEF IInv
    <3> QED BY <1>1, <3>1, SameThins, ThinsKeeps
  <2> QED BY <2>3, <2>4, <2>5
<1> QED BY <1>2, <1>3, <1>4, Collect

\* The file after n of the sectors of r were written.
LEMMA WrittenIs ==
  ASSUME TypeOK, NEW r \in Sendable, NEW n \in 1..r.nsect, NEW whole \in BOOLEAN
  PROVE  LET F == Written(r, n, whole) IN
         /\ F \in Seq(Values) /\ Len(F) >= Len(file) /\ Len(F) >= r.lba + n /\ Len(F) \in Nat
         /\ \A s \in Nat : s < Len(F) =>
              F[s + 1] = IF s \in Covers(r) /\ s < r.lba + n
                           THEN (IF whole \/ s + 1 < r.lba + n THEN r.tag ELSE Junk)
                         ELSE IF s < Len(file) THEN file[s + 1] ELSE 0
<1>1. file \in Seq(Values) /\ Len(file) \in Nat /\ \A k \in 1..Len(file) : file[k] \in Values
  BY LenProperties, ElementOfSeq DEF TypeOK
<1>2. r.lba \in Nat /\ n \in Nat /\ r.tag \in 0..MaxTag
  BY SendableIs DEF Tags
<1>3. PICK m : m = Max({Len(file), r.lba + n})
  OBVIOUS
<1>4. m \in Nat /\ m >= Len(file) /\ m >= r.lba + n
  <2>1. PICK x \in {Len(file), r.lba + n} : \A y \in {Len(file), r.lba + n} : x >= y
    <3>1. Len(file) >= r.lba + n \/ r.lba + n >= Len(file)
      BY <1>1, <1>2
    <3>2. Len(file) >= Len(file) /\ r.lba + n >= r.lba + n
      BY <1>1, <1>2
    <3> QED BY <3>1, <3>2
  <2>2. m \in {Len(file), r.lba + n} /\ \A y \in {Len(file), r.lba + n} : m >= y
    BY <1>3, <2>1 DEF Max
  <2> QED BY <1>1, <1>2, <2>2
<1> DEFINE V(k) == IF k - 1 \in Covers(r) /\ k <= r.lba + n
                     THEN (IF whole \/ k < r.lba + n THEN r.tag ELSE Junk)
                   ELSE IF k <= Len(file) THEN file[k] ELSE 0
<1>5. Written(r, n, whole) = [k \in 1..m |-> V(k)]
  BY <1>3 DEF Written
<1>6. \A k \in 1..m : V(k) \in Values
  <2> TAKE k \in 1..m
  <2>1. k <= Len(file) => file[k] \in Values
    BY <1>1
  <2>2. r.tag \in Values /\ Junk \in Values /\ 0 \in Values
    BY <1>2, AtaAssumption DEF Values
  <2> QED BY <2>1, <2>2
<1> HIDE DEF V
<1>7. PICK F : F = Written(r, n, whole)
  OBVIOUS
<1>8. F \in Seq(Values) /\ Len(F) = m /\ \A k \in 1..m : F[k] = V(k)
  <2>1. F \in [1..m -> Values]
    BY <1>5, <1>6, <1>7
  <2>2. F \in Seq(Values)
    BY <1>4, <2>1, SeqDef
  <2>3. Len(F) = m
    BY <1>4, <2>1, <2>2, LenProperties
  <2> QED BY <1>5, <1>7, <2>2, <2>3
<1>9. ASSUME NEW s \in Nat, s < m
      PROVE  F[s + 1] = IF s \in Covers(r) /\ s < r.lba + n
                          THEN (IF whole \/ s + 1 < r.lba + n THEN r.tag ELSE Junk)
                        ELSE IF s < Len(file) THEN file[s + 1] ELSE 0
  <2>1. s + 1 \in 1..m /\ (s + 1) - 1 = s
    BY <1>4, <1>9
  <2>2. F[s + 1] = V(s + 1)
    BY <1>8, <2>1
  <2>3. s + 1 <= r.lba + n <=> s < r.lba + n
    BY <1>2
  <2>4. s + 1 <= Len(file) <=> s < Len(file)
    BY <1>1
  <2> QED BY <2>1, <2>2, <2>3, <2>4 DEF V
<1> QED BY <1>4, <1>7, <1>8, <1>9

\* M is L without its first request, r.
Takes(L, M, r) ==
  /\ L \in Seq(Sendable) /\ M \in Seq(Sendable) /\ Len(L) \in Nat \ {0} /\ L[1] = r
  /\ Len(M) = Len(L) - 1 /\ \A i \in 1..Len(M) : M[i] = L[i + 1]

LEMMA TakesIs ==
  ASSUME NEW L, NEW M, NEW r, Takes(L, M, r)
  PROVE  /\ Thins(M, L) /\ DOMAIN L \subseteq Nat /\ DOMAIN M \subseteq Nat
         /\ r \in Sendable /\ 1 \in DOMAIN L /\ L[1] = r
         /\ \A i \in DOMAIN M : i + 1 \in DOMAIN L /\ 1 < i + 1 /\ M[i] = L[i + 1]
<1>1. /\ L \in Seq(Sendable) /\ M \in Seq(Sendable) /\ Len(L) \in Nat \ {0} /\ L[1] = r
      /\ Len(M) = Len(L) - 1 /\ \A i \in 1..Len(M) : M[i] = L[i + 1]
  BY DEF Takes
<1>2. DOMAIN L = 1..Len(L) /\ DOMAIN M = 1..Len(M)
  BY <1>1, LenProperties
<1>3. 1 \in 1..Len(L)
  BY <1>1
<1>4. \A i \in 1..Len(M) : ~(i < 1)
  BY <1>1
<1>5. Thins(M, L)
  <2>1. \A i \in 1..Len(M) : M[i] = IF i < 1 THEN L[i] ELSE L[i + 1]
    BY <1>1, <1>4
  <2> QED BY <1>1, <1>3, <2>1, DropThins
<1>6. r \in Sendable
  BY <1>1, <1>3, ElementOfSeq
<1>7. \A i \in 1..Len(M) : i + 1 \in 1..Len(L) /\ 1 < i + 1
  BY <1>1
<1>8. DOMAIN L \subseteq Nat /\ DOMAIN M \subseteq Nat
  BY <1>2
<1> QED BY <1>1, <1>2, <1>3, <1>5, <1>6, <1>7, <1>8

\* What an answer is after Reply: an old one, or the new one to r.
LEMMA ReplyIs ==
  ASSUME Waits, NEW r, NEW good, NEW data, Reply(r, good, data)
  PROVE  /\ \A a \in replies', q \in pending : a.tag = q.tag =>
              a \in replies \/ (q = r /\ a.ok = good /\ a.data = data)
         /\ \A a \in replies' : \E q \in pending : a.tag = q.tag
         /\ replies' \subseteq replies \cup {[tag |-> r.tag, ok |-> good, data |-> data]}
<1>1. PICK b : b = [tag |-> r.tag, ok |-> good, data |-> data]
  OBVIOUS
<1>2. b.tag = r.tag /\ b.ok = good /\ b.data = data
  BY <1>1
<1>3. replies' = IF r \in pending THEN replies \cup {b} ELSE replies
  BY <1>1 DEF Reply
<1>4. \A a \in replies', q \in pending : a.tag = q.tag =>
        a \in replies \/ (q = r /\ a.ok = good /\ a.data = data)
  BY <1>2, <1>3 DEF Waits
<1>5. \A a \in replies' : \E q \in pending : a.tag = q.tag
  BY <1>2, <1>3 DEF Waits
<1> QED BY <1>1, <1>3, <1>4, <1>5

\* A request that leaves the file alone: a read, a write that fails, a refusal.
LEMMA UnwrittenLine ==
  ASSUME TypeOK, Waits, NEW L, NEW M, NEW r, Takes(L, M, r), Stored(L), Answered(L),
         UNCHANGED <<sent, pending, known, file, cut>>, NEW good, NEW data, Reply(r, good, data),
         good => r.op = "read" /\ data = Data(r)
  PROVE  Stored(M)' /\ Answered(M)'
<1>1. /\ \A i \in DOMAIN M : \E j \in DOMAIN L : M[i] = L[j]
      /\ r \in Sendable
  BY TakesIs
<1>2. /\ \A q : Covers(q)' = Covers(q)
      /\ \A q, s : Writes(q, s)' = Writes(q, s)
  BY DEF Writes, Covers
<1>3. Stored(M)'
  <2>1. Stored(M)
    BY <1>1 DEF Stored
  <2> QED BY <1>2, <2>1 DEF Stored
<1>4. ASSUME NEW a \in replies', NEW q \in pending, a.tag = q.tag, a.ok, NEW s \in Covers(q) \ cut
      PROVE  /\ q.op = "write" =>
                  /\ s < Len(file) /\ file[s + 1] = q.tag
                  /\ \A i \in DOMAIN M : Writes(M[i], s) => M[i].tag = q.tag
             /\ q.op = "read" => a.data[s - q.lba + 1] \in known[s]
  <2>1. CASE a \in replies
    <3>1. /\ q.op = "write" =>
               /\ s < Len(file) /\ file[s + 1] = q.tag
               /\ \A i \in DOMAIN L : Writes(L[i], s) => L[i].tag = q.tag
          /\ q.op = "read" => a.data[s - q.lba + 1] \in known[s]
      BY <1>4, <2>1 DEF Answered
    <3> QED BY <1>1, <3>1
  <2>2. CASE q = r /\ a.ok = good /\ a.data = data
    <3>1. r.op = "read" /\ a.data = Data(r) /\ q.op # "write"
      BY <1>4, <2>2
    <3>2. PICK k : k = s - r.lba + 1
      OBVIOUS
    <3>3. /\ s \in Sectors /\ s \in Nat /\ k \in 1..r.nsect /\ r.lba + k = s + 1
          /\ Len(file) \in Nat /\ DOMAIN file = 1..Len(file)
      <4>1. /\ r.lba \in Nat /\ r.nsect \in 1..2 /\ Covers(r) \subseteq Sectors
            /\ s \in r.lba..(r.lba + r.nsect - 1)
        BY <1>1, <1>4, <2>2, SendableIs
      <4>2. Len(file) \in Nat /\ DOMAIN file = 1..Len(file)
        BY LenProperties DEF TypeOK
      <4>3. PICK lba \in Nat, nsect \in 1..2 : lba = r.lba /\ nsect = r.nsect
        BY <4>1
      <4>4. s \in lba..(lba + nsect - 1) /\ k = s - lba + 1
        BY <3>2, <4>1, <4>3
      <4>5. s \in Nat /\ k \in 1..nsect /\ lba + k = s + 1
        BY <4>4
      <4>6. s \in Sectors
        BY <1>4, <2>2, <4>1
      <4> QED BY <4>2, <4>3, <4>5, <4>6
    <3>4. a.data[k] = IF s + 1 \in 1..Len(file) THEN file[s + 1] ELSE Junk
      BY <3>1, <3>3 DEF Data
    <3>5. IF s < Len(file) THEN file[s + 1] \in known[s] ELSE {0, Junk} \subseteq known[s]
      BY <1>4, <3>3 DEF Stored
    <3>6. s < Len(file) <=> s + 1 \in 1..Len(file)
      BY <3>3
    <3>7. a.data[k] \in known[s]
      BY <3>4, <3>5, <3>6
    <3> QED BY <2>2, <3>1, <3>2, <3>7
  <2>3. a \in replies \/ (q = r /\ a.ok = good /\ a.data = data)
    BY <1>4, ReplyIs
  <2> QED BY <2>1, <2>2, <2>3
<1>5. Answered(M)'
  <2>1. pending' = pending /\ file' = file /\ cut' = cut /\ known' = known
    OBVIOUS
  <2> QED BY <1>2, <1>4, <2>1 DEF Answered
<1> QED BY <1>3, <1>5

\* A write that stores some of its sectors and is answered as if it were all.
LEMMA WrittenLine ==
  ASSUME TypeOK, Waits, NEW L, NEW M, NEW r, Takes(L, M, r), Ordered(L), Stored(L), Answered(L),
         UNCHANGED <<sent, pending, known>>, r.op = "write",
         NEW n \in 1..r.nsect, NEW whole \in BOOLEAN,
         file' = Written(r, n, whole), cut' = cut \cup Missed(r, n, whole),
         Reply(r, TRUE, <<>>)
  PROVE  Stored(M)' /\ Answered(M)'
<1>1. /\ r \in Sendable /\ 1 \in DOMAIN L /\ L[1] = r
      /\ \A i \in DOMAIN M : i + 1 \in DOMAIN L /\ 1 < i + 1 /\ M[i] = L[i + 1]
  BY TakesIs
<1>2. /\ \A q : Covers(q)' = Covers(q)
      /\ \A q, s : Writes(q, s)' = Writes(q, s)
  BY DEF Writes, Covers
<1>3. PICK F : F = Written(r, n, whole)
  OBVIOUS
<1>4. /\ file' = F /\ Len(F) >= Len(file) /\ Len(F) >= r.lba + n /\ Len(F) \in Nat
      /\ \A s \in Nat : s < Len(F) =>
           F[s + 1] = IF s \in Covers(r) /\ s < r.lba + n
                        THEN (IF whole \/ s + 1 < r.lba + n THEN r.tag ELSE Junk)
                      ELSE IF s < Len(file) THEN file[s + 1] ELSE 0
  BY <1>1, <1>3, WrittenIs
<1>5. Len(file) \in Nat /\ r.lba \in Nat /\ n \in Nat /\ r.nsect \in 1..2
  BY <1>1, SendableIs, LenProperties DEF TypeOK
<1>6. \A s \in Sectors : s \in Nat
  BY AtaAssumption DEF Sectors
\* A sector of r that is not cut is stored.
<1>7. ASSUME NEW s \in Covers(r) \ cut' PROVE s \in Nat /\ s < Len(F) /\ F[s + 1] = r.tag
  <2>1. s \in r.lba..(r.lba + r.nsect - 1)
    BY <1>1, SendableIs
  <2>2. s \notin Missed(r, n, whole)
    BY <1>7
  <2>3. s \in Nat /\ s < r.lba + n /\ (whole \/ s + 1 < r.lba + n)
    BY <1>5, <2>1, <2>2 DEF Missed
  <2>4. s < Len(F)
    BY <1>4, <1>5, <2>3
  <2> QED BY <1>4, <1>7, <2>3, <2>4
<1>8. Stored(M)'
  <2> SUFFICES ASSUME NEW s \in Sectors \ cut'
               PROVE  /\ IF s < Len(F) THEN F[s + 1] \in known[s] ELSE {0, Junk} \subseteq known[s]
                      /\ \A i \in DOMAIN M : Writes(M[i], s) => M[i].tag \in known[s]
    BY <1>2, <1>4 DEF Stored
  <2>1. /\ IF s < Len(file) THEN file[s + 1] \in known[s] ELSE {0, Junk} \subseteq known[s]
        /\ \A i \in DOMAIN L : Writes(L[i], s) => L[i].tag \in known[s]
    BY DEF Stored
  <2>2. \A i \in DOMAIN M : Writes(M[i], s) => M[i].tag \in known[s]
    BY <1>1, <2>1
  <2>3. CASE s \in Covers(r)
    <3>1. r.tag \in known[s]
      BY <1>1, <2>1, <2>3 DEF Writes
    <3> QED BY <1>7, <2>2, <2>3, <3>1
  <2>4. CASE s \notin Covers(r)
    <3>1. s \in Nat
      BY <1>6
    <3>2. CASE s < Len(F)
      <4>1. F[s + 1] = IF s < Len(file) THEN file[s + 1] ELSE 0
        BY <1>4, <2>4, <3>1, <3>2
      <4> QED BY <2>1, <2>2, <3>2, <4>1
    <3>3. CASE ~(s < Len(F))
      <4>1. ~(s < Len(file))
        BY <1>4, <1>5, <3>1, <3>3
      <4> QED BY <2>1, <2>2, <3>3, <4>1
    <3> QED BY <3>2, <3>3
  <2> QED BY <2>3, <2>4
<1>9. ASSUME NEW a \in replies', NEW q \in pending, a.tag = q.tag, a.ok, NEW s \in Covers(q) \ cut'
      PROVE  /\ q.op = "write" =>
                  /\ s < Len(F) /\ F[s + 1] = q.tag
                  /\ \A i \in DOMAIN M : Writes(M[i], s) => M[i].tag = q.tag
             /\ q.op = "read" => a.data[s - q.lba + 1] \in known[s]
  <2>1. CASE a \in replies
    <3>1. /\ q.op = "write" =>
               /\ s < Len(file) /\ file[s + 1] = q.tag
               /\ \A i \in DOMAIN L : Writes(L[i], s) => L[i].tag = q.tag
          /\ q.op = "read" => a.data[s - q.lba + 1] \in known[s]
      BY <1>9, <2>1 DEF Answered
    <3>2. CASE q.op = "write"
      <4>1. s \in Nat
        <5>1. q \in Sendable
          BY DEF TypeOK
        <5> QED BY <1>6, <1>9, <5>1, SendableIs
      <4>2. s < Len(F)
        BY <1>4, <1>5, <3>1, <3>2, <4>1
      <4>3. s \in Covers(r) => r.tag = q.tag
        <5>1. s \in Covers(r) => Writes(L[1], s)
          BY <1>1 DEF Writes
        <5> QED BY <1>1, <3>1, <3>2, <5>1
      <4>4. F[s + 1] = q.tag
        <5>1. CASE s \in Covers(r)
          BY <1>7, <1>9, <4>3, <5>1
        <5>2. CASE s \notin Covers(r)
          BY <1>4, <3>1, <3>2, <4>1, <4>2, <5>2
        <5> QED BY <5>1, <5>2
      <4> QED BY <1>1, <3>1, <3>2, <4>2, <4>4
    <3>3. CASE q.op # "write"
      BY <3>1, <3>3
    <3> QED BY <3>2, <3>3
  <2>2. CASE q = r
    <3>1. s < Len(F) /\ F[s + 1] = r.tag
      BY <1>7, <1>9, <2>2
    <3>2. ASSUME NEW i \in DOMAIN M, Writes(M[i], s) PROVE M[i].tag = r.tag
      <4>1. Meet(L[i + 1], r) /\ L[1].tag = r.tag
        BY <1>1, <1>9, <2>2, <3>2 DEF Writes, Meet
      <4>2. L[i + 1].tag = r.tag
        BY <1>1, <2>2, <4>1 DEF Ordered
      <4> QED BY <1>1, <4>2
    <3> QED BY <2>2, <3>1, <3>2
  <2> QED BY <1>9, <2>1, <2>2, ReplyIs
<1>10. Answered(M)'
  <2>1. pending' = pending /\ file' = F /\ known' = known
    BY <1>4
  <2> QED BY <1>2, <1>9, <2>1 DEF Answered
<1> QED BY <1>8, <1>10

\* The two kinds of work: the file stays, or sectors are written.
Stays(r) ==
  /\ UNCHANGED <<file, cut>>
  /\ \E good \in BOOLEAN, data \in Seq(Values) :
       Reply(r, good, data) /\ (good => r.op = "read" /\ data = Data(r))

Stores(r) ==
  /\ r.op = "write" /\ Reply(r, TRUE, <<>>)
  /\ \E n \in 1..r.nsect, whole \in BOOLEAN :
       file' = Written(r, n, whole) /\ cut' = cut \cup Missed(r, n, whole)

LEMMA DataIs ==
  ASSUME TypeOK, NEW r \in Sendable
  PROVE  Data(r) \in Seq(Values)
<1>1. \A k \in DOMAIN file : file[k] \in Values
  BY ElementOfSeq, LenProperties DEF TypeOK
<1>2. Data(r) \in [1..r.nsect -> Values]
  BY <1>1 DEF Data, Values
<1>3. r.nsect \in Nat
  BY SendableIs
<1> QED BY <1>2, <1>3, SeqDef

LEMMA WorkIs ==
  ASSUME IInv, NEW p \in Paths, Work(p)
  PROVE  LET r == Head(queue[p]) IN
         /\ queue[p] # <<>> /\ r \in Sendable
         /\ queue' = [queue EXCEPT ![p] = Tail(@)] /\ UNCHANGED <<sent, pending, known, wire>>
         /\ Stays(r) \/ Stores(r)
<1>1. PICK r : r = Head(queue[p])
  OBVIOUS
<1>2. /\ queue[p] # <<>> /\ queue' = [queue EXCEPT ![p] = Tail(@)]
      /\ UNCHANGED <<sent, pending, known, wire>>
      /\ \/ r.op = "read" /\ Read(r)
         \/ r.op = "write" /\ Write(r)
         \/ r.op \notin {"read", "write"} /\ Refuse(r)
  BY <1>1 DEF Work
<1>3. r \in Sendable /\ TypeOK /\ cut \subseteq Nat
  BY <1>1, <1>2, Typed, HeadTailProperties
<1>4. r.lba \in Nat /\ r.nsect \in 1..2
  BY <1>3, SendableIs
<1>5. <<>> \in Seq(Values)
  OBVIOUS
<1>6. CASE r.op = "read" /\ Read(r)
  <2>1. (r.lba < Len(file)) \in BOOLEAN /\ Data(r) \in Seq(Values)
    BY <1>3, DataIs
  <2>2. /\ Reply(r, r.lba < Len(file), Data(r)) \/ Reply(r, FALSE, <<>>)
        /\ UNCHANGED <<file, cut>>
    BY <1>6 DEF Read
  <2>3. Stays(r)
    BY <1>5, <1>6, <2>1, <2>2 DEF Stays
  <2> QED BY <1>1, <1>2, <1>3, <2>3
<1>7. CASE r.op = "write" /\ Write(r)
  <2>1. Stores(r) \/ (Reply(r, FALSE, <<>>) /\ UNCHANGED <<file, cut>>)
    BY <1>7 DEF Write, Stores
  <2>2. Stores(r) \/ Stays(r)
    BY <1>5, <2>1 DEF Stays
  <2> QED BY <1>1, <1>2, <1>3, <2>2
<1>8. CASE r.op \notin {"read", "write"} /\ Refuse(r)
  <2>1. Stays(r)
    BY <1>5, <1>8 DEF Stays, Refuse
  <2> QED BY <1>1, <1>2, <1>3, <2>1
<1> QED BY <1>2, <1>6, <1>7, <1>8

LEMMA OnePath ==
  ASSUME Cardinality(Paths) = 1, NEW p \in Paths, NEW q \in Paths
  PROVE  p = q
<1>1. \E x : Paths = {x}
  BY FS_Singleton, AtaAssumption
<1> QED BY <1>1

LEMMA WorkKeeps ==
  ASSUME IInv, NEW p \in Paths, Work(p)
  PROVE  IInv'
<1>1. PICK r : r = Head(queue[p])
  OBVIOUS
<1>2. /\ queue[p] # <<>> /\ r \in Sendable
      /\ queue' = [queue EXCEPT ![p] = Tail(@)] /\ UNCHANGED <<sent, pending, known, wire>>
      /\ Stays(r) \/ Stores(r)
  BY <1>1, WorkIs
<1>3. TypeOK /\ Waits /\ r.tag \in Tags /\ r.lba \in Nat /\ r.nsect \in 1..2
  BY <1>2, Typed, SendableIs
<1>4. PICK good \in BOOLEAN, data \in Seq(Values) : Reply(r, good, data)
  <2>1. <<>> \in Seq(Values)
    OBVIOUS
  <2> QED BY <1>2, <2>1 DEF Stays, Stores
<1>5. TypeOK'
  <2>1. replies' \subseteq Answers
    <3>1. [tag |-> r.tag, ok |-> good, data |-> data] \in Answers
      BY <1>3 DEF Answers
    <3>2. replies \subseteq Answers
      BY <1>3 DEF TypeOK
    <3> QED BY <1>3, <1>4, <3>1, <3>2, ReplyIs
  <2>2. queue' \in [Paths -> Seq(Sendable)]
    <3>1. Tail(queue[p]) \in Seq(Sendable)
      BY <1>2, Typed, HeadTailProperties
    <3> QED BY <1>2, <1>3, <3>1 DEF TypeOK
  <2>3. file' \in Seq(Values) /\ Len(file') >= Size /\ cut' \subseteq Nat
    <3>1. CASE Stays(r)
      BY <1>3, <3>1 DEF Stays, TypeOK
    <3>2. ASSUME NEW n \in 1..r.nsect, NEW whole \in BOOLEAN,
                 file' = Written(r, n, whole), cut' = cut \cup Missed(r, n, whole)
          PROVE  file' \in Seq(Values) /\ Len(file') >= Size /\ cut' \subseteq Nat
      <4>1. PICK F : F = Written(r, n, whole)
        OBVIOUS
      <4>2. F \in Seq(Values) /\ Len(F) >= Len(file) /\ Len(F) \in Nat
        BY <1>2, <1>3, <4>1, WrittenIs
      <4>3. Len(file) \in Nat /\ Len(file) >= Size /\ cut \subseteq Nat /\ Size \in Nat
        BY <1>3, LenProperties, AtaAssumption DEF TypeOK
      <4>4. Missed(r, n, whole) \subseteq Nat
        BY <1>3 DEF Missed
      <4>5. file' = F /\ cut' = cut \cup Missed(r, n, whole)
        BY <3>2, <4>1
      <4>6. Len(F) >= Size
        BY <4>2, <4>3
      <4> QED BY <4>2, <4>3, <4>4, <4>5, <4>6
    <3> QED BY <1>2, <3>1, <3>2 DEF Stores
  <2> QED BY <1>2, <1>3, <2>1, <2>2, <2>3 DEF TypeOK
<1>6. Waits'
  <2>1. \A q, x : Meet(q, x)' = Meet(q, x) /\ Writes(q, x)' = Writes(q, x)
    BY DEF Meet, Covers, Writes
  <2>2. \A a \in replies' : \E q \in pending : a.tag = q.tag
    BY <1>3, <1>4, ReplyIs
  <2> QED BY <1>2, <1>3, <2>1, <2>2 DEF Waits
\* The line of p loses its first request.
<1>7. PICK L : L = Line(p)
  OBVIOUS
<1>8. PICK M : M = Tail(queue[p]) \o wire
  OBVIOUS
<1>9. Ordered(L) /\ L = queue[p] \o wire /\ queue[p] \in Seq(Sendable) /\ wire \in Seq(Sendable)
  BY <1>7, Typed
<1>10. Takes(L, M, r) /\ M = queue'[p] \o wire'
  <2>1. queue'[p] = Tail(queue[p])
    BY <1>2, <1>3 DEF TypeOK
  <2>2. Takes(L, M, r)
    <3>1. PICK q : q = queue[p]
      OBVIOUS
    <3>2. PICK w : w = wire
      OBVIOUS
    <3>3. q \in Seq(Sendable) /\ w \in Seq(Sendable) /\ q # <<>>
      BY <1>2, <1>9, <3>1, <3>2
    <3>4. /\ Tail(q) \o w \in Seq(Sendable) /\ q \o w \in Seq(Sendable)
          /\ Len(Tail(q) \o w) = Len(q \o w) - 1
          /\ Len(q \o w) \in Nat \ {0} /\ (q \o w)[1] = Head(q)
          /\ \A i \in 1..Len(Tail(q) \o w) : (Tail(q) \o w)[i] = (q \o w)[i + 1]
      BY <3>3, WorkLine
    <3>5. M = Tail(q) \o w /\ L = q \o w /\ r = Head(q)
      BY <1>1, <1>8, <1>9, <3>1, <3>2
    <3> QED BY <3>4, <3>5, Zenon DEF Takes
  <2> QED BY <1>2, <1>8, <2>1, <2>2
<1>11. Ordered(M)'
  BY <1>2, <1>9, <1>10, TakesIs, OrderedThins
<1>12. ASSUME Cardinality(Paths) = 1 PROVE Stored(M)' /\ Answered(M)'
  <2>1. Stored(L) /\ Answered(L)
    BY <1>7, <1>12 DEF IInv
  <2>2. CASE Stays(r)
    <3>1. UNCHANGED <<sent, pending, known, file, cut>>
      BY <1>2, <2>2 DEF Stays
    <3> QED BY <1>3, <1>10, <2>1, <2>2, <3>1, UnwrittenLine DEF Stays
  <2>3. CASE Stores(r)
    <3>1. UNCHANGED <<sent, pending, known>>
      BY <1>2
    <3> QED BY <1>3, <1>9, <1>10, <2>1, <2>3, <3>1, WrittenLine DEF Stores
  <2> QED BY <1>2, <2>2, <2>3
<1>13. ASSUME NEW e \in Paths
       PROVE  \E N : /\ N = queue'[e] \o wire' /\ Ordered(N)'
                     /\ Cardinality(Paths) = 1 => Stored(N)' /\ Answered(N)'
  <2>1. CASE e = p
    BY <1>10, <1>11, <1>12, <2>1
  <2>2. CASE e # p
    <3>1. PICK N : N = Line(e)
      OBVIOUS
    <3>2. Ordered(N) /\ DOMAIN N \subseteq Nat /\ N = queue[e] \o wire
      BY <3>1, Typed
    <3>3. queue'[e] = queue[e]
      BY <1>2, <1>3, <2>2 DEF TypeOK
    <3>4. Ordered(N)'
      BY <1>2, <3>2, SameThins, OrderedThins
    <3>5. Cardinality(Paths) # 1
      BY <2>2, OnePath
    <3> QED BY <1>2, <3>2, <3>3, <3>4, <3>5
  <2> QED BY <2>1, <2>2
<1> QED BY <1>5, <1>6, <1>13, Collect

-----------------------------------------------------------------------------
(* The theorems.                                                             *)

LEMMA InitHolds == Init => IInv
<1> SUFFICES ASSUME Init PROVE IInv
  OBVIOUS
<1>1. /\ sent = 0 /\ pending = {} /\ wire = <<>> /\ queue = [p \in Paths |-> <<>>]
      /\ known = [s \in Sectors |-> IF s < Size THEN {0} ELSE {0, Junk}]
      /\ file = [k \in 1..Size |-> 0] /\ replies = {} /\ cut = {}
  BY DEF Init
<1>2. Size \in Nat /\ MaxTag \in Nat /\ \A s \in Sectors : s \in Nat
  BY AtaAssumption DEF Sectors
<1>3. file \in Seq(Values) /\ Len(file) = Size /\ \A k \in 1..Size : file[k] = 0
  <2>1. file \in [1..Size -> Values]
    BY <1>1, <1>2 DEF Values
  <2>2. file \in Seq(Values)
    BY <1>2, <2>1, SeqDef
  <2>3. Len(file) = Size
    BY <1>2, <2>1, <2>2, LenProperties
  <2> QED BY <1>1, <2>2, <2>3
<1>4. TypeOK
  <2>1. <<>> \in Seq(Sendable)
    OBVIOUS
  <2>2. known \in [Sectors -> SUBSET Values]
    BY <1>1, <1>2 DEF Values
  <2>3. Len(file) >= Size
    BY <1>2, <1>3
  <2> QED BY <1>1, <1>2, <1>3, <2>1, <2>2, <2>3 DEF TypeOK
<1>5. Waits
  BY <1>1 DEF Waits
<1>6. ASSUME NEW p \in Paths PROVE Ordered(Line(p)) /\ Stored(Line(p)) /\ Answered(Line(p))
  <2>1. PICK L : L = Line(p)
    OBVIOUS
  <2>2. L = <<>>
    <3>1. queue[p] = <<>> /\ wire = <<>>
      BY <1>1
    <3>2. Line(p) = <<>> \o <<>>
      BY <3>1 DEF Line
    <3> QED BY <2>1, <3>2
  <2>3. Ordered(L) /\ Answered(L)
    BY <1>1, <2>2 DEF Ordered, Answered
  <2>4. Stored(L)
    <3> SUFFICES ASSUME NEW s \in Sectors
                 PROVE  IF s < Len(file) THEN file[s + 1] \in known[s]
                        ELSE {0, Junk} \subseteq known[s]
      BY <2>2 DEF Stored
    <3>1. CASE s < Size
      <4>1. s + 1 \in 1..Size
        BY <1>2, <3>1
      <4> QED BY <1>1, <1>3, <3>1, <4>1
    <3>2. CASE ~(s < Size)
      BY <1>1, <1>3, <3>2
    <3> QED BY <3>1, <3>2
  <2> QED BY <2>1, <2>3, <2>4
<1> QED BY <1>4, <1>5, <1>6 DEF IInv

LEMMA Step == IInv /\ [Next]_vars => IInv'
<1> SUFFICES ASSUME IInv, [Next]_vars PROVE IInv'
  OBVIOUS
<1>1. ASSUME NEW r \in Requests, Send(r) PROVE IInv'
  BY <1>1, SendKeeps
<1>2. ASSUME NEW t \in Tags, Resend(t) \/ Receive(t) \/ Listen(t) PROVE IInv'
  BY <1>2, ResendKeeps, ReceiveKeeps, ListenKeeps
<1>3. CASE Lose
  BY <1>3, LoseKeeps
<1>4. ASSUME NEW p \in Paths, Work(p) PROVE IInv'
  BY <1>4, WorkKeeps
<1>5. CASE UNCHANGED vars
  <2>1. UNCHANGED <<sent, pending, known, wire, queue, file, replies, cut>>
    BY <1>5 DEF vars
  <2>2. TypeOK'
    BY <2>1, Typed DEF TypeOK
  <2>3. Waits'
    <3>1. \A q, x : Meet(q, x)' = Meet(q, x) /\ Writes(q, x)' = Writes(q, x)
      BY DEF Meet, Covers, Writes
    <3> QED BY <2>1, <3>1, Typed DEF Waits
  <2>4. ASSUME NEW p \in Paths
        PROVE  \E L : /\ L = queue'[p] \o wire' /\ Ordered(L)'
                      /\ Cardinality(Paths) = 1 => Stored(L)' /\ Answered(L)'
    <3>1. PICK L : L = Line(p)
      OBVIOUS
    <3>2. Ordered(L) /\ DOMAIN L \subseteq Nat /\ L = queue[p] \o wire
      BY <3>1, Typed
    <3>3. Ordered(L)'
      BY <2>1, <3>2, SameThins, OrderedThins
    <3>4. Cardinality(Paths) = 1 => Stored(L)' /\ Answered(L)'
      <4>1. Cardinality(Paths) = 1 => Stored(L) /\ Answered(L)
        BY <3>1 DEF IInv
      <4> QED BY <2>1, <4>1, SameThins, ThinsKeeps
    <3> QED BY <2>1, <3>2, <3>3, <3>4
  <2> QED BY <2>2, <2>3, <2>4, Collect
<1> QED BY <1>1, <1>2, <1>3, <1>4, <1>5 DEF Next

\* Whatever the network loses and the file system fails to do, the state is as IInv
\* has it.
THEOREM Invariance == Spec => []IInv
<1> QED BY InitHolds, Step, PTL DEF Spec

\* What a client of one path is answered to a read is what was written last.
THEOREM ReadsAreRight == Spec => []ReadsRight
<1>1. IInv => ReadsRight
  <2> SUFFICES ASSUME IInv, Cardinality(Paths) = 1, NEW a \in replies, NEW r \in pending,
                      a.tag = r.tag, r.op = "read", a.ok, NEW s \in Covers(r) \ cut
               PROVE  a.data[s - r.lba + 1] \in known[s]
    BY DEF ReadsRight
  <2>1. PICK p \in Paths : TRUE
    BY AtaAssumption
  <2>2. Answered(Line(p))
    BY <2>1 DEF IInv
  <2> QED BY <2>2 DEF Answered
<1> QED BY <1>1, Invariance, PTL

\* A write that was acknowledged on one path is in the file until it is overwritten.
THEOREM WritesAreKept == Spec => []AcknowledgedIsStored
<1>1. IInv => AcknowledgedIsStored
  <2> SUFFICES ASSUME IInv, Cardinality(Paths) = 1, NEW s \in Sectors \ cut,
                      Cardinality(known[s]) = 1
               PROVE  s < Len(file) /\ file[s + 1] \in known[s]
    BY DEF AcknowledgedIsStored
  <2>1. PICK p \in Paths : TRUE
    BY AtaAssumption
  <2>2. Stored(Line(p))
    BY <2>1 DEF IInv
  <2>3. PICK S : S = known[s]
    OBVIOUS
  <2>4. IF s < Len(file) THEN file[s + 1] \in S ELSE {0, Junk} \subseteq S
    BY <2>2, <2>3 DEF Stored
  <2>5. IsFiniteSet(S)
    <3>1. S \subseteq Values
      BY <2>3, Typed DEF TypeOK
    <3>2. IsFiniteSet(Values)
      <4>1. IsFiniteSet(0..MaxTag)
        BY FS_Interval, AtaAssumption
      <4> QED BY <4>1, FS_AddElement DEF Values
    <3> QED BY <3>1, <3>2, FS_Subset
  <2>6. \E x : S = {x}
    BY <2>3, <2>5, FS_Singleton
  <2>7. 0 # Junk
    BY AtaAssumption DEF Junk
  <2> QED BY <2>3, <2>4, <2>6, <2>7
<1> QED BY <1>1, Invariance, PTL
=============================================================================
