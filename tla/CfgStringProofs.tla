--------------------------- MODULE CfgStringProofs ---------------------------
(***************************************************************************)
(* Proofs about CfgString, for any devices, clients and strings, any size  *)
(* of the buffer and any access lists.                                     *)
(***************************************************************************)
EXTENDS CfgString, FiniteSetTheorems, SequenceTheorems, TLAPS

-----------------------------------------------------------------------------
(* The smaller of numbers, and the bytes of a string.                        *)

LEMMA MinTwo ==
  ASSUME NEW a \in Nat, NEW b \in Nat
  PROVE  /\ Min({a, b}) \in Nat
         /\ a <= b => Min({a, b}) = a
         /\ b <= a => Min({a, b}) = b
<1>1. \E x \in {a, b} : \A y \in {a, b} : x <= y
  <2>1. CASE a <= b
    BY <2>1
  <2>2. CASE b <= a
    BY <2>2
  <2> QED BY <2>1, <2>2
<1>2. Min({a, b}) \in {a, b} /\ \A y \in {a, b} : Min({a, b}) <= y
  BY <1>1 DEF Min
<1> QED BY <1>2

LEMMA MinThree ==
  ASSUME NEW a \in Nat, NEW b \in Nat, NEW c \in Nat
  PROVE  /\ Min({a, b, c}) \in Nat
         /\ a <= b /\ a <= c => Min({a, b, c}) = a
<1>1. \E x \in {a, b, c} : \A y \in {a, b, c} : x <= y
  <2>1. CASE a <= b /\ a <= c
    BY <2>1
  <2>2. CASE b <= a /\ b <= c
    BY <2>2
  <2>3. CASE c <= a /\ c <= b
    BY <2>3
  <2> QED BY <2>1, <2>2, <2>3
<1>2. Min({a, b, c}) \in {a, b, c} /\ \A y \in {a, b, c} : Min({a, b, c}) <= y
  BY <1>1 DEF Min
<1> QED BY <1>2

\* The first bytes of a buffer are a string.
LEMMA FirstBytes ==
  ASSUME NEW m \in [1..Limit -> Bytes], NEW l \in 0..Limit
  PROVE  /\ SubSeq(m, 1, l) \in Seq(Bytes) /\ Len(SubSeq(m, 1, l)) = l
         /\ \A k \in 1..l : SubSeq(m, 1, l)[k] = m[k]
         /\ SubSeq(m, 1, l) \in Contents
<1>1. l \in Int /\ 1..l \subseteq 1..Limit
  BY CfgAssumption
<1>2. \A k \in 1..l : m[k] \in Bytes
  BY <1>1
<1>3. /\ SubSeq(m, 1, l) \in Seq(Bytes)
      /\ Len(SubSeq(m, 1, l)) = IF 1 <= l THEN l - 1 + 1 ELSE 0
      /\ \A k \in 1..(l - 1 + 1) : SubSeq(m, 1, l)[k] = m[1 + k - 1]
  BY <1>1, <1>2, SubSeqProperties
<1>4. /\ Len(SubSeq(m, 1, l)) = l
      /\ \A k \in 1..l : SubSeq(m, 1, l)[k] = m[k]
  BY <1>1, <1>3, CfgAssumption
<1>5. SubSeq(m, 1, l) \in [1..l -> Bytes]
  BY <1>3, <1>4, LenProperties
<1> QED BY <1>3, <1>4, <1>5 DEF Contents

LEMMA ContentIs ==
  ASSUME TypeOK, NEW d \in Devices
  PROVE  /\ Content(d) \in Seq(Bytes) /\ Content(d) \in Contents
         /\ Len(Content(d)) = len[d] /\ len[d] \in 0..Limit
         /\ \A k \in 1..len[d] : Content(d)[k] = mem[d][k]
BY FirstBytes DEF TypeOK, Content

LEMMA RequestIs ==
  ASSUME NEW r \in Requests
  PROVE  r.cmd \in Cmds /\ r.str \in Seq(Bytes) /\ Len(r.str) \in Nat
<1>1. r.cmd \in Cmds /\ r.str \in Words \cup {<<>>}
  BY DEF Requests
<1>2. <<>> \in Seq(Bytes)
  OBVIOUS
<1>3. Words \subseteq Seq(Bytes)
  BY CfgAssumption
<1>4. r.str \in Seq(Bytes)
  BY <1>1, <1>2, <1>3
<1> QED BY <1>1, <1>4, LenProperties

-----------------------------------------------------------------------------
(* What a set stores.                                                        *)

LEMMA StoreGives ==
  ASSUME TypeOK, NEW d \in Devices, NEW s \in Seq(Bytes), Len(s) <= Limit, Store(d, s)
  PROVE  /\ mem' \in [Devices -> [1..Limit -> Bytes]] /\ len' \in [Devices -> 0..Limit]
         /\ Content(d)' = s
         /\ \A e \in Devices : e # d => Content(e)' = Content(e)
<1> DEFINE m == [k \in 1..Limit |-> IF k <= Len(s) THEN s[k] ELSE mem[d][k]]
<1>1. /\ mem' = [mem EXCEPT ![d] = m] /\ len' = [len EXCEPT ![d] = Len(s)]
  BY DEF Store
<1>2. m \in [1..Limit -> Bytes]
  <2>1. \A k \in 1..Limit : k <= Len(s) => s[k] \in Bytes
    BY CfgAssumption
  <2>2. mem[d] \in [1..Limit -> Bytes]
    BY DEF TypeOK
  <2> QED BY <2>1, <2>2
<1>3. Len(s) \in 0..Limit
  BY CfgAssumption
<1>4. \A k \in 1..Len(s) : m[k] = s[k]
  BY <1>3, CfgAssumption
<1> HIDE DEF m
<1>5. SubSeq(m, 1, Len(s)) = s
  <2> DEFINE t == SubSeq(m, 1, Len(s))
  <2>1. t \in Seq(Bytes) /\ Len(t) = Len(s) /\ \A k \in 1..Len(s) : t[k] = m[k]
    BY <1>2, <1>3, FirstBytes
  <2> HIDE DEF t
  <2>2. \A k \in 1..Len(t) : t[k] = s[k]
    BY <1>4, <2>1
  <2>3. t = s
    BY <2>1, <2>2, SeqEqual
  <2> QED BY <2>3 DEF t
<1>6. /\ mem' \in [Devices -> [1..Limit -> Bytes]] /\ len' \in [Devices -> 0..Limit]
      /\ mem'[d] = m /\ len'[d] = Len(s)
      /\ \A e \in Devices : e # d => mem'[e] = mem[e] /\ len'[e] = len[e]
  BY <1>1, <1>2, <1>3 DEF TypeOK
<1>7. Content(d)' = s
  BY <1>5, <1>6 DEF Content
<1> QED BY <1>6, <1>7 DEF Content

\* A request is taken from the queue, answered, and changes the string of its own
\* device only, as the register would.
LEMMA HandleGives ==
  ASSUME TypeOK, NEW d \in Devices, NEW r \in Requests, Handle(d, r)
  PROVE  /\ mem' \in [Devices -> [1..Limit -> Bytes]] /\ len' \in [Devices -> 0..Limit]
         /\ inbox[d] # <<>> /\ r = Head(inbox[d])
         /\ inbox' = [inbox EXCEPT ![d] = Tail(@)] /\ walk' = walk
         /\ \E a \in Answers : last' = [last EXCEPT ![d] = <<r, a>>]
         /\ Content(d)' = After(r, Content(d))
         /\ \A e \in Devices : e # d => Content(e)' = Content(e)
<1>1. /\ inbox[d] # <<>> /\ r = Head(inbox[d])
      /\ inbox' = [inbox EXCEPT ![d] = Tail(@)] /\ walk' = walk
  BY DEF Handle, Deny, Read, Compare, Set, Unknown, Take
<1>2. /\ mem \in [Devices -> [1..Limit -> Bytes]] /\ len \in [Devices -> 0..Limit]
      /\ Content(d) \in Contents /\ Len(Content(d)) = len[d] /\ len[d] \in Nat
      /\ Content(d) \in Seq(Bytes)
  BY ContentIs DEF TypeOK
<1>3. Silent \in Answers /\ Refused \in Answers /\ Ok(Content(d)) \in Answers /\ Ok(<<>>) \in Answers
  <2>1. <<>> \in Contents
    <3>1. <<>> \in [1..0 -> Bytes] /\ 0 \in 0..Limit
      BY CfgAssumption
    <3> QED BY <3>1 DEF Contents
  <2> QED BY <1>2, <2>1 DEF Answers
<1>4. CASE UNCHANGED <<mem, len>> /\ ~(Allowed(r) /\ Register!Sets(r, Content(d)))
  <2>1. \A e : Content(e)' = Content(e)
    BY <1>4 DEF Content
  <2>2. \E a \in Answers : last' = [last EXCEPT ![d] = <<r, a>>]
    <3>1. CASE Deny(d, r) \/ Read(d, r) \/ Unknown(d, r)
      BY <1>3, <3>1 DEF Deny, Read, Unknown, Answer
    <3>2. CASE Compare(d, r)
      BY <1>3, <3>2 DEF Compare, Answer
    <3>3. CASE Set(d, r)
      BY <1>3, <3>3 DEF Set, Answer
    <3> QED BY <3>1, <3>2, <3>3 DEF Handle
  <2> QED BY <1>1, <1>2, <1>4, <2>1, <2>2 DEF After
<1>5. CASE Set(d, r) /\ MaySet(d, r)
  <2>1. /\ Store(d, r.str) /\ Answer(d, r, Ok(<<>>)) /\ Allowed(r)
        /\ r.cmd \in {"setifempty", "set"} /\ Len(r.str) <= Limit
        /\ r.cmd = "setifempty" => len[d] = 0
    BY <1>5 DEF Set, MaySet
  <2>2. r.str \in Seq(Bytes)
    BY RequestIs
  <2>3. r.cmd = "setifempty" => Content(d) = <<>>
    BY <1>2, <2>1, EmptySeq
  <2>4. Register!Sets(r, Content(d))
    BY <2>1, <2>3 DEF Register!Sets
  <2> QED BY <1>1, <1>3, <2>1, <2>2, <2>4, StoreGives DEF After, Answer
<1>6. CASE ~(Set(d, r) /\ MaySet(d, r))
  <2>1. UNCHANGED <<mem, len>>
    BY <1>6 DEF Handle, Deny, Read, Compare, Set, Unknown
  <2>2. ASSUME Allowed(r), Register!Sets(r, Content(d)) PROVE FALSE
    <3>1. /\ r.cmd = "set" \/ (r.cmd = "setifempty" /\ Content(d) = <<>>)
          /\ Len(r.str) <= Limit
      BY <2>2 DEF Register!Sets
    <3>2. r.cmd = "setifempty" => len[d] = 0
      BY <1>2, <3>1
    <3>3. MaySet(d, r)
      BY <3>1, <3>2 DEF MaySet
    <3>4. ~Set(d, r)
      BY <1>6, <3>3
    <3> QED BY <2>2, <3>1, <3>4 DEF Handle, Deny, Read, Compare, Unknown
  <2> QED BY <1>4, <2>1, <2>2
<1> QED BY <1>5, <1>6

-----------------------------------------------------------------------------
(* Types.                                                                    *)

LEMMA InitTypes == Init => TypeOK
BY CfgAssumption DEF Init, TypeOK

\* The request a worker takes is one that was sent.
LEMMA NextIs ==
  ASSUME TypeOK, Next
  PROVE  \/ \E c \in Clients, r \in Requests : Send(c, r)
         \/ \E i \in Ifs, d \in Devices : Queue(i, d)
         \/ \E d \in Devices, r \in Requests : Handle(d, r)
<1>1. ASSUME NEW d \in Devices, inbox[d] # <<>> PROVE Head(inbox[d]) \in Requests
  <2>1. inbox[d] \in Seq(Requests)
    BY DEF TypeOK
  <2> QED BY <1>1, <2>1, HeadTailProperties
<1> QED BY <1>1 DEF Next

LEMMA TypesKept == TypeOK /\ [Next]_vars => TypeOK'
<1> SUFFICES ASSUME TypeOK, [Next]_vars PROVE TypeOK'
  OBVIOUS
<1>1. ASSUME NEW c \in Clients, NEW r \in Requests, Send(c, r) PROVE TypeOK'
  BY <1>1, CfgAssumption DEF Send, TypeOK
<1>2. ASSUME NEW i \in Ifs, NEW d \in Devices, Queue(i, d) PROVE TypeOK'
  <2>1. walk[i] \in Requests \X SUBSET Devices
    BY <1>2 DEF Queue, TypeOK
  <2>2. walk[i][1] \in Requests /\ <<walk[i][1], walk[i][2] \ {d}>> \in Requests \X SUBSET Devices
    BY <2>1
  <2>3. Append(inbox[d], walk[i][1]) \in Seq(Requests)
    BY <2>2, AppendProperties DEF TypeOK
  <2> QED BY <1>2, <2>2, <2>3 DEF Queue, TypeOK
<1>3. ASSUME NEW d \in Devices, NEW r \in Requests, Handle(d, r) PROVE TypeOK'
  <2>1. /\ mem' \in [Devices -> [1..Limit -> Bytes]] /\ len' \in [Devices -> 0..Limit]
        /\ inbox[d] # <<>> /\ walk' = walk
        /\ inbox' = [inbox EXCEPT ![d] = Tail(@)]
    BY <1>3, HandleGives
  <2>2. PICK a \in Answers : last' = [last EXCEPT ![d] = <<r, a>>]
    BY <1>3, HandleGives
  <2>3. Tail(inbox[d]) \in Seq(Requests)
    BY <2>1, HeadTailProperties DEF TypeOK
  <2>4. inbox' \in [Devices -> Seq(Requests)]
    BY <2>1, <2>3 DEF TypeOK
  <2>5. last' \in [Devices -> {None} \cup (Requests \X Answers)]
    BY <2>2 DEF TypeOK
  <2> QED BY <2>1, <2>4, <2>5 DEF TypeOK
<1>4. CASE UNCHANGED vars
  BY <1>4 DEF vars, TypeOK
<1> QED BY <1>1, <1>2, <1>3, <1>4, NextIs

-----------------------------------------------------------------------------
(* The register.                                                             *)

\* What comparing as many bytes as both strings have finds.
LEMMA MatchIs ==
  ASSUME TypeOK, NEW d \in Devices, NEW r \in Requests, ~LittleEndian,
         NEW same \in Matches(d, r)
  PROVE  same <=> r.str = Content(d)
<1> DEFINE s == r.str
           n == len[d]
<1>1. /\ s \in Seq(Bytes) /\ Len(s) \in Nat /\ n \in 0..Limit /\ Limit \in Nat
      /\ Content(d) \in Seq(Bytes) /\ Len(Content(d)) = n
      /\ \A k \in 1..n : Content(d)[k] = mem[d][k]
  BY RequestIs, ContentIs, CfgAssumption
<1>2. Matches(d, r) = IF Len(s) = n THEN SameBytes(d, s, n) ELSE {FALSE}
  BY DEF Matches, OnWire
<1> HIDE DEF s, n
<1>3. CASE Len(s) = n
  <2>1. Min({n, Len(s), Limit}) = n /\ Min({Len(s), Limit}) = n
    BY <1>1, <1>3, MinTwo, MinThree
  <2> DEFINE all == \A k \in 1..n : mem[d][k] = s[k]
  <2>2. SameBytes(d, s, n) = {all} \cup IF all /\ n > n THEN {FALSE} ELSE {}
    BY <2>1, Zenon DEF SameBytes
  <2>3. same <=> all
    <3> HIDE DEF all
    <3>1. ~(n > n)
      BY <1>1
    <3>2. SameBytes(d, s, n) = {all}
      BY <2>2, <3>1, Zenon
    <3>3. same = all
      BY <1>2, <1>3, <3>2, Zenon
    <3> QED BY <3>3
  <2>4. (\A k \in 1..n : mem[d][k] = s[k]) => s = Content(d)
    BY <1>1, <1>3, SeqEqual
  <2> QED BY <1>1, <2>3, <2>4 DEF s
<1>4. CASE Len(s) # n
  BY <1>1, <1>2, <1>4 DEF s
<1> QED BY <1>3, <1>4

\* A part of what would be read matches.
LEMMA PartIs ==
  ASSUME TypeOK, NEW d \in Devices, NEW r \in Requests, IsPrefix(r.str, Content(d)),
         NEW same \in PartlyMatches(d, r)
  PROVE  same
<1> DEFINE s == r.str
           n == Len(s)
<1>1. /\ s \in Seq(Bytes) /\ n \in Nat /\ len[d] \in 0..Limit /\ Limit \in Nat
      /\ Content(d) \in Seq(Bytes) /\ Len(Content(d)) = len[d]
      /\ \A k \in 1..len[d] : Content(d)[k] = mem[d][k]
  BY RequestIs, ContentIs, CfgAssumption
<1>2. /\ n <= len[d] /\ SubSeq(s, 1, n) = SubSeq(Content(d), 1, n)
  BY <1>1 DEF IsPrefix
<1>3. \A k \in 1..n : s[k] = Content(d)[k]
  <2>1. /\ \A k \in 1..n : s[k] \in Bytes
        /\ \A k \in 1..n : Content(d)[k] \in Bytes
    BY <1>1, <1>2
  <2>2. /\ \A k \in 1..(n - 1 + 1) : SubSeq(s, 1, n)[k] = s[1 + k - 1]
        /\ \A k \in 1..(n - 1 + 1) : SubSeq(Content(d), 1, n)[k] = Content(d)[1 + k - 1]
    BY <1>1, <2>1, SubSeqProperties
  <2> HIDE DEF s, n
  <2>3. /\ \A k \in 1..n : SubSeq(s, 1, n)[k] = s[k]
        /\ \A k \in 1..n : SubSeq(Content(d), 1, n)[k] = Content(d)[k]
    BY <1>1, <2>2
  <2> QED BY <1>2, <2>3
<1>4. PartlyMatches(d, r) = SameBytes(d, s, n)
  BY DEF PartlyMatches
<1>5. Len(s) = n
  OBVIOUS
<1> HIDE DEF s, n
<1>6. Min({n, Len(s), Limit}) = n /\ Min({Len(s), Limit}) = n
  BY <1>1, <1>2, <1>5, MinTwo, MinThree
<1>7. \A k \in 1..n : mem[d][k] = s[k]
  BY <1>1, <1>2, <1>3
<1> DEFINE all == \A k \in 1..n : mem[d][k] = s[k]
<1>8. SameBytes(d, s, n) = {all} \cup IF all /\ n > n THEN {FALSE} ELSE {}
  BY <1>6, Zenon DEF SameBytes
<1>9. all
  BY <1>7
<1>10. ~(n > n)
  BY <1>1
<1> HIDE DEF all
<1>11. same = all
  BY <1>4, <1>8, <1>10, Zenon
<1> QED BY <1>9, <1>11

\* Handling a request is one step of the register.
LEMMA HandleServes ==
  ASSUME TypeOK, NEW d \in Devices, NEW r \in Requests, Handle(d, r),
         LittleEndian => "match" \notin Cmds
  PROVE  Register!Serve(d, r)
<1> DEFINE s == Content(d)
           string == [e \in Devices |-> Content(e)]
<1>1. /\ Content(d)' = After(r, s)
      /\ \A e \in Devices : e # d => Content(e)' = Content(e)
      /\ Len(s) = len[d] /\ len[d] \in Nat /\ s \in Seq(Bytes) /\ Len(r.str) \in Nat
  BY HandleGives, ContentIs, RequestIs, CfgAssumption
<1>2. string[d] = s
  OBVIOUS
<1>3. string' = [string EXCEPT ![d] = After(r, s)]
  BY <1>1
<1>4. string' = IF Allowed(r) /\ Register!Sets(r, s)
                  THEN [string EXCEPT ![d] = r.str] ELSE string
  BY <1>3 DEF After
<1>5. ~Allowed(r) => last' = [last EXCEPT ![d] = <<r, None>>]
  BY DEF Handle, Deny, Read, Compare, Set, Unknown, Allowed, Answer, Silent
<1>6. ASSUME Allowed(r)
      PROVE  \E a \in Register!Answers(r, s) : last' = [last EXCEPT ![d] = <<r, a>>]
  <2>1. ~Deny(d, r)
    BY <1>6 DEF Deny
  <2>2. CASE Read(d, r)
    <3>1. r.cmd = "read" /\ last' = [last EXCEPT ![d] = <<r, Ok(s)>>]
      BY <2>2 DEF Read, Answer
    <3>2. Register!Answers(r, s) = {Ok(s)}
      BY <3>1 DEF Register!Answers, Register!Ok, Ok
    <3> QED BY <3>1, <3>2
  <2>3. CASE Compare(d, r) /\ r.cmd = "match"
    <3>1. PICK same \in Matches(d, r) :
            last' = [last EXCEPT ![d] = <<r, IF same THEN Ok(s) ELSE Silent>>]
      BY <2>3 DEF Compare, Answer
    <3>2. same <=> r.str = s
      <4>1. ~LittleEndian
        BY <2>3, RequestIs, CfgAssumption
      <4> QED BY <3>1, <4>1, MatchIs
    <3>3. Register!Answers(r, s) = {IF r.str = s THEN Ok(s) ELSE Silent}
      BY <2>3 DEF Register!Answers, Register!Ok, Ok, Register!Silent, Silent
    <3> QED BY <3>1, <3>2, <3>3
  <2>4. CASE Compare(d, r) /\ r.cmd = "partial"
    <3>1. PICK same \in PartlyMatches(d, r) :
            last' = [last EXCEPT ![d] = <<r, IF same THEN Ok(s) ELSE Silent>>]
      BY <2>4 DEF Compare, Answer
    <3>2. IsPrefix(r.str, s) => same
      BY <3>1, PartIs
    <3>3. Register!Answers(r, s)
            = {Ok(s)} \cup IF IsPrefix(r.str, s) THEN {} ELSE {Silent}
      <4>1. Register!Answers(r, s)
              = {Register!Ok(s)}
                  \cup IF Register!IsPrefix(r.str, s) THEN {} ELSE {Register!Silent}
        BY <2>4 DEF Register!Answers
      <4>2. /\ Register!Ok(s) = Ok(s) /\ Register!Silent = Silent
            /\ Register!IsPrefix(r.str, s) <=> IsPrefix(r.str, s)
        BY DEF Register!Ok, Ok, Register!Silent, Silent, Register!IsPrefix, IsPrefix
      <4> QED BY <4>1, <4>2
    <3> QED BY <3>1, <3>2, <3>3
  <2>5. CASE Set(d, r)
    <3>1. /\ r.cmd \in {"setifempty", "set"}
          /\ last' = [last EXCEPT ![d] = <<r, IF MaySet(d, r) THEN Ok(<<>>) ELSE Refused>>]
      BY <2>5 DEF Set, Answer
    <3>2. len[d] = 0 <=> s = <<>>
      BY <1>1, EmptySeq
    <3>3. CASE r.cmd = "set"
      <4>1. Register!Answers(r, s) = {IF MaySet(d, r) THEN Ok(<<>>) ELSE Refused}
        BY <3>3 DEF Register!Answers, Register!Ok, Ok, Register!Refused, Refused, MaySet
      <4> QED BY <3>1, <4>1
    <3>4. CASE r.cmd = "setifempty"
      <4>1. Register!Answers(r, s) = {IF MaySet(d, r) THEN Ok(<<>>) ELSE Refused}
        BY <3>2, <3>4 DEF Register!Answers, Register!Ok, Ok, Register!Refused, Refused, MaySet
      <4> QED BY <3>1, <4>1
    <3> QED BY <3>1, <3>3, <3>4
  <2>6. CASE Unknown(d, r)
    <3>1. /\ r.cmd \notin {"read", "match", "partial", "setifempty", "set"}
          /\ last' = [last EXCEPT ![d] = <<r, Refused>>]
      BY <2>6 DEF Unknown, Answer
    <3>2. Register!Answers(r, s) = {Refused}
      BY <3>1 DEF Register!Answers, Register!Refused, Refused
    <3> QED BY <3>1, <3>2
  <2>7. Compare(d, r) => r.cmd = "match" \/ r.cmd = "partial"
    BY DEF Compare
  <2> QED BY <2>1, <2>2, <2>3, <2>4, <2>5, <2>6, <2>7 DEF Handle
<1> HIDE DEF s
<1>7. CASE Allowed(r)
  <2>1. string' = IF Register!Sets(r, string[d]) THEN [string EXCEPT ![d] = r.str] ELSE string
    BY <1>2, <1>4, <1>7
  <2>2. \E a \in Register!Answers(r, string[d]) : last' = [last EXCEPT ![d] = <<r, a>>]
    BY <1>2, <1>6, <1>7
  <2> QED BY <1>7, <2>1, <2>2 DEF Register!Serve
<1>8. CASE ~Allowed(r)
  <2>1. string' = string
    BY <1>4, <1>8
  <2> QED BY <1>5, <1>8, <2>1 DEF Register!Serve, Register!Silent
<1> QED BY <1>7, <1>8

\* Where no length is compared turned round, every device behaves as the register a
\* client expects: what is read is what was set last, and what matches is what would
\* be read.
THEOREM DevicesBehave ==
  ASSUME LittleEndian => "match" \notin Cmds
  PROVE  Spec => Behaves
<1> DEFINE string == [d \in Devices |-> Content(d)]
<1>1. Init => Register!Init
  <2> SUFFICES ASSUME Init PROVE Register!Init
    OBVIOUS
  <2>1. \A d \in Devices : len[d] = 0
    BY DEF Init
  <2>2. \A d \in Devices : Content(d) = <<>>
    BY <2>1, SubSeqEmpty DEF Content
  <2> QED BY <2>2 DEF Init, Register!Init
<1>2. TypeOK /\ [Next]_vars => [Register!Next]_<<string, last>>
  <2> SUFFICES ASSUME TypeOK, [Next]_vars PROVE [Register!Next]_<<string, last>>
    OBVIOUS
  <2>1. ASSUME UNCHANGED <<mem, len, last>> PROVE UNCHANGED <<string, last>>
    BY <2>1 DEF Content
  <2>2. ASSUME NEW d \in Devices, NEW r \in Requests, Handle(d, r) PROVE Register!Next
    <3>1. Register!Serve(d, r)
      BY <2>2, HandleServes
    <3>2. PICK a \in Answers : last' = [last EXCEPT ![d] = <<r, a>>]
      BY <2>2, HandleGives
    <3>3. last'[d] = <<r, a>>
      BY <3>2 DEF TypeOK
    <3>4. last'[d] # None /\ last'[d][1] = r
      BY <3>3, NoneAssumption
    <3> HIDE DEF string
    <3> QED BY <3>1, <3>4 DEF Register!Next
  <2> HIDE DEF string
  <2>3. CASE Next
    <3>1. ASSUME NEW c \in Clients, NEW r \in Requests, Send(c, r) PROVE UNCHANGED <<string, last>>
      BY <2>1, <3>1 DEF Send
    <3>2. ASSUME NEW i \in Ifs, NEW d \in Devices, Queue(i, d) PROVE UNCHANGED <<string, last>>
      BY <2>1, <3>2 DEF Queue
    <3> QED BY <2>2, <2>3, <3>1, <3>2, NextIs
  <2>4. CASE UNCHANGED vars
    BY <2>1, <2>4 DEF vars
  <2> QED BY <2>3, <2>4
<1>3. Spec => []TypeOK
  BY InitTypes, TypesKept, PTL DEF Spec
<1> QED BY <1>1, <1>2, <1>3, PTL DEF Spec, Behaves, Register!Spec

-----------------------------------------------------------------------------
(* Several paths to one target, on one interface.                            *)

\* Nothing to carry out leaves a string as it is.
LEMMA LeadsNowhere ==
  ASSUME NEW s \in Contents, NEW t
  PROVE  Leads(<<>>, s, t) <=> t = s
<1>1. Leads(<<>>, s, t) => t = s
  BY DEF Leads
<1>2. Leads(<<>>, s, s)
  <2> DEFINE f == [n \in 0..0 |-> s]
  <2>1. f \in [0..0 -> Contents] /\ f[0] = s
    OBVIOUS
  <2> HIDE DEF f
  <2>2. Len(<<>>) = 0 /\ 1..0 = {}
    OBVIOUS
  <2> QED BY <2>1, <2>2 DEF Leads
<1> QED BY <1>1, <1>2

LEMMA LeadsHead ==
  ASSUME NEW q \in Seq(Requests), q # <<>>, NEW s, NEW t, Leads(q, s, t)
  PROVE  Leads(Tail(q), After(Head(q), s), t)
<1>1. PICK f \in [0..Len(q) -> Contents] :
        /\ f[0] = s /\ f[Len(q)] = t
        /\ \A n \in 1..Len(q) : f[n] = After(q[n], f[n - 1])
  BY DEF Leads
<1>2. /\ Len(q) \in Nat /\ Len(q) > 0 /\ Len(Tail(q)) = Len(q) - 1 /\ Head(q) = q[1]
      /\ \A n \in 1..Len(Tail(q)) : Tail(q)[n] = q[n + 1]
  BY HeadTailProperties, EmptySeq
<1> DEFINE l == Len(q)
           g == [n \in 0..l - 1 |-> f[n + 1]]
<1>3. g \in [0..l - 1 -> Contents]
  BY <1>2
<1>4. g[0] = After(Head(q), s) /\ g[l - 1] = t
  <2>1. f[1] = After(q[1], f[0])
    BY <1>1, <1>2
  <2> QED BY <1>1, <1>2, <2>1
<1>5. \A n \in 1..l - 1 : g[n] = After(Tail(q)[n], g[n - 1])
  <2> SUFFICES ASSUME NEW n \in 1..l - 1 PROVE g[n] = After(Tail(q)[n], g[n - 1])
    OBVIOUS
  <2>1. f[n + 1] = After(q[n + 1], f[n + 1 - 1])
    BY <1>1, <1>2
  <2>2. g[n] = f[n + 1] /\ g[n - 1] = f[n]
    BY <1>2
  <2> QED BY <1>2, <2>1, <2>2
<1> HIDE DEF g, l
<1>6. Len(Tail(q)) = l - 1
  BY <1>2 DEF l
<1> QED BY <1>3, <1>4, <1>5, <1>6 DEF Leads

LEMMA AfterIs ==
  ASSUME NEW r \in Requests, NEW s \in Contents
  PROVE  After(r, s) \in Contents
<1>1. CASE Allowed(r) /\ Register!Sets(r, s)
  <2>1. r.str \in Seq(Bytes) /\ Len(r.str) \in 0..Limit
    BY <1>1, RequestIs, CfgAssumption DEF Register!Sets
  <2>2. r.str \in [1..Len(r.str) -> Bytes]
    BY <2>1, LenProperties
  <2> QED BY <1>1, <2>1, <2>2 DEF Contents, After
<1>2. CASE ~(Allowed(r) /\ Register!Sets(r, s))
  BY <1>2 DEF After
<1> QED BY <1>1, <1>2

LEMMA LeadsOn ==
  ASSUME NEW q \in Seq(Requests), NEW r \in Requests, NEW s, NEW t \in Contents, Leads(q, s, t)
  PROVE  Leads(Append(q, r), s, After(r, t))
<1>1. PICK f \in [0..Len(q) -> Contents] :
        /\ f[0] = s /\ f[Len(q)] = t
        /\ \A n \in 1..Len(q) : f[n] = After(q[n], f[n - 1])
  BY DEF Leads
<1> DEFINE l == Len(q)
           p == Append(q, r)
           u == After(r, t)
           g == [n \in 0..l + 1 |-> IF n = l + 1 THEN u ELSE f[n]]
<1>2. /\ l \in Nat /\ Len(p) = l + 1 /\ p[l + 1] = r
      /\ \A n \in 1..l : p[n] = q[n]
  BY AppendProperties
<1>3. u \in Contents
  BY AfterIs
<1> HIDE DEF p, u
<1>4. g \in [0..l + 1 -> Contents]
  BY <1>2, <1>3
<1>5. /\ g[l + 1] = u /\ \A n \in 0..l : g[n] = f[n]
  BY <1>2
<1> HIDE DEF g
<1>6. g[0] = s
  BY <1>1, <1>2, <1>5
<1>7. \A n \in 1..l + 1 : g[n] = After(p[n], g[n - 1])
  <2> SUFFICES ASSUME NEW n \in 1..l + 1 PROVE g[n] = After(p[n], g[n - 1])
    OBVIOUS
  <2>1. CASE n = l + 1
    <3>1. g[n - 1] = t
      BY <1>1, <1>2, <1>5, <2>1
    <3> QED BY <1>2, <1>5, <2>1, <3>1 DEF u
  <2>2. CASE n # l + 1
    <3>1. n \in 1..l /\ n \in 0..l /\ n - 1 \in 0..l
      BY <1>2, <2>2
    <3>2. g[n] = f[n] /\ g[n - 1] = f[n - 1] /\ p[n] = q[n] /\ f[n] = After(q[n], f[n - 1])
      BY <1>1, <1>2, <1>5, <3>1
    <3> QED BY <3>2
  <2> QED BY <2>1, <2>2
<1>8. Leads(p, s, u)
  <2> HIDE DEF l
  <2> QED BY <1>2, <1>4, <1>5, <1>6, <1>7 DEF Leads
<1> QED BY <1>8 DEF p, u

\* The one interface.
LEMMA OneIf ==
  ASSUME Cardinality(Ifs) = 1
  PROVE  TheIf \in Ifs /\ \A i \in Ifs : i = TheIf
<1>1. PICK i : Ifs = {i}
  BY NoneAssumption, FS_Singleton
<1> QED BY <1>1 DEF TheIf

LEMMA PendingIs ==
  ASSUME TypeOK, Cardinality(Ifs) = 1, NEW d \in Devices
  PROVE  Pending(d) \in Seq(Requests)
<1>1. TheIf \in Ifs /\ inbox[d] \in Seq(Requests)
  BY OneIf DEF TypeOK
<1>2. CASE walk[TheIf] # None /\ d \in walk[TheIf][2]
  <2>1. walk[TheIf][1] \in Requests
    BY <1>1, <1>2 DEF TypeOK
  <2> QED BY <1>1, <1>2, <2>1, AppendProperties DEF Pending
<1>3. CASE ~(walk[TheIf] # None /\ d \in walk[TheIf][2])
  BY <1>1, <1>3 DEF Pending
<1> QED BY <1>2, <1>3

LEMMA InitAgrees == Init => Agreed
<1> SUFFICES ASSUME Init, Cardinality(Ifs) = 1
             PROVE  \E t \in Contents : \A d \in Devices : Leads(Pending(d), Content(d), t)
  BY DEF Agreed
<1>1. TheIf \in Ifs
  BY OneIf
<1>2. <<>> \in Contents
  <2>1. <<>> \in [1..0 -> Bytes] /\ 0 \in 0..Limit
    BY CfgAssumption
  <2> QED BY <2>1 DEF Contents
<1>3. ASSUME NEW d \in Devices PROVE Pending(d) = <<>> /\ Content(d) = <<>>
  <2>1. walk[TheIf] = None /\ inbox[d] = <<>> /\ len[d] = 0
    BY <1>1 DEF Init
  <2> QED BY <2>1, SubSeqEmpty DEF Pending, Content
<1>4. \A d \in Devices : Leads(Pending(d), Content(d), <<>>)
  BY <1>2, <1>3, LeadsNowhere
<1> QED BY <1>2, <1>4

\* A request is queued on all devices before the next one is read, and no device
\* takes one before those that came before it.
LEMMA AgreedKept == TypeOK /\ Agreed /\ [Next]_vars => Agreed'
<1> SUFFICES ASSUME TypeOK, Agreed, [Next]_vars, Cardinality(Ifs) = 1
             PROVE  (\E t \in Contents : \A d \in Devices : Leads(Pending(d), Content(d), t))'
  BY DEF Agreed
<1>1. PICK t \in Contents : \A d \in Devices : Leads(Pending(d), Content(d), t)
  BY DEF Agreed
<1>2. TheIf \in Ifs /\ \A i \in Ifs : i = TheIf
  BY OneIf
<1>3. ASSUME NEW c \in Clients, NEW r \in Requests, Send(c, r)
      PROVE  \E u \in Contents : \A d \in Devices : Leads(Pending(d)', Content(d)', u)
  <2>1. IfOf[c] = TheIf
    BY <1>2, CfgAssumption
  <2>2. walk[TheIf] = None /\ walk'[TheIf] = <<r, Devices>> /\ UNCHANGED <<mem, len, inbox>>
    BY <1>2, <1>3, <2>1 DEF Send, TypeOK
  <2>3. <<r, Devices>> # None
    BY NoneAssumption
  <2>4. ASSUME NEW d \in Devices PROVE Leads(Pending(d)', Content(d)', After(r, t))
    <3>1. Pending(d) = inbox[d] /\ Pending(d)' = Append(inbox[d], r) /\ Content(d)' = Content(d)
      BY <2>2, <2>3 DEF Pending, Content
    <3>2. inbox[d] \in Seq(Requests) /\ Leads(inbox[d], Content(d), t)
      BY <1>1, <3>1 DEF TypeOK
    <3> QED BY <3>1, <3>2, LeadsOn
  <2>5. After(r, t) \in Contents
    BY AfterIs
  <2> QED BY <2>4, <2>5
<1>4. ASSUME NEW i \in Ifs, NEW d \in Devices, Queue(i, d)
      PROVE  \E u \in Contents : \A e \in Devices : Leads(Pending(e)', Content(e)', u)
  <2>1. /\ walk[TheIf] # None /\ d \in walk[TheIf][2]
        /\ inbox' = [inbox EXCEPT ![d] = Append(@, walk[TheIf][1])]
        /\ walk' = [walk EXCEPT ![TheIf] =
                      IF @[2] = {d} THEN None ELSE <<@[1], @[2] \ {d}>>]
        /\ UNCHANGED <<mem, len>>
    BY <1>2, <1>4 DEF Queue
  <2>2. walk[TheIf] \in Requests \X SUBSET Devices
    BY <1>2, <2>1 DEF TypeOK
  <2> DEFINE r == walk[TheIf][1]
             w == walk[TheIf][2]
  <2>3. /\ walk'[TheIf] = IF w = {d} THEN None ELSE <<r, w \ {d}>>
        /\ inbox'[d] = Append(inbox[d], r)
        /\ \A e \in Devices : e # d => inbox'[e] = inbox[e]
    BY <1>2, <2>1 DEF TypeOK
  <2>4. r \in Requests /\ w \in SUBSET Devices
    BY <2>2
  <2>5. <<r, w \ {d}>> # None
    BY <2>4, NoneAssumption
  <2>6. ASSUME NEW e \in Devices PROVE Pending(e)' = Pending(e) /\ Content(e)' = Content(e)
    <3>1. Content(e)' = Content(e)
      BY <2>1 DEF Content
    <3>2. CASE e = d
      <4>1. Pending(e) = Append(inbox[d], r)
        BY <2>1, <3>2 DEF Pending
      <4>2. ~(walk'[TheIf] # None /\ d \in walk'[TheIf][2])
        BY <2>3, <2>5
      <4>3. Pending(e)' = inbox'[d]
        BY <3>2, <4>2 DEF Pending
      <4> QED BY <2>3, <3>1, <4>1, <4>3
    <3>3. CASE e # d
      <4>1. (walk'[TheIf] # None /\ e \in walk'[TheIf][2]) <=> e \in w
        BY <2>3, <2>5, <3>3
      <4>2. walk'[TheIf] # None => walk'[TheIf][1] = r
        BY <2>3
      <4>3. inbox'[e] = inbox[e]
        BY <2>3, <3>3
      <4> HIDE DEF r, w
      <4>4. e \in w => Pending(e) = Append(inbox[e], r) /\ Pending(e)' = Append(inbox[e], r)
        BY <2>1, <4>1, <4>2, <4>3 DEF Pending, r, w
      <4>5. e \notin w => Pending(e) = inbox[e] /\ Pending(e)' = inbox[e]
        BY <4>1, <4>3 DEF Pending, w
      <4> QED BY <3>1, <4>4, <4>5
    <3> QED BY <3>2, <3>3
  <2>7. \A e \in Devices : Leads(Pending(e)', Content(e)', t)
    BY <1>1, <2>6
  <2> QED BY <2>7
<1>5. ASSUME NEW d \in Devices, NEW r \in Requests, Handle(d, r)
      PROVE  \E u \in Contents : \A e \in Devices : Leads(Pending(e)', Content(e)', u)
  <2>1. /\ inbox[d] # <<>> /\ r = Head(inbox[d])
        /\ inbox' = [inbox EXCEPT ![d] = Tail(@)] /\ walk' = walk
        /\ Content(d)' = After(r, Content(d))
        /\ \A e \in Devices : e # d => Content(e)' = Content(e)
    BY <1>5, HandleGives
  <2>2. inbox'[d] = Tail(inbox[d]) /\ \A e \in Devices : e # d => inbox'[e] = inbox[e]
    BY <2>1 DEF TypeOK
  <2>3. \A e \in Devices : e # d => Pending(e)' = Pending(e)
    BY <2>1, <2>2 DEF Pending
  <2>4. Pending(d) \in Seq(Requests) /\ Pending(d) # <<>> /\ Head(Pending(d)) = r
        /\ Pending(d)' = Tail(Pending(d))
    <3>1. inbox[d] \in Seq(Requests)
      BY DEF TypeOK
    <3>2. CASE walk[TheIf] # None /\ d \in walk[TheIf][2]
      <4>1. walk[TheIf][1] \in Requests
        BY <1>2, <3>2 DEF TypeOK
      <4> DEFINE x == walk[TheIf][1]
      <4> HIDE DEF x
      <4>2. Pending(d) = Append(inbox[d], x) /\ Pending(d)' = Append(Tail(inbox[d]), x)
        BY <2>1, <2>2, <3>2 DEF Pending, x
      <4>3. /\ Append(inbox[d], x) # <<>>
            /\ Head(Append(inbox[d], x)) = Head(inbox[d])
            /\ Tail(Append(inbox[d], x)) = Append(Tail(inbox[d]), x)
        BY <2>1, <3>1, <4>1, AppendProperties, HeadTailAppend DEF x
      <4> QED BY <2>1, <4>2, <4>3, PendingIs
    <3>3. CASE ~(walk[TheIf] # None /\ d \in walk[TheIf][2])
      <4>1. Pending(d) = inbox[d] /\ Pending(d)' = Tail(inbox[d])
        BY <2>1, <2>2, <3>3 DEF Pending
      <4> QED BY <2>1, <3>1, <4>1
    <3> QED BY <3>2, <3>3
  <2>5. Leads(Pending(d)', Content(d)', t)
    BY <1>1, <2>1, <2>4, LeadsHead
  <2>6. \A e \in Devices : e # d => Leads(Pending(e)', Content(e)', t)
    BY <1>1, <2>1, <2>3
  <2>7. \A e \in Devices : Leads(Pending(e)', Content(e)', t)
    BY <2>5, <2>6
  <2> QED BY <2>7
<1>6. CASE UNCHANGED vars
  <2>1. \A e : Pending(e)' = Pending(e) /\ Content(e)' = Content(e)
    BY <1>6 DEF vars, Pending, Content
  <2>2. \A e \in Devices : Leads(Pending(e)', Content(e)', t)
    BY <1>1, <2>1
  <2> QED BY <2>2 DEF Leads, After, Allowed
<1>7. \E u \in Contents : \A d \in Devices : Leads(Pending(d)', Content(d)', u)
  BY <1>1, <1>3, <1>4, <1>5, <1>6, NextIs
<1> QED BY <1>7 DEF Leads, After, Allowed

\* The devices of one target that are reached on one interface have one config string
\* when all requests have been carried out, however they were interleaved.
THEOREM AllPathsAgree == Spec => []PathsAgree
<1>1. Spec => []IInv
  <2>1. Init => IInv
    BY InitTypes, InitAgrees DEF IInv
  <2>2. IInv /\ [Next]_vars => IInv'
    BY TypesKept, AgreedKept DEF IInv
  <2> QED BY <2>1, <2>2, PTL DEF Spec
<1>2. ASSUME IInv, Cardinality(Ifs) = 1, \A d \in Devices : ~Coming(d)
      PROVE  \A d, e \in Devices : Content(d) = Content(e)
  <2>1. PICK t \in Contents : \A d \in Devices : Leads(Pending(d), Content(d), t)
    BY <1>2 DEF IInv, Agreed
  <2>2. TheIf \in Ifs
    BY <1>2, OneIf
  <2>3. ASSUME NEW d \in Devices PROVE Content(d) = t
    <3>1. inbox[d] = <<>> /\ ~(walk[TheIf] # None /\ d \in walk[TheIf][2])
      BY <1>2, <2>2 DEF Coming
    <3>2. Pending(d) = <<>>
      BY <3>1 DEF Pending
    <3>3. Content(d) \in Contents
      BY <1>2, ContentIs DEF IInv
    <3> QED BY <2>1, <3>2, <3>3, LeadsNowhere
  <2> QED BY <2>3
<1>3. IInv => PathsAgree
  BY <1>2 DEF PathsAgree
<1> QED BY <1>1, <1>3, PTL
=============================================================================
