---------------------------- MODULE DispatchProofs ----------------------------
(***************************************************************************)
(* Proofs about Dispatch, and about the linked lists of WorkQueue that it  *)
(* moves along, for any number of listeners, devices and frames, any byte  *)
(* order, and with or without failing mallocs and spurious wakeups unless  *)
(* a theorem says otherwise.                                               *)
(***************************************************************************)
EXTENDS Dispatch, FiniteSetTheorems, TLAPS

-----------------------------------------------------------------------------
(* Sequences: what the queue operations do to the set of entries.            *)

\* A queue something was appended to is not empty.
LEMMA AppendNotEmpty ==
  ASSUME NEW S, NEW q \in Seq(S), NEW e \in S
  PROVE  Append(q, e) # <<>>
<1>1. Len(Append(q, e)) = Len(q) + 1 /\ Len(q) \in Nat
  OBVIOUS
<1>2. Len(<<>>) = 0
  OBVIOUS
<1> QED BY <1>1, <1>2

\* insertwork adds one entry at the end.
LEMMA ElemsAppend ==
  ASSUME NEW S, NEW s \in Seq(S), NEW e \in S
  PROVE  Elems(Append(s, e)) = Elems(s) \cup {e}
<1>1. /\ Len(s) \in Nat /\ DOMAIN s = 1..Len(s)
      /\ DOMAIN Append(s, e) = 1..(Len(s) + 1)
      /\ \A n \in 1..Len(s) : Append(s, e)[n] = s[n]
      /\ Append(s, e)[Len(s) + 1] = e
  OBVIOUS
<1>2. \A x : x \in Elems(Append(s, e)) => x \in Elems(s) \cup {e}
  BY <1>1 DEF Elems
<1>3. \A x : x \in Elems(s) \cup {e} => x \in Elems(Append(s, e))
  BY <1>1 DEF Elems
<1> QED BY <1>2, <1>3

\* An append keeps a queue without duplicates, if the entry is new.
LEMMA AppendDistinct ==
  ASSUME NEW S, NEW s \in Seq(S), NEW e \in S,
         \A m, n \in DOMAIN s : s[m] = s[n] => m = n,
         e \notin Elems(s)
  PROVE  \A m, n \in DOMAIN Append(s, e) :
           Append(s, e)[m] = Append(s, e)[n] => m = n
BY DEF Elems

\* The worker unlinks the head, and no other entry, of such a queue.
LEMMA TailDistinct ==
  ASSUME NEW S, NEW s \in Seq(S), s # <<>>,
         \A m, n \in DOMAIN s : s[m] = s[n] => m = n
  PROVE  /\ Head(s) \in S /\ Tail(s) \in Seq(S)
         /\ Head(s) \in Elems(s)
         /\ Elems(Tail(s)) = Elems(s) \ {Head(s)}
         /\ \A m, n \in DOMAIN Tail(s) : Tail(s)[m] = Tail(s)[n] => m = n
<1>1. /\ Len(s) \in Nat \ {0} /\ DOMAIN s = 1..Len(s)
      /\ Head(s) = s[1] /\ Tail(s) \in Seq(S)
      /\ DOMAIN Tail(s) = 1..(Len(s) - 1)
      /\ \A n \in 1..(Len(s) - 1) : Tail(s)[n] = s[n + 1]
  OBVIOUS
<1>2. Elems(Tail(s)) = Elems(s) \ {Head(s)}
  <2>1. ASSUME NEW x \in Elems(Tail(s)) PROVE x \in Elems(s) \ {Head(s)}
    BY <1>1 DEF Elems
  <2>2. ASSUME NEW x \in Elems(s) \ {Head(s)} PROVE x \in Elems(Tail(s))
    <3>1. PICK n \in 1..Len(s) : x = s[n]
      BY <1>1 DEF Elems
    <3>2. n # 1 /\ n - 1 \in 1..(Len(s) - 1) /\ Tail(s)[n - 1] = s[n]
      BY <1>1, <3>1
    <3> QED BY <1>1, <3>1, <3>2 DEF Elems
  <2> QED BY <2>1, <2>2
<1>3. Head(s) \in Elems(s) /\ Head(s) \in S
  BY <1>1 DEF Elems
<1>4. \A m, n \in DOMAIN Tail(s) : Tail(s)[m] = Tail(s)[n] => m = n
  BY <1>1
<1> QED BY <1>1, <1>2, <1>3, <1>4

-----------------------------------------------------------------------------
(* Counts and sets of holders.                                               *)

\* Taking a reference: one more holder, one more in the count.
LEMMA CoversAdd ==
  ASSUME NEW S, IsFiniteSet(S), NEW x, x \notin S, NEW n \in Nat,
         NEW exact \in BOOLEAN, Covers(n, S, exact)
  PROVE  Covers(n + 1, S \cup {x}, exact)
<1>1. /\ Cardinality(S) \in Nat
      /\ Cardinality(S \cup {x}) = Cardinality(S) + 1
  BY FS_AddElement, FS_CardinalityType
<1> QED BY <1>1 DEF Covers

\* Dropping one: the count was positive, and goes down with the holders.
LEMMA CoversRemove ==
  ASSUME NEW S, IsFiniteSet(S), NEW x \in S, NEW n \in Nat,
         NEW exact \in BOOLEAN, Covers(n, S, exact)
  PROVE  n > 0 /\ Covers(n - 1, S \ {x}, exact)
<1>1. /\ Cardinality(S) \in Nat
      /\ Cardinality(S \ {x}) = Cardinality(S) - 1
      /\ Cardinality(S \ {x}) \in Nat
  BY FS_RemoveElement, FS_CardinalityType
<1> QED BY <1>1 DEF Covers

\* Handing one over leaves the count as it is.
LEMMA CoversMove ==
  ASSUME NEW S, IsFiniteSet(S), NEW x \in S, NEW y, y \notin S, NEW n \in Nat,
         NEW exact \in BOOLEAN, Covers(n, S, exact)
  PROVE  Covers(n, (S \ {x}) \cup {y}, exact)
<1>1. IsFiniteSet(S \ {x})
  BY FS_RemoveElement
<1>2. /\ Cardinality(S) \in Nat
      /\ Cardinality(S \ {x}) = Cardinality(S) - 1
      /\ Cardinality((S \ {x}) \cup {y}) = Cardinality(S \ {x}) + 1
  BY <1>1, FS_RemoveElement, FS_AddElement, FS_CardinalityType
<1> QED BY <1>2 DEF Covers

\* A reference nobody drops leaves the count above the holders.
LEMMA CoversLose ==
  ASSUME NEW S, IsFiniteSet(S), NEW x \in S, NEW n \in Nat, Covers(n, S, FALSE)
  PROVE  Covers(n, S \ {x}, FALSE)
<1>1. /\ Cardinality(S) \in Nat
      /\ Cardinality(S \ {x}) = Cardinality(S) - 1
  BY FS_RemoveElement, FS_CardinalityType
<1> QED BY <1>1 DEF Covers

\* A count that covers a holder is positive.
LEMMA CoversHolder ==
  ASSUME NEW S, IsFiniteSet(S), NEW x \in S, NEW n \in Nat,
         NEW exact \in BOOLEAN, Covers(n, S, exact)
  PROVE  n > 0
BY CoversRemove

\* There are finitely many holders.
LEMMA HoldersFinite ==
  ASSUME NEW p, NEW own, NEW extra
  PROVE  IsFiniteSet(Holders(p, own, extra))
<1>1. IsFiniteSet(Threads)
  BY ThreadsAssumption, FS_Union DEF Threads
<1>2. IsFiniteSet(0..2)
  <2>1. 0 \in Int /\ 2 \in Int
    OBVIOUS
  <2> QED BY <2>1, FS_Interval
<1>3. IsFiniteSet(Threads \X (0..2))
  BY <1>1, <1>2, FS_Product
<1> QED BY <1>3, FS_Subset DEF Holders

LEMMA RefsFinite ==
  ASSUME NEW p
  PROVE  IsFiniteSet(WorkRefs(p)) /\ IsFiniteSet(PktRefs(p))
BY HoldersFinite DEF WorkRefs, PktRefs


-----------------------------------------------------------------------------
(* Who holds what after each action.                                         *)

\* Who a thread's current frame belongs to, in the words of Places.
LEMMA Current ==
  ASSUME IInv, NEW t \in Threads, pc[t] \notin Idle
  PROVE  cur[t] \in Packets
BY DEF IInv, TypeOK, Places

\* A frame without a work entry is in nobody's hands but its listener's.
LEMMA Unqueued ==
  ASSUME IInv, NEW t \in Threads, cur[t] \in Packets, rawbuf[cur[t]] = "unset"
  PROVE  t \in Listeners /\ rxif[cur[t]] = t
<1>1. cur[t] # None
  BY ThreadsAssumption
<1>2. pc[t] \in {"drop", "mkwork"}
  BY <1>1 DEF IInv, Places
<1>3. t \notin Devices
  BY <1>2 DEF IInv, TypeOK, WorkerPcs
<1>4. t \in Listeners
  BY <1>3 DEF Threads
<1> QED BY <1>1, <1>4 DEF IInv, Places

\* Actions that give no reference away and take none.
LEMMA RefsKept ==
  ASSUME IInv, NEW q \in Packets,
         \/ \E i \in Listeners : NextPass(i) \/ WalkDone(i)
         \/ \E t \in Threads : NullRaw(t)
         \/ \E d \in Devices : \/ Advertise(d) \/ Started(d) \/ Wait(d)
                               \/ SpuriousWake(d) \/ TakeNothing(d) \/ Handle(d)
  PROVE  WorkRefs(q)' = WorkRefs(q) /\ PktRefs(q)' = PktRefs(q)
<1> DEFINE Ends == {"putpkt", "putwork", "idle", "wait", "woken", "stale"}
           Move(t, to) ==
             /\ pc' = [pc EXCEPT ![t] = to]
             /\ \/ pc[t] = "walk" /\ to = "putpkt"
                \/ pc[t] = "nullraw" /\ to = "putwork"
                \/ pc[t] = "handle" /\ to = "putpkt"
                \/ pc[t] \in Idle /\ to \in Idle
<1>1. cur' = cur /\ queue' = queue /\ (pc' = pc \/ \E t \in Threads, to \in Ends : Move(t, to))
  <2>1. ASSUME NEW i \in Listeners, NextPass(i) \/ WalkDone(i)
        PROVE  cur' = cur /\ queue' = queue /\ (pc' = pc \/ Move(i, "putpkt"))
    BY <2>1 DEF NextPass, WalkDone
  <2>2. ASSUME NEW t \in Threads, NullRaw(t)
        PROVE  cur' = cur /\ queue' = queue /\ Move(t, "putwork")
    BY <2>2 DEF NullRaw
  <2>3. ASSUME NEW d \in Devices, \/ Advertise(d) \/ Started(d) \/ Wait(d)
                                  \/ SpuriousWake(d) \/ TakeNothing(d) \/ Handle(d)
        PROVE  /\ cur' = cur /\ queue' = queue
               /\ pc' = pc \/ \E to \in Ends : Move(d, to)
    <3>1. CASE Advertise(d)
      BY <3>1 DEF Advertise
    <3>2. CASE Started(d)
      <4>1. cur' = cur /\ queue' = queue /\ Move(d, "idle")
        BY <3>2 DEF Started, Idle
      <4> HIDE DEF Move
      <4> QED BY <4>1
    <3>3. CASE Wait(d)
      <4>1. cur' = cur /\ queue' = queue /\ Move(d, "wait")
        BY <3>3 DEF Wait, Idle
      <4> HIDE DEF Move
      <4> QED BY <4>1
    <3>4. CASE SpuriousWake(d)
      <4>1. cur' = cur /\ queue' = queue /\ Move(d, "woken")
        BY <3>4 DEF SpuriousWake, Idle
      <4> HIDE DEF Move
      <4> QED BY <4>1
    <3>5. CASE TakeNothing(d)
      <4>1. cur' = cur /\ queue' = queue /\ Move(d, "stale")
        BY <3>5 DEF TakeNothing, Idle
      <4> HIDE DEF Move
      <4> QED BY <4>1
    <3>6. CASE Handle(d)
      <4>1. cur' = cur /\ queue' = queue /\ Move(d, "putpkt")
        BY <3>6 DEF Handle
      <4> HIDE DEF Move
      <4> QED BY <4>1
    <3> QED BY <2>3, <3>1, <3>2, <3>3, <3>4, <3>5, <3>6
  <2> HIDE DEF Move
  <2>4. Listeners \subseteq Threads /\ Devices \subseteq Threads
    BY DEF Threads
  <2> QED BY <2>1, <2>2, <2>3, <2>4
<1> DEFINE W == {"walk", "uppkt", "insert", "handle", "putpkt", "nullraw", "putwork"}
           P == {"drop", "mkwork", "walk", "uppkt", "insert", "handle", "putpkt"}
<1>2. ASSUME NEW t \in Threads
      PROVE  /\ pc'[t] \in W <=> pc[t] \in W
             /\ pc'[t] \in P <=> pc[t] \in P
             /\ pc'[t] \in {"uppkt", "insert"} <=> pc[t] \in {"uppkt", "insert"}
             /\ pc'[t] \in {"insert"} <=> pc[t] \in {"insert"}
  <2>1. pc \in [Threads -> ListenerPcs \cup WorkerPcs]
    BY DEF IInv, TypeOK, Threads
  <2>2. CASE pc' = pc
    BY <2>2
  <2>3. ASSUME NEW u \in Threads, NEW to \in Ends, Move(u, to) PROVE <1>2!2
    <3>1. CASE t = u
      BY <2>1, <2>3, <3>1 DEF Idle
    <3>2. CASE t # u
      BY <2>1, <2>3, <3>2
    <3> QED BY <3>1, <3>2
  <2> QED BY <1>1, <2>2, <2>3
<1> HIDE DEF W, P, Move
<1>3. Holders(q, W, {"uppkt", "insert"})' = Holders(q, W, {"uppkt", "insert"})
  BY <1>1, <1>2 DEF Holders, Threads, Elems
<1>4. Holders(q, P, {"insert"})' = Holders(q, P, {"insert"})
  BY <1>1, <1>2 DEF Holders, Threads, Elems
<1> QED BY <1>3, <1>4 DEF WorkRefs, PktRefs, W, P

\* A frame that is read has no holder yet; the listener becomes one, unless the
\* frame is short.
LEMMA RefsRead ==
  ASSUME IInv, NEW i \in Listeners, NEW p \in Packets, Read(i, p), NEW q \in Packets
  PROVE  /\ WorkRefs(q)' = WorkRefs(q)
         /\ PktRefs(p) = {}
         /\ PktRefs(q)' = IF q = p /\ Kind[p] # "short"
                            THEN {<<i, 0>>} ELSE PktRefs(q)
<1>1. rxif[p] = None /\ rawbuf[p] = "unset"
  BY DEF Read, IInv, Places
<1>2. \A t \in Threads : cur[t] # p
  BY <1>1, Unqueued, ThreadsAssumption DEF Threads
<1>3. PktRefs(p) = {}
  <2>1. \A d \in Devices : \A e \in Elems(queue[d]) : e[1] # p
    BY <1>1 DEF IInv, Entries
  <2> QED BY <1>2, <2>1 DEF PktRefs, Holders
<1>4. CASE Kind[p] = "short"
  BY <1>3, <1>4, ThreadsAssumption
     DEF Read, local, IInv, TypeOK, Places, Entries, WorkRefs, PktRefs, Holders, Threads, Idle,
       Walking, Queueing, ListenerPcs, WorkerPcs, Passes
<1>5. CASE Kind[p] # "short"
  <2>1. /\ pc' = [pc EXCEPT ![i] = pc'[i]] /\ pc'[i] \in {"drop", "mkwork"}
        /\ pc[i] = "read" /\ cur' = [cur EXCEPT ![i] = p] /\ queue' = queue
    BY <1>5 DEF Read, AfterTests, IInv, TypeOK, Threads
  <2>2. WorkRefs(q)' = WorkRefs(q)
    BY <2>1, ThreadsAssumption DEF IInv, TypeOK, Places, Entries, WorkRefs, PktRefs, Holders, Threads, Idle,
       Walking, Queueing, ListenerPcs, WorkerPcs, Passes
  <2>3. PktRefs(q)' = IF q = p THEN PktRefs(q) \cup {<<i, 0>>} ELSE PktRefs(q)
    BY <2>1, ThreadsAssumption DEF IInv, TypeOK, Places, Entries, WorkRefs, PktRefs, Holders, Threads, Idle,
       Walking, Queueing, ListenerPcs, WorkerPcs, Passes
  <2> QED BY <1>3, <1>5, <2>2, <2>3
<1> QED BY <1>4, <1>5

\* A listener drops its frame.
LEMMA RefsDrop ==
  ASSUME IInv, NEW i \in Listeners, Drop(i), NEW q \in Packets
  PROVE  /\ WorkRefs(q)' = WorkRefs(q)
         /\ <<i, 0>> \in PktRefs(cur[i])
         /\ PktRefs(q)' = IF q = cur[i] THEN PktRefs(q) \ {<<i, 0>>} ELSE PktRefs(q)
BY ThreadsAssumption
   DEF Drop, local, IInv, TypeOK, Places, Entries, WorkRefs, PktRefs, Holders, Threads, Idle,
       Walking, Queueing, ListenerPcs, WorkerPcs, Passes

\* Before its work entry exists, nobody but the listener holds the frame.
LEMMA RefsMkwork ==
  ASSUME IInv, NEW i \in Listeners, pc[i] = "mkwork"
  PROVE  WorkRefs(cur[i]) = {} /\ PktRefs(cur[i]) = {<<i, 0>>}
<1>1. i \in Threads /\ cur[i] \in Packets
  BY Current DEF Threads, Idle
<1>2. cur[i] # None /\ rawbuf[cur[i]] = "unset" /\ rxif[cur[i]] = i
  BY <1>1, ThreadsAssumption DEF IInv, Places
<1>4. \A t \in Threads : cur[t] = cur[i] => t = i
  BY <1>1, <1>2, Unqueued
<1>3. \A d \in Devices : \A e \in Elems(queue[d]) : e[1] # cur[i]
  BY <1>2 DEF IInv, Entries
<1> QED BY <1>1, <1>3, <1>4, ThreadsAssumption
        DEF WorkRefs, PktRefs, Holders, Threads, Passes

\* The work entry starts with the listener as its one holder.
LEMMA RefsMakeWork ==
  ASSUME IInv, NEW i \in Listeners, MakeWork(i), NEW q \in Packets
  PROVE  /\ WorkRefs(q)' = IF q = cur[i] THEN {<<i, 0>>} ELSE WorkRefs(q)
         /\ PktRefs(q)' = PktRefs(q)
<1>1. WorkRefs(cur[i]) = {}
  BY RefsMkwork DEF MakeWork
<1>2. /\ WorkRefs(q)' = IF q = cur[i] THEN WorkRefs(q) \cup {<<i, 0>>} ELSE WorkRefs(q)
      /\ PktRefs(q)' = PktRefs(q)
  BY ThreadsAssumption
     DEF MakeWork, IInv, TypeOK, Places, Entries, WorkRefs, PktRefs, Holders, Threads, Idle,
       Walking, Queueing, ListenerPcs, WorkerPcs, Passes
<1> QED BY <1>1, <1>2

\* When there is no memory for it, the buffer loses its one holder.
LEMMA RefsMakeWorkFails ==
  ASSUME IInv, NEW i \in Listeners, MakeWorkFails(i), NEW q \in Packets
  PROVE  /\ WorkRefs(q)' = WorkRefs(q)
         /\ PktRefs(q)' = IF q = cur[i] THEN {} ELSE PktRefs(q)
<1>1. PktRefs(cur[i]) = {<<i, 0>>}
  BY RefsMkwork DEF MakeWorkFails
<1>2. /\ WorkRefs(q)' = WorkRefs(q)
      /\ PktRefs(q)' = IF q = cur[i] THEN PktRefs(q) \ {<<i, 0>>} ELSE PktRefs(q)
  BY ThreadsAssumption
     DEF MakeWorkFails, local, IInv, TypeOK, Places, Entries, WorkRefs, PktRefs, Holders, Threads, Idle,
       Walking, Queueing, ListenerPcs, WorkerPcs, Passes
<1> QED BY <1>1, <1>2

\* The walk takes a reference to the entry, and then one to the buffer.
LEMMA RefsUpWork ==
  ASSUME IInv, NEW i \in Listeners, NEW d \in Devices, UpWork(i, d), NEW q \in Packets
  PROVE  /\ <<i, 1>> \notin WorkRefs(cur[i])
         /\ WorkRefs(q)' = IF q = cur[i] THEN WorkRefs(q) \cup {<<i, 1>>} ELSE WorkRefs(q)
         /\ PktRefs(q)' = PktRefs(q)
BY ThreadsAssumption
   DEF UpWork, IInv, TypeOK, Places, Entries, WorkRefs, PktRefs, Holders, Threads, Idle,
       Walking, Queueing, ListenerPcs, WorkerPcs, Passes

LEMMA RefsUpPkt ==
  ASSUME IInv, NEW i \in Listeners, UpPkt(i), NEW q \in Packets
  PROVE  /\ WorkRefs(q)' = WorkRefs(q)
         /\ <<i, 1>> \notin PktRefs(cur[i])
         /\ PktRefs(q)' = IF q = cur[i] THEN PktRefs(q) \cup {<<i, 1>>} ELSE PktRefs(q)
BY ThreadsAssumption
   DEF UpPkt, local, IInv, TypeOK, Places, Entries, WorkRefs, PktRefs, Holders, Threads, Idle,
       Walking, Queueing, ListenerPcs, WorkerPcs, Passes

\* Where an append is about to happen.
LEMMA Appending ==
  ASSUME IInv, NEW i \in Listeners, pc[i] = "insert"
  PROVE  /\ target[i] \in Devices /\ target[i] # i /\ target[i] \in todo[i]
         /\ cur[i] \in Packets /\ pass[i] \in Passes
         /\ <<cur[i], pass[i]>> \notin Elems(queue[target[i]])
         /\ pass[i] = 1 => \A d \in Devices : <<cur[i], 2>> \notin Elems(queue[d])
<1>1. target[i] \in todo[i]
  BY DEF IInv, Places, Queueing
<1>2. target[i] \in Devices
  BY <1>1 DEF IInv, TypeOK
<1>3. cur[i] \in Packets
  BY Current DEF Threads, Idle
<1> QED BY <1>1, <1>2, <1>3, ThreadsAssumption DEF IInv, TypeOK, Entries, Walking

\* The append hands both over to the new queue entry.
LEMMA RefsInsert ==
  ASSUME IInv, NEW i \in Listeners, Insert(i), NEW q \in Packets
  PROVE  LET e == <<target[i], pass[i]>> IN
         /\ <<i, 1>> \in WorkRefs(cur[i]) /\ <<i, 1>> \in PktRefs(cur[i])
         /\ e \notin WorkRefs(cur[i]) /\ e \notin PktRefs(cur[i])
         /\ WorkRefs(q)' = IF q = cur[i] THEN (WorkRefs(q) \ {<<i, 1>>}) \cup {e}
                                         ELSE WorkRefs(q)
         /\ PktRefs(q)' = IF q = cur[i] THEN (PktRefs(q) \ {<<i, 1>>}) \cup {e}
                                        ELSE PktRefs(q)
<1> DEFINE d == target[i]
           e == <<cur[i], pass[i]>>
<1>1. /\ d \in Devices /\ cur[i] \in Packets /\ pass[i] \in Passes /\ d # i
      /\ pc[i] = "insert" /\ cur' = cur
      /\ e \notin Elems(queue[d])
  BY Appending DEF Insert
<1>2. Elems(queue'[d]) = Elems(queue[d]) \cup {e}
  <2>1. /\ queue[d] \in Seq(Packets \X Passes) /\ queue'[d] = Append(queue[d], e)
        /\ e \in Packets \X Passes
    BY <1>1 DEF Insert, IInv, TypeOK
  <2> HIDE DEF e, d
  <2> QED BY <2>1, ElemsAppend
<1>3. \A x \in Devices : x # d => queue'[x] = queue[x]
  BY <1>1 DEF Insert, IInv, TypeOK
<1>4. /\ pc'[i] = "walk" /\ (pc'[d] = pc[d] \/ (pc[d] = "wait" /\ pc'[d] = "woken"))
      /\ \A t \in Threads : t # i /\ t # d => pc'[t] = pc[t]
  <2>1. pc' = Signalled(i, d) /\ pc \in [Threads -> ListenerPcs \cup WorkerPcs]
    BY DEF Insert, IInv, TypeOK
  <2>2. i \in Threads /\ d \in Threads
    BY <1>1 DEF Threads
  <2> HIDE DEF d
  <2> QED BY <1>1, <2>1, <2>2 DEF Signalled
<1>5. /\ <<i, 1>> \in WorkRefs(cur[i]) /\ <<i, 1>> \in PktRefs(cur[i])
      /\ <<d, pass[i]>> \notin WorkRefs(cur[i]) /\ <<d, pass[i]>> \notin PktRefs(cur[i])
  BY <1>1, ThreadsAssumption DEF WorkRefs, PktRefs, Holders, Threads, Passes
<1> HIDE DEF d
<1>6. WorkRefs(q)' = IF q = cur[i] THEN (WorkRefs(q) \ {<<i, 1>>}) \cup {<<d, pass[i]>>}
                                   ELSE WorkRefs(q)
  BY <1>1, <1>2, <1>3, <1>4, ThreadsAssumption
     DEF WorkRefs, Holders, Threads, Passes
<1>7. PktRefs(q)' = IF q = cur[i] THEN (PktRefs(q) \ {<<i, 1>>}) \cup {<<d, pass[i]>>}
                                  ELSE PktRefs(q)
  BY <1>1, <1>2, <1>3, <1>4, ThreadsAssumption
     DEF PktRefs, Holders, Threads, Passes
<1> QED BY <1>5, <1>6, <1>7 DEF d

\* When it fails both are lost, the counts left as they are.
LEMMA RefsInsertFails ==
  ASSUME IInv, NEW i \in Listeners, InsertFails(i), NEW q \in Packets
  PROVE  /\ <<i, 1>> \in WorkRefs(cur[i]) /\ <<i, 1>> \in PktRefs(cur[i])
         /\ WorkRefs(q)' = IF q = cur[i] THEN WorkRefs(q) \ {<<i, 1>>} ELSE WorkRefs(q)
         /\ PktRefs(q)' = IF q = cur[i] THEN PktRefs(q) \ {<<i, 1>>} ELSE PktRefs(q)
<1> DEFINE d == target[i]
<1>1. /\ d \in Devices /\ cur[i] \in Packets /\ d # i
      /\ pc[i] = "insert" /\ cur' = cur /\ queue' = queue
  BY Appending DEF InsertFails
<1>2. /\ pc'[i] = "walk" /\ (pc'[d] = pc[d] \/ (pc[d] = "wait" /\ pc'[d] = "woken"))
      /\ \A t \in Threads : t # i /\ t # d => pc'[t] = pc[t]
  <2>1. pc' = Signalled(i, d) /\ pc \in [Threads -> ListenerPcs \cup WorkerPcs]
    BY DEF InsertFails, IInv, TypeOK
  <2>2. i \in Threads /\ d \in Threads
    BY <1>1 DEF Threads
  <2> HIDE DEF d
  <2> QED BY <1>1, <2>1, <2>2 DEF Signalled
<1> HIDE DEF d
<1>3. /\ <<i, 1>> \in WorkRefs(cur[i]) /\ <<i, 1>> \in PktRefs(cur[i])
  BY <1>1, ThreadsAssumption DEF WorkRefs, PktRefs, Holders, Threads
<1>4. WorkRefs(q)' = IF q = cur[i] THEN WorkRefs(q) \ {<<i, 1>>} ELSE WorkRefs(q)
  BY <1>1, <1>2, ThreadsAssumption DEF WorkRefs, Holders, Threads, Passes
<1>5. PktRefs(q)' = IF q = cur[i] THEN PktRefs(q) \ {<<i, 1>>} ELSE PktRefs(q)
  BY <1>1, <1>2, ThreadsAssumption DEF PktRefs, Holders, Threads, Passes
<1> QED BY <1>3, <1>4, <1>5

\* qaoed_workdestroy gives up first the one and then the other.
LEMMA RefsPktPut ==
  ASSUME IInv, NEW t \in Threads, PktPut(t), NEW q \in Packets
  PROVE  /\ WorkRefs(q)' = WorkRefs(q)
         /\ <<t, 0>> \in PktRefs(cur[t])
         /\ PktRefs(q)' = IF q = cur[t] THEN PktRefs(q) \ {<<t, 0>>} ELSE PktRefs(q)
<1>1. /\ cur' = cur /\ queue' = queue /\ pc[t] = "putpkt"
      /\ pc' = [pc EXCEPT ![t] = pc'[t]] /\ pc'[t] \in {"nullraw", "putwork"}
  BY DEF PktPut, IInv, TypeOK
<1> QED BY <1>1, ThreadsAssumption DEF IInv, TypeOK, Places, Entries, WorkRefs, PktRefs, Holders, Threads, Idle,
       Walking, Queueing, ListenerPcs, WorkerPcs, Passes

LEMMA RefsWorkPut ==
  ASSUME IInv, NEW t \in Threads, WorkPut(t), NEW q \in Packets
  PROVE  /\ PktRefs(q)' = PktRefs(q)
         /\ <<t, 0>> \in WorkRefs(cur[t])
         /\ WorkRefs(q)' = IF q = cur[t] THEN WorkRefs(q) \ {<<t, 0>>} ELSE WorkRefs(q)
<1>1. /\ cur' = [cur EXCEPT ![t] = None] /\ queue' = queue /\ pc[t] = "putwork"
      /\ pc' = [pc EXCEPT ![t] = pc'[t]] /\ pc'[t] \in {"read", "idle"}
  BY DEF WorkPut, IInv, TypeOK
<1> QED BY <1>1, ThreadsAssumption DEF IInv, TypeOK, Places, Entries, WorkRefs, PktRefs, Holders, Threads, Idle,
       Walking, Queueing, ListenerPcs, WorkerPcs, Passes

\* The worker takes over what the entry it unlinks held.
LEMMA RefsTake ==
  ASSUME IInv, NEW d \in Devices, Take(d), NEW q \in Packets
  PROVE  LET h == Head(queue[d]) IN
         /\ h \in Packets \X Passes
         /\ <<d, h[2]>> \in WorkRefs(h[1]) /\ <<d, h[2]>> \in PktRefs(h[1])
         /\ <<d, 0>> \notin WorkRefs(h[1]) /\ <<d, 0>> \notin PktRefs(h[1])
         /\ WorkRefs(q)' = IF q = h[1] THEN (WorkRefs(q) \ {<<d, h[2]>>}) \cup {<<d, 0>>}
                                       ELSE WorkRefs(q)
         /\ PktRefs(q)' = IF q = h[1] THEN (PktRefs(q) \ {<<d, h[2]>>}) \cup {<<d, 0>>}
                                      ELSE PktRefs(q)
<1> DEFINE h == Head(queue[d])
<1>1. /\ queue[d] \in Seq(Packets \X Passes) /\ queue[d] # <<>>
      /\ \A m, n \in DOMAIN queue[d] : queue[d][m] = queue[d][n] => m = n
      /\ queue'[d] = Tail(queue[d])
      /\ \A x \in Devices : x # d => queue'[x] = queue[x]
  BY DEF Take, IInv, TypeOK, Entries
<1>2. /\ h \in Packets \X Passes /\ h \in Elems(queue[d])
      /\ Elems(queue'[d]) = Elems(queue[d]) \ {h}
  BY <1>1, TailDistinct
<1>3. h = <<h[1], h[2]>> /\ h[1] \in Packets /\ h[2] \in Passes
  BY <1>2
<1>4. /\ pc[d] \in {"idle", "woken"} /\ pc'[d] = "handle" /\ cur[d] = None
      /\ cur'[d] = h[1] /\ d \in Threads /\ d \notin Listeners
      /\ \A t \in Threads : t # d => pc'[t] = pc[t] /\ cur'[t] = cur[t]
  BY <1>3, ThreadsAssumption DEF Take, IInv, TypeOK, Places, Entries, WorkRefs, PktRefs, Holders, Threads, Idle,
       Walking, Queueing, ListenerPcs, WorkerPcs, Passes
<1> HIDE DEF h
<1>5. /\ <<d, h[2]>> \in WorkRefs(h[1]) /\ <<d, h[2]>> \in PktRefs(h[1])
      /\ <<d, 0>> \notin WorkRefs(h[1]) /\ <<d, 0>> \notin PktRefs(h[1])
  BY <1>2, <1>3, <1>4, ThreadsAssumption DEF WorkRefs, PktRefs, Holders, Passes
<1>6. WorkRefs(q)' = IF q = h[1] THEN (WorkRefs(q) \ {<<d, h[2]>>}) \cup {<<d, 0>>}
                                 ELSE WorkRefs(q)
  BY <1>1, <1>2, <1>3, <1>4, ThreadsAssumption DEF WorkRefs, Holders, Passes
<1>7. PktRefs(q)' = IF q = h[1] THEN (PktRefs(q) \ {<<d, h[2]>>}) \cup {<<d, 0>>}
                                ELSE PktRefs(q)
  <2> DEFINE R == IF q = h[1] THEN (PktRefs(q) \ {<<d, h[2]>>}) \cup {<<d, 0>>}
                              ELSE PktRefs(q)
  <2>1. ASSUME NEW t \in Threads, NEW k \in 0..2, t # d
        PROVE  <<t, k>> \in PktRefs(q)' <=> <<t, k>> \in R
    BY <2>1, <1>1, <1>4 DEF PktRefs, Holders
  <2>2. ASSUME NEW k \in 0..2
        PROVE  <<d, k>> \in PktRefs(q)' <=> <<d, k>> \in R
    BY <1>1, <1>2, <1>3, <1>4 DEF PktRefs, Holders, Passes
  <2>3. PktRefs(q)' \subseteq Threads \X (0..2) /\ R \subseteq Threads \X (0..2)
    BY <1>4 DEF PktRefs, Holders
  <2> HIDE DEF R
  <2>4. ASSUME NEW x \in Threads \X (0..2)
        PROVE  x \in PktRefs(q)' <=> x \in R
    <3>1. x = <<x[1], x[2]>> /\ x[1] \in Threads /\ x[2] \in 0..2
      OBVIOUS
    <3> QED BY <3>1, <2>1, <2>2
  <2>5. PktRefs(q)' = R
    BY <2>3, <2>4
  <2> QED BY <2>5 DEF R
<1> QED BY <1>2, <1>5, <1>6, <1>7 DEF h

-----------------------------------------------------------------------------
(* The counts.                                                               *)

\* A holder finds what it holds allocated.
LEMMA Held ==
  ASSUME IInv, NEW p \in Packets, NEW h
  PROVE  /\ h \in WorkRefs(p) => workRef[p] > 0
         /\ h \in PktRefs(p) => pktRef[p] > 0
<1>1. /\ workRef[p] \in Nat /\ pktRef[p] \in Nat
      /\ Covers(workRef[p], WorkRefs(p), ~MallocFails)
      /\ Covers(pktRef[p], PktRefs(p), ~MallocFails /\ Kind[p] # "short")
  BY DEF IInv, TypeOK, Counts
<1>2. /\ (~MallocFails) \in BOOLEAN
      /\ (~MallocFails /\ Kind[p] # "short") \in BOOLEAN
  OBVIOUS
<1> QED BY <1>1, <1>2, RefsFinite, CoversHolder

\* Every action keeps the two counts above, and without failing mallocs equal
\* to, the numbers of holders.
LEMMA CountsStep ==
  ASSUME IInv, [Next]_vars
  PROVE  Counts'
<1> USE ThreadsAssumption
<1> SUFFICES ASSUME NEW q \in Packets
             PROVE  /\ Covers(workRef[q], WorkRefs(q), ~MallocFails)'
                    /\ Covers(pktRef[q], PktRefs(q), ~MallocFails /\ Kind[q] # "short")'
  BY DEF Counts
<1> DEFINE wex == ~MallocFails
           pex == ~MallocFails /\ Kind[q] # "short"
<1>0. /\ workRef[q] \in Nat /\ pktRef[q] \in Nat
      /\ workRef \in [Packets -> Nat] /\ pktRef \in [Packets -> Nat]
      /\ Covers(workRef[q], WorkRefs(q), wex)
      /\ Covers(pktRef[q], PktRefs(q), pex)
      /\ IsFiniteSet(WorkRefs(q)) /\ IsFiniteSet(PktRefs(q))
      /\ wex \in BOOLEAN /\ pex \in BOOLEAN
  BY RefsFinite DEF IInv, TypeOK, Counts
<1> SUFFICES Covers(workRef'[q], WorkRefs(q)', wex) /\ Covers(pktRef'[q], PktRefs(q)', pex)
  BY DEF Covers
<1> HIDE DEF pex
<1>1. ASSUME NEW i \in Listeners, NEW p \in Packets, Read(i, p)
      PROVE  Covers(workRef'[q], WorkRefs(q)', wex) /\ Covers(pktRef'[q], PktRefs(q)', pex)
  <2>1. /\ WorkRefs(q)' = WorkRefs(q) /\ PktRefs(p) = {}
        /\ PktRefs(q)' = IF q = p /\ Kind[p] # "short" THEN {<<i, 0>>} ELSE PktRefs(q)
    BY <1>1, RefsRead
  <2>2. workRef' = workRef /\ pktRef' = [pktRef EXCEPT ![p] = 1]
    BY <1>1 DEF Read
  <2>3. CASE q = p /\ Kind[p] # "short"
    <3>1. Cardinality({<<i, 0>>}) = 1
      BY FS_Singleton
    <3> QED BY <1>0, <2>1, <2>2, <2>3, <3>1 DEF Covers
  <2>4. CASE q = p /\ Kind[p] = "short"
    <3>1. Cardinality({}) = 0 /\ ~pex
      BY <2>4, FS_EmptySet DEF pex
    <3> QED BY <1>0, <2>1, <2>2, <2>4, <3>1 DEF Covers
  <2>5. CASE q # p
    BY <1>0, <2>1, <2>2, <2>5
  <2> QED BY <2>3, <2>4, <2>5
<1>2. ASSUME NEW i \in Listeners, Drop(i)
      PROVE  Covers(workRef'[q], WorkRefs(q)', wex) /\ Covers(pktRef'[q], PktRefs(q)', pex)
  <2>1. /\ WorkRefs(q)' = WorkRefs(q) /\ <<i, 0>> \in PktRefs(cur[i])
        /\ PktRefs(q)' = IF q = cur[i] THEN PktRefs(q) \ {<<i, 0>>} ELSE PktRefs(q)
    BY <1>2, RefsDrop
  <2>2. workRef' = workRef /\ pktRef' = [pktRef EXCEPT ![cur[i]] = @ - 1]
    BY <1>2 DEF Drop
  <2>5. CASE q = cur[i]
    <3>1. Covers(pktRef[q] - 1, PktRefs(q) \ {<<i, 0>>}, pex)
      BY <1>0, <2>1, <2>5, CoversRemove
    <3> QED BY <1>0, <2>1, <2>2, <2>5, <3>1
  <2>6. CASE q # cur[i]
    BY <1>0, <2>1, <2>2, <2>6
  <2> QED BY <2>5, <2>6
<1>3. ASSUME NEW i \in Listeners, MakeWork(i)
      PROVE  Covers(workRef'[q], WorkRefs(q)', wex) /\ Covers(pktRef'[q], PktRefs(q)', pex)
  <2>1. /\ PktRefs(q)' = PktRefs(q)
        /\ WorkRefs(q)' = IF q = cur[i] THEN {<<i, 0>>} ELSE WorkRefs(q)
    BY <1>3, RefsMakeWork
  <2>2. pktRef' = pktRef /\ workRef' = [workRef EXCEPT ![cur[i]] = 1]
    BY <1>3 DEF MakeWork
  <2>3. Cardinality({<<i, 0>>}) = 1
    BY FS_Singleton
  <2> QED BY <1>0, <2>1, <2>2, <2>3 DEF Covers
<1>4. ASSUME NEW i \in Listeners, MakeWorkFails(i)
      PROVE  Covers(workRef'[q], WorkRefs(q)', wex) /\ Covers(pktRef'[q], PktRefs(q)', pex)
  <2>1. /\ WorkRefs(q)' = WorkRefs(q)
        /\ PktRefs(q)' = IF q = cur[i] THEN {} ELSE PktRefs(q)
    BY <1>4, RefsMakeWorkFails
  <2>2. workRef' = workRef /\ pktRef' = [pktRef EXCEPT ![cur[i]] = 0]
    BY <1>4 DEF MakeWorkFails
  <2>3. Cardinality({}) = 0
    BY FS_EmptySet
  <2> QED BY <1>0, <2>1, <2>2, <2>3 DEF Covers
<1>5. ASSUME NEW i \in Listeners, NEW d \in Devices, UpWork(i, d)
      PROVE  Covers(workRef'[q], WorkRefs(q)', wex) /\ Covers(pktRef'[q], PktRefs(q)', pex)
  <2>1. /\ PktRefs(q)' = PktRefs(q) /\ <<i, 1>> \notin WorkRefs(cur[i])
        /\ WorkRefs(q)' = IF q = cur[i] THEN WorkRefs(q) \cup {<<i, 1>>} ELSE WorkRefs(q)
    BY <1>5, RefsUpWork
  <2>2. pktRef' = pktRef /\ workRef' = [workRef EXCEPT ![cur[i]] = @ + 1]
    BY <1>5 DEF UpWork
  <2>5. CASE q = cur[i]
    <3>1. Covers(workRef[q] + 1, WorkRefs(q) \cup {<<i, 1>>}, wex)
      BY <1>0, <2>1, <2>5, CoversAdd
    <3> QED BY <1>0, <2>1, <2>2, <2>5, <3>1
  <2>6. CASE q # cur[i]
    BY <1>0, <2>1, <2>2, <2>6
  <2> QED BY <2>5, <2>6
<1>6. ASSUME NEW i \in Listeners, UpPkt(i)
      PROVE  Covers(workRef'[q], WorkRefs(q)', wex) /\ Covers(pktRef'[q], PktRefs(q)', pex)
  <2>1. /\ WorkRefs(q)' = WorkRefs(q) /\ <<i, 1>> \notin PktRefs(cur[i])
        /\ PktRefs(q)' = IF q = cur[i] THEN PktRefs(q) \cup {<<i, 1>>} ELSE PktRefs(q)
    BY <1>6, RefsUpPkt
  <2>2. workRef' = workRef /\ pktRef' = [pktRef EXCEPT ![cur[i]] = @ + 1]
    BY <1>6 DEF UpPkt
  <2>5. CASE q = cur[i]
    <3>1. Covers(pktRef[q] + 1, PktRefs(q) \cup {<<i, 1>>}, pex)
      BY <1>0, <2>1, <2>5, CoversAdd
    <3> QED BY <1>0, <2>1, <2>2, <2>5, <3>1
  <2>6. CASE q # cur[i]
    BY <1>0, <2>1, <2>2, <2>6
  <2> QED BY <2>5, <2>6
<1>7. ASSUME NEW i \in Listeners, Insert(i)
      PROVE  Covers(workRef'[q], WorkRefs(q)', wex) /\ Covers(pktRef'[q], PktRefs(q)', pex)
  <2> DEFINE e == <<target[i], pass[i]>>
  <2>1. /\ <<i, 1>> \in WorkRefs(cur[i]) /\ <<i, 1>> \in PktRefs(cur[i])
        /\ e \notin WorkRefs(cur[i]) /\ e \notin PktRefs(cur[i])
        /\ WorkRefs(q)' = IF q = cur[i] THEN (WorkRefs(q) \ {<<i, 1>>}) \cup {e}
                                        ELSE WorkRefs(q)
        /\ PktRefs(q)' = IF q = cur[i] THEN (PktRefs(q) \ {<<i, 1>>}) \cup {e}
                                       ELSE PktRefs(q)
    BY <1>7, RefsInsert
  <2>2. workRef' = workRef /\ pktRef' = pktRef
    BY <1>7 DEF Insert
  <2> HIDE DEF e
  <2>3. CASE q = cur[i]
    <3>1. Covers(workRef[q], (WorkRefs(q) \ {<<i, 1>>}) \cup {e}, wex)
      BY <1>0, <2>1, <2>2, <2>3, CoversMove
    <3>2. Covers(pktRef[q], (PktRefs(q) \ {<<i, 1>>}) \cup {e}, pex)
      BY <1>0, <2>1, <2>2, <2>3, CoversMove
    <3> QED BY <2>1, <2>2, <2>3, <3>1, <3>2
  <2>4. CASE q # cur[i]
    BY <1>0, <2>1, <2>2, <2>4
  <2> QED BY <2>3, <2>4
<1>8. ASSUME NEW i \in Listeners, InsertFails(i)
      PROVE  Covers(workRef'[q], WorkRefs(q)', wex) /\ Covers(pktRef'[q], PktRefs(q)', pex)
  <2>1. /\ <<i, 1>> \in WorkRefs(cur[i]) /\ <<i, 1>> \in PktRefs(cur[i])
        /\ WorkRefs(q)' = IF q = cur[i] THEN WorkRefs(q) \ {<<i, 1>>} ELSE WorkRefs(q)
        /\ PktRefs(q)' = IF q = cur[i] THEN PktRefs(q) \ {<<i, 1>>} ELSE PktRefs(q)
    BY <1>8, RefsInsertFails
  <2>2. workRef' = workRef /\ pktRef' = pktRef /\ wex = FALSE /\ pex = FALSE
    BY <1>8, FramesAssumption DEF InsertFails, pex
  <2>3. CASE q = cur[i]
    <3>1. Covers(workRef[q], WorkRefs(q) \ {<<i, 1>>}, FALSE)
      BY <1>0, <2>1, <2>2, <2>3, CoversLose
    <3>2. Covers(pktRef[q], PktRefs(q) \ {<<i, 1>>}, FALSE)
      BY <1>0, <2>1, <2>2, <2>3, CoversLose
    <3> QED BY <2>1, <2>2, <2>3, <3>1, <3>2
  <2>4. CASE q # cur[i]
    BY <1>0, <2>1, <2>2, <2>4
  <2> QED BY <2>3, <2>4
<1>9. ASSUME NEW t \in Threads, PktPut(t)
      PROVE  Covers(workRef'[q], WorkRefs(q)', wex) /\ Covers(pktRef'[q], PktRefs(q)', pex)
  <2>1. /\ WorkRefs(q)' = WorkRefs(q) /\ <<t, 0>> \in PktRefs(cur[t])
        /\ PktRefs(q)' = IF q = cur[t] THEN PktRefs(q) \ {<<t, 0>>} ELSE PktRefs(q)
    BY <1>9, RefsPktPut
  <2>2. cur[t] \in Packets /\ cur[t] # None
    BY <1>9, Current DEF PktPut, Idle
  <2>3. rawbuf[cur[t]] = "pkt"
    <3>1. pktRef[cur[t]] > 0
      BY <2>1, <2>2, Held
    <3>2. rawbuf[cur[t]] # "unset"
      BY <1>9, <2>2 DEF IInv, Places, PktPut
    <3> QED BY <2>2, <3>1, <3>2 DEF IInv, TypeOK, Places
  <2>4. workRef' = workRef /\ pktRef' = [pktRef EXCEPT ![cur[t]] = @ - 1]
    BY <1>9, <2>3 DEF PktPut
  <2>5. CASE q = cur[t]
    <3>1. Covers(pktRef[q] - 1, PktRefs(q) \ {<<t, 0>>}, pex)
      BY <1>0, <2>1, <2>5, CoversRemove
    <3> QED BY <1>0, <2>1, <2>4, <2>5, <3>1
  <2>6. CASE q # cur[t]
    BY <1>0, <2>1, <2>4, <2>6
  <2> QED BY <2>5, <2>6
<1>10. ASSUME NEW t \in Threads, WorkPut(t)
       PROVE  Covers(workRef'[q], WorkRefs(q)', wex) /\ Covers(pktRef'[q], PktRefs(q)', pex)
  <2>1. /\ PktRefs(q)' = PktRefs(q) /\ <<t, 0>> \in WorkRefs(cur[t])
        /\ WorkRefs(q)' = IF q = cur[t] THEN WorkRefs(q) \ {<<t, 0>>} ELSE WorkRefs(q)
    BY <1>10, RefsWorkPut
  <2>2. pktRef' = pktRef /\ workRef' = [workRef EXCEPT ![cur[t]] = @ - 1]
    BY <1>10 DEF WorkPut
  <2>5. CASE q = cur[t]
    <3>1. Covers(workRef[q] - 1, WorkRefs(q) \ {<<t, 0>>}, wex)
      BY <1>0, <2>1, <2>5, CoversRemove
    <3> QED BY <1>0, <2>1, <2>2, <2>5, <3>1
  <2>6. CASE q # cur[t]
    BY <1>0, <2>1, <2>2, <2>6
  <2> QED BY <2>5, <2>6
<1>11. ASSUME NEW d \in Devices, Take(d)
       PROVE  Covers(workRef'[q], WorkRefs(q)', wex) /\ Covers(pktRef'[q], PktRefs(q)', pex)
  <2> DEFINE h == Head(queue[d])
  <2>1. /\ <<d, h[2]>> \in WorkRefs(h[1]) /\ <<d, h[2]>> \in PktRefs(h[1])
        /\ <<d, 0>> \notin WorkRefs(h[1]) /\ <<d, 0>> \notin PktRefs(h[1])
        /\ WorkRefs(q)' = IF q = h[1] THEN (WorkRefs(q) \ {<<d, h[2]>>}) \cup {<<d, 0>>}
                                      ELSE WorkRefs(q)
        /\ PktRefs(q)' = IF q = h[1] THEN (PktRefs(q) \ {<<d, h[2]>>}) \cup {<<d, 0>>}
                                     ELSE PktRefs(q)
    BY <1>11, RefsTake
  <2>2. workRef' = workRef /\ pktRef' = pktRef
    BY <1>11 DEF Take
  <2> HIDE DEF h
  <2>3. CASE q = h[1]
    <3>1. Covers(workRef[q], (WorkRefs(q) \ {<<d, h[2]>>}) \cup {<<d, 0>>}, wex)
      BY <1>0, <2>1, <2>2, <2>3, CoversMove
    <3>2. Covers(pktRef[q], (PktRefs(q) \ {<<d, h[2]>>}) \cup {<<d, 0>>}, pex)
      BY <1>0, <2>1, <2>2, <2>3, CoversMove
    <3> QED BY <2>1, <2>2, <2>3, <3>1, <3>2
  <2>4. CASE q # h[1]
    BY <1>0, <2>1, <2>2, <2>4
  <2> QED BY <2>3, <2>4
<1>12. CASE \/ \E i \in Listeners : NextPass(i) \/ WalkDone(i)
            \/ \E t \in Threads : NullRaw(t)
            \/ \E d \in Devices : \/ Advertise(d) \/ Started(d) \/ Wait(d)
                                  \/ SpuriousWake(d) \/ TakeNothing(d) \/ Handle(d)
  <2>1. WorkRefs(q)' = WorkRefs(q) /\ PktRefs(q)' = PktRefs(q)
    BY <1>12, RefsKept
  <2>2. workRef' = workRef /\ pktRef' = pktRef
    BY <1>12 DEF NextPass, WalkDone, NullRaw, Advertise, Started, Wait, SpuriousWake,
                 TakeNothing, Handle
  <2> QED BY <1>0, <2>1, <2>2
<1>13. CASE UNCHANGED vars
  BY <1>0, <1>13 DEF vars, WorkRefs, PktRefs, Holders
<1> QED BY <1>1, <1>2, <1>3, <1>4, <1>5, <1>6, <1>7, <1>8, <1>9, <1>10, <1>11, <1>12,
           <1>13 DEF Next, Process, Work, Put, Threads

-----------------------------------------------------------------------------
(* What the invariant gives: all that is held is still allocated.            *)

LEMMA InvKept ==
  ASSUME IInv
  PROVE  Kept
<1> USE ThreadsAssumption
<1>1. ASSUME NEW t \in Threads,
             pc[t] \in {"walk", "uppkt", "insert", "handle", "putpkt", "nullraw", "putwork"}
      PROVE  workRef[cur[t]] > 0
  <2>1. cur[t] \in Packets
    BY <1>1, Current DEF Idle
  <2>2. <<t, 0>> \in WorkRefs(cur[t])
    BY <1>1 DEF WorkRefs, Holders
  <2> QED BY <2>1, <2>2, Held
<1>2. ASSUME NEW t \in Threads,
             pc[t] \in {"drop", "mkwork", "walk", "uppkt", "insert", "handle", "putpkt"}
      PROVE  pktRef[cur[t]] > 0
  <2>1. cur[t] \in Packets
    BY <1>2, Current DEF Idle
  <2>2. <<t, 0>> \in PktRefs(cur[t])
    BY <1>2 DEF PktRefs, Holders
  <2> QED BY <2>1, <2>2, Held
<1>3. ASSUME NEW t \in Threads,
             pc[t] \in {"walk", "uppkt", "insert", "handle", "putpkt"}
      PROVE  rawbuf[cur[t]] = "pkt"
  <2>1. cur[t] \in Packets /\ cur[t] # None
    BY <1>3, Current DEF Idle
  <2>2. pktRef[cur[t]] > 0
    BY <1>2, <1>3
  <2>3. rawbuf[cur[t]] # "unset"
    BY <1>3, <2>1 DEF IInv, Places
  <2> QED BY <2>1, <2>2, <2>3 DEF IInv, TypeOK, Places
<1>4. ASSUME NEW d \in Devices, NEW e \in Elems(queue[d])
      PROVE  workRef[e[1]] > 0 /\ pktRef[e[1]] > 0
  <2>1. e = <<e[1], e[2]>> /\ e[1] \in Packets /\ e[2] \in Passes
    <3>1. queue[d] \in Seq(Packets \X Passes)
      BY DEF IInv, TypeOK
    <3> QED BY <3>1 DEF Elems
  <2>2. <<d, e[2]>> \in WorkRefs(e[1]) /\ <<d, e[2]>> \in PktRefs(e[1])
    BY <2>1 DEF WorkRefs, PktRefs, Holders, Threads, Passes
  <2> QED BY <2>1, <2>2, Held
<1> QED BY <1>1, <1>2, <1>3, <1>4 DEF Kept

-----------------------------------------------------------------------------
(* The steps, one by one.                                                    *)

\* A frame nobody has read is in no thread's hands and in no queue.
LEMMA Unread ==
  ASSUME IInv, NEW p \in Packets, rxif[p] = None
  PROVE  /\ rawbuf[p] = "unset"
         /\ \A t \in Threads : cur[t] # p
<1>1. rawbuf[p] = "unset"
  BY DEF IInv, Places
<1> QED BY <1>1, Unqueued, ThreadsAssumption DEF Threads

\* Types are kept; the counts never go below zero.
LEMMA TypeStep ==
  ASSUME IInv, [Next]_vars
  PROVE  TypeOK'
<1> USE ThreadsAssumption DEF TypeOK, local, Threads, ListenerPcs, WorkerPcs
<1>0. TypeOK /\ Kept
  BY InvKept DEF IInv
<1>1. ASSUME NEW i \in Listeners, NEW p \in Packets, Read(i, p)
      PROVE  TypeOK'
  <2>1. pktRef' \in [Packets -> Nat] /\ rxif' \in [Packets -> Listeners \cup {None}]
    BY <1>0, <1>1 DEF Read
  <2>2. /\ pc' \in [Threads -> ListenerPcs \cup WorkerPcs]
        /\ \A j \in Listeners : pc'[j] \in ListenerPcs
        /\ \A d \in Devices : pc'[d] \in WorkerPcs
        /\ cur' \in [Threads -> Packets \cup {None}]
    <3>1. CASE Kind[p] = "short"
      BY <1>0, <1>1, <3>1 DEF Read
    <3>2. CASE Kind[p] # "short"
      <4>1. PICK where \in {"drop", "mkwork"} :
              pc' = [pc EXCEPT ![i] = where] /\ cur' = [cur EXCEPT ![i] = p]
        BY <1>1, <3>2 DEF Read, AfterTests
      <4> QED BY <1>0, <4>1
    <3> QED BY <3>1, <3>2
  <2> QED BY <1>0, <1>1, <2>1, <2>2 DEF Read
<1>2. ASSUME NEW i \in Listeners, Drop(i) PROVE TypeOK'
  <2>1. cur[i] \in Packets /\ pktRef[cur[i]] > 0
    BY <1>0, <1>2, Current DEF Drop, Kept, Idle
  <2> QED BY <1>0, <1>2, <2>1 DEF Drop
<1>3. ASSUME NEW i \in Listeners, MakeWork(i) PROVE TypeOK'
  BY <1>0, <1>3 DEF MakeWork, Matches, Passes
<1>4. ASSUME NEW i \in Listeners, MakeWorkFails(i) PROVE TypeOK'
  BY <1>0, <1>4 DEF MakeWorkFails
<1>5. ASSUME NEW i \in Listeners, NEW d \in Devices, UpWork(i, d) PROVE TypeOK'
  <2>1. cur[i] \in Packets
    BY <1>5, Current DEF UpWork, Idle
  <2> QED BY <1>0, <1>5, <2>1 DEF UpWork
<1>6. ASSUME NEW i \in Listeners, UpPkt(i) PROVE TypeOK'
  <2>1. cur[i] \in Packets
    BY <1>6, Current DEF UpPkt, Idle
  <2> QED BY <1>0, <1>6, <2>1 DEF UpPkt
<1>7. ASSUME NEW i \in Listeners, Insert(i) PROVE TypeOK'
  <2>1. /\ target[i] \in Devices /\ cur[i] \in Packets /\ pass[i] \in Passes
    BY <1>7, Appending DEF Insert
  <2>2. Append(queue[target[i]], <<cur[i], pass[i]>>) \in Seq(Packets \X Passes)
    BY <1>0, <2>1
  <2>3. /\ pc' \in [Threads -> ListenerPcs \cup WorkerPcs]
        /\ \A j \in Listeners : pc'[j] \in ListenerPcs
        /\ \A d \in Devices : pc'[d] \in WorkerPcs
    BY <1>0, <1>7, <2>1 DEF Insert, Signalled
  <2>4. queue' \in [Devices -> Seq(Packets \X Passes)]
    BY <1>0, <1>7, <2>1, <2>2 DEF Insert
  <2> QED BY <1>0, <1>7, <2>3, <2>4 DEF Insert
<1>8. ASSUME NEW i \in Listeners, InsertFails(i) PROVE TypeOK'
  <2>1. target[i] \in Devices
    BY <1>8, Appending DEF InsertFails
  <2>2. /\ pc' \in [Threads -> ListenerPcs \cup WorkerPcs]
        /\ \A j \in Listeners : pc'[j] \in ListenerPcs
        /\ \A d \in Devices : pc'[d] \in WorkerPcs
    BY <1>0, <1>8, <2>1 DEF InsertFails, Signalled
  <2> QED BY <1>0, <1>8, <2>2 DEF InsertFails
<1>9. ASSUME NEW i \in Listeners, NextPass(i) \/ WalkDone(i) PROVE TypeOK'
  <2>1. CASE NextPass(i)
    BY <1>0, <2>1 DEF NextPass, Matches, Passes
  <2>2. CASE WalkDone(i)
    BY <1>0, <2>2 DEF WalkDone
  <2> QED BY <1>9, <2>1, <2>2
<1>10. ASSUME NEW t \in Threads, PktPut(t) PROVE TypeOK'
  <2>1. /\ cur[t] \in Packets /\ pktRef[cur[t]] > 0 /\ rawbuf[cur[t]] = "pkt"
    BY <1>0, <1>10, Current DEF PktPut, Kept, Idle
  <2> QED BY <1>0, <1>10, <2>1 DEF PktPut
<1>11. ASSUME NEW t \in Threads, NullRaw(t) PROVE TypeOK'
  BY <1>0, <1>11 DEF NullRaw
<1>12. ASSUME NEW t \in Threads, WorkPut(t) PROVE TypeOK'
  <2>1. /\ cur[t] \in Packets /\ workRef[cur[t]] > 0
    BY <1>0, <1>12, Current DEF WorkPut, Kept, Idle
  <2> QED BY <1>0, <1>12, <2>1 DEF WorkPut
<1>13. ASSUME NEW d \in Devices, Advertise(d) \/ Started(d) \/ Wait(d)
                                   \/ SpuriousWake(d) \/ TakeNothing(d)
       PROVE  TypeOK'
  <2>1. CASE Advertise(d)
    BY <1>0, <2>1 DEF Advertise
  <2>2. CASE Started(d) \/ Wait(d)
    BY <1>0, <2>2 DEF Started, Wait
  <2>3. CASE SpuriousWake(d) \/ TakeNothing(d)
    BY <1>0, <2>3 DEF SpuriousWake, TakeNothing
  <2> QED BY <1>13, <2>1, <2>2, <2>3
<1>14. ASSUME NEW d \in Devices, Take(d) PROVE TypeOK'
  <2>1. /\ queue[d] \in Seq(Packets \X Passes) /\ queue[d] # <<>>
        /\ Head(queue[d]) \in Packets \X Passes /\ Tail(queue[d]) \in Seq(Packets \X Passes)
    BY <1>0, <1>14, TailDistinct DEF Take, IInv, Entries
  <2> QED BY <1>0, <1>14, <2>1 DEF Take
<1>15. ASSUME NEW d \in Devices, Handle(d) PROVE TypeOK'
  <2>1. cur[d] \in Packets
    BY <1>15, Current DEF Handle, Idle
  <2>2. Append(served[d], cur[d]) \in Seq(Packets)
    BY <1>0, <2>1
  <2> QED BY <1>0, <1>15, <2>2 DEF Handle
<1>16. CASE UNCHANGED vars
  BY <1>0, <1>16 DEF vars
<1> QED BY <1>1, <1>2, <1>3, <1>4, <1>5, <1>6, <1>7, <1>8, <1>9, <1>10, <1>11, <1>12,
           <1>13, <1>14, <1>15, <1>16 DEF Next, Process, Work, Put

\* Threads stay with the frames that are theirs, and a buffer that was given up
\* is never taken up again.
LEMMA PlacesStep ==
  ASSUME IInv, [Next]_vars
  PROVE  Places'
<1> USE ThreadsAssumption DEF local, Idle, Queueing
<1>0. /\ TypeOK /\ Places /\ Kept
      /\ \A t \in Threads : pc[t] \notin Idle => cur[t] \in Packets /\ cur[t] # None
      /\ Listeners \subseteq Threads /\ Devices \subseteq Threads
  BY InvKept, Current DEF IInv, Threads
<1>1. ASSUME NEW i \in Listeners, NEW p \in Packets, Read(i, p) PROVE Places'
  <2>1. /\ rxif[p] = None /\ rawbuf[p] = "unset" /\ i # None /\ p # None
        /\ \A t \in Threads : cur[t] # p
    BY <1>0, <1>1, Unread DEF Read
  <2>2. CASE Kind[p] = "short"
    BY <1>0, <1>1, <2>1, <2>2 DEF Read, TypeOK, Places
  <2>3. CASE Kind[p] # "short"
    <3>1. PICK where \in {"drop", "mkwork"} :
            pc' = [pc EXCEPT ![i] = where] /\ cur' = [cur EXCEPT ![i] = p]
      BY <1>1, <2>3 DEF Read, AfterTests
    <3> QED BY <1>0, <1>1, <2>1, <3>1 DEF Read, TypeOK, Places
  <2> QED BY <2>2, <2>3
<1>2. ASSUME NEW i \in Listeners, Drop(i) PROVE Places'
  <2>1. cur[i] \in Packets /\ cur[i] # None /\ pktRef[cur[i]] > 0
    BY <1>0, <1>2 DEF Drop, Kept
  <2> QED BY <1>0, <1>2, <2>1 DEF Drop, TypeOK, Places
<1>3. ASSUME NEW i \in Listeners, MakeWork(i) PROVE Places'
  <2>1. /\ cur[i] \in Packets /\ rawbuf[cur[i]] = "unset"
        /\ \A t \in Threads : cur[t] = cur[i] => t = i
    BY <1>0, <1>3, Unqueued DEF MakeWork, Places
  <2> QED BY <1>0, <1>3, <2>1 DEF MakeWork, TypeOK, Places
<1>4. ASSUME NEW i \in Listeners, MakeWorkFails(i) PROVE Places'
  <2>1. cur[i] \in Packets
    BY <1>0, <1>4 DEF MakeWorkFails
  <2> QED BY <1>0, <1>4, <2>1 DEF MakeWorkFails, TypeOK, Places
<1>5. ASSUME NEW i \in Listeners, NEW d \in Devices, UpWork(i, d) PROVE Places'
  BY <1>0, <1>5 DEF UpWork, TypeOK, Places
<1>6. ASSUME NEW i \in Listeners, UpPkt(i) PROVE Places'
  <2>1. /\ cur[i] \in Packets /\ pktRef[cur[i]] > 0
    BY <1>0, <1>6 DEF UpPkt, Kept
  <2> QED BY <1>0, <1>6, <2>1 DEF UpPkt, TypeOK, Places
<1>7. ASSUME NEW i \in Listeners, Insert(i) \/ InsertFails(i) PROVE Places'
  <2>1. target[i] \in Devices /\ target[i] # i /\ pc[i] = "insert"
    BY <1>7, Appending DEF Insert, InsertFails
  <2>2. /\ pc' = Signalled(i, target[i]) /\ cur' = cur /\ rawbuf' = rawbuf
        /\ rxif' = rxif /\ pktRef' = pktRef /\ target' = target
        /\ todo' = [todo EXCEPT ![i] = @ \ {target[i]}]
    BY <1>7 DEF Insert, InsertFails
  <2>3. /\ pc'[i] = "walk"
        /\ \A t \in Threads : t # i => pc'[t] = pc[t] \/ (pc[t] = "wait" /\ pc'[t] = "woken")
    BY <1>0, <2>1, <2>2 DEF Signalled, TypeOK
  <2>4. \A t \in Threads : cur[t] = None <=> pc'[t] \in Idle
    BY <1>0, <2>1, <2>3 DEF Places
  <2>5. \A t \in Threads : cur[t] # None =>
          (rawbuf[cur[t]] = "unset" <=> pc'[t] \in {"drop", "mkwork"})
    BY <1>0, <2>1, <2>3 DEF Places
  <2>6. \A j \in Listeners : pc'[j] \in Queueing => target[j] \in todo'[j]
    BY <1>0, <2>2, <2>3 DEF TypeOK, Places
  <2>7. \A t \in Threads : pc'[t] = "nullraw" => pktRef[cur[t]] = 0
    BY <1>0, <2>3 DEF Places
  <2> QED BY <1>0, <2>2, <2>4, <2>5, <2>6, <2>7 DEF Places
<1>8. ASSUME NEW i \in Listeners, NextPass(i) PROVE Places'
  BY <1>0, <1>8 DEF NextPass, TypeOK, Places
<1>9. ASSUME NEW i \in Listeners, WalkDone(i) PROVE Places'
  BY <1>0, <1>9 DEF WalkDone, TypeOK, Places
<1>10. ASSUME NEW t \in Threads, PktPut(t) PROVE Places'
  <2>1. /\ cur[t] \in Packets /\ pktRef[cur[t]] > 0 /\ rawbuf[cur[t]] = "pkt"
        /\ pc[t] = "putpkt"
    BY <1>0, <1>10 DEF PktPut, Kept
  <2>2. /\ pktRef' = [pktRef EXCEPT ![cur[t]] = @ - 1]
        /\ pc' = [pc EXCEPT ![t] = IF pktRef[cur[t]] = 1 THEN "nullraw" ELSE "putwork"]
    BY <1>10, <2>1 DEF PktPut
  <2> QED BY <1>0, <1>10, <2>1, <2>2 DEF PktPut, TypeOK, Places
<1>11. ASSUME NEW t \in Threads, NullRaw(t) PROVE Places'
  <2>1. cur[t] \in Packets /\ pktRef[cur[t]] = 0 /\ rxif[cur[t]] # None
        /\ rawbuf[cur[t]] # "unset"
    BY <1>0, <1>11 DEF NullRaw, Places
  <2> QED BY <1>0, <1>11, <2>1 DEF NullRaw, TypeOK, Places
<1>12. ASSUME NEW t \in Threads, WorkPut(t) PROVE Places'
  BY <1>0, <1>12 DEF WorkPut, TypeOK, Places
<1>13. ASSUME NEW d \in Devices, Advertise(d) \/ Started(d) \/ Wait(d)
                                   \/ SpuriousWake(d) \/ TakeNothing(d) \/ Handle(d)
       PROVE  Places'
  <2>1. CASE Advertise(d)
    BY <1>0, <2>1 DEF Advertise, Places
  <2>2. CASE Started(d)
    <3>1. d \notin Listeners /\ pc[d] \in Idle /\ pc' = [pc EXCEPT ![d] = "idle"]
          /\ cur' = cur /\ rawbuf' = rawbuf /\ rxif' = rxif /\ pktRef' = pktRef
          /\ target' = target /\ todo' = todo
      BY <1>0, <2>2 DEF Started, Idle
    <3> QED BY <1>0, <3>1 DEF TypeOK, Places
  <2>3. CASE Wait(d)
    <3>1. d \notin Listeners /\ pc[d] \in Idle /\ pc' = [pc EXCEPT ![d] = "wait"]
          /\ cur' = cur /\ rawbuf' = rawbuf /\ rxif' = rxif /\ pktRef' = pktRef
          /\ target' = target /\ todo' = todo
      BY <1>0, <2>3 DEF Wait, Idle
    <3> QED BY <1>0, <3>1 DEF TypeOK, Places
  <2>4. CASE SpuriousWake(d)
    <3>1. d \notin Listeners /\ pc[d] \in Idle /\ pc' = [pc EXCEPT ![d] = "woken"]
          /\ cur' = cur /\ rawbuf' = rawbuf /\ rxif' = rxif /\ pktRef' = pktRef
          /\ target' = target /\ todo' = todo
      BY <2>4 DEF SpuriousWake
    <3> QED BY <1>0, <3>1 DEF TypeOK, Places
  <2>5. CASE TakeNothing(d)
    <3>1. d \notin Listeners /\ pc[d] \in Idle /\ pc' = [pc EXCEPT ![d] = "stale"]
          /\ cur' = cur /\ rawbuf' = rawbuf /\ rxif' = rxif /\ pktRef' = pktRef
          /\ target' = target /\ todo' = todo
      BY <2>5 DEF TakeNothing
    <3> QED BY <1>0, <3>1 DEF TypeOK, Places
  <2>6. CASE Handle(d)
    <3>1. d \notin Listeners /\ pc[d] = "handle" /\ pc' = [pc EXCEPT ![d] = "putpkt"]
          /\ cur' = cur /\ rawbuf' = rawbuf /\ rxif' = rxif /\ pktRef' = pktRef
          /\ target' = target /\ todo' = todo
      BY <2>6 DEF Handle
    <3> QED BY <1>0, <3>1 DEF TypeOK, Places
  <2> QED BY <1>13, <2>1, <2>2, <2>3, <2>4, <2>5, <2>6
<1>14. ASSUME NEW d \in Devices, Take(d) PROVE Places'
  <2>1. /\ queue[d] \in Seq(Packets \X Passes) /\ queue[d] # <<>>
        /\ Head(queue[d]) \in Packets \X Passes /\ Head(queue[d]) \in Elems(queue[d])
    BY <1>0, <1>14, TailDistinct DEF Take, IInv, TypeOK, Entries
  <2>2. /\ Head(queue[d])[1] \in Packets /\ rawbuf[Head(queue[d])[1]] # "unset"
    BY <2>1 DEF IInv, Entries
  <2>3. d \notin Listeners
    OBVIOUS
  <2> QED BY <1>0, <1>14, <2>2, <2>3 DEF Take, TypeOK, Places
<1>15. CASE UNCHANGED vars
  BY <1>0, <1>15 DEF vars, Places
<1> QED BY <1>1, <1>2, <1>3, <1>4, <1>5, <1>6, <1>7, <1>8, <1>9, <1>10, <1>11, <1>12,
           <1>13, <1>14, <1>15 DEF Next, Process, Work, Put, Threads

\* No entry is queued twice, whichever loop queues it.
LEMMA EntriesStep ==
  ASSUME IInv, [Next]_vars
  PROVE  Entries'
<1> USE ThreadsAssumption DEF local
<1>0. /\ TypeOK /\ Places /\ Entries /\ Kept
      /\ Listeners \subseteq Threads /\ Devices \subseteq Threads
      /\ \A t \in Threads : pc[t] \notin Idle => cur[t] \in Packets /\ cur[t] # None
  BY InvKept, Current DEF IInv, Threads
<1>1. ASSUME NEW i \in Listeners, NEW p \in Packets, Read(i, p) PROVE Entries'
  <2>1. /\ queue' = queue /\ rawbuf' = rawbuf /\ todo' = todo /\ pass' = pass
        /\ \A j \in Listeners : pc'[j] \in Walking => j # i
        /\ \A j \in Listeners : j # i => pc'[j] = pc[j] /\ cur'[j] = cur[j]
    BY <1>0, <1>1 DEF Read, AfterTests, TypeOK, Walking
  <2> QED BY <1>0, <2>1 DEF Entries
<1>2. ASSUME NEW i \in Listeners, Drop(i) \/ MakeWorkFails(i) PROVE Entries'
  <2>1. /\ queue' = queue /\ rawbuf' = rawbuf /\ todo' = todo /\ pass' = pass
        /\ \A j \in Listeners : pc'[j] \in Walking => j # i
        /\ \A j \in Listeners : j # i => pc'[j] = pc[j] /\ cur'[j] = cur[j]
    BY <1>0, <1>2 DEF Drop, MakeWorkFails, TypeOK, Walking
  <2> QED BY <1>0, <2>1 DEF Entries
<1>3. ASSUME NEW i \in Listeners, MakeWork(i) PROVE Entries'
  <2>1. /\ cur[i] \in Packets /\ rawbuf[cur[i]] = "unset"
    BY <1>0, <1>3 DEF MakeWork, Places, Idle
  <2>2. \A d \in Devices : \A e \in Elems(queue[d]) : e[1] # cur[i]
    BY <1>0, <2>1 DEF Entries
  <2>3. /\ queue' = queue /\ cur' = cur
        /\ \A p \in Packets : p # cur[i] => rawbuf'[p] = rawbuf[p]
        /\ \A j \in Listeners : j # i =>
             pc'[j] = pc[j] /\ todo'[j] = todo[j] /\ pass'[j] = pass[j]
    BY <1>0, <1>3 DEF MakeWork, TypeOK
  <2>4. \A d \in Devices : \A e \in Elems(queue[d]) : e[1] \in Packets
    <3>1. \A d \in Devices : queue[d] \in Seq(Packets \X Passes)
      BY <1>0 DEF TypeOK
    <3> QED BY <3>1 DEF Elems
  <2> QED BY <1>0, <2>2, <2>3, <2>4 DEF Entries
<1>4. ASSUME NEW i \in Listeners, NEW d \in Devices, UpWork(i, d) PROVE Entries'
  <2>1. /\ queue' = queue /\ rawbuf' = rawbuf /\ todo' = todo /\ pass' = pass /\ cur' = cur
        /\ \A j \in Listeners : pc'[j] \in Walking => pc[j] \in Walking
    BY <1>0, <1>4 DEF UpWork, TypeOK, Walking
  <2> QED BY <1>0, <2>1 DEF Entries
<1>5. ASSUME NEW i \in Listeners, UpPkt(i) \/ WalkDone(i) PROVE Entries'
  <2>1. /\ queue' = queue /\ rawbuf' = rawbuf /\ todo' = todo /\ pass' = pass /\ cur' = cur
        /\ \A j \in Listeners : pc'[j] \in Walking => pc[j] \in Walking
    BY <1>0, <1>5 DEF UpPkt, WalkDone, TypeOK, Walking
  <2> QED BY <1>0, <2>1 DEF Entries
<1>6. ASSUME NEW i \in Listeners, InsertFails(i) PROVE Entries'
  <2>1. target[i] \in Devices /\ target[i] # i /\ pc[i] = "insert"
    BY <1>6, Appending DEF InsertFails
  <2>2. /\ queue' = queue /\ rawbuf' = rawbuf /\ pass' = pass /\ cur' = cur
        /\ \A j \in Listeners : todo'[j] \subseteq todo[j]
        /\ pc' = Signalled(i, target[i])
    BY <1>0, <1>6 DEF InsertFails, TypeOK
  <2>3. \A j \in Listeners : pc'[j] \in Walking => pc[j] \in Walking
    BY <1>0, <2>1, <2>2 DEF Signalled, TypeOK, Walking
  <2> QED BY <1>0, <2>2, <2>3 DEF Entries
<1>7. ASSUME NEW i \in Listeners, Insert(i) PROVE Entries'
  <2> DEFINE d == target[i]
             e == <<cur[i], pass[i]>>
  <2>1. /\ d \in Devices /\ d # i /\ d \in todo[i] /\ pc[i] = "insert"
        /\ cur[i] \in Packets /\ pass[i] \in Passes
        /\ e \in Packets \X Passes /\ e \notin Elems(queue[d])
        /\ rawbuf[cur[i]] = "pkt" /\ rxif[cur[i]] = i
    <3>1. /\ pc[i] = "insert" /\ cur[i] \in Packets /\ cur[i] # None
      BY <1>0, <1>7 DEF Insert, Idle
    <3>2. rawbuf[cur[i]] = "pkt" /\ rxif[cur[i]] = i
      BY <1>0, <3>1 DEF Places, Kept
    <3> QED BY <1>7, <3>1, <3>2, Appending
  <2>2. /\ queue'[d] = Append(queue[d], e) /\ queue[d] \in Seq(Packets \X Passes)
        /\ \A x \in Devices : x # d => queue'[x] = queue[x]
        /\ rawbuf' = rawbuf /\ pass' = pass /\ cur' = cur
        /\ todo' = [todo EXCEPT ![i] = @ \ {d}] /\ pc' = Signalled(i, d)
    BY <1>0, <1>7, <2>1 DEF Insert, TypeOK
  <2>3. \A j \in Listeners : pc'[j] \in Walking => pc[j] \in Walking
    BY <1>0, <2>1, <2>2 DEF Signalled, TypeOK, Walking
  <2>4. \A x \in Devices, j \in Listeners :
          x \in todo'[j] => x \in todo[j] /\ (j = i => x # d)
    BY <1>0, <2>2 DEF TypeOK
  <2>5. e = <<cur[i], pass[i]>> /\ e[1] = cur[i]
    OBVIOUS
  <2> HIDE DEF d, e
  <2>6. /\ Elems(queue'[d]) = Elems(queue[d]) \cup {e}
        /\ \A m, n \in DOMAIN queue'[d] : queue'[d][m] = queue'[d][n] => m = n
    BY <1>0, <2>1, <2>2, ElemsAppend, AppendDistinct DEF Entries
  <2>7. \A x \in Devices : \A f \in Elems(queue'[x]) : rawbuf'[f[1]] # "unset"
    BY <1>0, <2>1, <2>2, <2>5, <2>6 DEF Entries
  <2>8. \A x \in Devices : \A m, n \in DOMAIN queue'[x] :
          queue'[x][m] = queue'[x][n] => m = n
    BY <1>0, <2>2, <2>6 DEF Entries
  <2>9. ASSUME NEW j \in Listeners, NEW x \in Devices, pc'[j] \in Walking
        PROVE  /\ x \in todo'[j] => <<cur[j], pass[j]>> \notin Elems(queue'[x])
               /\ pass[j] = 1 => <<cur[j], 2>> \notin Elems(queue'[x])
    <3>1. /\ x \in todo[j] => <<cur[j], pass[j]>> \notin Elems(queue[x])
          /\ pass[j] = 1 => <<cur[j], 2>> \notin Elems(queue[x])
      BY <1>0, <2>3, <2>9 DEF Entries
    <3>2. CASE j = i /\ x = d
      BY <2>1, <2>4, <2>5, <2>6, <3>1, <3>2 DEF Passes
    <3>4. CASE x # d
      BY <2>2, <2>4, <3>1, <3>4
    <3>3. CASE j # i /\ x = d
      <4>1. cur[j] # cur[i]
        <5>1. pc[j] \in Walking /\ j \in Threads
          BY <1>0, <2>3, <2>9
        <5>2. cur[j] # None
          BY <1>0, <5>1 DEF Walking, Idle
        <5> QED BY <1>0, <2>1, <3>3, <5>2 DEF Places
      <4> QED BY <2>4, <2>5, <2>6, <3>1, <3>3, <4>1
    <3> QED BY <3>2, <3>3, <3>4
  <2> QED BY <2>2, <2>7, <2>8, <2>9 DEF Entries
<1>8. ASSUME NEW i \in Listeners, NextPass(i) PROVE Entries'
  <2>1. /\ queue' = queue /\ rawbuf' = rawbuf /\ cur' = cur /\ pc' = pc
        /\ pass[i] = 1 /\ pc[i] \in Walking /\ pass'[i] = 2
        /\ \A j \in Listeners : j # i => todo'[j] = todo[j] /\ pass'[j] = pass[j]
    BY <1>0, <1>8 DEF NextPass, TypeOK, Walking
  <2> QED BY <1>0, <2>1 DEF Entries
<1>9. ASSUME NEW t \in Threads, PktPut(t) \/ NullRaw(t) \/ WorkPut(t) PROVE Entries'
  <2>1. /\ queue' = queue /\ todo' = todo /\ pass' = pass
        /\ \A j \in Listeners : pc'[j] \in Walking => pc[j] \in Walking /\ cur'[j] = cur[j]
        /\ \A p \in Packets : rawbuf[p] # "unset" => rawbuf'[p] # "unset"
    BY <1>0, <1>9 DEF PktPut, NullRaw, WorkPut, TypeOK, Walking
  <2>2. \A d \in Devices : \A e \in Elems(queue[d]) : e[1] \in Packets
    <3>1. \A d \in Devices : queue[d] \in Seq(Packets \X Passes)
      BY <1>0 DEF TypeOK
    <3> QED BY <3>1 DEF Elems
  <2> QED BY <1>0, <2>1, <2>2 DEF Entries
<1>10. ASSUME NEW d \in Devices, Advertise(d) \/ Started(d) \/ Wait(d)
                                   \/ SpuriousWake(d) \/ TakeNothing(d) \/ Handle(d)
       PROVE  Entries'
  <2>1. /\ queue' = queue /\ rawbuf' = rawbuf /\ todo' = todo /\ pass' = pass /\ cur' = cur
    BY <1>10 DEF Advertise, Started, Wait, SpuriousWake, TakeNothing, Handle
  <2>2. \A j \in Listeners : pc'[j] = pc[j]
    BY <1>0, <1>10 DEF Advertise, Started, Wait, SpuriousWake, TakeNothing, Handle, TypeOK
  <2> QED BY <1>0, <2>1, <2>2 DEF Entries
<1>11. ASSUME NEW d \in Devices, Take(d) PROVE Entries'
  <2>1. /\ queue[d] \in Seq(Packets \X Passes) /\ queue[d] # <<>>
        /\ queue'[d] = Tail(queue[d])
        /\ \A x \in Devices : x # d => queue'[x] = queue[x]
        /\ rawbuf' = rawbuf /\ todo' = todo /\ pass' = pass
    BY <1>0, <1>11 DEF Take, TypeOK
  <2>2. \A j \in Listeners : pc'[j] = pc[j] /\ cur'[j] = cur[j]
    BY <1>0, <1>11 DEF Take, TypeOK
  <2>3. /\ Elems(queue'[d]) = Elems(queue[d]) \ {Head(queue[d])}
        /\ \A m, n \in DOMAIN queue'[d] : queue'[d][m] = queue'[d][n] => m = n
    BY <1>0, <2>1, TailDistinct DEF Entries
  <2>4. \A x \in Devices : Elems(queue'[x]) \subseteq Elems(queue[x])
    BY <2>1, <2>3
  <2> QED BY <1>0, <2>1, <2>2, <2>3, <2>4 DEF Entries
<1>12. CASE UNCHANGED vars
  BY <1>0, <1>12 DEF vars, Entries
<1> QED BY <1>1, <1>2, <1>3, <1>4, <1>5, <1>6, <1>7, <1>8, <1>9, <1>10, <1>11, <1>12
        DEF Next, Process, Work, Put, Threads

-----------------------------------------------------------------------------
(* The theorems.                                                             *)

LEMMA InitInv == Init => IInv
<1> SUFFICES ASSUME Init PROVE IInv
  OBVIOUS
<1> USE ThreadsAssumption, FramesAssumption
<1>1. TypeOK
  BY DEF Init, TypeOK, Threads, ListenerPcs, WorkerPcs, Passes
<1>2. \A d \in Devices : queue[d] = <<>> /\ Elems(queue[d]) = {}
  <2>1. queue = [d \in Devices |-> <<>>]
    BY DEF Init
  <2>2. DOMAIN <<>> = {}
    OBVIOUS
  <2>3. Elems(<<>>) = {}
    BY <2>2 DEF Elems
  <2> QED BY <2>1, <2>3
<1>3. \A t \in Threads : cur[t] = None /\ pc[t] \in {"read", "start"}
  BY DEF Init, Threads
<1>4. Places
  <2>1. \A p \in Packets : rawbuf[p] = "unset"
    BY DEF Init
  <2>2. \A t \in Threads : pc[t] \in Idle /\ pc[t] \notin Queueing \cup {"nullraw"}
    BY <1>3 DEF Idle, Queueing
  <2> QED BY <1>3, <2>1, <2>2 DEF Places, Threads
<1>5. Entries
  <2>1. DOMAIN <<>> = {}
    OBVIOUS
  <2>2. \A i \in Listeners : pc[i] \notin Walking
    BY <1>3 DEF Walking, Threads
  <2> QED BY <1>2, <2>1, <2>2 DEF Entries
<1>6. Counts
  <2>1. ASSUME NEW p \in Packets PROVE WorkRefs(p) = {} /\ PktRefs(p) = {}
    BY <1>2, <1>3 DEF WorkRefs, PktRefs, Holders, Threads
  <2>2. Cardinality({}) = 0
    BY FS_EmptySet
  <2>3. \A p \in Packets : workRef[p] = 0 /\ pktRef[p] = 0
    BY DEF Init
  <2>4. ASSUME NEW S, S = {}, NEW exact PROVE Covers(0, S, exact)
    BY <2>2, <2>4 DEF Covers
  <2> QED BY <2>1, <2>3, <2>4 DEF Counts
<1> QED BY <1>1, <1>4, <1>5, <1>6 DEF IInv

\* The invariant holds in every reachable state: whatever the interleaving of
\* listeners and workers, failing mallocs and spurious wakeups included, every
\* holder of a work entry or a buffer is counted (processpacket, insertwork,
\* qaoed_workdestroy, qaoed_worker).
THEOREM Invariance == Spec => []IInv
<1>1. Init => IInv
  BY InitInv
<1>2. IInv /\ [Next]_vars => IInv'
  BY TypeStep, PlacesStep, EntriesStep, CountsStep DEF IInv
<1> QED BY <1>1, <1>2, PTL DEF Spec

\* Every variable keeps its type; in particular no count goes below zero.
THEOREM TypeCorrect == Spec => []TypeOK
<1>1. IInv => TypeOK
  BY DEF IInv
<1> QED BY <1>1, Invariance, PTL

\* While malloc does not fail, the counts are exact: nothing but short frames
\* leaks.
THEOREM ExactCounts ==
  ASSUME ~MallocFails
  PROVE  Spec => []RefcountExact
<1>1. IInv => RefcountExact
  BY DEF IInv, Counts, Covers, RefcountExact
<1> QED BY <1>1, Invariance, PTL

\* What a worker may be doing, given what its queue holds.
Awake ==
  /\ NoLostWakeup
  /\ ~Spurious /\ ~MallocFails =>
       \A d \in Devices : pc[d] # "stale" /\ (pc[d] = "woken" => queue[d] # <<>>)

LEMMA AwakeStep ==
  ASSUME IInv, Awake, [Next]_vars
  PROVE  Awake'
<1> USE ThreadsAssumption, FramesAssumption DEF Awake, NoLostWakeup
<1>0. /\ pc \in [Threads -> ListenerPcs \cup WorkerPcs]
      /\ queue \in [Devices -> Seq(Packets \X Passes)]
      /\ Listeners \subseteq Threads /\ Devices \subseteq Threads
  BY DEF IInv, TypeOK, Threads
<1>1. ASSUME NEW i \in Listeners, NEW p \in Packets, Read(i, p) PROVE Awake'
  <2>1. queue' = queue /\ \A d \in Devices : pc'[d] = pc[d]
    BY <1>0, <1>1 DEF Read
  <2> QED BY <2>1
<1>2. ASSUME NEW i \in Listeners,
             \/ Drop(i) \/ MakeWork(i) \/ MakeWorkFails(i) \/ UpPkt(i)
             \/ NextPass(i) \/ WalkDone(i)
             \/ \E d \in Devices : UpWork(i, d)
      PROVE  Awake'
  <2>1. queue' = queue /\ \A d \in Devices : pc'[d] = pc[d]
    BY <1>0, <1>2 DEF Drop, MakeWork, MakeWorkFails, UpPkt, NextPass, WalkDone, UpWork
  <2> QED BY <2>1
<1>3. ASSUME NEW i \in Listeners, Insert(i) \/ InsertFails(i) PROVE Awake'
  <2> DEFINE d == target[i]
  <2>1. /\ d \in Devices /\ d # i /\ cur[i] \in Packets /\ pass[i] \in Passes
        /\ pc' = Signalled(i, d)
    BY <1>3, Appending DEF Insert, InsertFails
  <2> HIDE DEF d
  <2>2. /\ \A x \in Devices : x # d => pc'[x] = pc[x]
        /\ pc'[d] = IF pc[d] = "wait" THEN "woken" ELSE pc[d]
    BY <1>0, <2>1 DEF Signalled
  <2>3. CASE Insert(i)
    <3>1. /\ queue'[d] = Append(queue[d], <<cur[i], pass[i]>>)
          /\ \A x \in Devices : x # d => queue'[x] = queue[x]
      BY <1>0, <2>1, <2>3 DEF Insert, d
    <3>2. queue'[d] # <<>>
      <4>1. queue[d] \in Seq(Packets \X Passes) /\ <<cur[i], pass[i]>> \in Packets \X Passes
        BY <1>0, <2>1
      <4>2. Append(queue[d], <<cur[i], pass[i]>>) # <<>>
        BY <4>1, AppendNotEmpty
      <4> QED BY <3>1, <4>2
    <3> QED BY <2>1, <2>2, <3>1, <3>2
  <2>4. CASE InsertFails(i)
    <3>1. queue' = queue /\ MallocFails
      BY <2>4 DEF InsertFails
    <3> QED BY <2>1, <2>2, <3>1
  <2> QED BY <1>3, <2>3, <2>4
<1>4. ASSUME NEW t \in Threads, PktPut(t) \/ NullRaw(t) \/ WorkPut(t) PROVE Awake'
  <2>1. /\ queue' = queue
        /\ \A d \in Devices : pc'[d] \in {"wait", "woken", "stale"} => pc'[d] = pc[d]
    BY <1>0, <1>4 DEF PktPut, NullRaw, WorkPut
  <2> QED BY <2>1
<1>5. ASSUME NEW d \in Devices, Advertise(d) \/ Started(d) \/ Handle(d) PROVE Awake'
  <2>1. /\ queue' = queue
        /\ \A x \in Devices : pc'[x] \in {"wait", "woken", "stale"} => pc'[x] = pc[x]
    BY <1>0, <1>5 DEF Advertise, Started, Handle
  <2> QED BY <2>1
<1>6. ASSUME NEW d \in Devices, Wait(d) PROVE Awake'
  BY <1>0, <1>6 DEF Wait
<1>7. ASSUME NEW d \in Devices, SpuriousWake(d) PROVE Awake'
  BY <1>0, <1>7 DEF SpuriousWake
<1>8. ASSUME NEW d \in Devices, TakeNothing(d) PROVE Awake'
  BY <1>0, <1>8 DEF TakeNothing
<1>9. ASSUME NEW d \in Devices, Take(d) PROVE Awake'
  <2>1. /\ pc'[d] = "handle"
        /\ \A x \in Devices : x # d => queue'[x] = queue[x] /\ pc'[x] = pc[x]
    BY <1>0, <1>9 DEF Take
  <2> QED BY <2>1
<1>10. CASE UNCHANGED vars
  BY <1>10 DEF vars
<1> QED BY <1>1, <1>2, <1>3, <1>4, <1>5, <1>6, <1>7, <1>8, <1>9, <1>10
        DEF Next, Process, Work, Put, Threads

LEMMA AwakeInvariance == Spec => []Awake
<1>1. Init => Awake
  BY ThreadsAssumption DEF Init, Awake, NoLostWakeup, Threads
<1>2. IInv /\ Awake /\ [Next]_vars => Awake'
  BY AwakeStep
<1> QED BY <1>1, <1>2, Invariance, PTL DEF Spec

\* No worker sleeps while its queue holds work, whatever fails: the wait
\* releases the queue lock that the append and the signal are made under.
THEOREM NoWakeupLost == Spec => []NoLostWakeup
<1>1. Awake => NoLostWakeup
  BY DEF Awake
<1> QED BY <1>1, AwakeInvariance, PTL

\* Without spurious wakeups and failing mallocs the missing loop around
\* pthread_cond_wait does no harm: a worker only goes on with work it unlinked.
THEOREM NoWorkStale ==
  ASSUME ~Spurious, ~MallocFails
  PROVE  Spec => []NoStaleWork
<1>1. Awake => NoStaleWork
  BY DEF Awake, NoStaleWork
<1> QED BY <1>1, AwakeInvariance, PTL

\* No freed work entry or buffer is ever used or waits in a queue, as long as no
\* worker was woken for nothing; and none ever is unless the wait returns
\* spuriously or a malloc fails.
THEOREM NoUseAfterFree == Spec => []UseSafe
<1>1. IInv => Kept
  BY InvKept
<1>2. Awake /\ ~NoStaleWork => Spurious \/ MallocFails
  BY FramesAssumption DEF Awake, NoStaleWork
<1>3. Kept /\ (~NoStaleWork => Spurious \/ MallocFails) => UseSafe
  BY DEF UseSafe
<1> QED BY <1>1, <1>2, <1>3, Invariance, AwakeInvariance, PTL

\* What a listener wraps in a work entry: requests, the responses it takes for one, and
\* what a read that failed left in the buffer.
Wrappable == {"request", "failed"} \cup (IF LittleEndian THEN {"response"} ELSE {})
Wrapped ==
  /\ \A i \in Listeners : pc[i] = "mkwork" => Kind[cur[i]] \in Wrappable
  /\ \A p \in Packets : rawbuf[p] # "unset" => Kind[p] \in Wrappable

LEMMA WrappedStep ==
  ASSUME IInv, Wrapped, [Next]_vars
  PROVE  Wrapped'
<1> USE ThreadsAssumption
<1>0. /\ TypeOK /\ Listeners \subseteq Threads /\ Devices \subseteq Threads
  BY DEF IInv, Threads
<1>1. ASSUME NEW i \in Listeners, NEW p \in Packets, Read(i, p) PROVE Wrapped'
  <2>1. rawbuf' = rawbuf /\ \A j \in Listeners : j # i => pc'[j] = pc[j] /\ cur'[j] = cur[j]
    BY <1>0, <1>1 DEF Read, TypeOK
  <2>2. pc'[i] = "mkwork" => cur'[i] = p /\ Kind[p] \in Wrappable
    <3>1. Kind[p] \in Kinds
      BY FramesAssumption
    <3> QED BY <1>0, <1>1, <3>1 DEF Read, AfterTests, SeenAsResponse, Kinds, TypeOK, Wrappable
  <2> QED BY <2>1, <2>2 DEF Wrapped
<1>2. ASSUME NEW i \in Listeners, MakeWork(i) PROVE Wrapped'
  <2>1. /\ cur' = cur /\ \A j \in Listeners : pc'[j] = "mkwork" => pc[j] = "mkwork"
        /\ \A p \in Packets : rawbuf'[p] # "unset" => rawbuf[p] # "unset" \/ p = cur[i]
        /\ pc[i] = "mkwork"
    BY <1>0, <1>2 DEF MakeWork, TypeOK
  <2> QED BY <2>1 DEF Wrapped
<1>3. ASSUME NEW i \in Listeners,
             \/ Drop(i) \/ MakeWorkFails(i) \/ UpPkt(i) \/ NextPass(i) \/ WalkDone(i)
             \/ \E d \in Devices : UpWork(i, d)
      PROVE  Wrapped'
  <2>1. rawbuf' = rawbuf /\ \A j \in Listeners : pc'[j] = "mkwork" => pc[j] = "mkwork" /\ cur'[j] = cur[j]
    BY <1>0, <1>3 DEF Drop, MakeWorkFails, UpPkt, NextPass, WalkDone, UpWork, TypeOK
  <2> QED BY <2>1 DEF Wrapped
<1>4. ASSUME NEW i \in Listeners, Insert(i) \/ InsertFails(i) PROVE Wrapped'
  <2>1. /\ rawbuf' = rawbuf /\ cur' = cur /\ pc' = Signalled(i, target[i])
        /\ target[i] \in Devices
    BY <1>4, Appending DEF Insert, InsertFails
  <2>2. \A j \in Listeners : pc'[j] = "mkwork" => pc[j] = "mkwork"
    BY <1>0, <2>1 DEF Signalled, TypeOK
  <2> QED BY <2>1, <2>2 DEF Wrapped
<1>5. ASSUME NEW t \in Threads, PktPut(t) \/ NullRaw(t) \/ WorkPut(t) PROVE Wrapped'
  <2>1. \A j \in Listeners : pc'[j] = "mkwork" => pc[j] = "mkwork" /\ cur'[j] = cur[j]
    BY <1>0, <1>5 DEF PktPut, NullRaw, WorkPut, TypeOK
  <2>2. pc[t] = "nullraw" => cur[t] \in Packets /\ rawbuf[cur[t]] # "unset"
    <3>1. ASSUME pc[t] = "nullraw" PROVE cur[t] \in Packets /\ cur[t] # None
      BY <3>1, Current DEF IInv, Idle
    <3> QED BY <3>1 DEF IInv, Places
  <2>3. \A p \in Packets : rawbuf'[p] # "unset" => rawbuf[p] # "unset"
    BY <1>0, <1>5, <2>2 DEF PktPut, NullRaw, WorkPut, TypeOK
  <2> QED BY <2>1, <2>3 DEF Wrapped
<1>6. ASSUME NEW d \in Devices,
             \/ Advertise(d) \/ Started(d) \/ Wait(d) \/ SpuriousWake(d)
             \/ Take(d) \/ TakeNothing(d) \/ Handle(d)
      PROVE  Wrapped'
  <2>1. rawbuf' = rawbuf
    BY <1>6 DEF Advertise, Started, Wait, SpuriousWake, Take, TakeNothing, Handle
  <2>2. \A j \in Listeners : pc'[j] = pc[j] /\ cur'[j] = cur[j]
    BY <1>0, <1>6 DEF Advertise, Started, Wait, SpuriousWake, Take, TakeNothing, Handle, TypeOK
  <2> QED BY <2>1, <2>2 DEF Wrapped
<1>7. CASE UNCHANGED vars
  BY <1>7 DEF vars, Wrapped
<1> QED BY <1>1, <1>2, <1>3, <1>4, <1>5, <1>6, <1>7 DEF Next, Process, Work, Put, Threads

\* In a big-endian build no response is ever queued: processpacket drops it.  (In a
\* little-endian build the mask it is tested with matches nothing.)
THEOREM NoResponseServed ==
  ASSUME ~LittleEndian
  PROVE  Spec => []ResponsesDropped
<1>1. Init => Wrapped
  BY DEF Init, Wrapped, Threads
<1>2. IInv /\ Wrapped /\ [Next]_vars => Wrapped'
  BY WrappedStep
<1>3. IInv /\ Wrapped => ResponsesDropped
  <2>1. ASSUME IInv, Wrapped, NEW d \in Devices, NEW e \in Elems(queue[d])
        PROVE  Kind[e[1]] # "response"
    <3>1. e \in Packets \X Passes
      <4>1. queue[d] \in Seq(Packets \X Passes)
        BY <2>1 DEF IInv, TypeOK
      <4> QED BY <4>1 DEF Elems
    <3>2. rawbuf[e[1]] # "unset"
      BY <2>1 DEF IInv, Entries
    <3> QED BY <2>1, <3>1, <3>2 DEF Wrapped, Wrappable
  <2> QED BY <2>1 DEF ResponsesDropped
<1> QED BY <1>1, <1>2, <1>3, Invariance, PTL DEF Spec

-----------------------------------------------------------------------------
(* The frames of a queue that one listener read, as Delivery sees them.      *)

\* g counts the members of N in increasing order.
InOrder(g, c, N) == /\ g \in [1..c -> N]
                    /\ \A n \in N : \E k \in 1..c : g[k] = n
                    /\ \A j, k \in 1..c : j < k => g[j] < g[k]

\* There is one way to do so: g[k] is the k-th smallest.
LEMMA Counted ==
  ASSUME NEW N \in SUBSET Nat, NEW c \in Nat, NEW g, InOrder(g, c, N)
  PROVE  /\ IsFiniteSet(N) /\ Cardinality(N) = c
         /\ \A k \in 1..c : Nth(N, k) = g[k]
<1>0. /\ g \in [1..c -> N]
      /\ \A n \in N : \E k \in 1..c : g[k] = n
      /\ \A j, k \in 1..c : j < k => g[j] < g[k]
  BY DEF InOrder
<1>1. /\ \A k \in 1..c : g[k] \in N /\ g[k] \in Nat
      /\ \A j, k \in 1..c : g[j] = g[k] => j = k
  <2>1. \A k \in 1..c : g[k] \in N
    BY <1>0
  <2>2. \A k \in 1..c : g[k] \in Nat
    BY <2>1
  <2>3. ASSUME NEW j \in 1..c, NEW k \in 1..c, g[j] = g[k] PROVE j = k
    <3>1. ~(j < k) /\ ~(k < j)
      BY <1>0, <2>2, <2>3
    <3> QED BY <3>1
  <2> QED BY <2>1, <2>2, <2>3
<1>2. IsFiniteSet(N) /\ Cardinality(N) = c
  <2>1. g \in Bijection(1..c, N)
    BY <1>0, <1>1 DEF Bijection, Injection, Surjection, IsInjective
  <2>2. IsFiniteSet(1..c) /\ Cardinality(1..c) = c
    BY FS_Interval
  <2> QED BY <2>1, <2>2, FS_Bijection DEF ExistsBijection
<1>3. ASSUME NEW k \in 1..c PROVE Cardinality({m \in N : m <= g[k]}) = k
  <2> DEFINE M == {m \in N : m <= g[k]}
             h == [j \in 1..k |-> g[j]]
  <2>1. h \in Bijection(1..k, M)
    <3>1. \A j \in 1..k : j \in 1..c /\ (j = k \/ j < k)
      OBVIOUS
    <3>2. \A j \in 1..k : g[j] \in M
      BY <1>0, <1>1, <3>1
    <3>3. \A m \in M : \E j \in 1..k : g[j] = m
      <4>1. ASSUME NEW m \in M PROVE \E j \in 1..k : g[j] = m
        <5>1. PICK j \in 1..c : g[j] = m
          BY <1>0
        <5>2. ~(k < j)
          BY <1>0, <1>1, <5>1
        <5> QED BY <5>1, <5>2
      <4> QED BY <4>1
    <3>4. \A i, j \in 1..k : g[i] = g[j] => i = j
      BY <1>1, <3>1
    <3> QED BY <3>2, <3>3, <3>4 DEF Bijection, Injection, Surjection, IsInjective
  <2>2. k \in Nat /\ IsFiniteSet(1..k) /\ Cardinality(1..k) = k
    BY FS_Interval
  <2> QED BY <2>1, <2>2, FS_Bijection DEF ExistsBijection
<1>4. ASSUME NEW k \in 1..c PROVE Nth(N, k) = g[k]
  <2>1. \A n \in N : Cardinality({m \in N : m <= n}) = k => n = g[k]
    BY <1>0, <1>1, <1>3
  <2>2. g[k] \in N /\ Cardinality({m \in N : m <= g[k]}) = k
    BY <1>1, <1>3
  <2> QED BY <2>1, <2>2 DEF Nth
<1> QED BY <1>2, <1>4

\* A finite set of numbers can be counted so.
LEMMA Countable ==
  ASSUME NEW N \in SUBSET Nat, IsFiniteSet(N)
  PROVE  /\ Cardinality(N) \in Nat
         /\ InOrder([k \in 1..Cardinality(N) |-> Nth(N, k)], Cardinality(N), N)
<1> DEFINE c == Cardinality(N)
           below(n) == {m \in N : m <= n}
           rank == [n \in N |-> Cardinality(below(n))]
<1>1. c \in Nat /\ IsFiniteSet(1..c) /\ Cardinality(1..c) = c
  BY FS_CardinalityType, FS_Interval
<1>2. ASSUME NEW n \in N
      PROVE  /\ IsFiniteSet(below(n)) /\ rank[n] \in 1..c
             /\ rank[n] = Cardinality(below(n))
  <2>1. below(n) \in SUBSET N /\ n \in below(n)
    OBVIOUS
  <2> HIDE DEF below
  <2>2. IsFiniteSet(below(n)) /\ Cardinality(below(n)) <= c
    BY <2>1, FS_Subset
  <2>3. Cardinality(below(n)) \in Nat /\ Cardinality(below(n)) # 0
    BY <2>1, <2>2, FS_CardinalityType, FS_EmptySet
  <2> QED BY <1>1, <2>2, <2>3
<1>3. ASSUME NEW m \in N, NEW n \in N, m < n PROVE rank[m] < rank[n]
  <2>1. below(m) \subseteq below(n) /\ n \in below(n) /\ n \notin below(m)
    <3>1. m \in Nat /\ n \in Nat /\ N \subseteq Nat
      OBVIOUS
    <3>2. \A x \in N : x <= m => x <= n
      BY <1>3, <3>1
    <3>3. ~(n <= m) /\ n <= n
      BY <1>3, <3>1
    <3>4. below(m) \subseteq below(n)
      BY <3>2
    <3> QED BY <3>3, <3>4
  <2> HIDE DEF below
  <2>2. /\ Cardinality(below(m)) <= Cardinality(below(n))
        /\ Cardinality(below(n)) = Cardinality(below(m)) => below(n) = below(m)
    BY <1>2, <2>1, FS_Subset
  <2>3. /\ rank[m] \in Nat /\ rank[n] \in Nat
        /\ rank[m] = Cardinality(below(m)) /\ rank[n] = Cardinality(below(n))
    BY <1>1, <1>2
  <2> HIDE DEF rank
  <2> QED BY <2>1, <2>2, <2>3
<1> HIDE DEF rank
<1>4. rank \in [N -> 1..c]
  BY <1>2 DEF rank
<1>5. \A m, n \in N : rank[m] = rank[n] => m = n
  <2>1. ASSUME NEW m \in N, NEW n \in N, rank[m] = rank[n] PROVE m = n
    <3>1. ~(m < n) /\ ~(n < m)
      BY <1>1, <1>3, <1>4, <2>1
    <3> QED BY <3>1
  <2> QED BY <2>1
<1>6. \A k \in 1..c : \E n \in N : rank[n] = k
  <2>1. rank \in Injection(N, 1..c)
    BY <1>4, <1>5 DEF Injection, IsInjective
  <2>2. rank \in Surjection(N, 1..c)
    BY <1>1, <2>1, FS_Injection
  <2> QED BY <2>2 DEF Surjection
<1>7. ASSUME NEW k \in 1..c PROVE Nth(N, k) \in N /\ rank[Nth(N, k)] = k
  <2>1. \A n \in N : rank[n] = Cardinality({m \in N : m <= n})
    BY <1>2
  <2>2. \E n \in N : Cardinality({m \in N : m <= n}) = k
    BY <1>6, <2>1
  <2>3. Nth(N, k) \in N /\ Cardinality({m \in N : m <= Nth(N, k)}) = k
    BY <2>2 DEF Nth
  <2> QED BY <2>1, <2>3
<1> DEFINE g == [k \in 1..c |-> Nth(N, k)]
<1>8. g \in [1..c -> N] /\ \A k \in 1..c : rank[g[k]] = k /\ g[k] \in N
  BY <1>7
<1> HIDE DEF g
<1>9. \A n \in N : \E k \in 1..c : g[k] = n
  BY <1>4, <1>5, <1>8
<1>10. ASSUME NEW j \in 1..c, NEW k \in 1..c, j < k PROVE g[j] < g[k]
  <2>1. rank[g[j]] = j /\ rank[g[k]] = k /\ g[j] \in N /\ g[k] \in N /\ g[j] \in Nat /\ g[k] \in Nat
    BY <1>8
  <2>2. ~(g[k] < g[j]) /\ g[j] # g[k]
    BY <1>1, <1>3, <1>10, <2>1
  <2> QED BY <2>1, <2>2
<1>11. InOrder(g, c, N)
  BY <1>8, <1>9, <1>10 DEF InOrder
<1> QED BY <1>1, <1>11 DEF g

\* The frames of A in a queue are read off at places counted in order.
LEMMA OnlyBy ==
  ASSUME NEW q \in Seq(Packets \X Passes), NEW A, NEW c \in Nat, NEW g,
         InOrder(g, c, At(q, A))
  PROVE  /\ Only(q, A) = [k \in 1..c |-> q[g[k]][1]]
         /\ Only(q, A) \in Seq(Packets) /\ Len(Only(q, A)) = c
<1>1. At(q, A) \in SUBSET Nat /\ At(q, A) \subseteq DOMAIN q
  <2>1. DOMAIN q = 1..Len(q)
    OBVIOUS
  <2> QED BY <2>1 DEF At
<1>2. Cardinality(At(q, A)) = c /\ \A k \in 1..c : Nth(At(q, A), k) = g[k]
  BY <1>1, Counted
<1>3. Only(q, A) = [k \in 1..c |-> q[g[k]][1]]
  BY <1>2 DEF Only
<1>4. \A k \in 1..c : q[g[k]][1] \in Packets
  <2>1. \A k \in 1..c : g[k] \in DOMAIN q
    BY <1>1 DEF InOrder
  <2>2. \A n \in DOMAIN q : q[n][1] \in Packets
    OBVIOUS
  <2> QED BY <2>1, <2>2
<1> QED BY <1>3, <1>4

\* Every queue has such places.
LEMMA OnlyCounted ==
  ASSUME NEW q \in Seq(Packets \X Passes), NEW A
  PROVE  \E c \in Nat : \E g : InOrder(g, c, At(q, A))
<1>1. DOMAIN q = 1..Len(q) /\ Len(q) \in Nat
  OBVIOUS
<1>2. IsFiniteSet(At(q, A)) /\ At(q, A) \in SUBSET Nat
  <2>1. At(q, A) \in SUBSET (1..Len(q))
    BY <1>1 DEF At
  <2>2. IsFiniteSet(1..Len(q))
    BY <1>1, FS_Interval
  <2> QED BY <2>1, <2>2, FS_Subset
<1>3. /\ Cardinality(At(q, A)) \in Nat
      /\ InOrder([k \in 1..Cardinality(At(q, A)) |-> Nth(At(q, A), k)],
                 Cardinality(At(q, A)), At(q, A))
  BY <1>2, Countable
<1> QED BY <1>3

LEMMA OnlyType ==
  ASSUME NEW q \in Seq(Packets \X Passes), NEW A
  PROVE  Only(q, A) \in Seq(Packets)
<1>1. PICK c \in Nat : \E g : InOrder(g, c, At(q, A))
  BY OnlyCounted
<1>2. PICK g : InOrder(g, c, At(q, A))
  BY <1>1
<1> QED BY <1>2, OnlyBy

\* insertwork: an entry with a frame of A comes last, another is not seen.
LEMMA OnlyAppend ==
  ASSUME NEW q \in Seq(Packets \X Passes), NEW e \in Packets \X Passes, NEW A
  PROVE  Only(Append(q, e), A) = IF e[1] \in A THEN Append(Only(q, A), e[1])
                                               ELSE Only(q, A)
<1> DEFINE s == Append(q, e)
           L == Len(q) + 1
<1>1. /\ s \in Seq(Packets \X Passes) /\ L \in Nat
      /\ DOMAIN s = DOMAIN q \cup {L} /\ s[L] = e /\ e[1] \in Packets
      /\ \A n \in DOMAIN q : s[n] = q[n] /\ n \in Nat /\ n < L
  OBVIOUS
<1>0. PICK c \in Nat : \E g : InOrder(g, c, At(q, A))
  BY OnlyCounted
<1>2. PICK g : InOrder(g, c, At(q, A))
  BY <1>0
<1>3. /\ Only(q, A) = [k \in 1..c |-> q[g[k]][1]]
      /\ Only(q, A) \in Seq(Packets) /\ Len(Only(q, A)) = c
  BY <1>2, OnlyBy
<1> HIDE DEF s, L
<1>4. /\ g \in [1..c -> At(q, A)]
      /\ \A n \in At(q, A) : \E k \in 1..c : g[k] = n
      /\ \A j, k \in 1..c : j < k => g[j] < g[k]
  BY <1>2 DEF InOrder
<1>5. \A k \in 1..c : g[k] \in DOMAIN q /\ s[g[k]] = q[g[k]]
  BY <1>1, <1>4 DEF At
<1>6. CASE e[1] \notin A
  <2>1. At(s, A) = At(q, A)
    BY <1>1, <1>6 DEF At
  <2>2. InOrder(g, c, At(s, A))
    BY <1>2, <2>1
  <2>3. Only(s, A) = [k \in 1..c |-> s[g[k]][1]]
    BY <1>1, <2>2, OnlyBy
  <2> QED BY <1>3, <1>5, <1>6, <2>3 DEF s
<1>7. CASE e[1] \in A
  <2> DEFINE h == [k \in 1..(c + 1) |-> IF k = c + 1 THEN L ELSE g[k]]
  <2>1. At(s, A) = At(q, A) \cup {L}
    BY <1>1, <1>7 DEF At
  <2>2. /\ c + 1 \in Nat /\ c + 1 \in 1..(c + 1)
        /\ \A k \in 1..(c + 1) : k # c + 1 => k \in 1..c
        /\ \A k \in 1..c : k \in 1..(c + 1) /\ k # c + 1
    OBVIOUS
  <2>0. h[c + 1] = L /\ \A k \in 1..c : h[k] = g[k]
    BY <2>2
  <2>3. InOrder(h, c + 1, At(s, A))
    <3>1. h \in [1..(c + 1) -> At(s, A)]
      BY <1>4, <2>1, <2>2
    <3>2. \A n \in At(s, A) : \E k \in 1..(c + 1) : h[k] = n
      BY <1>4, <2>0, <2>1, <2>2
    <3>3. ASSUME NEW j \in 1..(c + 1), NEW k \in 1..(c + 1), j < k PROVE h[j] < h[k]
      <4>1. j \in 1..c /\ h[j] = g[j]
        BY <3>3
      <4>2. g[j] < L
        BY <1>1, <1>5, <4>1
      <4>3. CASE k = c + 1
        BY <4>1, <4>2, <4>3
      <4>4. CASE k # c + 1
        BY <1>4, <2>2, <3>3, <4>1, <4>4
      <4> QED BY <4>3, <4>4
    <3> QED BY <3>1, <3>2, <3>3 DEF InOrder
  <2> HIDE DEF h
  <2>4. Only(s, A) = [k \in 1..(c + 1) |-> s[h[k]][1]] /\ Only(s, A) \in Seq(Packets)
    BY <1>1, <2>2, <2>3, OnlyBy
  <2>5. \A k \in 1..(c + 1) : s[h[k]][1] = IF k = c + 1 THEN e[1] ELSE Only(q, A)[k]
    BY <1>1, <1>3, <1>5, <2>0, <2>2
  <2>6. Append(Only(q, A), e[1]) = [k \in 1..(c + 1) |-> s[h[k]][1]]
    <3>1. /\ Append(Only(q, A), e[1]) \in Seq(Packets)
          /\ Len(Append(Only(q, A), e[1])) = c + 1
          /\ \A k \in 1..(c + 1) :
               Append(Only(q, A), e[1])[k] = IF k = c + 1 THEN e[1] ELSE Only(q, A)[k]
      BY <1>1, <1>3
    <3>2. /\ Append(Only(q, A), e[1])
               = [k \in 1..(c + 1) |-> Append(Only(q, A), e[1])[k]]
      BY <3>1
    <3> QED BY <2>5, <3>1, <3>2
  <2> QED BY <1>7, <2>4, <2>6 DEF s
<1> QED BY <1>6, <1>7

\* The worker unlinks the head: it was the first of A, or none of it.
LEMMA OnlyTail ==
  ASSUME NEW q \in Seq(Packets \X Passes), q # <<>>, NEW A
  PROVE  Only(q, A) = IF Head(q)[1] \in A THEN <<Head(q)[1]>> \o Only(Tail(q), A)
                                           ELSE Only(Tail(q), A)
<1> DEFINE s == Tail(q)
<1>1. /\ s \in Seq(Packets \X Passes) /\ Head(q) = q[1] /\ q[1][1] \in Packets
      /\ \A n \in DOMAIN s : s[n] = q[n + 1] /\ n + 1 \in DOMAIN q
      /\ \A n \in DOMAIN q : n # 1 => n - 1 \in DOMAIN s /\ s[n - 1] = q[n]
      /\ 1 \in DOMAIN q
      /\ DOMAIN s \subseteq Nat \ {0} /\ DOMAIN q \subseteq Nat \ {0}
  <2>1. /\ Len(q) \in Nat \ {0} /\ DOMAIN q = 1..Len(q)
        /\ s \in Seq(Packets \X Passes) /\ DOMAIN s = 1..(Len(q) - 1)
        /\ Head(q) = q[1] /\ \A n \in 1..(Len(q) - 1) : s[n] = q[n + 1]
    OBVIOUS
  <2>2. \A n \in DOMAIN q : q[n][1] \in Packets
    OBVIOUS
  <2> HIDE DEF s
  <2>3. \A n \in 1..Len(q) : n # 1 => n - 1 \in 1..(Len(q) - 1) /\ (n - 1) + 1 = n
    BY <2>1
  <2>4. \A n \in 1..(Len(q) - 1) : n + 1 \in 1..Len(q)
    BY <2>1
  <2>5. 1 \in 1..Len(q)
    BY <2>1
  <2> QED BY <2>1, <2>2, <2>3, <2>4, <2>5
<1> HIDE DEF s
<1>0. PICK c \in Nat : \E g : InOrder(g, c, At(s, A))
  BY <1>1, OnlyCounted
<1>2. PICK g : InOrder(g, c, At(s, A))
  BY <1>0
<1>3. /\ Only(s, A) = [k \in 1..c |-> s[g[k]][1]]
      /\ Only(s, A) \in Seq(Packets) /\ Len(Only(s, A)) = c
  BY <1>1, <1>2, OnlyBy
<1>4. /\ g \in [1..c -> At(s, A)]
      /\ \A n \in At(s, A) : \E k \in 1..c : g[k] = n
      /\ \A j, k \in 1..c : j < k => g[j] < g[k]
  BY <1>2 DEF InOrder
<1>5. \A k \in 1..c : /\ g[k] \in DOMAIN s /\ g[k] \in Nat \ {0}
                      /\ s[g[k]] = q[g[k] + 1] /\ g[k] + 1 \in At(q, A)
  BY <1>1, <1>4 DEF At
<1>6. \A n \in At(q, A) : n # 1 => \E k \in 1..c : n = g[k] + 1
  <2>1. ASSUME NEW n \in At(q, A), n # 1 PROVE \E k \in 1..c : n = g[k] + 1
    <3>1. n - 1 \in At(s, A) /\ n \in Nat
      BY <1>1, <2>1 DEF At
    <3>2. PICK k \in 1..c : g[k] = n - 1
      BY <1>4, <3>1
    <3> QED BY <3>1, <3>2
  <2> QED BY <2>1
<1>7. CASE q[1][1] \notin A
  <2> DEFINE h == [k \in 1..c |-> g[k] + 1]
  <2>1. InOrder(h, c, At(q, A))
    <3>1. h \in [1..c -> At(q, A)]
      BY <1>5
    <3>2. \A n \in At(q, A) : \E k \in 1..c : h[k] = n
      <4>1. 1 \notin At(q, A)
        BY <1>7 DEF At
      <4> QED BY <1>6, <4>1
    <3>3. \A j, k \in 1..c : j < k => h[j] < h[k]
      BY <1>4, <1>5
    <3> QED BY <3>1, <3>2, <3>3 DEF InOrder
  <2>2. \A k \in 1..c : q[h[k]][1] = s[g[k]][1]
    BY <1>5
  <2> HIDE DEF h
  <2>3. Only(q, A) = [k \in 1..c |-> q[h[k]][1]]
    BY <2>1, OnlyBy
  <2> QED BY <1>1, <1>3, <1>7, <2>2, <2>3 DEF s
<1>8. CASE q[1][1] \in A
  <2> DEFINE h == [k \in 1..(c + 1) |-> IF k = 1 THEN 1 ELSE g[k - 1] + 1]
  <2>1. /\ c + 1 \in Nat /\ 1 \in 1..(c + 1)
        /\ \A k \in 1..(c + 1) : k # 1 => k - 1 \in 1..c
        /\ \A k \in 1..c : k + 1 \in 1..(c + 1) /\ k + 1 # 1 /\ (k + 1) - 1 = k
    OBVIOUS
  <2>2. h[1] = 1 /\ \A k \in 1..(c + 1) : k # 1 => h[k] = g[k - 1] + 1
    BY <2>1
  <2>3. 1 \in At(q, A)
    BY <1>1, <1>8 DEF At
  <2>4. InOrder(h, c + 1, At(q, A))
    <3>1. h \in [1..(c + 1) -> At(q, A)]
      BY <1>5, <2>1, <2>3
    <3>2. \A n \in At(q, A) : \E k \in 1..(c + 1) : h[k] = n
      <4>1. ASSUME NEW n \in At(q, A), n # 1 PROVE \E k \in 1..(c + 1) : h[k] = n
        <5>1. PICK k \in 1..c : n = g[k] + 1
          BY <1>6, <4>1
        <5>2. h[k + 1] = n
          BY <2>1, <2>2, <5>1
        <5> QED BY <2>1, <5>2
      <4> QED BY <2>1, <2>2, <4>1
    <3>3. ASSUME NEW j \in 1..(c + 1), NEW k \in 1..(c + 1), j < k PROVE h[j] < h[k]
      <4>1. k # 1 /\ k - 1 \in 1..c /\ h[k] = g[k - 1] + 1 /\ g[k - 1] \in Nat \ {0}
        BY <1>5, <2>1, <2>2, <3>3
      <4>2. CASE j = 1
        BY <2>2, <4>1, <4>2
      <4>3. CASE j # 1
        <5>1. j - 1 \in 1..c /\ j - 1 < k - 1 /\ h[j] = g[j - 1] + 1 /\ g[j - 1] \in Nat
          BY <1>5, <2>1, <2>2, <3>3, <4>3
        <5>2. g[j - 1] < g[k - 1]
          BY <1>4, <4>1, <5>1
        <5> QED BY <4>1, <5>1, <5>2
      <4> QED BY <4>2, <4>3
    <3> HIDE DEF h
    <3> QED BY <3>1, <3>2, <3>3 DEF InOrder
  <2> HIDE DEF h
  <2>5. Only(q, A) = [k \in 1..(c + 1) |-> q[h[k]][1]]
    BY <2>1, <2>4, OnlyBy
  <2>6. \A k \in 1..(c + 1) : q[h[k]][1] = IF k = 1 THEN q[1][1] ELSE Only(s, A)[k - 1]
    BY <1>3, <1>5, <2>1, <2>2
  <2>7. <<q[1][1]>> \o Only(s, A)
          = [k \in 1..(c + 1) |-> IF k = 1 THEN q[1][1] ELSE Only(s, A)[k - 1]]
    BY <1>1, <1>3
  <2>8. Only(q, A) = <<q[1][1]>> \o Only(s, A)
    BY <2>5, <2>6, <2>7
  <2> QED BY <1>1, <1>8, <2>8 DEF s
<1> QED BY <1>7, <1>8

\* Only the frames that are in the queue count.
LEMMA OnlySame ==
  ASSUME NEW q, NEW A, NEW B, \A e \in Elems(q) : e[1] \in A <=> e[1] \in B
  PROVE  Only(q, A) = Only(q, B)
<1>1. At(q, A) = At(q, B)
  BY DEF At, Elems
<1> QED BY <1>1 DEF Only

\* An empty queue holds none.
LEMMA OnlyEmpty ==
  ASSUME NEW A
  PROVE  Only(<<>>, A) = <<>>
<1>1. At(<<>>, A) = {}
  <2>1. DOMAIN <<>> = {}
    OBVIOUS
  <2> QED BY <2>1 DEF At
<1>2. Only(<<>>, A) = [k \in 1..0 |-> (<<>>)[Nth({}, k)][1]]
  BY <1>1, FS_EmptySet DEF Only
<1> QED BY <1>2

-----------------------------------------------------------------------------
(* Dispatch does what RequestDelivery allows.                                *)

\* The three parts of a line are sequences of frames.
LEMMA LineParts ==
  ASSUME IInv, NEW i \in Listeners, NEW d \in Devices
  PROVE  /\ Taken(i, d) \in Seq(Packets)
         /\ Queued(i, d) \in Seq(Packets)
         /\ ToCome(i, d) \in Seq(Packets)
<1>0. /\ TypeOK /\ i \in Threads /\ d \in Threads
      /\ \A t \in Threads : pc[t] \notin Idle => cur[t] \in Packets
  BY Current DEF IInv, Threads
<1>1. Taken(i, d) \in Seq(Packets)
  <2>1. pc[d] = "handle" => cur[d] \in Packets
    BY <1>0 DEF Idle
  <2> QED BY <2>1 DEF Taken, Times
<1>2. Queued(i, d) \in Seq(Packets)
  <2>1. queue[d] \in Seq(Packets \X Passes)
    BY <1>0 DEF TypeOK
  <2> QED BY <2>1, OnlyType DEF Queued
<1>3. ToCome(i, d) \in Seq(Packets)
  <2>1. CASE pc[i] \in Walking
    <3>1. cur[i] \in Packets
      BY <1>0, <2>1 DEF Walking, Idle
    <3>2. Times(d \in todo[i], cur[i]) \in Seq(Packets)
      BY <3>1 DEF Times
    <3>3. Times(pass[i] = 1 /\ Addr[cur[i]] = Broadcast, cur[i]) \in Seq(Packets)
      BY <3>1 DEF Times
    <3> QED BY <2>1, <3>2, <3>3 DEF ToCome
  <2>2. CASE pc[i] \notin Walking
    BY <2>2 DEF ToCome
  <2> QED BY <2>1, <2>2
<1> QED BY <1>1, <1>2, <1>3

\* A queue that is left alone shows what it showed.
LEMMA QueuedKept ==
  ASSUME NEW i \in Listeners, NEW d \in Devices, queue'[d] = queue[d], rxif' = rxif
  PROVE  Queued(i, d)' = Queued(i, d)
BY DEF Queued, ReadBy

LEMMA LineKept ==
  ASSUME NEW i \in Listeners, NEW d \in Devices,
         Taken(i, d)' = Taken(i, d), Queued(i, d)' = Queued(i, d),
         ToCome(i, d)' = ToCome(i, d)
  PROVE  Line(i, d)' = Line(i, d)
BY DEF Line

\* A step that changes no line, accepts nothing and serves nothing is not seen.
LEMMA Unseen ==
  ASSUME \A i \in Listeners, d \in Devices : Line(i, d)' = Line(i, d),
         \A p \in Packets : rawbuf'[p] = "unset" <=> rawbuf[p] = "unset",
         served' = served
  PROVE  UNCHANGED Promise!vars
<1>1. [i \in Listeners |-> [d \in Devices |-> Line(i, d)]]'
        = [i \in Listeners |-> [d \in Devices |-> Line(i, d)]]
  OBVIOUS
<1>2. {p \in Packets : rawbuf[p] # "unset"}' = {p \in Packets : rawbuf[p] # "unset"}
  OBVIOUS
<1> QED BY <1>1, <1>2 DEF Promise!vars

\* What is due to a device when a frame is wrapped: as often as Due says.
LEMMA Becomes ==
  ASSUME NEW p \in Packets, NEW d \in Devices
  PROVE  Times(d \in Matches(p, 1), p) \o Times(Addr[p] = Broadcast, p)
           = [n \in 1..Copies[p][d] |-> p]
<1>1. Copies[p][d] = Due(p, d)
  BY DEF Copies
<1>2. d \in Matches(p, 1) <=> DevAddr[d] = Addr[p]
  BY DEF Matches
<1>3. CASE DevAddr[d] = Addr[p] /\ Addr[p] = Broadcast
  <2>1. Copies[p][d] = 2
    BY <1>1, <1>3 DEF Due
  <2> QED BY <1>2, <1>3, <2>1 DEF Times
<1>4. CASE DevAddr[d] = Addr[p] /\ Addr[p] # Broadcast
  <2>1. Copies[p][d] = 1
    BY <1>1, <1>4 DEF Due
  <2> QED BY <1>2, <1>4, <2>1 DEF Times
<1>5. CASE DevAddr[d] # Addr[p] /\ Addr[p] = Broadcast
  <2>1. Copies[p][d] = 1
    BY <1>1, <1>5 DEF Due
  <2> QED BY <1>2, <1>5, <2>1 DEF Times
<1>6. CASE DevAddr[d] # Addr[p] /\ Addr[p] # Broadcast
  <2>1. Copies[p][d] = 0
    BY <1>1, <1>6 DEF Due
  <2> QED BY <1>2, <1>6, <2>1 DEF Times
<1> QED BY <1>3, <1>4, <1>5, <1>6

\* A line before and after an append: taken, queued, what is appended, still to come.
Before(t, q, p, c) == (t \o q) \o (<<p>> \o c)
After(t, q, p, c)  == (t \o Append(q, p)) \o (<<>> \o c)

\* An entry moves from the walk to the queue, and the line stays what it was.
LEMMA Shift ==
  ASSUME NEW S, NEW t \in Seq(S), NEW q \in Seq(S), NEW c \in Seq(S), NEW p \in S
  PROVE  After(t, q, p, c) = Before(t, q, p, c)
<1> DEFINE a == (t \o Append(q, p)) \o (<<>> \o c)
           b == (t \o q) \o (<<p>> \o c)
<1>1. /\ a \in Seq(S) /\ b \in Seq(S)
      /\ Len(a) = Len(t) + Len(q) + 1 + Len(c) /\ Len(b) = Len(a)
      /\ Len(t) \in Nat /\ Len(q) \in Nat /\ Len(c) \in Nat
  OBVIOUS
<1>2. \A n \in 1..Len(a) :
        a[n] = IF n <= Len(t) THEN t[n]
               ELSE IF n <= Len(t) + Len(q) THEN q[n - Len(t)]
               ELSE IF n = Len(t) + Len(q) + 1 THEN p
               ELSE c[n - (Len(t) + Len(q) + 1)]
  OBVIOUS
<1>3. \A n \in 1..Len(a) :
        b[n] = IF n <= Len(t) THEN t[n]
               ELSE IF n <= Len(t) + Len(q) THEN q[n - Len(t)]
               ELSE IF n = Len(t) + Len(q) + 1 THEN p
               ELSE c[n - (Len(t) + Len(q) + 1)]
  OBVIOUS
<1> HIDE DEF a, b
<1>4. a = b
  <2>1. \A n \in 1..Len(a) : a[n] = b[n]
    BY <1>2, <1>3
  <2>2. a = [n \in 1..Len(a) |-> a[n]] /\ b = [n \in 1..Len(b) |-> b[n]]
    BY <1>1
  <2> QED BY <1>1, <2>1, <2>2
<1> QED BY <1>4 DEF a, b, Before, After

\* The head of a queue moves to the worker.
LEMMA Forward ==
  ASSUME NEW S, NEW q \in Seq(S), NEW c \in Seq(S), NEW p \in S
  PROVE  /\ (<<p>> \o q) \o c = (<<>> \o (<<p>> \o q)) \o c
         /\ (<<p>> \o q) \o c # <<>>
         /\ Head((<<p>> \o q) \o c) = p
         /\ Tail((<<p>> \o q) \o c) = (<<>> \o q) \o c
OBVIOUS

-----------------------------------------------------------------------------
\* Steps of the list walk that take nothing out of it, of qaoed_workdestroy and
\* of a worker around its queue change nothing a client could see.
LEMMA QuietSteps ==
  ASSUME IInv,
         \/ \E i \in Listeners :
              \/ Drop(i) \/ UpPkt(i) \/ WalkDone(i) \/ NextPass(i)
              \/ \E d \in Devices : UpWork(i, d)
         \/ \E t \in Threads : Put(t)
         \/ \E d \in Devices : \/ Advertise(d) \/ Started(d) \/ Wait(d)
                                \/ SpuriousWake(d) \/ TakeNothing(d)
  PROVE  UNCHANGED Promise!vars
<1> USE ThreadsAssumption
<1>0. /\ TypeOK /\ Places /\ Listeners \subseteq Threads /\ Devices \subseteq Threads
      /\ \A t \in Threads : pc[t] \notin Idle => cur[t] \in Packets /\ cur[t] # None
  BY Current DEF IInv, Threads
<1>1. queue' = queue /\ rxif' = rxif /\ served' = served
  BY DEF Drop, UpPkt, WalkDone, NextPass, UpWork, Put, PktPut, NullRaw, WorkPut,
         Advertise, Started, Wait, SpuriousWake, TakeNothing
<1>2. \A d \in Devices :
        /\ pc'[d] = "handle" <=> pc[d] = "handle"
        /\ pc[d] = "handle" => cur'[d] = cur[d]
  BY <1>0 DEF Drop, UpPkt, WalkDone, NextPass, UpWork, Put, PktPut, NullRaw, WorkPut,
         Advertise, Started, Wait, SpuriousWake, TakeNothing, TypeOK
<1>3. ASSUME NEW i \in Listeners, NEW d \in Devices PROVE ToCome(i, d)' = ToCome(i, d)
  <2>1. CASE \E j \in Listeners : WalkDone(j)
    <3>1. PICK j \in Listeners : WalkDone(j)
      BY <2>1
    <3>2. CASE i = j
      <4>1. /\ pc[i] \in Walking /\ todo[i] = {} /\ pass[i] = 2 /\ pc'[i] \notin Walking
        BY <1>0, <3>1, <3>2 DEF WalkDone, Walking, TypeOK
      <4> QED BY <4>1 DEF ToCome, Times
    <3>3. CASE i # j
      <4>1. pc'[i] = pc[i] /\ cur' = cur /\ todo' = todo /\ pass' = pass
        BY <1>0, <3>1, <3>3 DEF WalkDone, local, TypeOK
      <4> QED BY <4>1 DEF ToCome, Times
    <3> QED BY <3>2, <3>3
  <2>2. CASE \E j \in Listeners : NextPass(j)
    <3>1. PICK j \in Listeners : NextPass(j)
      BY <2>2
    <3>2. CASE i = j
      <4>1. /\ pc[i] \in Walking /\ todo[i] = {} /\ pass[i] = 1 /\ pc' = pc /\ cur' = cur
            /\ pass'[i] = 2 /\ todo'[i] = Matches(cur[i], 2)
        BY <1>0, <3>1, <3>2 DEF NextPass, Walking, TypeOK
      <4>2. d \in todo'[i] <=> Addr[cur[i]] = Broadcast
        BY <4>1 DEF Matches
      <4> QED BY <4>1, <4>2 DEF ToCome, Times
    <3>3. CASE i # j
      <4>1. pc' = pc /\ cur' = cur /\ todo'[i] = todo[i] /\ pass'[i] = pass[i]
        BY <1>0, <3>1, <3>3 DEF NextPass, TypeOK
      <4> QED BY <4>1 DEF ToCome, Times
    <3> QED BY <3>2, <3>3
  <2>3. CASE ~(\E j \in Listeners : WalkDone(j) \/ NextPass(j))
    <3>1. /\ pc'[i] \in Walking <=> pc[i] \in Walking
          /\ pc[i] \in Walking => cur'[i] = cur[i]
          /\ todo' = todo /\ pass' = pass
      BY <1>0, <2>3 DEF Drop, UpPkt, UpWork, Put, PktPut, NullRaw, WorkPut, local,
            Advertise, Started, Wait, SpuriousWake, TakeNothing, TypeOK, Walking
    <3> QED BY <3>1 DEF ToCome, Times
  <2> QED BY <2>1, <2>2, <2>3
<1>4. \A p \in Packets : rawbuf'[p] = "unset" <=> rawbuf[p] = "unset"
  <2>1. \A t \in Threads : pc[t] = "nullraw" => cur[t] \in Packets /\ rawbuf[cur[t]] # "unset"
    BY <1>0 DEF Places, Idle
  <2> QED BY <1>0, <2>1 DEF Drop, UpPkt, WalkDone, NextPass, UpWork, Put, PktPut, NullRaw,
        WorkPut, Advertise, Started, Wait, SpuriousWake, TakeNothing, TypeOK
<1>5. ASSUME NEW i \in Listeners, NEW d \in Devices PROVE Line(i, d)' = Line(i, d)
  <2>1. Taken(i, d)' = Taken(i, d)
    BY <1>1, <1>2 DEF Taken, Times
  <2> QED BY <1>1, <1>3, <2>1, QueuedKept, LineKept
<1> QED BY <1>1, <1>4, <1>5, Unseen

\* Every queue and every worker holds frames that a listener read and wrapped.
LEMMA QueuedRead ==
  ASSUME IInv, NEW d \in Devices
  PROVE  /\ queue[d] \in Seq(Packets \X Passes)
         /\ \A e \in Elems(queue[d]) : e \in Packets \X Passes /\ rxif[e[1]] \in Listeners
         /\ pc[d] = "handle" => cur[d] \in Packets /\ rxif[cur[d]] \in Listeners
<1>0. TypeOK /\ Places /\ Entries /\ d \in Threads
  BY DEF IInv, Threads
<1>1. queue[d] \in Seq(Packets \X Passes)
  BY <1>0 DEF TypeOK
<1>2. \A p \in Packets : rawbuf[p] # "unset" => rxif[p] \in Listeners
  BY <1>0 DEF Places, TypeOK
<1>3. \A e \in Elems(queue[d]) : e \in Packets \X Passes
  BY <1>1 DEF Elems
<1>4. \A e \in Elems(queue[d]) : rxif[e[1]] \in Listeners
  BY <1>0, <1>2, <1>3 DEF Entries
<1>5. pc[d] = "handle" => cur[d] \in Packets /\ cur[d] # None
  BY <1>0, ThreadsAssumption, Current DEF Idle
<1> QED BY <1>0, <1>1, <1>2, <1>3, <1>4, <1>5 DEF Places

\* A frame that is read is not yet seen: it may be one to drop.
LEMMA ReadUnseen ==
  ASSUME IInv, NEW i \in Listeners, NEW p \in Packets, Read(i, p)
  PROVE  UNCHANGED Promise!vars
<1> USE ThreadsAssumption
<1>0. TypeOK /\ Listeners \subseteq Threads /\ Devices \subseteq Threads /\ None \notin Listeners
  BY DEF IInv, Threads
<1>1. /\ queue' = queue /\ rawbuf' = rawbuf /\ served' = served /\ rxif[p] = None
      /\ \A x \in Packets : x # p => rxif'[x] = rxif[x]
      /\ \A j \in Listeners : pc'[j] \in Walking <=> pc[j] \in Walking
      /\ \A j \in Listeners : pc[j] \in Walking =>
           cur'[j] = cur[j] /\ todo'[j] = todo[j] /\ pass'[j] = pass[j]
      /\ \A d \in Devices : pc'[d] = pc[d] /\ cur'[d] = cur[d]
  BY <1>0 DEF Read, AfterTests, TypeOK, Walking, local
<1>2. ASSUME NEW j \in Listeners, NEW d \in Devices PROVE Line(j, d)' = Line(j, d)
  <2>1. Taken(j, d)' = Taken(j, d)
    <3>1. pc[d] = "handle" => rxif'[cur[d]] = rxif[cur[d]]
      BY <1>0, <1>1, QueuedRead
    <3> QED BY <1>1, <3>1 DEF Taken, Times
  <2>2. Queued(j, d)' = Queued(j, d)
    <3>1. \A e \in Elems(queue[d]) : e[1] \in ReadBy(j)' <=> e[1] \in ReadBy(j)
      <4>1. \A e \in Elems(queue[d]) : e[1] \in Packets /\ rxif[e[1]] # None
        BY <1>0, QueuedRead
      <4> QED BY <1>1, <4>1 DEF ReadBy
    <3>2. Only(queue[d], ReadBy(j)') = Only(queue[d], ReadBy(j))
      BY <3>1, OnlySame
    <3> QED BY <1>1, <3>2 DEF Queued
  <2>3. ToCome(j, d)' = ToCome(j, d)
    BY <1>1 DEF ToCome, Times
  <2> QED BY <2>1, <2>2, <2>3, LineKept
<1> QED BY <1>1, <1>2, Unseen

\* The frame is accepted when it is wrapped: due at every device the two loops will
\* reach, once or twice.
LEMMA MakeWorkAccepts ==
  ASSUME IInv, NEW i \in Listeners, MakeWork(i)
  PROVE  \E r \in Packets : Promise!Accept(i, r)
<1> USE ThreadsAssumption
<1> DEFINE pend == [j \in Listeners |-> [d \in Devices |-> Line(j, d)]]
<1>0. TypeOK /\ Places /\ Listeners \subseteq Threads /\ Devices \subseteq Threads
  BY DEF IInv, Threads
<1>1. PICK p \in Packets : p = cur[i] /\ rawbuf[p] = "unset" /\ pc[i] = "mkwork"
  <2>1. pc[i] = "mkwork" /\ i \in Threads
    BY <1>0 DEF MakeWork
  <2>2. cur[i] \in Packets /\ cur[i] # None
    BY <2>1, Current DEF IInv, Idle
  <2> QED BY <1>0, <2>1, <2>2 DEF Places
<1>2. /\ queue' = queue /\ rxif' = rxif /\ cur' = cur /\ served' = served
      /\ rawbuf' = [rawbuf EXCEPT ![p] = "pkt"]
      /\ pc'[i] = "walk" /\ pass'[i] = 1 /\ todo'[i] = Matches(p, 1)
      /\ \A j \in Listeners : j # i =>
           pc'[j] = pc[j] /\ todo'[j] = todo[j] /\ pass'[j] = pass[j]
      /\ \A d \in Devices : pc'[d] = pc[d]
  BY <1>0, <1>1 DEF MakeWork, TypeOK
<1>3. \A j \in Listeners, d \in Devices :
        Taken(j, d)' = Taken(j, d) /\ Queued(j, d)' = Queued(j, d)
  BY <1>2, QueuedKept DEF Taken, Times
<1>4. ASSUME NEW j \in Listeners, j # i, NEW d \in Devices PROVE Line(j, d)' = Line(j, d)
  <2>1. ToCome(j, d)' = ToCome(j, d)
    BY <1>2, <1>4 DEF ToCome, Times
  <2> QED BY <1>3, <2>1, LineKept
<1>5. ASSUME NEW d \in Devices
      PROVE  Line(i, d)' = Line(i, d) \o [n \in 1..Copies[p][d] |-> p]
  <2>1. ToCome(i, d) = <<>>
    BY <1>1 DEF ToCome, Walking
  <2>2. ToCome(i, d)' = Times(d \in Matches(p, 1), p) \o Times(Addr[p] = Broadcast, p)
    BY <1>1, <1>2 DEF ToCome, Walking, Times
  <2>3. ToCome(i, d)' = [n \in 1..Copies[p][d] |-> p]
    BY <1>1, <2>2, Becomes
  <2>4. Taken(i, d) \o Queued(i, d) \in Seq(Packets)
    BY LineParts
  <2>5. Line(i, d) = Taken(i, d) \o Queued(i, d)
    BY <2>1, <2>4 DEF Line
  <2> QED BY <1>3, <2>3, <2>5 DEF Line
<1>6. {x \in Packets : rawbuf'[x] # "unset"} = {x \in Packets : rawbuf[x] # "unset"} \cup {p}
  BY <1>0, <1>1, <1>2 DEF TypeOK
<1>7. pend' = [pend EXCEPT ![i] = [d \in Devices |-> @[d] \o [n \in 1..Copies[p][d] |-> p]]]
  <2>1. pend[i] = [d \in Devices |-> Line(i, d)]
    OBVIOUS
  <2>2. [d \in Devices |-> Line(i, d)']
          = [d \in Devices |-> pend[i][d] \o [n \in 1..Copies[p][d] |-> p]]
    BY <1>5, <2>1
  <2>3. \A j \in Listeners : j # i => [d \in Devices |-> Line(j, d)'] = pend[j]
    BY <1>4
  <2>4. pend' = [j \in Listeners |-> [d \in Devices |-> Line(j, d)']]
    OBVIOUS
  <2>5. pend = [j \in Listeners |-> pend[j]]
    OBVIOUS
  <2> HIDE DEF pend
  <2> QED BY <2>2, <2>3, <2>4, <2>5
<1>8. Promise!Accept(i, p)
  BY <1>1, <1>2, <1>6, <1>7 DEF Promise!Accept
<1> QED BY <1>1, <1>8

\* An append moves a frame from what is to come to what is queued.
LEMMA InsertUnseen ==
  ASSUME IInv, NEW i \in Listeners, Insert(i)
  PROVE  UNCHANGED Promise!vars
<1> USE ThreadsAssumption
<1>0. TypeOK /\ Places /\ Listeners \subseteq Threads /\ Devices \subseteq Threads
  BY DEF IInv, Threads
<1>1. PICK d \in Devices, p \in Packets, e \in Packets \X Passes :
        /\ d = target[i] /\ p = cur[i] /\ pc[i] = "insert" /\ d # i /\ d \in todo[i]
        /\ p # None /\ e = <<p, pass[i]>> /\ e[1] = p
  <2>1. pc[i] = "insert"
    BY DEF Insert
  <2>2. /\ target[i] \in Devices /\ target[i] # i /\ target[i] \in todo[i]
        /\ cur[i] \in Packets /\ pass[i] \in Passes
    BY <2>1, Appending
  <2>3. /\ cur[i] # None /\ <<cur[i], pass[i]>> \in Packets \X Passes
        /\ <<cur[i], pass[i]>>[1] = cur[i]
    BY <2>2
  <2> QED BY <2>1, <2>2, <2>3
<1> DEFINE last == Times(pass[i] = 1 /\ Addr[p] = Broadcast, p)
<1>2. rxif[p] = i
  BY <1>0, <1>1 DEF Places
<1>3. /\ rxif' = rxif /\ rawbuf' = rawbuf /\ served' = served /\ cur' = cur /\ pass' = pass
      /\ queue'[d] = Append(queue[d], e)
      /\ \A x \in Devices : x # d => queue'[x] = queue[x]
      /\ todo'[i] = todo[i] \ {d} /\ \A j \in Listeners : j # i => todo'[j] = todo[j]
      /\ pc'[i] = "walk" /\ \A j \in Listeners : j # i => pc'[j] = pc[j]
      /\ \A x \in Devices : pc'[x] = "handle" <=> pc[x] = "handle"
  BY <1>0, <1>1 DEF Insert, Signalled, TypeOK
<1>4. \A j \in Listeners, x \in Devices : Taken(j, x)' = Taken(j, x)
  BY <1>3 DEF Taken, Times
<1>5. ASSUME NEW j \in Listeners, NEW x \in Devices, j # i \/ x # d
      PROVE  Line(j, x)' = Line(j, x)
  <2>1. ToCome(j, x)' = ToCome(j, x)
    BY <1>1, <1>3, <1>5 DEF ToCome, Times, Walking
  <2>2. Queued(j, x)' = Queued(j, x)
    <3>1. CASE x # d
      BY <1>3, <3>1, QueuedKept
    <3>2. CASE x = d /\ j # i
      <4>1. p \notin ReadBy(j)
        BY <1>2, <3>2 DEF ReadBy
      <4>2. queue[d] \in Seq(Packets \X Passes)
        BY <1>1, QueuedRead
      <4>3. Only(Append(queue[d], e), ReadBy(j)) = Only(queue[d], ReadBy(j))
        BY <1>1, <4>1, <4>2, OnlyAppend
      <4> QED BY <1>3, <3>2, <4>3 DEF Queued, ReadBy
    <3> QED BY <1>5, <3>1, <3>2
  <2> QED BY <1>4, <2>1, <2>2, LineKept
<1>6. Line(i, d)' = Line(i, d)
  <2>1. ToCome(i, d) = <<p>> \o last
    BY <1>1 DEF ToCome, Times, Walking
  <2>2. ToCome(i, d)' = <<>> \o last
    BY <1>1, <1>3 DEF ToCome, Times, Walking
  <2>3. Queued(i, d)' = Append(Queued(i, d), p)
    <3>1. p \in ReadBy(i) /\ ReadBy(i)' = ReadBy(i)
      BY <1>1, <1>2, <1>3 DEF ReadBy
    <3>2. queue[d] \in Seq(Packets \X Passes)
      BY <1>1, QueuedRead
    <3>3. Only(Append(queue[d], e), ReadBy(i)) = Append(Only(queue[d], ReadBy(i)), p)
      BY <1>1, <3>1, <3>2, OnlyAppend
    <3> QED BY <1>3, <3>1, <3>3 DEF Queued
  <2>4. /\ Taken(i, d) \in Seq(Packets) /\ Queued(i, d) \in Seq(Packets)
        /\ last \in Seq(Packets)
    BY <1>1, LineParts DEF Times
  <2> HIDE DEF last
  <2>5. After(Taken(i, d), Queued(i, d), p, last) = Before(Taken(i, d), Queued(i, d), p, last)
    BY <2>4, Shift
  <2>6. Taken(i, d)' = Taken(i, d)
    BY <1>1, <1>4
  <2>7. Line(i, d)' = After(Taken(i, d), Queued(i, d), p, last)
    BY <2>2, <2>3, <2>6 DEF Line, After
  <2>8. Line(i, d) = Before(Taken(i, d), Queued(i, d), p, last)
    BY <2>1 DEF Line, Before
  <2> QED BY <2>5, <2>7, <2>8
<1> QED BY <1>3, <1>5, <1>6, Unseen

\* The worker unlinks an entry: it is still due, and still first.
LEMMA TakeUnseen ==
  ASSUME IInv, NEW d \in Devices, Take(d)
  PROVE  UNCHANGED Promise!vars
<1> USE ThreadsAssumption
<1> DEFINE p == Head(queue[d])[1]
<1>0. TypeOK /\ Listeners \subseteq Threads /\ Devices \subseteq Threads
  BY DEF IInv, Threads
<1>1. /\ queue[d] \in Seq(Packets \X Passes) /\ queue[d] # <<>> /\ p \in Packets
      /\ Tail(queue[d]) \in Seq(Packets \X Passes)
  <2>1. queue[d] \in Seq(Packets \X Passes) /\ queue[d] # <<>>
    BY <1>0 DEF Take, TypeOK
  <2> QED BY <2>1
<1>2. /\ rxif' = rxif /\ rawbuf' = rawbuf /\ served' = served /\ pass' = pass /\ todo' = todo
      /\ queue'[d] = Tail(queue[d]) /\ \A x \in Devices : x # d => queue'[x] = queue[x]
      /\ pc[d] # "handle" /\ pc'[d] = "handle" /\ cur'[d] = p
      /\ \A x \in Devices : x # d => pc'[x] = pc[x] /\ cur'[x] = cur[x]
      /\ \A j \in Listeners : pc'[j] = pc[j] /\ cur'[j] = cur[j]
  BY <1>0 DEF Take, TypeOK, local
<1>3. ASSUME NEW j \in Listeners, NEW x \in Devices PROVE ToCome(j, x)' = ToCome(j, x)
  BY <1>2 DEF ToCome, Times
<1>4. ASSUME NEW j \in Listeners, NEW x \in Devices PROVE Line(j, x)' = Line(j, x)
  <2>1. CASE x # d
    <3>1. Taken(j, x)' = Taken(j, x)
      BY <1>2, <2>1 DEF Taken, Times
    <3>2. Queued(j, x)' = Queued(j, x)
      BY <1>2, <2>1, QueuedKept
    <3> QED BY <1>3, <3>1, <3>2, LineKept
  <2>2. CASE x = d
    <3>1. /\ Taken(j, d) = <<>>
          /\ Taken(j, d)' = IF rxif[p] = j THEN <<p>> ELSE <<>>
      BY <1>2 DEF Taken, Times
    <3>2. Queued(j, d) = IF p \in ReadBy(j) THEN <<p>> \o Only(Tail(queue[d]), ReadBy(j))
                                            ELSE Only(Tail(queue[d]), ReadBy(j))
      BY <1>1, OnlyTail DEF Queued
    <3>3. Queued(j, d)' = Only(Tail(queue[d]), ReadBy(j))
      BY <1>2 DEF Queued, ReadBy
    <3>4. /\ Only(Tail(queue[d]), ReadBy(j)) \in Seq(Packets)
          /\ Queued(j, d) \in Seq(Packets)
      BY <1>1, OnlyType, LineParts
    <3>5. p \in ReadBy(j) <=> rxif[p] = j
      BY <1>1 DEF ReadBy
    <3>6. Taken(j, d)' \o Queued(j, d)' = Taken(j, d) \o Queued(j, d)
      BY <1>1, <3>1, <3>2, <3>3, <3>4, <3>5
    <3> QED BY <1>3, <2>2, <3>6 DEF Line
  <2> QED BY <2>1, <2>2
<1> QED BY <1>2, <1>4, Unseen

\* qaoed_processwork: the frame is carried out, the oldest due from its interface.
LEMMA HandleServes ==
  ASSUME IInv, NEW d \in Devices, Handle(d)
  PROVE  \E i \in Listeners : Promise!Serve(i, d)
<1> USE ThreadsAssumption
<1>0. TypeOK /\ Listeners \subseteq Threads /\ Devices \subseteq Threads
  BY DEF IInv, Threads
<1>1. PICK i \in Listeners, p \in Packets : p = cur[d] /\ i = rxif[p] /\ pc[d] = "handle"
  BY QueuedRead DEF Handle
<1> DEFINE pend == [j \in Listeners |-> [x \in Devices |-> Line(j, x)]]
<1>2. /\ rxif' = rxif /\ rawbuf' = rawbuf /\ pass' = pass /\ todo' = todo /\ queue' = queue
      /\ cur' = cur /\ served' = [served EXCEPT ![d] = Append(@, p)]
      /\ pc'[d] # "handle" /\ \A x \in Devices : x # d => pc'[x] = pc[x]
      /\ \A j \in Listeners : pc'[j] = pc[j]
  BY <1>0, <1>1 DEF Handle, TypeOK, local
<1>3. ASSUME NEW j \in Listeners, NEW x \in Devices
      PROVE  Queued(j, x)' = Queued(j, x) /\ ToCome(j, x)' = ToCome(j, x)
  BY <1>2, QueuedKept DEF ToCome, Times
<1>4. ASSUME NEW j \in Listeners, NEW x \in Devices, j # i \/ x # d
      PROVE  Line(j, x)' = Line(j, x)
  <2>1. Taken(j, x)' = Taken(j, x)
    BY <1>1, <1>2, <1>4 DEF Taken, Times
  <2> QED BY <1>3, <2>1, LineKept
<1>5. /\ Line(i, d) # <<>> /\ Head(Line(i, d)) = p
      /\ Line(i, d)' = Tail(Line(i, d))
  <2>1. Taken(i, d) = <<p>> /\ Queued(i, d) \in Seq(Packets) /\ ToCome(i, d) \in Seq(Packets)
    BY <1>1, LineParts DEF Taken, Times
  <2>2. /\ Taken(i, d)' = <<>> /\ Queued(i, d)' = Queued(i, d)
        /\ ToCome(i, d)' = ToCome(i, d)
    BY <1>2, <1>3 DEF Taken, Times
  <2>3. /\ Line(i, d) = (<<p>> \o Queued(i, d)) \o ToCome(i, d)
        /\ Line(i, d)' = (<<>> \o Queued(i, d)) \o ToCome(i, d)
    BY <2>1, <2>2 DEF Line
  <2> QED BY <2>1, <2>3, Forward
<1>6. pend' = [pend EXCEPT ![i][d] = Tail(@)]
  <2>1. pend[i] = [x \in Devices |-> Line(i, x)] /\ pend[i][d] = Line(i, d)
    OBVIOUS
  <2>2. [x \in Devices |-> Line(i, x)'] = [pend[i] EXCEPT ![d] = Tail(@)]
    BY <1>4, <1>5, <2>1
  <2>3. \A j \in Listeners : j # i => [x \in Devices |-> Line(j, x)'] = pend[j]
    BY <1>4
  <2>4. pend' = [j \in Listeners |-> [x \in Devices |-> Line(j, x)']]
    OBVIOUS
  <2>5. pend = [j \in Listeners |-> pend[j]]
    OBVIOUS
  <2> HIDE DEF pend
  <2> QED BY <2>2, <2>3, <2>4, <2>5
<1>7. {x \in Packets : rawbuf'[x] # "unset"} = {x \in Packets : rawbuf[x] # "unset"}
  BY <1>2
<1>8. pend[i][d] = Line(i, d)
  OBVIOUS
<1>9. Promise!Serve(i, d)
  BY <1>1, <1>2, <1>5, <1>6, <1>7, <1>8 DEF Promise!Serve
<1> QED BY <1>9

\* Every step of the threads is one of the promise, or is not seen at all.
LEMMA PromisedStep ==
  ASSUME ~MallocFails, IInv, [Next]_vars
  PROVE  [Promise!Next]_(Promise!vars)
<1>1. ASSUME NEW i \in Listeners, NEW p \in Packets, Read(i, p) PROVE UNCHANGED Promise!vars
  BY <1>1, ReadUnseen
<1>2. ASSUME NEW i \in Listeners, MakeWork(i) PROVE Promise!Next
  BY <1>2, MakeWorkAccepts DEF Promise!Next
<1>3. ASSUME NEW i \in Listeners, Insert(i) PROVE UNCHANGED Promise!vars
  BY <1>3, InsertUnseen
<1>4. ASSUME NEW d \in Devices, Take(d) PROVE UNCHANGED Promise!vars
  BY <1>4, TakeUnseen
<1>5. ASSUME NEW d \in Devices, Handle(d) PROVE Promise!Next
  BY <1>5, HandleServes DEF Promise!Next
<1>6. \A i \in Listeners : ~MakeWorkFails(i) /\ ~InsertFails(i)
  BY DEF MakeWorkFails, InsertFails
<1>7. CASE \/ \E i \in Listeners :
                \/ Drop(i) \/ UpPkt(i) \/ WalkDone(i) \/ NextPass(i)
                \/ \E d \in Devices : UpWork(i, d)
           \/ \E t \in Threads : Put(t)
           \/ \E d \in Devices : \/ Advertise(d) \/ Started(d) \/ Wait(d)
                                  \/ SpuriousWake(d) \/ TakeNothing(d)
  BY <1>7, QuietSteps
<1>8. CASE UNCHANGED vars
  <2>1. /\ \A i \in Listeners, d \in Devices : Line(i, d)' = Line(i, d)
        /\ rawbuf' = rawbuf /\ served' = served
    BY <1>8 DEF vars, Line, Taken, Queued, ToCome, ReadBy, Times
  <2> QED BY <2>1, Unseen
<1> QED BY <1>1, <1>2, <1>3, <1>4, <1>5, <1>6, <1>7, <1>8 DEF Next, Process, Work, Threads

\* The threads implement the promise, its safety part, for any number of listeners and
\* devices and while no malloc fails: every request accepted is queued on, and carried
\* out by, the devices it is for, as often as processpacket queues it, in arrival order
\* per interface, and nothing else is carried out.
THEOREM KeepsPromise ==
  ASSUME ~MallocFails
  PROVE  Spec => Promise!Safety
<1>1. Init => Promise!Init
  <2> SUFFICES ASSUME Init PROVE Promise!Init
    OBVIOUS
  <2>1. \A i \in Listeners, d \in Devices : Line(i, d) = <<>>
    <3>1. ASSUME NEW i \in Listeners, NEW d \in Devices PROVE Line(i, d) = <<>>
      <4>1. pc[i] \notin Walking /\ pc[d] # "handle" /\ queue[d] = <<>>
        BY DEF Init, Threads, Walking
      <4>2. Taken(i, d) = <<>> /\ Queued(i, d) = <<>> /\ ToCome(i, d) = <<>>
        BY <4>1, OnlyEmpty DEF Taken, Queued, ToCome, Times
      <4> QED BY <4>2 DEF Line
    <3> QED BY <3>1
  <2>2. {p \in Packets : rawbuf[p] # "unset"} = {} /\ served = [d \in Devices |-> <<>>]
    BY DEF Init
  <2> QED BY <2>1, <2>2 DEF Promise!Init
<1>2. IInv /\ [Next]_vars => [Promise!Next]_(Promise!vars)
  BY PromisedStep
<1> QED BY <1>1, <1>2, Invariance, PTL DEF Spec, Promise!Safety

-----------------------------------------------------------------------------
(* The linked lists of WorkQueue hold the queues: the two operations on one. *)

\* insertwork hangs a new entry on the end.
LEMMA InsertHolds ==
  ASSUME LinkTypes, NEW d \in Devices, NEW s \in Seq(Qes), NEW e \in Qes,
         Holds(d, s), Unmade(d, s), InsertWork(d, e),
         e \notin freed[d], \A k \in 1..Len(s) : s[k] # e,
         \A m, n \in 1..Len(s) : s[m] = s[n] => m = n
  PROVE  Holds(d, Append(s, e))' /\ Unmade(d, Append(s, e))'
<1> USE NullAssumption
<1> DEFINE t == Append(s, e)
           n == Len(s)
<1>1. /\ n \in Nat /\ Len(t) = n + 1 /\ t[n + 1] = e
      /\ \A k \in 1..n : t[k] = s[k] /\ s[k] \in Qes
  OBVIOUS
<1>2. next[d][e] = None
  BY DEF Unmade
<1>3. freed' = freed
  BY DEF InsertWork
<1> HIDE DEF t, n
<1>4. CASE n = 0
  <2>1. /\ qfirst'[d] = e /\ qstart'[d] = e /\ qend'[d] = e /\ next' = next
    BY <1>4 DEF InsertWork, LinkTypes, Holds, n
  <2> QED BY <1>1, <1>2, <1>3, <1>4, <2>1 DEF Holds, Unmade, n, t
<1>5. CASE n # 0
  <2>1. /\ qfirst[d] = s[1] /\ qend[d] = s[n] /\ qstart[d] = s[1]
        /\ s[1] \in Qes /\ s[n] \in Qes
    BY <1>1, <1>5 DEF Holds, n
  <2>2. /\ qfirst'[d] = s[1] /\ qstart'[d] = s[1] /\ qend'[d] = e
        /\ next' = [next EXCEPT ![d][s[n]] = e]
    BY <2>1 DEF InsertWork, LinkTypes
  <2>3. \A x \in Qes : next'[d][x] = IF x = s[n] THEN e ELSE next[d][x]
    BY <2>1, <2>2 DEF LinkTypes
  <2>4. /\ qfirst'[d] = t[1] /\ qend'[d] = t[n + 1] /\ qstart'[d] = qfirst'[d]
    BY <1>1, <1>5, <2>2
  <2>5. ASSUME NEW k \in 1..(n + 1)
        PROVE  /\ next'[d][t[k]] = (IF k = n + 1 THEN None ELSE t[k + 1])
               /\ t[k] \notin freed'[d]
    <3>1. CASE k = n + 1
      BY <1>1, <1>2, <1>3, <1>5, <2>1, <2>3, <3>1 DEF n
    <3>2. CASE k = n
      BY <1>1, <1>3, <1>5, <2>1, <2>3, <3>2 DEF Holds, n
    <3>3. CASE k < n
      <4>1. k \in 1..n /\ k + 1 \in 1..n /\ s[k] # s[n]
        BY <1>1, <3>3 DEF n
      <4> QED BY <1>1, <1>3, <2>3, <3>3, <4>1 DEF Holds, n
    <3> QED BY <1>1, <3>1, <3>2, <3>3
  <2>6. Holds(d, t)'
    BY <1>1, <2>4, <2>5 DEF Holds
  <2>7. Unmade(d, t)'
    <3>1. ASSUME NEW x \in Qes, x \notin freed[d],
                 \A k \in 1..(n + 1) : t[k] # x
          PROVE  next'[d][x] = None
      <4>1. \A k \in 1..n : s[k] # x
        BY <1>1, <3>1
      <4>2. x # s[n]
        BY <1>1, <1>5, <4>1
      <4> QED BY <2>3, <3>1, <4>1, <4>2 DEF Unmade, n
    <3> QED BY <1>1, <1>3, <3>1 DEF Unmade
  <2> QED BY <2>6, <2>7 DEF t
<1> QED BY <1>4, <1>5

\* The worker takes the first entry off, and the end with it when it is the last.
LEMMA UnlinkHolds ==
  ASSUME LinkTypes, NEW d \in Devices, NEW s \in Seq(Qes), s # <<>>,
         Holds(d, s), Unmade(d, s), Unlink(d),
         \A m, n \in 1..Len(s) : s[m] = s[n] => m = n
  PROVE  Holds(d, Tail(s))' /\ Unmade(d, Tail(s))'
<1> USE NullAssumption
<1> DEFINE t == Tail(s)
           n == Len(s)
<1>1. /\ n \in Nat /\ n > 0 /\ Len(t) = n - 1
      /\ \A k \in 1..(n - 1) : t[k] = s[k + 1]
      /\ \A k \in 1..n : s[k] \in Qes
  OBVIOUS
<1> HIDE DEF t, n
<1>2. /\ qfirst[d] = s[1] /\ qend[d] = s[n] /\ qstart[d] = s[1]
      /\ \A k \in 1..n : /\ next[d][s[k]] = (IF k = n THEN None ELSE s[k + 1])
                         /\ s[k] \notin freed[d]
  BY <1>1 DEF Holds, n
<1>3. /\ next' = next /\ freed'[d] = freed[d] \cup {s[1]}
      /\ qfirst'[d] = next[d][s[1]] /\ qstart'[d] = next[d][s[1]]
      /\ qend'[d] = IF s[1] = s[n] THEN None ELSE s[n]
  BY <1>2 DEF Unlink, LinkTypes
<1>4. s[1] = s[n] <=> n = 1
  BY <1>1 DEF n
<1>5. /\ qfirst'[d] = (IF n - 1 = 0 THEN None ELSE t[1])
      /\ qend'[d] = (IF n - 1 = 0 THEN None ELSE t[n - 1])
      /\ qstart'[d] = qfirst'[d]
  BY <1>1, <1>2, <1>3, <1>4
<1>6. ASSUME NEW k \in 1..(n - 1)
      PROVE  /\ next'[d][t[k]] = (IF k = n - 1 THEN None ELSE t[k + 1])
             /\ t[k] \notin freed'[d]
  <2>1. k + 1 \in 1..n /\ k + 1 # 1 /\ 1 \in 1..n /\ t[k] = s[k + 1]
    BY <1>1
  <2>2. s[k + 1] # s[1]
    BY <2>1 DEF n
  <2>3. k # n - 1 => t[k + 1] = s[k + 1 + 1]
    BY <1>1
  <2> QED BY <1>1, <1>2, <1>3, <2>1, <2>2, <2>3
<1>7. Holds(d, t)'
  BY <1>1, <1>5, <1>6 DEF Holds
<1>8. Unmade(d, t)'
  <2>1. ASSUME NEW x \in Qes, x \notin freed'[d], \A k \in 1..(n - 1) : t[k] # x
        PROVE  next'[d][x] = None
    <3>1. ASSUME NEW k \in 1..n PROVE s[k] # x
      <4>1. CASE k = 1
        BY <1>3, <2>1, <4>1
      <4>2. CASE k # 1
        <5>1. k - 1 \in 1..(n - 1) /\ t[k - 1] = s[k]
          BY <1>1, <4>2
        <5> QED BY <2>1, <5>1
      <4> QED BY <4>1, <4>2
    <3> QED BY <1>3, <2>1, <3>1 DEF Unmade, n
  <2> QED BY <1>1, <2>1 DEF Unmade
<1> QED BY <1>7, <1>8 DEF t

-----------------------------------------------------------------------------
(* The linked lists: the steps.                                              *)

\* A queue is what the lemmas above ask for, and its first entry is in it.
LEMMA QueueShape ==
  ASSUME IInv, NEW d \in Devices
  PROVE  /\ queue[d] \in Seq(Qes)
         /\ \A m, n \in 1..Len(queue[d]) : queue[d][m] = queue[d][n] => m = n
         /\ \A k \in 1..Len(queue[d]) : queue[d][k] \in Elems(queue[d])
<1>1. queue[d] \in Seq(Packets \X Passes)
  BY DEF IInv, TypeOK
<1>2. DOMAIN queue[d] = 1..Len(queue[d])
  BY <1>1
<1> QED BY <1>1, <1>2 DEF IInv, Entries, Elems, Qes

\* What Insert does: the entry of the listener's walk is new to its target.
LEMMA InsertStep ==
  ASSUME IInv, ListInv, NEW i \in Listeners, Insert(i)
  PROVE  ListInv'
<1> USE ThreadsAssumption
<1>0. /\ target[i] \in Devices /\ <<cur[i], pass[i]>> \in Qes
  BY Appending DEF Insert, Qes
<1>d. PICK d \in Devices : d = target[i]
  BY <1>0
<1>e. PICK e \in Qes : e = <<cur[i], pass[i]>>
  BY <1>0
<1>1. /\ d # i /\ d \in todo[i] /\ pc[i] = "insert" /\ e \notin Elems(queue[d])
  BY <1>d, <1>e, Appending DEF Insert
<1>2. e \notin freed[d]
  BY <1>d, <1>e, <1>1 DEF ListInv, Spent, Walking
<1>3. /\ queue'[d] = Append(queue[d], e) /\ InsertWork(d, e)
      /\ \A x \in Devices : x # d => queue'[x] = queue[x]
      /\ rawbuf' = rawbuf /\ pass' = pass /\ cur' = cur
      /\ todo' = [todo EXCEPT ![i] = @ \ {d}] /\ pc' = Signalled(i, d)
  BY <1>d, <1>e DEF Insert, IInv, TypeOK
<1>4. LinkTypes'
  BY <1>1, <1>3 DEF ListInv, LinkTypes, InsertWork
<1>5. freed' = freed
  BY <1>3 DEF InsertWork
<1>6. Holds(d, queue[d])' /\ Unmade(d, queue[d])'
  <2>1. PICK s \in Seq(Qes) : s = queue[d]
    BY QueueShape
  <2>2. /\ LinkTypes /\ Holds(d, s) /\ Unmade(d, s)
        /\ \A k \in 1..Len(s) : s[k] # e
        /\ \A m, n \in 1..Len(s) : s[m] = s[n] => m = n
    BY <1>1, <2>1, QueueShape DEF ListInv, Linked
  <2>3. Holds(d, Append(s, e))' /\ Unmade(d, Append(s, e))'
    BY <1>2, <1>3, <2>2, InsertHolds
  <2>4. queue'[d] = Append(s, e)
    BY <1>3, <2>1
  <2> QED BY <2>3, <2>4 DEF Holds, Unmade
<1>7. ASSUME NEW x \in Devices, x # d
      PROVE  Holds(x, queue[x])' /\ Unmade(x, queue[x])'
  <2>1. /\ qfirst'[x] = qfirst[x] /\ qstart'[x] = qstart[x] /\ qend'[x] = qend[x]
        /\ next'[x] = next[x] /\ freed'[x] = freed[x] /\ queue'[x] = queue[x]
    BY <1>1, <1>3, <1>5, <1>7 DEF InsertWork, ListInv, LinkTypes
  <2> QED BY <2>1 DEF ListInv, Linked, Holds, Unmade
<1>8. Spent'
  <2>1. \A j \in Listeners : pc'[j] \in Walking => pc[j] \in Walking
    BY <1>1, <1>3 DEF Signalled, Walking, IInv, TypeOK, Threads
  <2>2. \A j \in Listeners : todo'[j] \subseteq todo[j]
    BY <1>3 DEF IInv, TypeOK
  <2> QED BY <1>3, <1>5, <2>1, <2>2 DEF ListInv, Spent
<1> QED BY <1>4, <1>6, <1>7, <1>8 DEF ListInv, Linked

\* What Take does: the entry it frees was in the queue, so no walk has yet to add it.
LEMMA TakeStep ==
  ASSUME IInv, ListInv, NEW d \in Devices, Take(d)
  PROVE  ListInv'
<1> USE ThreadsAssumption
<1>1. /\ queue[d] # <<>> /\ queue'[d] = Tail(queue[d]) /\ Unlink(d)
      /\ \A x \in Devices : x # d => queue'[x] = queue[x]
      /\ rawbuf' = rawbuf /\ todo' = todo /\ pass' = pass
  BY DEF Take, local, IInv, TypeOK
<1>2. \A j \in Listeners : pc'[j] = pc[j] /\ cur'[j] = cur[j]
  BY DEF Take, IInv, TypeOK, Threads
<1>3. /\ queue[d] \in Seq(Qes) /\ 1 \in 1..Len(queue[d])
      /\ qfirst[d] = queue[d][1] /\ qfirst[d] \in Qes /\ qfirst[d] \in Elems(queue[d])
  <2>1. queue[d] \in Seq(Qes)
    BY QueueShape
  <2>2. Len(queue[d]) \in Nat /\ Len(queue[d]) # 0
    BY <1>1, <2>1
  <2>3. 1 \in 1..Len(queue[d]) /\ queue[d][1] \in Qes
    BY <2>1, <2>2
  <2> QED BY <2>1, <2>2, <2>3, QueueShape DEF ListInv, Linked, Holds
<1>4. /\ \A x \in Devices : x # d => freed'[x] = freed[x]
      /\ freed'[d] = freed[d] \cup {qfirst[d]}
  BY <1>1 DEF Unlink, ListInv, LinkTypes
<1>5. LinkTypes'
  BY <1>1, <1>3 DEF ListInv, LinkTypes, Unlink
<1>6. Holds(d, queue[d])' /\ Unmade(d, queue[d])'
  <2>1. PICK s \in Seq(Qes) : s = queue[d]
    BY QueueShape
  <2>2. /\ LinkTypes /\ Holds(d, s) /\ Unmade(d, s) /\ s # <<>>
        /\ \A m, n \in 1..Len(s) : s[m] = s[n] => m = n
    BY <1>1, <2>1, QueueShape DEF ListInv, Linked
  <2>3. Holds(d, Tail(s))' /\ Unmade(d, Tail(s))'
    BY <1>1, <2>2, UnlinkHolds
  <2>4. queue'[d] = Tail(s)
    BY <1>1, <2>1
  <2> QED BY <2>3, <2>4 DEF Holds, Unmade
<1>7. ASSUME NEW x \in Devices, x # d
      PROVE  Holds(x, queue[x])' /\ Unmade(x, queue[x])'
  <2>1. /\ qfirst'[x] = qfirst[x] /\ qstart'[x] = qstart[x] /\ qend'[x] = qend[x]
        /\ next'[x] = next[x] /\ freed'[x] = freed[x] /\ queue'[x] = queue[x]
    BY <1>1, <1>4, <1>7 DEF Unlink, ListInv, LinkTypes
  <2> QED BY <2>1 DEF ListInv, Linked, Holds, Unmade
<1>8. Spent'
  <2>1. rawbuf[qfirst[d][1]] # "unset"
    BY <1>3 DEF IInv, Entries
  <2>2. \A j \in Listeners : pc[j] \in Walking =>
          /\ d \in todo[j] => <<cur[j], pass[j]>> # qfirst[d]
          /\ pass[j] = 1 => <<cur[j], 2>> # qfirst[d]
    BY <1>3 DEF IInv, Entries
  <2> QED BY <1>1, <1>2, <1>4, <2>1, <2>2 DEF ListInv, Spent
<1> QED BY <1>5, <1>6, <1>7, <1>8 DEF ListInv, Linked

\* No other step moves a link, or brings back an entry that was freed.
LEMMA SpentStep ==
  ASSUME IInv, ListInv, [Next]_vars, links' = links
  PROVE  Spent'
<1> USE ThreadsAssumption DEF local
<1>0. /\ TypeOK /\ Places /\ Spent /\ freed' = freed
      /\ Listeners \subseteq Threads /\ Devices \subseteq Threads
      /\ \A t \in Threads : pc[t] \notin Idle => cur[t] \in Packets /\ cur[t] # None
      /\ \A d \in Devices : \A e \in freed[d] : e[1] \in Packets
  BY Current DEF IInv, ListInv, LinkTypes, Threads, links, Qes
<1>1. ASSUME NEW i \in Listeners, NEW p \in Packets, Read(i, p) PROVE Spent'
  <2>1. /\ rawbuf' = rawbuf /\ todo' = todo /\ pass' = pass
        /\ \A j \in Listeners : pc'[j] \in Walking => j # i
        /\ \A j \in Listeners : j # i => pc'[j] = pc[j] /\ cur'[j] = cur[j]
    BY <1>0, <1>1 DEF Read, AfterTests, TypeOK, Walking
  <2> QED BY <1>0, <2>1 DEF Spent
<1>2. ASSUME NEW i \in Listeners, Drop(i) \/ MakeWorkFails(i) PROVE Spent'
  <2>1. /\ rawbuf' = rawbuf /\ todo' = todo /\ pass' = pass
        /\ \A j \in Listeners : pc'[j] \in Walking => j # i
        /\ \A j \in Listeners : j # i => pc'[j] = pc[j] /\ cur'[j] = cur[j]
    BY <1>0, <1>2 DEF Drop, MakeWorkFails, TypeOK, Walking
  <2> QED BY <1>0, <2>1 DEF Spent
<1>3. ASSUME NEW i \in Listeners, MakeWork(i) PROVE Spent'
  <2>1. /\ cur[i] \in Packets /\ rawbuf[cur[i]] = "unset"
    BY <1>0, <1>3 DEF MakeWork, Places, Idle
  <2>2. \A d \in Devices : \A e \in freed[d] : e[1] # cur[i]
    BY <1>0, <2>1 DEF Spent
  <2>3. /\ cur' = cur
        /\ \A p \in Packets : p # cur[i] => rawbuf'[p] = rawbuf[p]
        /\ \A j \in Listeners : j # i =>
             pc'[j] = pc[j] /\ todo'[j] = todo[j] /\ pass'[j] = pass[j]
    BY <1>0, <1>3 DEF MakeWork, TypeOK
  <2> QED BY <1>0, <2>2, <2>3 DEF Spent
<1>4. ASSUME NEW i \in Listeners,
             UpPkt(i) \/ WalkDone(i) \/ \E d \in Devices : UpWork(i, d)
      PROVE  Spent'
  <2>1. /\ rawbuf' = rawbuf /\ todo' = todo /\ pass' = pass /\ cur' = cur
        /\ \A j \in Listeners : pc'[j] \in Walking => pc[j] \in Walking
    BY <1>0, <1>4 DEF UpPkt, WalkDone, UpWork, TypeOK, Walking
  <2> QED BY <1>0, <2>1 DEF Spent
<1>5. ASSUME NEW i \in Listeners, InsertFails(i) PROVE Spent'
  <2>1. target[i] \in Devices /\ target[i] # i /\ pc[i] = "insert"
    BY <1>5, Appending DEF InsertFails
  <2>2. /\ rawbuf' = rawbuf /\ pass' = pass /\ cur' = cur
        /\ \A j \in Listeners : todo'[j] \subseteq todo[j]
        /\ pc' = Signalled(i, target[i])
    BY <1>0, <1>5 DEF InsertFails, TypeOK
  <2>3. \A j \in Listeners : pc'[j] \in Walking => pc[j] \in Walking
    BY <1>0, <2>1, <2>2 DEF Signalled, TypeOK, Walking
  <2> QED BY <1>0, <2>2, <2>3 DEF Spent
<1>6. ASSUME NEW i \in Listeners, NextPass(i) PROVE Spent'
  <2>1. /\ rawbuf' = rawbuf /\ cur' = cur /\ pc' = pc
        /\ pass[i] = 1 /\ pc[i] \in Walking /\ pass'[i] = 2
        /\ \A j \in Listeners : j # i => todo'[j] = todo[j] /\ pass'[j] = pass[j]
    BY <1>0, <1>6 DEF NextPass, TypeOK, Walking
  <2> QED BY <1>0, <2>1 DEF Spent
<1>7. ASSUME NEW t \in Threads, PktPut(t) \/ NullRaw(t) \/ WorkPut(t) PROVE Spent'
  <2>1. /\ todo' = todo /\ pass' = pass
        /\ \A j \in Listeners : pc'[j] \in Walking => pc[j] \in Walking /\ cur'[j] = cur[j]
        /\ \A p \in Packets : rawbuf[p] # "unset" => rawbuf'[p] # "unset"
    BY <1>0, <1>7 DEF PktPut, NullRaw, WorkPut, TypeOK, Walking
  <2> QED BY <1>0, <2>1 DEF Spent
<1>8. ASSUME NEW d \in Devices, Advertise(d) \/ Started(d) \/ Wait(d)
                                   \/ SpuriousWake(d) \/ TakeNothing(d) \/ Handle(d)
      PROVE  Spent'
  <2>1. /\ rawbuf' = rawbuf /\ todo' = todo /\ pass' = pass /\ cur' = cur
    BY <1>8 DEF Advertise, Started, Wait, SpuriousWake, TakeNothing, Handle
  <2>2. \A j \in Listeners : pc'[j] = pc[j]
    BY <1>0, <1>8 DEF Advertise, Started, Wait, SpuriousWake, TakeNothing, Handle, TypeOK
  <2> QED BY <1>0, <2>1, <2>2 DEF Spent
<1>9. ASSUME NEW i \in Listeners, Insert(i) PROVE Spent'
  BY <1>9, InsertStep DEF ListInv
<1>10. ASSUME NEW d \in Devices, Take(d) PROVE Spent'
  BY <1>10, TakeStep DEF ListInv
<1>11. CASE UNCHANGED vars
  BY <1>0, <1>11 DEF vars, Spent
<1> QED BY <1>1, <1>2, <1>3, <1>4, <1>5, <1>6, <1>7, <1>8, <1>9, <1>10, <1>11
        DEF Next, Process, Work, Put, Threads

LEMMA ListStep ==
  ASSUME IInv, ListInv, [Next]_vars
  PROVE  ListInv'
<1>1. ASSUME NEW i \in Listeners, Insert(i) PROVE ListInv'
  BY <1>1, InsertStep
<1>2. ASSUME NEW d \in Devices, Take(d) PROVE ListInv'
  BY <1>2, TakeStep
<1>3. CASE queue' = queue /\ links' = links
  <2>1. Spent'
    BY <1>3, SpentStep
  <2>2. /\ qfirst' = qfirst /\ qstart' = qstart /\ qend' = qend
        /\ next' = next /\ freed' = freed
    BY <1>3 DEF links
  <2> QED BY <1>3, <2>1, <2>2 DEF ListInv, LinkTypes, Linked, Holds, Unmade
<1>4. \/ queue' = queue /\ links' = links
      \/ \E i \in Listeners : Insert(i)
      \/ \E d \in Devices : Take(d)
  BY DEF Next, Process, Work, Put, Read, Drop, MakeWork, MakeWorkFails, UpWork, UpPkt,
         InsertFails, NextPass, WalkDone, PktPut, NullRaw, WorkPut, Advertise, Started,
         Wait, SpuriousWake, TakeNothing, Handle, vars, links
<1> QED BY <1>1, <1>2, <1>3, <1>4

-----------------------------------------------------------------------------
(* The linked lists: the theorem.                                            *)

LEMMA ListInit == Init => ListInv
<1> SUFFICES ASSUME Init PROVE ListInv
  OBVIOUS
<1>1. \A d \in Devices : queue[d] = <<>>
  BY DEF Init
<1>2. Len(<<>>) = 0
  OBVIOUS
<1>3. LinksInit
  BY DEF Init
<1>4. LinkTypes
  BY <1>3 DEF LinksInit, LinkTypes
<1>5. Linked /\ \A d \in Devices : Unmade(d, queue[d])
  BY <1>1, <1>2, <1>3 DEF LinksInit, Linked, Holds, Unmade
<1>6. \A i \in Listeners : pc[i] \notin Walking
  BY DEF Init, Walking, Threads
<1>7. Spent
  BY <1>3, <1>6 DEF LinksInit, Spent
<1> QED BY <1>4, <1>5, <1>7 DEF ListInv

\* The linked list of every device holds its queue in order and nothing that was
\* freed, however appends of insertwork and unlinks of qaoed_worker interleave: the
\* test of q in the one and the upkeep of qend in the other never disagree.
THEOREM ListIsQueue == Spec => []Linked
<1>1. Init => ListInv
  BY ListInit
<1>2. IInv /\ ListInv /\ [Next]_vars => ListInv'
  BY ListStep
<1>3. ListInv => Linked
  BY DEF ListInv
<1> QED BY <1>1, <1>2, <1>3, Invariance, PTL DEF Spec
=============================================================================
