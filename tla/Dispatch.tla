------------------------------- MODULE Dispatch -------------------------------
(***************************************************************************)
(* How a frame travels from a network listener to the device workers       *)
(* (network.c, the worker of devices.c, the listener of                    *)
(* arch/linux_net.c): one listener thread per interface reads frames into  *)
(* reference-counted buffers (struct pkt), wraps each in a                 *)
(* reference-counted work entry and appends it to the queue of every       *)
(* device it is addressed to; one worker thread per device takes entries   *)
(* from its queue and drops the references.                                *)
(*                                                                         *)
(* Everything done under one mutex is one step; two critical sections are  *)
(* two steps.  A queue entry is the pair of a frame and the loop of        *)
(* processpacket (1: address match, 2: broadcast) that queued it; a queue    *)
(* is seen as a sequence and, through WorkQueue, as the list that the code  *)
(* keeps.  The device list is fixed here.                                   *)
(***************************************************************************)
EXTENDS WorkQueue, FiniteSets

CONSTANTS Listeners,     \* network threads, one per configured interface
          Addrs,         \* shelf.slot pairs
          Broadcast,     \* 0xffff.0xff
          Addr,          \* Addr[p]: the address in the header of frame p
          Kind,          \* Kind[p]: what frame p is
          DevAddr,       \* DevAddr[d]: the address device d answers to
          BcastRows,     \* BcastRows[d]: advertisements d sends at start
          LittleEndian,  \* byte order of the build
          Spurious,      \* pthread_cond_wait may return without a signal
          MallocFails    \* malloc may return NULL

Threads == Listeners \cup Devices
Kinds   == {"request", "response", "alien", "short", "failed"}

ASSUME ThreadsAssumption ==
  /\ IsFiniteSet(Listeners)
  /\ IsFiniteSet(Devices)
  /\ Listeners \cap Devices = {}
  /\ None \notin Threads \cup Packets

ASSUME FramesAssumption ==
  /\ Broadcast \in Addrs
  /\ Addr \in [Packets -> Addrs]
  /\ Kind \in [Packets -> Kinds]
  /\ DevAddr \in [Devices -> Addrs]
  /\ BcastRows \in [Devices -> Nat]
  /\ LittleEndian \in BOOLEAN
  /\ Spurious \in BOOLEAN
  /\ MallocFails \in BOOLEAN

VARIABLES
  pc,        \* pc[t]: where thread t is
  cur,       \* cur[t]: the frame (and its work entry) thread t holds
  pass,      \* pass[i]: which loop of processpacket listener i is in
  todo,      \* todo[i]: devices that loop has still to queue the frame on
  target,    \* target[i]: the device listener i is queueing on
  queue,     \* queue[d]: device d's queue of entries <<frame, pass>>
  pktRef,    \* pktRef[p]: refcount of the frame's buffer, 0 when not allocated
  workRef,   \* workRef[p]: refcount of its work entry, 0 when not allocated
  rawbuf,    \* rawbuf[p]: the work entry's pointer to the buffer
  rxif,      \* rxif[p]: the listener that read p (work->ifentry)
  adv,       \* adv[d]: advertisements d has still to send
  served     \* served[d]: frames d has handled, in order (history)

vars == <<pc, cur, pass, todo, target, queue, pktRef, workRef, rawbuf, rxif,
          adv, served, links>>
local == <<pass, todo, target>>

Elems(s) == {s[n] : n \in DOMAIN s}

\* Mutant: the response test is lost whatever the byte order.
SeenAsResponseNever(p) == FALSE

\* AOE_FLAG_RSP is compared through htons(): in a little-endian build the mask
\* is 0x0800, which no 8-bit ver_flags meets.
SeenAsResponse(p) == Kind[p] = "response" /\ ~LittleEndian

\* The devices loop k of processpacket queues frame p on.
Matches(p, k) ==
  IF k = 1 THEN {d \in Devices : DevAddr[d] = Addr[p]}
           ELSE {d \in Devices : Addr[p] = Broadcast}

Init == /\ pc = [t \in Threads |-> IF t \in Listeners THEN "read" ELSE "start"]
        /\ cur = [t \in Threads |-> None]
        /\ pass = [i \in Listeners |-> 1]
        /\ todo = [i \in Listeners |-> {}]
        /\ target = [i \in Listeners |-> None]
        /\ queue = [d \in Devices |-> <<>>]
        /\ pktRef = [p \in Packets |-> 0]
        /\ workRef = [p \in Packets |-> 0]
        /\ rawbuf = [p \in Packets |-> "unset"]
        /\ rxif = [p \in Packets |-> None]
        /\ adv = BcastRows
        /\ served = [d \in Devices |-> <<>>]
        /\ LinksInit

-----------------------------------------------------------------------------
(* The listener of interface i. *)

\* Where processpacket goes with p: it drops what is not an AoE request.  A failed
\* read() returns -1, which passes the test for short frames (an int against a
\* size_t): the buffer was never written and passes for whatever it holds.
AfterTests(p) ==
  IF Kind[p] = "failed" THEN {"drop", "mkwork"}
  ELSE IF Kind[p] = "alien" \/ SeenAsResponse(p) THEN {"drop"} ELSE {"mkwork"}

\* read() returns, with frame p or without.  A short frame is logged and its
\* buffer forgotten; the rest goes to processpacket.
Read(i, p) ==
  /\ pc[i] = "read"
  /\ rxif[p] = None
  /\ rxif' = [rxif EXCEPT ![p] = i]
  /\ pktRef' = [pktRef EXCEPT ![p] = 1]
  /\ IF Kind[p] = "short"
       THEN UNCHANGED <<pc, cur>>
       ELSE /\ cur' = [cur EXCEPT ![i] = p]
            /\ \E where \in AfterTests(p) : pc' = [pc EXCEPT ![i] = where]
  /\ UNCHANGED <<local, queue, links, workRef, rawbuf, adv, served>>

\* qaoed_pktdestroy on a frame that is not for us.
Drop(i) ==
  /\ pc[i] = "drop"
  /\ pktRef' = [pktRef EXCEPT ![cur[i]] = @ - 1]
  /\ pc' = [pc EXCEPT ![i] = "read"]
  /\ cur' = [cur EXCEPT ![i] = None]
  /\ UNCHANGED <<local, queue, links, workRef, rawbuf, rxif, adv, served>>

\* Mutant: the entry starts without a reference for the listener itself.
MakeWorkUncounted(i) ==
  /\ pc[i] = "mkwork"
  /\ workRef' = [workRef EXCEPT ![cur[i]] = 0]
  /\ rawbuf' = [rawbuf EXCEPT ![cur[i]] = "pkt"]
  /\ pass' = [pass EXCEPT ![i] = 1]
  /\ todo' = [todo EXCEPT ![i] = Matches(cur[i], 1)]
  /\ pc' = [pc EXCEPT ![i] = "walk"]
  /\ UNCHANGED <<cur, target, queue, links, pktRef, rxif, adv, served>>

\* The work entry is allocated with a reference for the listener itself, then
\* the read lock is taken and the first loop begins.
MakeWork(i) ==
  /\ pc[i] = "mkwork"
  /\ workRef' = [workRef EXCEPT ![cur[i]] = 1]
  /\ rawbuf' = [rawbuf EXCEPT ![cur[i]] = "pkt"]
  /\ pass' = [pass EXCEPT ![i] = 1]
  /\ todo' = [todo EXCEPT ![i] = Matches(cur[i], 1)]
  /\ pc' = [pc EXCEPT ![i] = "walk"]
  /\ UNCHANGED <<cur, target, queue, links, pktRef, rxif, adv, served>>

\* malloc of the work entry fails: free(Packet), which leaves Packet->raw behind.
MakeWorkFails(i) ==
  /\ MallocFails
  /\ pc[i] = "mkwork"
  /\ pktRef' = [pktRef EXCEPT ![cur[i]] = 0]
  /\ pc' = [pc EXCEPT ![i] = "read"]
  /\ cur' = [cur EXCEPT ![i] = None]
  /\ UNCHANGED <<local, queue, links, workRef, rawbuf, rxif, adv, served>>

\* For a device the frame is meant for: a reference to the work entry ...
UpWork(i, d) ==
  /\ pc[i] = "walk"
  /\ d \in todo[i]
  /\ target' = [target EXCEPT ![i] = d]
  /\ workRef' = [workRef EXCEPT ![cur[i]] = @ + 1]
  /\ pc' = [pc EXCEPT ![i] = "uppkt"]
  /\ UNCHANGED <<cur, pass, todo, queue, links, pktRef,
                 rawbuf, rxif, adv, served>>

\* Mutant: the worker is signalled before the entry is appended.
UpPktSignals(i) ==
  /\ pc[i] = "uppkt"
  /\ pktRef' = [pktRef EXCEPT ![cur[i]] = @ + 1]
  /\ pc' = [pc EXCEPT ![i] = "insert",
                     ![target[i]] = IF @ = "wait" THEN "woken" ELSE @]
  /\ UNCHANGED <<cur, local, queue, links, workRef, rawbuf, rxif, adv, served>>

\* ... then one to the buffer ...
UpPkt(i) ==
  /\ pc[i] = "uppkt"
  /\ pktRef' = [pktRef EXCEPT ![cur[i]] = @ + 1]
  /\ pc' = [pc EXCEPT ![i] = "insert"]
  /\ UNCHANGED <<cur, local, queue, links, workRef, rawbuf, rxif, adv, served>>

\* Mutant: nobody is signalled.
Unsignalled(i, d) == [pc EXCEPT ![i] = "walk"]

\* What pthread_cond_signal on device d's queue does to the threads' pcs, when
\* listener i goes on with the walk.
Signalled(i, d) ==
  [pc EXCEPT ![i] = "walk", ![d] = IF @ = "wait" THEN "woken" ELSE @]

\* ... then, under the queue lock, the append and the signal.
Insert(i) ==
  /\ pc[i] = "insert"
  /\ queue' = [queue EXCEPT ![target[i]] = Append(@, <<cur[i], pass[i]>>)]
  /\ InsertWork(target[i], <<cur[i], pass[i]>>)
  /\ pc' = Signalled(i, target[i])
  /\ todo' = [todo EXCEPT ![i] = @ \ {target[i]}]
  /\ UNCHANGED <<cur, pass, target, pktRef, workRef, rawbuf, rxif, adv, served>>

\* malloc of the queue entry fails: insertwork returns, the signal is sent.
InsertFails(i) ==
  /\ MallocFails
  /\ pc[i] = "insert"
  /\ pc' = Signalled(i, target[i])
  /\ todo' = [todo EXCEPT ![i] = @ \ {target[i]}]
  /\ UNCHANGED <<cur, pass, target, queue, links, pktRef, workRef,
                 rawbuf, rxif, adv, served>>

\* The match loop ends, the broadcast loop begins.
NextPass(i) ==
  /\ pc[i] = "walk" /\ todo[i] = {} /\ pass[i] = 1
  /\ pass' = [pass EXCEPT ![i] = 2]
  /\ todo' = [todo EXCEPT ![i] = Matches(cur[i], 2)]
  /\ UNCHANGED <<pc, cur, target, queue, links, pktRef, workRef,
                 rawbuf, rxif, adv, served>>

\* Mutant: the listener keeps its references when the loops are done.
WalkDoneKeeps(i) ==
  /\ pc[i] = "walk" /\ todo[i] = {} /\ pass[i] = 2
  /\ pc' = [pc EXCEPT ![i] = "read"]
  /\ cur' = [cur EXCEPT ![i] = None]
  /\ UNCHANGED <<local, queue, links, pktRef, workRef,
                 rawbuf, rxif, adv, served>>

\* Both loops are done: the lock is released and qaoed_workdestroy is called.
WalkDone(i) ==
  /\ pc[i] = "walk" /\ todo[i] = {} /\ pass[i] = 2
  /\ pc' = [pc EXCEPT ![i] = "putpkt"]
  /\ UNCHANGED <<cur, local, queue, links, pktRef, workRef,
                 rawbuf, rxif, adv, served>>

-----------------------------------------------------------------------------
(* qaoed_workdestroy, run by listeners and workers alike. *)

\* The buffer's reference goes first, if the entry still points to a buffer.
PktPut(t) ==
  /\ pc[t] = "putpkt"
  /\ LET last == rawbuf[cur[t]] = "pkt" /\ pktRef[cur[t]] = 1
     IN /\ pktRef' = [pktRef EXCEPT ![cur[t]] =
                        IF rawbuf[cur[t]] = "pkt" THEN @ - 1 ELSE @]
        /\ pc' = [pc EXCEPT ![t] = IF last THEN "nullraw" ELSE "putwork"]
  /\ UNCHANGED <<cur, local, queue, links, workRef, rawbuf, rxif, adv, served>>

\* The thread that freed the buffer clears the pointer, under no lock.
NullRaw(t) ==
  /\ pc[t] = "nullraw"
  /\ rawbuf' = [rawbuf EXCEPT ![cur[t]] = "null"]
  /\ pc' = [pc EXCEPT ![t] = "putwork"]
  /\ UNCHANGED <<cur, local, queue, links, pktRef, workRef, rxif, adv, served>>

\* Then the entry's own reference; the thread returns to its loop.
WorkPut(t) ==
  /\ pc[t] = "putwork"
  /\ workRef' = [workRef EXCEPT ![cur[t]] = @ - 1]
  /\ pc' = [pc EXCEPT ![t] = IF t \in Listeners THEN "read" ELSE "idle"]
  /\ cur' = [cur EXCEPT ![t] = None]
  /\ UNCHANGED <<local, queue, links, pktRef, rawbuf, rxif, adv, served>>

-----------------------------------------------------------------------------
(* The worker of device d. *)

\* qaoed_bcastdevice: one private advertisement per accepting row of the ACL.
Advertise(d) ==
  /\ pc[d] = "start" /\ adv[d] > 0
  /\ adv' = [adv EXCEPT ![d] = @ - 1]
  /\ UNCHANGED <<pc, cur, local, queue, links, pktRef, workRef,
                 rawbuf, rxif, served>>

Started(d) ==
  /\ pc[d] = "start" /\ adv[d] = 0
  /\ pc' = [pc EXCEPT ![d] = "idle"]
  /\ UNCHANGED <<cur, local, queue, links, pktRef, workRef,
                 rawbuf, rxif, adv, served>>

\* The queue is empty: the lock is released and the thread sleeps, atomically.
Wait(d) ==
  /\ pc[d] = "idle" /\ queue[d] = <<>>
  /\ pc' = [pc EXCEPT ![d] = "wait"]
  /\ UNCHANGED <<cur, local, queue, links, pktRef, workRef,
                 rawbuf, rxif, adv, served>>

SpuriousWake(d) ==
  /\ Spurious
  /\ pc[d] = "wait"
  /\ pc' = [pc EXCEPT ![d] = "woken"]
  /\ UNCHANGED <<cur, local, queue, links, pktRef, workRef,
                 rawbuf, rxif, adv, served>>

\* The head of the queue is unlinked, with or without a wait before.
Take(d) ==
  /\ pc[d] \in {"idle", "woken"} /\ queue[d] # <<>>
  /\ cur' = [cur EXCEPT ![d] = Head(queue[d])[1]]
  /\ queue' = [queue EXCEPT ![d] = Tail(@)]
  /\ Unlink(d)
  /\ pc' = [pc EXCEPT ![d] = "handle"]
  /\ UNCHANGED <<local, pktRef, workRef, rawbuf, rxif, adv, served>>

\* Woken to an empty queue: `work` keeps what it held, a freed or uninitialised
\* pointer, and is dereferenced.  "stale" is that use; what it does is undefined and
\* this worker is not followed further: what is said of the others is then said of
\* a program the use did no harm to.  UseSafe counts it as a use.
TakeNothing(d) ==
  /\ pc[d] = "woken" /\ queue[d] = <<>>
  /\ pc' = [pc EXCEPT ![d] = "stale"]
  /\ UNCHANGED <<cur, local, queue, links, pktRef, workRef,
                 rawbuf, rxif, adv, served>>

\* qaoed_processwork: every path answers or not, and then destroys the work.
Handle(d) ==
  /\ pc[d] = "handle"
  /\ served' = [served EXCEPT ![d] = Append(@, cur[d])]
  /\ pc' = [pc EXCEPT ![d] = "putpkt"]
  /\ UNCHANGED <<cur, local, queue, links, pktRef, workRef, rawbuf, rxif, adv>>

-----------------------------------------------------------------------------
Put(t) == PktPut(t) \/ NullRaw(t) \/ WorkPut(t)

\* What listener i does between two reads.
Process(i) ==
  \/ Drop(i) \/ MakeWork(i) \/ MakeWorkFails(i)
  \/ \E d \in Devices : UpWork(i, d)
  \/ UpPkt(i) \/ Insert(i) \/ InsertFails(i) \/ NextPass(i) \/ WalkDone(i)
  \/ Put(i)

Work(d) ==
  \/ Advertise(d) \/ Started(d) \/ Wait(d) \/ Take(d) \/ TakeNothing(d)
  \/ Handle(d) \/ Put(d)

Next ==
  \/ \E i \in Listeners : Process(i) \/ \E p \in Packets : Read(i, p)
  \/ \E d \in Devices : Work(d) \/ SpuriousWake(d)

\* The scheduler runs every thread that can run; frames and spurious wakeups
\* come or do not come.
Fairness == /\ \A i \in Listeners : WF_vars(Process(i))
            /\ \A d \in Devices : WF_vars(Work(d))

Spec == Init /\ [][Next]_vars
FairSpec == Spec /\ Fairness
-----------------------------------------------------------------------------
(* Who holds a reference.  A holder is a pair: <<t, 0>> is thread t for the  *)
(* frame it works on, <<i, 1>> the reference listener i has taken for the    *)
(* entry it is about to append, <<d, k>> the entry of pass k in d's queue.   *)

Holders(p, own, extra) ==
  {h \in Threads \X (0..2) :
     \/ h[2] = 0 /\ cur[h[1]] = p /\ pc[h[1]] \in own
     \/ h[1] \in Listeners /\ h[2] = 1 /\ cur[h[1]] = p /\ pc[h[1]] \in extra
     \/ h[1] \in Devices /\ h[2] \in Passes /\ <<p, h[2]>> \in Elems(queue[h[1]])}

WorkRefs(p) ==
  Holders(p, {"walk", "uppkt", "insert", "handle", "putpkt", "nullraw", "putwork"},
             {"uppkt", "insert"})
PktRefs(p) ==
  Holders(p, {"drop", "mkwork", "walk", "uppkt", "insert", "handle", "putpkt"},
             {"insert"})

-----------------------------------------------------------------------------
ListenerPcs == {"read", "drop", "mkwork", "walk", "uppkt", "insert",
                "putpkt", "nullraw", "putwork"}
WorkerPcs == {"start", "idle", "wait", "woken", "stale", "handle",
              "putpkt", "nullraw", "putwork"}

\* Every variable holds a value of its kind; listeners and workers are only
\* ever at the places of their own code (network.c, devices.c).
TypeOK ==
  /\ pc \in [Threads -> ListenerPcs \cup WorkerPcs]
  /\ \A i \in Listeners : pc[i] \in ListenerPcs
  /\ \A d \in Devices : pc[d] \in WorkerPcs
  /\ cur \in [Threads -> Packets \cup {None}]
  /\ pass \in [Listeners -> Passes]
  /\ todo \in [Listeners -> SUBSET Devices]
  /\ target \in [Listeners -> Devices \cup {None}]
  /\ queue \in [Devices -> Seq(Packets \X Passes)]
  /\ pktRef \in [Packets -> Nat]
  /\ workRef \in [Packets -> Nat]
  /\ rawbuf \in [Packets -> {"unset", "pkt", "null"}]
  /\ rxif \in [Packets -> Listeners \cup {None}]
  /\ adv \in [Devices -> Nat]
  /\ served \in [Devices -> Seq(Packets)]

\* Everything a thread or a queue holds is still allocated: a thread that is about
\* to touch the work entry it holds, or its buffer, and every entry that waits in a
\* queue, finds both, and the pointer from the one to the other still set.  This is
\* what the counts taken in processpacket before each insertwork are for.
Kept ==
  /\ \A t \in Threads :
       /\ pc[t] \in {"walk", "uppkt", "insert", "handle", "putpkt", "nullraw", "putwork"}
            => workRef[cur[t]] > 0
       /\ pc[t] \in {"drop", "mkwork", "walk", "uppkt", "insert", "handle", "putpkt"}
            => pktRef[cur[t]] > 0
       /\ pc[t] \in {"walk", "uppkt", "insert", "handle", "putpkt"}
            => rawbuf[cur[t]] = "pkt"
  /\ \A d \in Devices : \A e \in Elems(queue[d]) :
       workRef[e[1]] > 0 /\ pktRef[e[1]] > 0

\* Nothing leaks and nothing is freed early: each count is the number of
\* holders, except that a short frame keeps its buffer for ever
\* (arch/linux_net.c forgets it after the "short read" message).
RefcountExact ==
  \A p \in Packets :
    /\ workRef[p] = Cardinality(WorkRefs(p))
    /\ Kind[p] # "short" => pktRef[p] = Cardinality(PktRefs(p))

\* A worker never sleeps on a queue that holds work: the emptiness test and
\* the sleep are one critical section, and every append is signalled.
NoLostWakeup == \A d \in Devices : pc[d] = "wait" => queue[d] = <<>>

\* A worker never goes on with a work pointer it did not just unlink.  The
\* `if` around pthread_cond_wait is enough for that only while every return
\* of the wait means that something was appended.
NoStaleWork == \A d \in Devices : pc[d] # "stale"

\* Nothing is used after it was freed (network.c, devices.c), but for one use: a
\* worker woken for nothing goes on with the pointer of the work it did before.  That
\* takes a wait that returns without a signal, or the signal that is sent although
\* insertwork had no memory; nothing is claimed of what comes after it.
UseSafe == \/ NoStaleWork /\ Kept
           \/ ~NoStaleWork /\ (Spurious \/ MallocFails)

\* "If its a response we simply drop it": no response is ever queued.
ResponsesDropped ==
  \A d \in Devices : \A e \in Elems(queue[d]) : Kind[e[1]] # "response"

\* The list of every device holds its queue, in order, and nothing freed: insertwork
\* relies on qend and tests only q for emptiness, the worker moves the two on its own.
Linked == \A d \in Devices : Holds(d, queue[d])

\* How often device d is meant to be given frame p: once for its own address,
\* once for the broadcast address.
Due(p, d) == (IF DevAddr[d] = Addr[p] THEN 1 ELSE 0)
               + (IF Addr[p] = Broadcast THEN 1 ELSE 0)

-----------------------------------------------------------------------------
(* The inductive invariant the proofs rest on.                               *)

Idle == {"read", "start", "idle", "wait", "woken", "stale"}
Walking == {"walk", "uppkt", "insert"}
Queueing == {"uppkt", "insert"}

\* A count covers a set of holders: it is never less than their number, and
\* just their number where no failed malloc leaves a reference behind.
Covers(n, S, exact) == n >= Cardinality(S) /\ (exact => n = Cardinality(S))

\* Which thread works on which frame: only the listener that read a frame works
\* on it before it is queued, and a frame is queued only with its work entry.
Places ==
  /\ \A t \in Threads : cur[t] = None <=> pc[t] \in Idle
  /\ \A i \in Listeners : cur[i] # None => rxif[cur[i]] = i
  /\ \A t \in Threads : cur[t] # None =>
       (rawbuf[cur[t]] = "unset" <=> pc[t] \in {"drop", "mkwork"})
  /\ \A i \in Listeners : pc[i] \in Queueing => target[i] \in todo[i]
  /\ \A p \in Packets : rxif[p] = None => rawbuf[p] = "unset"
  /\ \A p \in Packets : rawbuf[p] = "null" => pktRef[p] = 0
  /\ \A t \in Threads : pc[t] = "nullraw" => pktRef[cur[t]] = 0

\* What the queues hold: no entry twice, and nothing the walk has yet to add.
Entries ==
  /\ \A d \in Devices : \A e \in Elems(queue[d]) : rawbuf[e[1]] # "unset"
  /\ \A d \in Devices : \A m, n \in DOMAIN queue[d] :
       queue[d][m] = queue[d][n] => m = n
  /\ \A i \in Listeners, d \in Devices : pc[i] \in Walking =>
       /\ d \in todo[i] => <<cur[i], pass[i]>> \notin Elems(queue[d])
       /\ pass[i] = 1 => <<cur[i], 2>> \notin Elems(queue[d])

Counts ==
  \A p \in Packets :
    /\ Covers(workRef[p], WorkRefs(p), ~MallocFails)
    /\ Covers(pktRef[p], PktRefs(p), ~MallocFails /\ Kind[p] # "short")

\* The whole of it: with or without failing mallocs and spurious wakeups, the
\* counts taken by processpacket cover every holder of an entry and a buffer.
IInv == TypeOK /\ Places /\ Entries /\ Counts

\* What was freed is not made again: the frame of an entry that was freed has
\* been wrapped, and no walk has yet to queue such an entry.
Spent ==
  /\ \A d \in Devices : \A e \in freed[d] : rawbuf[e[1]] # "unset"
  /\ \A i \in Listeners, d \in Devices : pc[i] \in Walking =>
       /\ d \in todo[i] => <<cur[i], pass[i]>> \notin freed[d]
       /\ pass[i] = 1 => <<cur[i], 2>> \notin freed[d]

\* With it the lists follow the queues.
ListInv == /\ LinkTypes /\ Spent /\ Linked
           /\ \A d \in Devices : Unmade(d, queue[d])

-----------------------------------------------------------------------------
(* The abstract promise, with the frames still to be queued, those queued    *)
(* and the one taken seen as one line per interface and device.              *)

Copies == [p \in Packets |-> [d \in Devices |-> Due(p, d)]]

\* The k-th smallest member of N; where queue q holds frames of A, and which.
Nth(N, k) == CHOOSE n \in N : Cardinality({m \in N : m <= n}) = k
At(q, A) == {n \in DOMAIN q : q[n][1] \in A}
Only(q, A) == [k \in 1..Cardinality(At(q, A)) |-> q[Nth(At(q, A), k)][1]]
ReadBy(i) == {p \in Packets : rxif[p] = i}
Times(b, p) == IF b THEN <<p>> ELSE <<>>

ToCome(i, d) ==
  IF pc[i] \in Walking
    THEN Times(d \in todo[i], cur[i])
           \o Times(pass[i] = 1 /\ Addr[cur[i]] = Broadcast, cur[i])
    ELSE <<>>
Queued(i, d) == Only(queue[d], ReadBy(i))
Taken(i, d) == Times(pc[d] = "handle" /\ rxif[cur[d]] = i, cur[d])

Line(i, d) == Taken(i, d) \o Queued(i, d) \o ToCome(i, d)

Promise == INSTANCE RequestDelivery WITH
  Interfaces <- Listeners,
  Requests   <- Packets,
  accepted   <- {p \in Packets : rawbuf[p] # "unset"},
  pending    <- [i \in Listeners |-> [d \in Devices |-> Line(i, d)]],
  served     <- served

\* Every request that was accepted is carried out by all its devices, no more
\* and no less often than it was queued, in arrival order per interface.
Delivery == Promise!Spec
=============================================================================
