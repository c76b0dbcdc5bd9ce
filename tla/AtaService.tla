------------------------------ MODULE AtaService ------------------------------
(***************************************************************************)
(* A client reads and writes the sectors of a target over a network that   *)
(* loses frames: it keeps a request until the answer with its tag arrives  *)
(* and sends it again in the meantime.  The listener queues every copy on  *)
(* each device of the target's shelf and slot, whose workers carry them    *)
(* out on the one file (qaoed_processATA and qaoed_transfer of devices.c). *)
(* The workers answer every copy, and remember nothing.                    *)
(*                                                                         *)
(* A write stores its tag in its sectors.  The network keeps requests in   *)
(* order and makes no copies; the client never has two requests for one    *)
(* sector, and asks for one or two sectors at a time.                      *)
(***************************************************************************)
EXTENDS Naturals, Sequences, FiniteSets, SequencesExt

CONSTANTS Paths,        \* the devices of the target, each with its worker
          Size,         \* sectors of the file, as identify reports it
          Beyond,       \* sectors past the end that the client also asks for
          MaxTag,       \* bound: requests in one behaviour
          MaxPending,   \* bound: requests the client waits for at a time
          MaxFrames,    \* bound: requests on the network, and queued on a device
          Fails,        \* read() and write() may return -1
          WriteShort,   \* write() may store less than it was given
          None

ASSUME AtaAssumption ==
  /\ Paths # {} /\ IsFiniteSet(Paths) /\ Size \in Nat \ {0} /\ Beyond \in Nat /\ None \notin Nat
  /\ MaxTag \in Nat /\ MaxPending \in Nat /\ MaxFrames \in Nat \ {0}
  /\ {Fails, WriteShort} \subseteq BOOLEAN

VARIABLES
  sent,      \* requests so far: tags are 1..sent
  pending,   \* requests the client waits for
  known,     \* known[s]: what the client may find in sector s
  wire,      \* requests on the network
  queue,     \* queue[p]: requests queued on p
  file,      \* the contents of the file, a sequence of sectors
  replies,   \* answers on the network, to pending requests
  cut        \* sectors that a write() fell short of (history)

vars == <<sent, pending, known, wire, queue, file, replies, cut>>

Tags    == 1..MaxTag
Sectors == 0..(Size + Beyond - 1)
Junk    == None

\* Commands other than these are refused, "flush" stands for them.
Ops == {"read", "write", "flush"}

Covers(r) == r.lba..(r.lba + r.nsect - 1)

Init == /\ sent = 0 /\ pending = {}
        /\ known = [s \in Sectors |-> IF s < Size THEN {0} ELSE {0, Junk}]
        /\ wire = <<>> /\ queue = [p \in Paths |-> <<>>]
        /\ file = [k \in 1..Size |-> 0]
        /\ replies = {} /\ cut = {}

-----------------------------------------------------------------------------
(* The client and the network. *)

Send(r) ==
  /\ sent < MaxTag /\ r.tag = sent + 1 /\ Cardinality(pending) < MaxPending
  /\ Covers(r) \subseteq Sectors
  /\ \A q \in pending : Covers(q) \cap Covers(r) = {}
  /\ Len(wire) < MaxFrames
  /\ sent' = r.tag /\ pending' = pending \cup {r}
  /\ wire' = Append(wire, r)
  /\ known' = [s \in Sectors |-> known[s] \cup IF r.op = "write" /\ s \in Covers(r) THEN {r.tag} ELSE {}]
  /\ UNCHANGED <<queue, file, replies, cut>>

Resend(t) ==
  /\ Len(wire) < MaxFrames
  /\ \E r \in pending : r.tag = t /\ wire' = Append(wire, r)
  /\ UNCHANGED <<sent, pending, known, queue, file, replies, cut>>

Lose ==
  /\ \/ wire # <<>> /\ wire' = Tail(wire) /\ UNCHANGED replies
     \/ \E a \in replies : replies' = replies \ {a} /\ UNCHANGED wire
  /\ UNCHANGED <<sent, pending, known, queue, file, cut>>

\* An answer with the tag of a pending request ends it.  Any other would be
\* ignored and is left out of replies.
Receive(t) ==
  /\ \E a \in replies, r \in pending :
       /\ a.tag = t /\ r.tag = t
       /\ replies' = {b \in replies : b.tag # t}
       /\ pending' = pending \ {r}
       /\ known' = [s \in Sectors |->
             IF a.ok /\ r.op = "write" /\ s \in Covers(r) THEN {t} ELSE known[s]]
  /\ UNCHANGED <<sent, wire, queue, file, cut>>

-----------------------------------------------------------------------------
(* The daemon. *)

\* Mutant: a request is inserted at the head of the queue.
ListenAtHead(t) ==
  /\ wire # <<>> /\ Head(wire).tag = t
  /\ \A p \in Paths : Len(queue[p]) < MaxFrames
  /\ wire' = Tail(wire)
  /\ queue' = [p \in Paths |-> <<Head(wire)>> \o queue[p]]
  /\ UNCHANGED <<sent, pending, known, file, replies, cut>>

\* The listener reads a request and queues it on every device of the target.
Listen(t) ==
  /\ wire # <<>> /\ Head(wire).tag = t
  /\ \A p \in Paths : Len(queue[p]) < MaxFrames
  /\ wire' = Tail(wire)
  /\ queue' = [p \in Paths |-> Append(queue[p], Head(wire))]
  /\ UNCHANGED <<sent, pending, known, file, replies, cut>>

\* The sectors of the file from r on, junk where it has none.
Data(r) == [k \in 1..r.nsect |-> IF r.lba + k \in DOMAIN file THEN file[r.lba + k] ELSE Junk]

\* The file with the first n sectors of r written, the last of them not to its end
\* if not whole; it grows, with zeros in a gap.
Written(r, n, whole) ==
  [k \in 1..Max({Len(file), r.lba + n}) |->
     IF k - 1 \in Covers(r) /\ k <= r.lba + n
       THEN (IF whole \/ k < r.lba + n THEN r.tag ELSE Junk)
     ELSE IF k <= Len(file) THEN file[k] ELSE 0]

\* The sectors of r that are missing then.
Missed(r, n, whole) == (r.lba + n - (IF whole THEN 0 ELSE 1))..(r.lba + r.nsect - 1)

Reply(r, good, data) ==
  replies' = IF r \in pending THEN replies \cup {[tag |-> r.tag, ok |-> good, data |-> data]}
                              ELSE replies

\* read() past the end returns 0 and is an error, one that meets the end is not.
Read(r) ==
  /\ Reply(r, r.lba < Len(file), Data(r)) \/ (Fails /\ Reply(r, FALSE, <<>>))
  /\ UNCHANGED <<file, cut>>

\* Mutant: the answer is sent before the write, whatever comes of it.
WriteAnsweredFirst(r) ==
  /\ Reply(r, TRUE, <<>>)
  /\ \/ file' = Written(r, r.nsect, TRUE)
     \/ Fails /\ UNCHANGED file
  /\ UNCHANGED cut

\* write() stores all, or less than it was given, which is answered as if it were
\* all; or nothing.
Write(r) ==
  \/ /\ \E n \in 1..r.nsect, whole \in BOOLEAN :
          /\ WriteShort \/ (n = r.nsect /\ whole)
          /\ file' = Written(r, n, whole) /\ cut' = cut \cup Missed(r, n, whole)
     /\ Reply(r, TRUE, <<>>)
  \/ Fails /\ Reply(r, FALSE, <<>>) /\ UNCHANGED <<file, cut>>

Refuse(r) == Reply(r, FALSE, <<>>) /\ UNCHANGED <<file, cut>>

\* The worker of p carries out its next request.
Work(p) ==
  /\ queue[p] # <<>>
  /\ queue' = [queue EXCEPT ![p] = Tail(@)]
  /\ LET r == Head(queue[p]) IN
     \/ r.op = "read" /\ Read(r)
     \/ r.op = "write" /\ Write(r)
     \/ r.op \notin {"read", "write"} /\ Refuse(r)
  /\ UNCHANGED <<sent, pending, known, wire>>

-----------------------------------------------------------------------------
Requests == [tag : Tags, op : Ops, lba : Sectors, nsect : 1..2]

Next == \/ \E r \in Requests : Send(r)
        \/ \E t \in Tags : Resend(t) \/ Receive(t) \/ Listen(t)
        \/ Lose
        \/ \E p \in Paths : Work(p)

Spec == Init /\ [][Next]_vars
-----------------------------------------------------------------------------
\* What a client of a target with one path is answered to a read is what was
\* written last, however often reads and writes were lost, sent again and carried
\* out twice; but for sectors that a write() fell short of.
ReadsRight ==
  Cardinality(Paths) = 1 =>
    \A a \in replies, r \in pending :
      a.tag = r.tag /\ r.op = "read" /\ a.ok =>
        \A s \in Covers(r) \ cut : a.data[s - r.lba + 1] \in known[s]

\* "Everything is OK": a sector whose write was acknowledged holds it, as long
\* as the client does not write it again, whether or not the file had to grow; but
\* for those that the write() fell short of, which are acknowledged all the same.
AcknowledgedIsStored ==
  Cardinality(Paths) = 1 =>
    \A s \in Sectors \ cut : Cardinality(known[s]) = 1 =>
      s < Len(file) /\ file[s + 1] \in known[s]
-----------------------------------------------------------------------------
(* The inductive invariant the proofs rest on.                               *)

Values  == 0..MaxTag \cup {Junk}
Answers == [tag : Tags, ok : BOOLEAN, data : Seq(Values)]

\* Requests a client sends.
Sendable == {r \in Requests : Covers(r) \subseteq Sectors}

\* Every variable holds a value of its kind, and the file does not shrink.
TypeOK ==
  /\ sent \in 0..MaxTag /\ pending \subseteq Sendable
  /\ known \in [Sectors -> SUBSET Values]
  /\ wire \in Seq(Sendable) /\ queue \in [Paths -> Seq(Sendable)]
  /\ file \in Seq(Values) /\ Len(file) >= Size
  /\ replies \subseteq Answers /\ cut \subseteq Nat

\* What p has still to do, and in which order.
Line(p) == queue[p] \o wire

Meet(q, r)   == Covers(q) \cap Covers(r) # {}
Writes(r, s) == r.op = "write" /\ s \in Covers(r)

\* The requests the client waits for have no tag and no sector in common; answers
\* are to them, and what they write may be found.
Waits ==
  /\ \A r \in pending : r.tag <= sent
  /\ \A q, r \in pending : q # r => q.tag # r.tag /\ ~Meet(q, r)
  /\ \A a \in replies : \E r \in pending : a.tag = r.tag
  /\ \A r \in pending, s \in Sectors : Writes(r, s) => r.tag \in known[s]

\* Copies of a request are alike, and none of another one for its sectors follows
\* while the client waits for it.
Ordered(L) ==
  /\ \A i \in DOMAIN L : L[i].tag <= sent
  /\ \A r \in pending, i \in DOMAIN L : L[i].tag = r.tag => L[i] = r
  /\ \A r \in pending : \A i, j \in DOMAIN L :
       i < j /\ L[i].tag = r.tag /\ Meet(L[j], r) => L[j].tag = r.tag

\* A sector has what the client may find in it, and will have after what is still
\* to be done; one that the file does not have yet was never acknowledged.
Stored(L) ==
  \A s \in Sectors \ cut :
    /\ IF s < Len(file) THEN file[s + 1] \in known[s] ELSE {0, Junk} \subseteq known[s]
    /\ \A i \in DOMAIN L : Writes(L[i], s) => L[i].tag \in known[s]

\* A write that was answered is in the file, and nothing older is still to be done;
\* a read that was answered has what the client may find.
Answered(L) ==
  \A a \in replies, r \in pending : a.tag = r.tag /\ a.ok =>
    \A s \in Covers(r) \ cut :
      /\ r.op = "write" =>
           /\ s < Len(file) /\ file[s + 1] = r.tag
           /\ \A i \in DOMAIN L : Writes(L[i], s) => L[i].tag = r.tag
      /\ r.op = "read" => a.data[s - r.lba + 1] \in known[s]

IInv ==
  /\ TypeOK /\ Waits
  /\ \A p \in Paths : Ordered(Line(p))
  /\ Cardinality(Paths) = 1 => \A p \in Paths : Stored(Line(p)) /\ Answered(Line(p))
=============================================================================
