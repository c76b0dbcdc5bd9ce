------------------------------ MODULE CfgString ------------------------------
(***************************************************************************)
(* The config string of a target and the requests of clients to read,      *)
(* match and set it (qaoed_processCFG of devices.c).  The devices of one   *)
(* instance share one shelf and slot, as multipathing has it, so every     *)
(* request is queued on each of them.                                      *)
(*                                                                         *)
(* A length travels in two digits of base Base and is turned round by      *)
(* ntohs on a little-endian build; the source has 256 for Base, 1024 for   *)
(* Limit.  Clients send as many bytes as they announce.                    *)
(***************************************************************************)
EXTENDS Naturals, Sequences, FiniteSets, SequencesExt

CONSTANTS Devices,       \* devices of one shelf and slot
          Ifs,           \* interfaces
          Clients,
          IfOf,          \* IfOf[c]: the interface client c is reached on
          Bytes,         \* values of a byte
          Words,         \* the strings clients send
          Cmds,          \* the commands clients send
          Limit,         \* size of cfg[]
          Base,          \* half of the length field
          LittleEndian,
          Readers,       \* clients the cfgread access list lets through
          Setters,       \* clients the cfgset access list lets through
          MaxQueue,      \* bound: requests queued on a device when one is sent
          None

ASSUME CfgAssumption ==
  /\ Limit \in Nat \ {0} /\ Base \in Nat \ {0, 1}
  /\ IfOf \in [Clients -> Ifs]
  /\ Words \subseteq Seq(Bytes)
  /\ \A w \in Words : Len(w) < Base * Base
  /\ Readers \cup Setters \subseteq Clients
  /\ LittleEndian \in BOOLEAN

VARIABLES
  mem,     \* mem[d]: the bytes of device d's cfg[], old ones included
  len,     \* len[d]: cfg_len
  walk,    \* walk[i]: the request listener i queues and the devices to come
  inbox,   \* inbox[d]: requests queued on d
  last     \* last[d]: the last request of d and what was answered

vars == <<mem, len, walk, inbox, last>>

\* Only a match or a set carries a string.
Requests == {r \in [from : Clients, cmd : Cmds, str : Words \cup {<<>>}] :
               r.cmd \in {"read", "other"} => r.str = <<>>}

Silent  == None
Ok(s)   == [err |-> FALSE, str |-> s]
Refused == [err |-> TRUE, str |-> <<>>]

Contents == UNION {[1..n -> Bytes] : n \in 0..Limit}
Answers  == {Silent, Refused} \cup {Ok(s) : s \in Contents}

\* A request that is on its way, or was answered, is not taken for none; there are
\* not infinitely many interfaces.
ASSUME NoneAssumption ==
  /\ None \notin Requests \X SUBSET Devices /\ None \notin Requests \X Answers
  /\ IsFiniteSet(Ifs)

\* A cfg[] nobody has written holds whatever malloc returned.
Init == /\ mem \in [Devices -> [1..Limit -> Bytes]]
        /\ len = [d \in Devices |-> 0]
        /\ walk = [i \in Ifs |-> None]
        /\ inbox = [d \in Devices |-> <<>>]
        /\ last = [d \in Devices |-> None]

-----------------------------------------------------------------------------
\* A client sends a request and the listener of its interface reads it.
Send(c, r) ==
  /\ r.from = c /\ walk[IfOf[c]] = None
  /\ \A d \in Devices : Len(inbox[d]) < MaxQueue
  /\ walk' = [walk EXCEPT ![IfOf[c]] = <<r, Devices>>]
  /\ UNCHANGED <<mem, len, inbox, last>>

\* Mutant: the walk ends at the first device of that shelf and slot.
QueueFirst(i, d) ==
  /\ walk[i] # None /\ d \in walk[i][2]
  /\ inbox' = [inbox EXCEPT ![d] = Append(@, walk[i][1])]
  /\ walk' = [walk EXCEPT ![i] = None]
  /\ UNCHANGED <<mem, len, last>>

\* The listener appends it to the queue of one device after the other; devices are
\* told apart by shelf and slot only, not by the interface they are exported on.
Queue(i, d) ==
  /\ walk[i] # None /\ d \in walk[i][2]
  /\ inbox' = [inbox EXCEPT ![d] = Append(@, walk[i][1])]
  /\ walk' = [walk EXCEPT ![i] = IF @[2] = {d} THEN None ELSE <<@[1], @[2] \ {d}>>]
  /\ UNCHANGED <<mem, len, last>>

\* The access lists; commands the switch does not know are not checked.
Allowed(r) ==
  /\ r.cmd \in {"read", "match", "partial"} => r.from \in Readers
  /\ r.cmd \in {"setifempty", "set"} => r.from \in Setters

Swapped(n) == (n % Base) * Base + (n \div Base)
OnWire(n) == IF LittleEndian THEN Swapped(n) ELSE n

\* What memcmp over n bytes may say of cfg[] and a string: bytes past the end of
\* either are not known.
SameBytes(d, s, n) ==
  LET known == 1..Min({n, Len(s), Limit})
      same  == \A k \in known : mem[d][k] = s[k]
  IN {same} \cup IF same /\ n > Min({Len(s), Limit}) THEN {FALSE} ELSE {}

\* The length of the request is compared as it came from the wire.
Matches(d, r) ==
  IF OnWire(Len(r.str)) = len[d] THEN SameBytes(d, r.str, len[d]) ELSE {FALSE}

\* The whole string of the request is compared, whatever cfg_len says.
PartlyMatches(d, r) == SameBytes(d, r.str, Len(r.str))

Content(d) == SubSeq(mem[d], 1, len[d])

MaySet(d, r) ==
  /\ Len(r.str) <= Limit
  /\ r.cmd = "setifempty" => len[d] = 0

\* Mutant: the length stays that of the first string.
StoreKeepsLength(d, s) ==
  /\ mem' = [mem EXCEPT ![d] = [k \in 1..Limit |-> IF k <= Len(s) THEN s[k] ELSE @[k]]]
  /\ len' = IF len[d] = 0 THEN [len EXCEPT ![d] = Len(s)] ELSE len

\* memcpy and cfg_len: what is past the new string stays.
Store(d, s) ==
  /\ mem' = [mem EXCEPT ![d] = [k \in 1..Limit |-> IF k <= Len(s) THEN s[k] ELSE @[k]]]
  /\ len' = [len EXCEPT ![d] = Len(s)]

\* The worker of d takes its next request through qaoed_processCFG.
Take(d, r) == inbox[d] # <<>> /\ r = Head(inbox[d]) /\ inbox' = [inbox EXCEPT ![d] = Tail(@)]

Answer(d, r, a) == last' = [last EXCEPT ![d] = <<r, a>>]

Deny(d, r) ==
  /\ Take(d, r) /\ ~Allowed(r)
  /\ Answer(d, r, Silent)
  /\ UNCHANGED <<mem, len, walk>>

Read(d, r) ==
  /\ Take(d, r) /\ Allowed(r) /\ r.cmd = "read"
  /\ Answer(d, r, Ok(Content(d)))
  /\ UNCHANGED <<mem, len, walk>>

Compare(d, r) ==
  /\ Take(d, r) /\ Allowed(r) /\ r.cmd \in {"match", "partial"}
  /\ \E same \in IF r.cmd = "match" THEN Matches(d, r) ELSE PartlyMatches(d, r) :
       Answer(d, r, IF same THEN Ok(Content(d)) ELSE Silent)
  /\ UNCHANGED <<mem, len, walk>>

Set(d, r) ==
  /\ Take(d, r) /\ Allowed(r) /\ r.cmd \in {"setifempty", "set"}
  /\ IF MaySet(d, r) THEN Store(d, r.str) /\ Answer(d, r, Ok(<<>>))
                     ELSE Answer(d, r, Refused) /\ UNCHANGED <<mem, len>>
  /\ UNCHANGED walk

Unknown(d, r) ==
  /\ Take(d, r) /\ r.cmd \notin {"read", "match", "partial", "setifempty", "set"}
  /\ Answer(d, r, Refused)
  /\ UNCHANGED <<mem, len, walk>>

-----------------------------------------------------------------------------
Handle(d, r) == Deny(d, r) \/ Read(d, r) \/ Compare(d, r) \/ Set(d, r) \/ Unknown(d, r)

Next == \/ \E c \in Clients, r \in Requests : Send(c, r)
        \/ \E i \in Ifs, d \in Devices : Queue(i, d)
        \/ \E d \in Devices : inbox[d] # <<>> /\ Handle(d, Head(inbox[d]))

Spec == Init /\ [][Next]_vars
-----------------------------------------------------------------------------
\* Requests under way to device d.
Coming(d) == inbox[d] # <<>> \/ \E i \in Ifs : walk[i] # None /\ d \in walk[i][2]

\* Multipathing (qaoed.conf.5) exports one target as several devices: when all
\* requests have been carried out they have the same config string, as long as
\* the requests come in on one interface.  (Two listeners queue on the devices in
\* walks of their own, and may leave them with different strings.)
PathsAgree ==
  Cardinality(Ifs) = 1 /\ (\A d \in Devices : ~Coming(d)) => \A d, e \in Devices : Content(d) = Content(e)

Register == INSTANCE CfgRegister WITH str <- [d \in Devices |-> Content(d)]

\* Each device behaves as the register a client expects: what is read is what
\* was set last, what matches is what would be read.
Behaves == Register!Spec
-----------------------------------------------------------------------------
(* The inductive invariant the proofs rest on.                               *)

\* Every variable holds a value of its kind; a config string fits its buffer.
TypeOK ==
  /\ mem \in [Devices -> [1..Limit -> Bytes]]
  /\ len \in [Devices -> 0..Limit]
  /\ walk \in [Ifs -> {None} \cup (Requests \X SUBSET Devices)]
  /\ inbox \in [Devices -> Seq(Requests)]
  /\ last \in [Devices -> {None} \cup (Requests \X Answers)]

\* The string a device has after request r if it had s before.
After(r, s) == IF Allowed(r) /\ Register!Sets(r, s) THEN r.str ELSE s

\* The requests of q, one after the other, turn s into t.
Leads(q, s, t) ==
  \E f \in [0..Len(q) -> Contents] :
    /\ f[0] = s /\ f[Len(q)] = t
    /\ \A n \in 1..Len(q) : f[n] = After(q[n], f[n - 1])

\* The requests device d has yet to carry out, if there is one interface: those of
\* its queue, and the one the listener is about to queue.
TheIf == CHOOSE i \in Ifs : TRUE

Pending(d) == IF walk[TheIf] # None /\ d \in walk[TheIf][2]
                THEN Append(inbox[d], walk[TheIf][1]) ELSE inbox[d]

\* All devices come to the same string once they have carried out what is pending.
Agreed ==
  Cardinality(Ifs) = 1 =>
    \E t \in Contents : \A d \in Devices : Leads(Pending(d), Content(d), t)

IInv == TypeOK /\ Agreed
=============================================================================
