------------------------------- MODULE FrameSize -------------------------------
(***************************************************************************)
(* The sizes of an interface: its MTU, as configured, found out or set     *)
(* over the API, the buffer its listener reads frames into, the number of  *)
(* sectors that is announced to clients, and the frames a client sends     *)
(* and is sent that keeps to the number it was told last.                  *)
(***************************************************************************)
EXTENDS Integers, FiniteSets

CONSTANTS IfMtus,     \* MTUs the system may have for the interface
          CfgMtus,    \* values of mtu in the configuration, 0 for auto
          SetMtus,    \* values a SETMTU asks for, -1 for auto
          Counts,     \* bound: numbers of sectors clients ask for
          None

ASSUME SizesAssumption ==
  /\ IfMtus \subseteq Nat \ {0} /\ CfgMtus \subseteq Int /\ SetMtus \subseteq Int
  /\ Counts \subseteq 1..255

Ether   == 14       \* bytes of an Ethernet header, which is not part of the MTU
Header  == 36       \* sizeof(struct aoe_atahdr), the Ethernet header included
Sector  == 512
Initial == 1518     \* buffsize as qaoed_opensock leaves it

VARIABLES
  ifmtu,      \* the MTU the interface has in the system
  mtu,        \* ifentry->mtu
  buffsize,   \* ifentry->buffsize
  maxsect,    \* what the client was told last
  told,       \* the mtu that was told of (history)
  frame,      \* the last frame: its kind, its length, what became of it
  raised      \* SETMTU has set an mtu the buffer was not made for (history)

sizes == <<ifmtu, mtu, buffsize, maxsect, told, frame, raised>>

\* What getifmtu returns: -1 where the system does not tell.
Reported == {ifmtu, -1}

\* The mtu of the configuration, auto replaced by what is reported.
Configured(cfg) == IF cfg = 0 THEN Reported ELSE {cfg}

\* Mutant: the buffer is not adjusted to the mtu.
BufferKept(m) == Initial

\* "Recalibrate buffsize of needed".
Buffer(m) == IF Initial < m THEN m + Ether ELSE Initial

\* qaoed_openinterfaces; a configuration with too large an mtu is not loaded.
Init == /\ ifmtu \in IfMtus
        /\ \E cfg \in CfgMtus : mtu \in Configured(cfg)
        /\ \E limit \in Reported : mtu <= limit
        /\ buffsize = Buffer(mtu)
        /\ maxsect = 0 /\ told = mtu /\ frame = None /\ raised = FALSE

\* An unsigned char, of a difference that is computed unsigned.
MaxSect == ((mtu - Header) \div Sector) % 256

\* A reply to a config request tells the client.
Discover ==
  /\ maxsect' = MaxSect /\ told' = mtu /\ frame' = None
  /\ UNCHANGED <<ifmtu, mtu, buffsize, raised>>

\* The mtu a SETMTU comes to, auto replaced by what is reported.
Wanted(m) == IF m = -1 THEN Reported ELSE {m}

\* Mutant: the mtu is set before it is checked.
SetMtuUnchecked(m) ==
  /\ mtu' \in Wanted(m)
  /\ raised' = (raised \/ Buffer(mtu') > buffsize)
  /\ UNCHANGED <<ifmtu, buffsize, maxsect, told, frame>>

\* processINTERFACE_SETMTU: too large an mtu is refused, the buffer stays.  The
\* system is asked again for the check.
SetMtu(m) ==
  /\ mtu' \in Wanted(m) /\ \E limit \in Reported : mtu' <= limit
  /\ raised' = (raised \/ Buffer(mtu') > buffsize)
  /\ UNCHANGED <<ifmtu, buffsize, maxsect, told, frame>>

MtuRefused(m) == \E new \in Wanted(m), limit \in Reported : new > limit

Length(n) == Header + n * Sector

\* A client writes n sectors; the listener reads as much as it has room for.
Write(n) ==
  /\ n \in 1..maxsect /\ Length(n) <= ifmtu + Ether
  /\ frame' = [kind |-> "write", length |-> Length(n),
               got |-> IF Length(n) <= buffsize THEN Length(n) ELSE buffsize]
  /\ UNCHANGED <<ifmtu, mtu, buffsize, maxsect, told, raised>>

\* A client reads n sectors; the system sends no frame that is too long.
Read(n) ==
  /\ n \in 1..maxsect
  /\ frame' = [kind |-> "read", length |-> Length(n),
               got |-> IF Length(n) <= ifmtu + Ether THEN Length(n) ELSE 0]
  /\ UNCHANGED <<ifmtu, mtu, buffsize, maxsect, told, raised>>

Frames == Discover \/ \E n \in Counts : Write(n) \/ Read(n)

Next == Frames \/ \E m \in SetMtus : SetMtu(m) \/ (MtuRefused(m) /\ UNCHANGED sizes)

Spec == Init /\ [][Next]_sizes
-----------------------------------------------------------------------------
\* The client was told of an mtu that has no room for a header: the difference is
\* unsigned, and any number of sectors may come of it.
TooLow(m) == m < Header

\* A write from a client that keeps to what it was told is read in full: what is
\* written to the disk is what the client sent; unless SETMTU has set a larger mtu
\* than the buffer was made for, or one that was too low when the client was told.
WholeWrites ==
  frame # None /\ frame.kind = "write" /\ ~raised /\ ~TooLow(told)
    => frame.got = frame.length

\* An answer to such a client is one that the system sends; and more sectors than a
\* frame has room for are announced only for an mtu that is too low.
AnswersSent ==
  /\ frame # None /\ frame.kind = "read" /\ ~TooLow(told) => frame.got = frame.length
  /\ Length(MaxSect) > mtu => TooLow(mtu)

-----------------------------------------------------------------------------
(* The inductive invariant the proofs rest on.                               *)

\* Which mtus there can be: the one in use is never above that of the system.
Mtus ==
  /\ ifmtu \in Nat /\ mtu \in Int /\ mtu <= ifmtu /\ told \in Int /\ told <= ifmtu
  /\ buffsize \in Nat /\ maxsect \in 0..255 /\ raised \in BOOLEAN

\* What was announced fits the mtu it was announced for, and the buffer unless a
\* larger mtu was set; the last frame keeps to it.
Announced ==
  /\ ~raised => Buffer(mtu) <= buffsize
  /\ ~TooLow(told) => /\ Length(maxsect) <= told
                      /\ ~raised => Length(maxsect) <= buffsize

Framed ==
  frame # None =>
    /\ frame.length \in Nat /\ frame.length <= Length(maxsect)
    /\ frame.kind = "write" =>
         frame.got = IF frame.length <= buffsize THEN frame.length ELSE buffsize
    /\ frame.kind = "read" =>
         frame.got = IF frame.length <= ifmtu + Ether THEN frame.length ELSE 0

SizeInv == Mtus /\ Announced /\ Framed
=============================================================================
