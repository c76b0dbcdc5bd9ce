------------------------------ MODULE DeviceList ------------------------------
(***************************************************************************)
(* The list of exported devices, shared by the listeners, which walk it    *)
(* for every frame, and the API thread, which adds and deletes targets     *)
(* (api.c, processpacket of network.c).  The read-write lock devlistlock   *)
(* guards it.                                                              *)
(*                                                                         *)
(* The two loops of processpacket run under one hold of the lock and are   *)
(* one walk here.  What the walk does with a device is module Dispatch.    *)
(* Of an address only the slot is kept; Unset stands for 0xff, the value   *)
(* of a slot nobody assigned.                                              *)
(***************************************************************************)
EXTENDS Naturals, Sequences, FiniteSets, SequencesExt

CONSTANTS Listeners,    \* network threads
          Structs,      \* memory for struct aoedev
          Ifs, Files,   \* interfaces, device files
          Unset,        \* the slot 0xff: slots are 0..Unset
          InitList,     \* the devices of the configuration, in order
          InitAttr,     \* InitAttr[s]: slot, file and interface of device s
          AddRequests,  \* [slot, file, ifc] of targets clients may add
          DelRequests,  \* [slot, ifc] of targets clients may delete
          HasDefault,   \* the configuration has a default section
          DefaultIfc,   \* its interface, or None
          FirstSlot,    \* its slot, after the configuration was loaded
          MaxStatus,    \* bound: STATUS requests in one behaviour
          OpenFails,    \* a device file may fail to open
          None

Slots == 0..Unset

\* What the daemon keeps of a device.
Devices == [slot : Slots, file : Files, ifc : Ifs \cup {None}]

ASSUME ListAssumption ==
  /\ InitList \in Seq(Structs) /\ IsInjective(InitList)
  /\ Unset \in Nat /\ FirstSlot \in Slots /\ MaxStatus \in Nat
  /\ HasDefault \in BOOLEAN /\ OpenFails \in BOOLEAN
  /\ DefaultIfc \in Ifs \cup {None}
  /\ None \notin Structs \cup Ifs \cup Devices /\ IsFiniteSet(Structs)
  /\ AddRequests \subseteq Devices

\* A configuration in which two devices clash is not loaded (module ConfigLoad).
ASSUME InitAssumption ==
  /\ \A s \in ToSet(InitList) : InitAttr[s] \in Devices /\ InitAttr[s].ifc \in Ifs
  /\ \A s, t \in ToSet(InitList) :
       s # t /\ InitAttr[s].slot = InitAttr[t].slot
         => InitAttr[s].ifc # InitAttr[t].ifc /\ InitAttr[s].file = InitAttr[t].file

VARIABLES
  head,      \* conf->devices
  next,      \* next[s], prev[s]: the links of s
  prev,
  attr,      \* attr[s]: slot, file and interface of s, None if not allocated
  started,   \* devices with a worker thread
  refcnt,    \* refcnt[i]: reference count of interface i
  slot,      \* conf->devdefault->slot
  holds,     \* read holds of devlistlock by the API thread
  writer,    \* the API thread holds devlistlock for writing
  writerPref,  \* readers wait behind a writer that waits; fixed by the library
  api,       \* where the API thread is
  req,       \* the request it works on
  new,       \* the device it adds
  at,        \* at[l]: the device listener l has come to in its walk
  pc,        \* pc[l]: whether listener l waits for a frame, for the lock, walks
  seen       \* seen[l]: the devices of its walk (history)

vars == <<head, next, prev, attr, started, refcnt, slot, holds, writer, writerPref,
          api, req, new, at, pc, seen>>
list == <<head, next, prev>>
walks == <<at, pc, seen>>
lock == <<holds, writer, writerPref>>

\* The devices one meets from s on, following `next`, at most n of them.
From[n \in 0..Cardinality(Structs)] ==
  [s \in Structs \cup {None} |->
     IF s = None \/ n = 0 THEN <<>> ELSE <<s>> \o From[n - 1][next[s]]]
Onward(s) == From[Cardinality(Structs)][s]
Chain == Onward(head)
Listed == ToSet(Chain)

Init ==
  LET L == Len(InitList)
      IndexIn(s) == CHOOSE n \in 1..L : InitList[n] = s
      In == ToSet(InitList)
  IN /\ head = IF L = 0 THEN None ELSE InitList[1]
     /\ next = [s \in Structs |-> IF s \in In /\ IndexIn(s) < L
                                    THEN InitList[IndexIn(s) + 1] ELSE None]
     /\ prev = [s \in Structs |-> IF s \in In /\ IndexIn(s) > 1
                                    THEN InitList[IndexIn(s) - 1] ELSE None]
     /\ attr = [s \in Structs |-> IF s \in In THEN InitAttr[s] ELSE None]
     /\ started = In
     /\ refcnt = [i \in Ifs |-> Cardinality({s \in In : InitAttr[s].ifc = i})]
     /\ slot = FirstSlot
     /\ holds = 0 /\ writer = FALSE /\ writerPref \in BOOLEAN
     /\ api = "recv" /\ req = None /\ new = None
     /\ at = [l \in Listeners |-> None]
     /\ pc = [l \in Listeners |-> "read"]
     /\ seen = [l \in Listeners |-> <<>>]

-----------------------------------------------------------------------------
(* devlistlock. *)

Walkers == {l \in Listeners : pc[l] = "walk"}
Waiting == api \in {"addlock", "dellock"}

\* Mutant: readers never wait behind a waiting writer, whatever the lock.
MayReadFirst == ~writer

MayRead == ~writer /\ ~(writerPref /\ Waiting)

\* Mutant: the write lock does not wait for readers.
MayWriteAtOnce == ~writer

MayWrite == ~writer /\ holds = 0 /\ Walkers = {}

-----------------------------------------------------------------------------
(* Listeners. *)

\* A frame for a device has arrived.
Frame(l) ==
  /\ pc[l] = "read"
  /\ pc' = [pc EXCEPT ![l] = "rdlock"]
  /\ UNCHANGED <<list, attr, started, refcnt, slot, lock, api, req, new, at, seen>>

StartWalk(l) ==
  /\ pc[l] = "rdlock" /\ MayRead
  /\ pc' = [pc EXCEPT ![l] = "walk"]
  /\ at' = [at EXCEPT ![l] = head]
  /\ seen' = [seen EXCEPT ![l] = <<>>]
  /\ UNCHANGED <<list, attr, started, refcnt, slot, lock, api, req, new>>

Visit(l) ==
  /\ pc[l] = "walk" /\ at[l] # None
  /\ seen' = [seen EXCEPT ![l] = Append(@, at[l])]
  /\ at' = [at EXCEPT ![l] = next[at[l]]]
  /\ UNCHANGED <<list, attr, started, refcnt, slot, lock, api, req, new, pc>>

EndWalk(l) ==
  /\ pc[l] = "walk" /\ at[l] = None
  /\ pc' = [pc EXCEPT ![l] = "read"]
  /\ seen' = [seen EXCEPT ![l] = <<>>]
  /\ UNCHANGED <<list, attr, started, refcnt, slot, lock, api, req, new, at>>

-----------------------------------------------------------------------------
(* The API thread: one client, one request at a time. *)

\* STATUS counts devices under the lock, then takes devlistlock once more to
\* count interfaces and releases intlistlock, which it does not hold.
Status ==
  /\ api = "recv" /\ holds < MaxStatus
  /\ holds' = holds + 1
  /\ UNCHANGED <<list, attr, started, refcnt, slot, writer, writerPref, api, req, new, walks>>

\* The slot and the interface of a new device after qaoed_devdefaults.
Defaulted(r) ==
  [slot |-> IF r.slot = Unset /\ HasDefault THEN slot ELSE r.slot,
   file |-> r.file,
   ifc  |-> IF r.ifc = None /\ HasDefault THEN DefaultIfc ELSE r.ifc]

NextSlot == (slot + 1) % (Unset + 1)

\* TARGET_ADD: memory, the values of the request, the defaults.
Add(r, s) ==
  /\ api = "recv"
  /\ attr[s] = None
  /\ attr' = [attr EXCEPT ![s] = Defaulted(r)]
  /\ next' = [next EXCEPT ![s] = None]
  /\ prev' = [prev EXCEPT ![s] = None]
  /\ slot' = IF r.slot = Unset /\ HasDefault THEN NextSlot ELSE slot
  /\ new' = s /\ req' = r /\ api' = "addcheck"
  /\ UNCHANGED <<head, started, refcnt, lock, walks>>

\* Two devices may share a slot only if they are the same file on two
\* interfaces.
Clashes(s, t) ==
  /\ attr[s].slot = attr[t].slot
  /\ attr[s].ifc = attr[t].ifc \/ attr[s].file # attr[t].file

\* Mutant: only the first device of the list is looked at.
DuplicateOfFirst(s) == head # None /\ Clashes(head, s)

Duplicate(s) == \E t \in Listed : Clashes(t, s)

\* Under a read hold, which nobody can keep from the API thread here.  A
\* duplicate is freed and the client is not answered.
AddCheck ==
  /\ api = "addcheck"
  /\ IF Duplicate(new)
       THEN /\ attr' = [attr EXCEPT ![new] = None]
            /\ api' = "recv" /\ req' = None /\ new' = None
       ELSE api' = "start" /\ UNCHANGED <<attr, req, new>>
  /\ UNCHANGED <<list, started, refcnt, slot, lock, walks>>

\* qaoed_startdevice: the file is opened, a worker started and the interface's
\* count raised; a device that has no interface crashes the daemon there.
Start ==
  /\ api = "start"
  /\ IF attr[new].ifc = None
       THEN api' = "dead" /\ UNCHANGED <<started, refcnt>>
       ELSE /\ api' = "addlock"
            /\ started' = started \cup {new}
            /\ refcnt' = [refcnt EXCEPT ![attr[new].ifc] = @ + 1]
  /\ UNCHANGED <<list, attr, slot, lock, req, new, walks>>

\* The file does not open: the client is told, the memory is not freed.
StartFails ==
  /\ OpenFails
  /\ api = "start"
  /\ api' = "recv" /\ req' = None /\ new' = None
  /\ UNCHANGED <<list, attr, started, refcnt, slot, lock, walks>>

WriteLock ==
  /\ Waiting /\ MayWrite
  /\ writer' = TRUE
  /\ api' = IF api = "addlock" THEN "link" ELSE "unlink"
  /\ UNCHANGED <<list, attr, started, refcnt, slot, holds, writerPref, req, new, walks>>

\* Mutant: the back link of the new device is forgotten.
LinkOneWay ==
  /\ api = "link"
  /\ IF head = None THEN head' = new /\ UNCHANGED next
                    ELSE next' = [next EXCEPT ![Last(Chain)] = new] /\ UNCHANGED head
  /\ writer' = FALSE
  /\ api' = "recv" /\ req' = None /\ new' = None
  /\ UNCHANGED <<prev, attr, started, refcnt, slot, holds, writerPref, walks>>

\* The new device goes to the end of the list; the client is answered.
Link ==
  /\ api = "link"
  /\ IF head = None
       THEN head' = new /\ UNCHANGED <<next, prev>>
       ELSE /\ next' = [next EXCEPT ![Last(Chain)] = new]
            /\ prev' = [prev EXCEPT ![new] = Last(Chain)]
            /\ UNCHANGED head
  /\ writer' = FALSE
  /\ api' = "recv" /\ req' = None /\ new' = None
  /\ UNCHANGED <<attr, started, refcnt, slot, holds, writerPref, walks>>

\* TARGET_DEL waits for the write lock first.
Del(r) ==
  /\ api = "recv"
  /\ req' = r /\ api' = "dellock"
  /\ UNCHANGED <<list, attr, started, refcnt, slot, lock, new, walks>>

Matched(r) == {s \in Listed : attr[s].slot = r.slot
                                /\ (r.ifc = None \/ attr[s].ifc = r.ifc)}

\* Mutant: the lock is kept when the request is refused.
DelRefusedHeld ==
  /\ api = "unlink" /\ Cardinality(Matched(req)) # 1
  /\ api' = "recv" /\ req' = None
  /\ UNCHANGED <<list, attr, started, refcnt, slot, lock, new, walks>>

\* None or several match: the client is told so.
DelRefused ==
  /\ api = "unlink" /\ Cardinality(Matched(req)) # 1
  /\ writer' = FALSE
  /\ api' = "recv" /\ req' = None
  /\ UNCHANGED <<list, attr, started, refcnt, slot, holds, writerPref, new, walks>>

\* The one that matches is unlinked and its worker cancelled.
Unlink ==
  /\ api = "unlink"
  /\ \E s \in Matched(req) :
       /\ Matched(req) = {s}
       /\ head' = IF prev[s] = None THEN next[s] ELSE head
       /\ next' = IF prev[s] = None THEN next ELSE [next EXCEPT ![prev[s]] = next[s]]
       /\ prev' = IF next[s] = None THEN prev ELSE [prev EXCEPT ![next[s]] = prev[s]]
  /\ writer' = FALSE
  /\ api' = "deleted"
  /\ UNCHANGED <<attr, started, refcnt, slot, holds, writerPref, req, new, walks>>

\* The loop has run to the end of the list, so `device` is NULL when the
\* interface's count is to be lowered.
DelCrashes ==
  /\ api = "deleted"
  /\ api' = "dead"
  /\ UNCHANGED <<list, attr, started, refcnt, slot, lock, req, new, walks>>

-----------------------------------------------------------------------------
Request == \/ \E r \in AddRequests, s \in Structs : Add(r, s)
           \/ \E r \in DelRequests : Del(r)
           \/ Status

\* TARGET_LIST, SETACL and the other requests change none of this.
Serve == AddCheck \/ Start \/ StartFails \/ WriteLock \/ Link
           \/ DelRefused \/ Unlink \/ DelCrashes

Walk(l) == api # "dead" /\ (StartWalk(l) \/ Visit(l) \/ EndWalk(l))

Next == \/ Request \/ Serve
        \/ \E l \in Listeners : Walk(l) \/ (api # "dead" /\ Frame(l))

\* The scheduler runs every thread that can run; frames and requests come or
\* do not come.  A writer that unlocks hands the lock to readers that wait, so a
\* reader that may have it again and again gets it; a writer has no such promise.
Fairness == /\ WF_vars(Serve)
            /\ \A l \in Listeners : SF_vars(Walk(l))

Spec == Init /\ [][Next]_vars
FairSpec == Spec /\ Fairness
-----------------------------------------------------------------------------
\* Every variable holds a value of its kind.
TypeOK ==
  /\ head \in Structs \cup {None}
  /\ next \in [Structs -> Structs \cup {None}]
  /\ prev \in [Structs -> Structs \cup {None}]
  /\ attr \in [Structs -> Devices \cup {None}]
  /\ started \in SUBSET Structs
  /\ refcnt \in [Ifs -> Nat]
  /\ slot \in Slots
  /\ holds \in 0..MaxStatus /\ writer \in BOOLEAN /\ writerPref \in BOOLEAN
  /\ api \in {"recv", "addcheck", "start", "addlock", "link", "dellock",
              "unlink", "deleted", "dead"}
  /\ req \in AddRequests \cup DelRequests \cup {None}
  /\ new \in Structs \cup {None}
  /\ at \in [Listeners -> Structs \cup {None}]
  /\ pc \in [Listeners -> {"read", "rdlock", "walk"}]
  /\ seen \in [Listeners -> Seq(Structs)]

\* The links are those of one list: no cycle, `prev` the inverse of `next`, and
\* every device in it allocated and with a worker.
ListShape ==
  /\ TypeOK
  /\ IsInjective(Chain)
  /\ Chain # <<>> => prev[head] = None /\ next[Last(Chain)] = None
  /\ \A n \in 1..(Len(Chain) - 1) : prev[Chain[n + 1]] = Chain[n]
  /\ \A s \in Listed : attr[s] # None /\ s \in started

\* A listener that walks has met the devices in list order and will meet the
\* rest: nothing is added, skipped or met twice while it walks.
WholeWalk ==
  \A l \in Walkers :
    seen[l] \o (IF at[l] = None THEN <<>> ELSE Onward(at[l]))
      = Chain

\* "Make sure we dont set the same slot/shelf on multiple targets unless they
\* point to the same device and uses different interfaces".
UniqueTargets == \A s, t \in Listed : s # t => ~Clashes(s, t)

\* The API thread waits for a write lock that it keeps from itself: it still has
\* a read hold from a STATUS request.
SelfBlocked == Waiting /\ holds > 0

\* A frame that has come is served, whatever targets are added and deleted, as
\* long as the API thread is not blocked by itself; and where the lock prefers
\* readers even then.
FramesServed ==
  \A l \in Listeners :
    pc[l] = "rdlock" ~> \/ pc[l] = "read" \/ api = "dead"
                        \/ writerPref /\ SelfBlocked

\* Where the lock prefers writers a request to add or delete gets the lock in the
\* end, however many frames come, unless STATUS has blocked the way.
RequestsServed == writerPref /\ Waiting ~> ~Waiting \/ SelfBlocked

\* The locks STATUS takes are given back before the next request.
HoldsReturned == api = "recv" => holds = 0
-----------------------------------------------------------------------------
(* The inductive invariant the proofs rest on.                               *)

\* One meets L, and nothing else, from s on.
Follows(L, s) ==
  /\ s = IF L = <<>> THEN None ELSE L[1]
  /\ \A n \in 1..Len(L) : next[L[n]] = IF n = Len(L) THEN None ELSE L[n + 1]

\* L is the list, linked both ways, of devices that run.
IsList(L) ==
  /\ L \in Seq(Structs) /\ IsInjective(L) /\ Follows(L, head)
  /\ \A n \in 1..Len(L) : /\ prev[L[n]] = IF n = 1 THEN None ELSE L[n - 1]
                          /\ attr[L[n]] # None /\ L[n] \in started

\* The device that is being added is on no list, and once it was checked it clashes
\* with none that is.
Adding ==
  /\ api \in {"addcheck", "start", "addlock", "link"} =>
       /\ new \in Structs /\ attr[new] # None /\ new \notin Listed
       /\ next[new] = None /\ prev[new] = None
  /\ api \in {"start", "addlock", "link"} => ~Duplicate(new)
  /\ api \in {"addlock", "link"} => attr[new].ifc # None /\ new \in started

\* Who writes writes alone.
Locked ==
  /\ writer <=> api \in {"link", "unlink"}
  /\ writer => Walkers = {}

\* What a walk has met and what lies ahead is the list.
Walked(l) ==
  pc[l] = "walk" =>
    \E M \in Seq(Structs) : Follows(M, at[l]) /\ seen[l] \o M = Chain

IInv ==
  /\ TypeOK /\ IsList(Chain) /\ UniqueTargets /\ Adding /\ Locked
  /\ \A l \in Listeners : Walked(l)
=============================================================================
