------------------------------ MODULE WorkQueue ------------------------------
(***************************************************************************)
(* The queues of the devices as the code keeps them: a singly linked list   *)
(* of struct queueentry from device->q (qfirst here), with qstart and qend  *)
(* beside it.  insertwork (network.c) appends at qend without a walk, the   *)
(* worker (devices.c) unlinks at q and frees, both under the queue mutex.   *)
(* Dispatch does either in one step with the rest of its critical section.  *)
(*                                                                         *)
(* A queueentry is named by the frame and the loop of processpacket it was  *)
(* made for: none is made twice for one device.                             *)
(***************************************************************************)
EXTENDS Naturals, Sequences

CONSTANTS Devices,       \* worker threads, one per exported device
          Packets,       \* the frames that may arrive, each at most once
          None           \* NULL

Passes == {1, 2}
Qes    == Packets \X Passes

ASSUME NullAssumption == None \notin Qes

VARIABLES
  qfirst,   \* qfirst[d], qstart[d], qend[d]: entries or NULL
  qstart,
  qend,
  next,     \* next[d][e]: the next pointer of an entry
  freed     \* freed[d]: the entries that were freed

links == <<qfirst, qstart, qend, next, freed>>

LinksInit ==
  /\ qfirst = [d \in Devices |-> None]
  /\ qstart = [d \in Devices |-> None]
  /\ qend = [d \in Devices |-> None]
  /\ next = [d \in Devices |-> [e \in Qes |-> None]]
  /\ freed = [d \in Devices |-> {}]

\* insertwork: an entry that finds neither an empty queue nor an end is lost.
InsertWork(d, e) ==
  /\ qfirst' = [qfirst EXCEPT ![d] = IF @ = None THEN e ELSE @]
  /\ qstart' = [qstart EXCEPT ![d] = IF qfirst[d] = None THEN e ELSE @]
  /\ qend' = [qend EXCEPT ![d] = IF qfirst[d] = None \/ @ # None THEN e ELSE @]
  /\ next' = IF qfirst[d] # None /\ qend[d] # None
               THEN [next EXCEPT ![d][qend[d]] = e] ELSE next
  /\ UNCHANGED freed

\* Mutant: the end is not forgotten with the last entry.
UnlinkKeepsEnd(d) ==
  LET e == qfirst[d] IN
  /\ qstart' = [qstart EXCEPT ![d] = IF e = @ THEN next[d][e] ELSE @]
  /\ qfirst' = [qfirst EXCEPT ![d] = next[d][e]]
  /\ freed' = [freed EXCEPT ![d] = @ \cup {e}]
  /\ UNCHANGED <<qend, next>>

\* The worker unlinks the first entry: the end goes with it when it is the last.
Unlink(d) ==
  LET e == qfirst[d] IN
  /\ qend' = [qend EXCEPT ![d] = IF e = @ THEN None ELSE @]
  /\ qstart' = [qstart EXCEPT ![d] = IF e = @ THEN next[d][e] ELSE @]
  /\ qfirst' = [qfirst EXCEPT ![d] = next[d][e]]
  /\ freed' = [freed EXCEPT ![d] = @ \cup {e}]
  /\ UNCHANGED next

\* The list of device d holds the entries of s: from q they hang together in the
\* order of s, the last one is qend and leads nowhere, and nothing that was freed
\* is on the list or is pointed to by q, qstart or qend.
Holds(d, s) == LET n == Len(s) IN
  /\ qfirst[d] = (IF n = 0 THEN None ELSE s[1])
  /\ qend[d] = (IF n = 0 THEN None ELSE s[n])
  /\ qstart[d] = qfirst[d]
  /\ \A k \in 1..n : /\ next[d][s[k]] = (IF k = n THEN None ELSE s[k + 1])
                     /\ s[k] \notin freed[d]

\* What the proofs need besides: the links have their types, and an entry that is
\* neither in s nor was freed, and so is yet to be made, leads nowhere.
LinkTypes ==
  /\ qfirst \in [Devices -> Qes \cup {None}]
  /\ qstart \in [Devices -> Qes \cup {None}]
  /\ qend \in [Devices -> Qes \cup {None}]
  /\ next \in [Devices -> [Qes -> Qes \cup {None}]]
  /\ freed \in [Devices -> SUBSET Qes]

Unmade(d, s) ==
  \A e \in Qes : e \notin freed[d] /\ (\A k \in 1..Len(s) : s[k] # e)
                 => next[d][e] = None
=============================================================================
