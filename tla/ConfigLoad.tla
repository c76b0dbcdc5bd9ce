------------------------------ MODULE ConfigLoad ------------------------------
(***************************************************************************)
(* From a configuration file to the devices that are exported              *)
(* (qaoed_loadconfig of parseconf.c): the log targets, interfaces, access  *)
(* lists, the default section and the devices are read one after the       *)
(* other, devices take what they do not state from the default section,    *)
(* the interfaces are opened and the whole is validated.                   *)
(*                                                                         *)
(* A file is what rcfg leaves of it: the sections in their order, each     *)
(* with the statements it has.  Of the statements that are inherited as    *)
(* they stand the interface and the read list are kept.                    *)
(***************************************************************************)
EXTENDS Naturals, Sequences, FiniteSets, SequencesExt

CONSTANTS Files,       \* configuration files
          NoSlot,      \* 0xff, the largest value of a slot
          NoShelf,     \* 0xffff, the largest value of a shelf
          Kind,        \* Kind[t]: what the target t is: file, other, missing
          Strings,     \* the names a file may give
          OpenFails,   \* a log file or an interface may fail to open, or an MTU be too high
          None

OrNone(S) == S \cup {None}

\* Sections.  A statement that a section does not make is None; bad is one that it
\* cannot have.
Logs   == [name : OrNone(Strings), type : {"file", "syslog"}, bad : BOOLEAN]
Lists  == [name : OrNone(Strings), log : OrNone(Strings), bad : BOOLEAN]
Blocks == [shelf : OrNone(Nat), slot : OrNone(Nat), target : OrNone(DOMAIN Kind),
           interface : OrNone(Strings), read : OrNone(Strings), bad : BOOLEAN]

\* What a block becomes (struct aoedev).
Devices == [shelf : 0..NoShelf, slot : 0..NoSlot, target : OrNone(DOMAIN Kind),
            interface : OrNone(Strings), read : OrNone(Strings)]

ASSUME FilesAssumption ==
  /\ NoSlot \in Nat \ {0} /\ NoShelf \in Nat \ {0} /\ OpenFails \in BOOLEAN
  /\ \A f \in Files : /\ f.logs \in Seq(Logs) /\ f.ints \in SUBSET Strings
                       /\ f.acls \in Seq(Lists) /\ f.dflt \in OrNone(Blocks)
                       /\ f.devices \in Seq(Blocks)
  /\ "default" \in Strings /\ None \notin Nat \cup Strings \cup Blocks \cup Devices

VARIABLES
  file,     \* the file that is loaded
  phase,    \* the part of qaoed_loadconfig that comes next
  k,        \* the device block, or the device, that comes next
  loglist, circle,   \* the log targets; whether the last leads to the first
  intlist, acllist, devdefault, devices

logs == <<loglist, circle>>
vars == <<file, phase, k, logs, intlist, acllist, devdefault, devices>>

Init == /\ file \in Files
        /\ phase = "logs" /\ k = 1
        /\ loglist = <<>> /\ circle = FALSE
        /\ intlist = {} /\ acllist = <<>> /\ devdefault = None /\ devices = <<>>

-----------------------------------------------------------------------------
\* A section that cannot be parsed makes NULL of the list: those before it are lost.
Kept(blocks) ==
  LET kept[n \in 0..Len(blocks)] ==
        IF n = 0 \/ blocks[n].bad THEN <<>> ELSE Append(kept[n - 1], blocks[n])
  IN kept[Len(blocks)]

\* referencelog, referenceacl: the list is searched from its head, and a null pointer
\* followed where one without a name comes before the one that is looked for.
Names(lists) == {l.name : l \in Range(lists)}

Trips(lists, name) ==
  \E n \in DOMAIN lists : lists[n].name = None /\ \A m \in 1..n - 1 : lists[m].name # name

DefaultLog == [name |-> "default", type |-> "syslog", bad |-> FALSE]

\* Mutant: the end of the list is made to point to the list whoever is in it.
CreateLOGTwice ==
  /\ phase = "logs"
  /\ circle' = TRUE
  /\ loglist' = IF Kept(file.logs) = <<>> THEN <<DefaultLog>> ELSE Kept(file.logs)
  /\ phase' = "openlogs"
  /\ UNCHANGED <<file, k, intlist, acllist, devdefault, devices>>

\* createLOG.  Where there are targets and none is named default one is created behind
\* the last, and lost again: behind the last is then hung what createdefaultlog
\* returns, the list itself.
CreateLOG ==
  /\ phase = "logs"
  /\ LET found == Kept(file.logs)
     IN /\ circle' = (found # <<>> /\ "default" \notin Names(found))
        /\ loglist' = IF found = <<>> THEN <<DefaultLog>> ELSE found
        /\ phase' = IF Trips(found, "default") THEN "dead" ELSE "openlogs"
  /\ UNCHANGED <<file, k, intlist, acllist, devdefault, devices>>

\* openlogs goes round a circle for ever, unless files that it opens again and again
\* run out.
OpenLogs ==
  /\ phase = "openlogs"
  /\ LET files == \E n \in DOMAIN loglist : loglist[n].type = "file" IN
     \/ phase' = CASE ~circle -> "interfaces" [] circle /\ files -> "refused" [] OTHER -> "stuck"
     \/ files /\ OpenFails /\ phase' = "unopened"
  /\ UNCHANGED <<file, k, logs, intlist, acllist, devdefault, devices>>

Stated(blocks) == {b.interface : b \in blocks} \ {None}

\* Interface sections, and every interface = in any other section.
FindINT ==
  /\ phase = "interfaces"
  /\ intlist' = file.ints \cup Stated(Range(file.devices)
                                        \cup IF file.dflt = None THEN {} ELSE {file.dflt})
  /\ phase' = IF intlist' = {} THEN "refused" ELSE "lists"
  /\ UNCHANGED <<file, k, logs, acllist, devdefault, devices>>

\* A log target, and the first interface section, is allocated and its next pointer
\* never set: what follows it is chance.
WildNext ==
  /\ \/ phase = "logs" /\ file.logs # <<>>
     \/ phase = "interfaces" /\ file.ints # {}
  /\ phase' = "dead"
  /\ UNCHANGED <<file, k, logs, intlist, acllist, devdefault, devices>>

\* The log target of a list is searched where the list names it; a list with a wrong
\* statement may be given up before.
FindACL ==
  /\ phase = "lists"
  /\ acllist' = Kept(file.acls)
  /\ LET lost == {l \in Range(file.acls) : l.log # None /\ Trips(loglist, l.log)} IN
     \/ phase' = "default" /\ \A l \in lost : l.bad
     \/ phase' = "dead" /\ lost # {}
  /\ UNCHANGED <<file, k, logs, intlist, devdefault, devices>>

\* A number is stored in as many bits as the field has; a list that does not
\* exist is none.
Number(stated, none) == IF stated = None THEN none ELSE stated % (none + 1)

Parsed(b) == [shelf |-> Number(b.shelf, NoShelf), slot |-> Number(b.slot, NoSlot),
              target |-> b.target,
              interface |-> IF b.interface \in intlist THEN b.interface ELSE None,
              read |-> IF b.read \in Names(acllist) THEN b.read ELSE None]

\* The block names an access list, and the search for it trips.
Stumbles(b) == b.read # None /\ Trips(acllist, b.read)

\* The end of a load at a list that a block names: the search trips, or it finds the
\* list and aclrefup locks a mutex that nobody initialised, which may go well.
Hurts(b) == Stumbles(b) \/ (b.read # None /\ b.read \in Names(acllist))

ListHurts ==
  /\ \/ phase = "default" /\ file.dflt # None /\ Hurts(file.dflt)
     \/ phase = "devices" /\ k <= Len(file.devices) /\ Hurts(file.devices[k])
  /\ phase' = "dead"
  /\ UNCHANGED <<file, k, logs, intlist, acllist, devdefault, devices>>

FindDFLT ==
  /\ phase = "default"
  /\ file.dflt # None /\ Stumbles(file.dflt) => file.dflt.bad
  /\ devdefault' = IF file.dflt = None \/ file.dflt.bad THEN None ELSE Parsed(file.dflt)
  /\ phase' = "devices"
  /\ UNCHANGED <<file, k, logs, intlist, acllist, devices>>

\* Mutant: a bad block is left out and those before it stay.
FindDEVSkips ==
  /\ phase = "devices" /\ k <= Len(file.devices)
  /\ devices' = IF file.devices[k].bad THEN devices ELSE Append(devices, Parsed(file.devices[k]))
  /\ k' = k + 1
  /\ UNCHANGED <<file, phase, logs, intlist, acllist, devdefault>>

\* parseDEV, with the same fate of the devices before a bad block.
FindDEV ==
  /\ phase = "devices" /\ k <= Len(file.devices)
  /\ LET b == file.devices[k] IN
     /\ Stumbles(b) => b.bad
     /\ devices' = IF b.bad THEN <<>> ELSE Append(devices, Parsed(b))
  /\ k' = k + 1
  /\ UNCHANGED <<file, phase, logs, intlist, acllist, devdefault>>

DevicesFound ==
  /\ phase = "devices" /\ k > Len(file.devices)
  /\ phase' = IF devices = <<>> THEN "refused" ELSE "defaults"
  /\ k' = 1
  /\ UNCHANGED <<file, logs, intlist, acllist, devdefault, devices>>

\* A device with what it does not state taken from the default section.
Inheriting(d) ==
  [d EXCEPT !.shelf = IF @ = NoShelf THEN devdefault.shelf ELSE @,
            !.slot = IF @ = NoSlot THEN devdefault.slot ELSE @,
            !.interface = IF @ = None THEN devdefault.interface ELSE @,
            !.read = IF @ = None THEN devdefault.read ELSE @]

\* slot++ of the default section.
Counted == [devdefault EXCEPT !.slot = (@ + 1) % (NoSlot + 1)]

\* qaoed_devdefaults of the next device.
Defaults ==
  /\ phase = "defaults" /\ k <= Len(devices)
  /\ IF devdefault = None THEN UNCHANGED <<devices, devdefault>>
     ELSE /\ devices' = [devices EXCEPT ![k] = Inheriting(@)]
          /\ devdefault' = IF devices[k].slot = NoSlot THEN Counted ELSE devdefault
  /\ k' = k + 1
  /\ UNCHANGED <<file, phase, logs, intlist, acllist>>

\* qaoed_openinterfaces.
OpenInterfaces ==
  /\ phase = "defaults" /\ k > Len(devices)
  /\ phase' \in {"validate"} \cup IF OpenFails THEN {"unopened"} ELSE {}
  /\ UNCHANGED <<file, k, logs, intlist, acllist, devdefault, devices>>

\* Two devices may share an address as two paths of one target.
Clash(d, e) == /\ d.slot = e.slot /\ d.shelf = e.shelf
               /\ d.interface = e.interface \/ d.target # e.target

\* Mutant: devices that follow one another are compared, others are not.
NoClashesNear == \A i \in DOMAIN devices \ {1} : ~Clash(devices[i - 1], devices[i])

NoClashes == \A i, j \in DOMAIN devices : i # j => ~Clash(devices[i], devices[j])

\* A list that names a log target must name one that exists; devices may name any.
LogsFound == \A l \in Range(acllist) : l.log = None \/ l.log \in Names(loglist)

\* What is there but neither a file nor a block device is only logged.
Valid(d) == /\ d.target # None /\ Kind[d.target] # "missing"
            /\ d.interface # None
            /\ d.slot # NoSlot /\ d.shelf # NoShelf

\* qaoed_validateconfig.
Validate ==
  /\ phase = "validate"
  /\ phase' = IF LogsFound /\ NoClashes /\ \A i \in DOMAIN devices : Valid(devices[i])
                THEN "loaded" ELSE "refused"
  /\ UNCHANGED <<file, k, logs, intlist, acllist, devdefault, devices>>

-----------------------------------------------------------------------------
Done == phase \in {"loaded", "refused", "unopened", "stuck", "dead"} /\ UNCHANGED vars

Next == \/ CreateLOG \/ OpenLogs \/ FindINT \/ WildNext \/ FindACL \/ ListHurts \/ FindDFLT
        \/ FindDEV \/ DevicesFound \/ Defaults \/ OpenInterfaces \/ Validate \/ Done

Spec == Init /\ [][Next]_vars
-----------------------------------------------------------------------------

\* A section with a statement it cannot have is left out, with those of its kind
\* before it.
Rest(blocks) ==
  LET bads == {n \in DOMAIN blocks : blocks[n].bad}
  IN IF bads = {} THEN blocks ELSE SubSeq(blocks, Max(bads) + 1, Len(blocks))

\* What qaoed.conf.5 says the rest of the file means.  A statement of the device
\* counts, then one of the default section; slots count up, over the devices that
\* state none, from the default slot; that and the shelf are zero when nothing is
\* said.  A list that is not there is none.
OfDefault(field, otherwise) ==
  IF file.dflt = None \/ file.dflt.bad \/ file.dflt[field] = None THEN otherwise
  ELSE file.dflt[field]

Pick(own, inherited) == IF own = None THEN inherited ELSE own

There(list) == IF list \in Names(Rest(file.acls)) THEN list ELSE None

\* How many of the first n blocks leave their slot to the default section.
Unnumbered(blocks, n) == Cardinality({j \in 1..n : blocks[j].slot = None})

Meant ==
  LET b == Rest(file.devices)
  IN [i \in DOMAIN b |-> [shelf |-> Pick(b[i].shelf, OfDefault("shelf", 0)),
                          slot |-> Pick(b[i].slot, OfDefault("slot", 0) + Unnumbered(b, i - 1)),
                          target |-> b[i].target,
                          interface |-> Pick(b[i].interface, OfDefault("interface", None)),
                          read |-> Pick(There(b[i].read), There(OfDefault("read", None)))]]

\* What the manual asks of the devices: slots and shelves in range, an interface,
\* a target that is there, no target that shares an address with another one; and of the lists
\* that they log to targets that are there, the default one among them.
InRange  == \A i \in DOMAIN Meant : Meant[i].slot < NoSlot /\ Meant[i].shelf < NoShelf
Present == /\ Meant # <<>>
           /\ \A i \in DOMAIN Meant : /\ Meant[i].interface # None /\ Meant[i].target # None
                                      /\ Kind[Meant[i].target] # "missing"
           /\ \A l \in Range(Rest(file.acls)) :
                l.log \in {None, "default"} \cup Names(Rest(file.logs))
Exportable == \A i \in DOMAIN Meant : Meant[i].target # None => Kind[Meant[i].target] # "other"

Complete == Present /\ Exportable
Separate == \A i, j \in DOMAIN Meant : i # j => ~Clash(Meant[i], Meant[j])

\* What qaoed.conf.5 asks of the numbers of a file.  A device that states 0xff as its
\* slot has stated none for the code, and one that states more is cut.
NumbersFit ==
  \A f \in Files :
    /\ \A b \in Range(f.devices) : /\ b.slot # None => b.slot < NoSlot
                                   /\ b.shelf # None => b.shelf < NoShelf
    /\ f.dflt # None => /\ f.dflt.slot # None => f.dflt.slot <= NoSlot
                        /\ f.dflt.shelf # None => f.dflt.shelf <= NoShelf

\* Slots and shelves are stated, by the device or a default section that counts: zero,
\* which qaoed.conf.5 gives to those that are not, is what they never get.
AllStated ==
  \A f \in Files : \A b \in Range(f.devices) : \A field \in {"slot", "shelf"} :
    \/ b[field] # None
    \/ f.dflt # None /\ ~f.dflt.bad /\ f.dflt[field] # None

\* A file that is loaded exports exactly the devices it means: a section that cannot
\* be parsed takes those before it with it and nothing else.
LoadedIsMeant == phase = "loaded" => devices = Meant

\* Only a file in whose rest the manual finds nothing wrong is loaded, with one
\* exception, which the validation logs and accepts (parseconf.c:1171): all that is
\* missing is that a target that is there be "the file or blockdevice to export".
LoadedIsRight ==
  phase = "loaded" => InRange /\ Separate /\ (Complete \/ (Present /\ ~Exportable))

\* Log targets, but none is named default: "automatically created if it isnt defined".
NoDefaultLog == LET rest == Rest(file.logs) IN rest # <<>> /\ "default" \notin Names(rest)

\* Only a file in whose rest the manual finds something wrong, or which does not name
\* its default log target, is refused or never read to its end.  (A load that followed a
\* null or wild pointer, or locked what is no mutex, is dead and not refused.)
RefusedIsWrong ==
  phase \in {"refused", "stuck"} => ~(InRange /\ Present /\ Separate) \/ NoDefaultLog
=============================================================================
