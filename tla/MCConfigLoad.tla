----------------------------- MODULE MCConfigLoad -----------------------------
(* Instances of ConfigLoad for TLC.  Slots have two bits, shelves one, so that *)
(* counting up meets 0xff and wraps within three devices.                      *)
EXTENDS ConfigLoad, TLC

Targets == [f |-> "file", g |-> "file", dir |-> "other", gone |-> "missing"]

Words == {"default", "audit", "deny", "guest", "eth0", "eth1"}

Block(slots, shelves, targets, ints, lists, bads) ==
  [shelf : shelves, slot : slots, target : targets, interface : ints, read : lists, bad : bads]

FilesOf(logs_, ints, acls, dflts, devs) ==
  [logs : logs_, ints : ints, acls : acls, dflt : dflts, devices : devs]

UpTo(n, s) == UNION {[1..j -> s] : j \in 1..n}

Good(name)  == [name |-> name, log |-> None, bad |-> FALSE]
Bad(name)   == [name |-> name, log |-> None, bad |-> TRUE]

Full == Block({0, 1, 2}, {0}, {"f"}, {None, "eth0"}, {None, "deny"}, {FALSE})
Some == Block({None, 0, 2}, {None}, {"f", "g"}, {None, "eth0", "eth1"}, {None}, {FALSE})

\* Files with a default section that states slot and shelf.
WithDefaults == FilesOf({<<>>}, {{}}, {<<Good("deny")>>}, Full, UpTo(3, Some))

\* Devices that state everything, some of it missing or out of place, and no
\* default section that could be used; lists, and an interface section; sections
\* with a statement they cannot have.
Devs == Block({0, 1}, {0}, {None, "f", "gone"}, {None, "eth0", "eth1"}, {None, "deny", "guest"}, {FALSE})
          \cup Block({0}, {0}, {"f", "dir"}, {"eth0"}, {"deny"}, BOOLEAN)
Alone == FilesOf({<<>>}, {{}, {"eth0"}},
                 {<<Good("deny"), Good("guest")>>, <<Good("deny"), Bad("guest")>>,
                  <<Good("deny"), Good(None), Good("guest")>>},
                 {None} \cup Block({0}, {0}, {None}, {None}, {None}, {TRUE}), UpTo(2, Devs))

\* Log targets of both types, named or not, some of them bad, and lists that log.
Targets1 == Block({0}, {0}, {"f"}, {"eth0"}, {"deny"}, {FALSE})
Logged == FilesOf(UpTo(2, [name : {None, "default", "audit"}, type : {"file", "syslog"}, bad : BOOLEAN]),
                  {{}}, {<<[name |-> "deny", log |-> l, bad |-> FALSE]>> : l \in {None, "default", "audit"}},
                  {None}, {<<d>> : d \in Targets1})

AllFiles == WithDefaults \cup Alone \cup Logged
\* The files are such as the theorems of ConfigProofs speak of.
ASSUME FilesAsAsked == NumbersFit /\ AllStated
=============================================================================
