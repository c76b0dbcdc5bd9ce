# Verification of qaoed

qaoed is a multi-threaded ATA-over-Ethernet target: it exports files and disks as
targets that clients ("initiators") find and use over raw Ethernet frames. This
directory holds TLA+ models of it, the TLC configurations that check them, and
proofs checked by TLAPS. Paths below are relative to the repository, line numbers
are those of the commit the models were written from.

    tlc -workers 2 -config Reload.cfg MCReload     model-check one run
    tlapm DispatchProofs.tla                       check the proofs

`PROJECT.json` lists the components, the runs with the properties they check, the
mutants (plausible bugs in a definition, each breaking one property), the source
lines behind every definition, the hazards of the code and the theorems.

## 1. The system

### Components

| Component | Source | State it keeps | Operations |
|---|---|---|---|
| Network listeners | `arch/linux_net.c` 125-181, `network.c` | one thread per interface; the frame in hand | read, drop, queue on devices |
| Work and frames | `network.c` 19-255 | `struct workentry`, `struct pkt` with reference counts | allocate, raise, destroy |
| Device workers | `devices.c` 614-678 | one thread per device; queue, lock, condition variable | wait, take, process, answer |
| ATA service | `devices.c` 63-320 | the file behind the device | read, write, identify, refuse |
| Config strings | `devices.c` 323-465 | `cfg[1024]`, `cfg_len` per device | read, match, partial match, set if empty, set |
| Access lists | `acl.c`, `parseconf.c` 514-657 | lists of rows with a policy; four list pointers per device | match, attach, remove |
| Device list | `api.c` 803-1035, `network.c` 191-252 | linked list under `devlistlock`; interface counts; the default section's slot | walk, add, delete, status |
| Interfaces | `parseconf.c` 971-1024, `arch/linux_net.c` 48-123, `api.c` 565-616 | mtu, buffer size, socket | open, SETMTU, announce |
| Configuration | `parseconf.c` | sections, defaults, the configuration that results | parse, inherit, validate, destroy |
| Daemon life cycle | `main.c` | configuration in use, signal disposition | start, shut down, SIGHUP reload |
| API session | `api.c` 1039-1297, `qdctl.c` | one thread, one connection at a time, two byte streams | accept, receive, answer, hang up |
| Configuration syntax | `rcfg/` | tokens, blocks | tokenise, check, include, parse |
| Log targets | `parseconf.c` 326-488, `logging.c` | a linked list, one of them the default | parse, open, write |
| Platform layer | `arch/` | sockets, BPF | |

### Interaction and what is hard

A listener reads a frame into a counted buffer, wraps it in a counted work entry
and, walking the device list under a read lock, appends the entry to the queue of
*every* device the frame addresses, signalling each worker. Workers take entries,
work on them and drop the references; the last one frees. So one buffer is shared
by a listener and any number of workers, under two counts with a mutex each.

The API thread changes the device list, the access lists and the mtu while listeners
and workers use them: the list under `devlistlock`, the lists and the mtu under no
lock at all. It serves one connection to its end before it accepts the next, so that a
client that waits for an answer that never comes keeps everybody else out. The main thread, in its SIGHUP handler, loads a new configuration,
cancels and joins the threads of the old one, starts the new one and frees the old.
Clients repeat requests whose answers are late or lost, and the daemon keeps no
record of what it has done.

What must hold, by component: nothing is used after it was freed and nothing leaks,
no request sleeps in a queue, requests are served as often as addressed and in
arrival order (dispatch); no thread runs on a freed configuration, a reload ends
(life cycle); walks see one whole list, targets stay unique, nobody is shut out from
the lock (device list); the string is a register (config strings); a verdict is that
of a list in force (access lists); the file means what the manual says
(configuration, syntax); client and daemon stay in step on the stream, everybody who
connects is served (API session); what was acknowledged is stored, what is read was written (ATA);
frames that keep to the announcement are whole (interfaces).

## 2. Modules

Each `MCx` module instantiates module `x` for TLC: it EXTENDS it and defines the
values a `.cfg` gives to constants; each `xProofs` holds the theorems about `x` (section 5),
and where their inductive invariant is not needed elsewhere it is the last section of `x`.
Mutants stand beside the definition they change
and are used by nothing else in the project.

**Dispatch** (with **RequestDelivery**, **DispatchProofs**). One step is one
critical section or one access to shared memory. `pc[t]` is where thread t is:
a listener goes read, mkwork (allocate the entry with a reference for itself), walk,
uppkt (the second count is raised), insert, and after two loops - address match and
broadcast - putpkt, nullraw, putwork (`qaoed_workdestroy`, shared with workers). A
worker goes start (advertisements), idle, wait or handle, putpkt and so on. `Wait` is
the emptiness test and `pthread_cond_wait` in one, as both happen under the queue
mutex; `SpuriousWake` and failing mallocs are switched on by constants. The device
list is fixed here. `RequestDelivery` knows neither threads nor counts: an accepted
request becomes due at its devices at once, each device serves the requests of an
interface in order. The refinement mapping puts the entry a worker has taken, what
is queued and what the walk has still to queue into one line per interface and device.

**WorkQueue** is what Dispatch is built on: the queue of a device as the code has it,
entries linked by `next`, with `q`, `qstart` and `qend` beside them, and the two
operations on it. Dispatch keeps the queue as a sequence too; its `Insert` and `Take`
move both in one step, as the code does under the queue mutex, and `Linked` says that
the list holds what the sequence holds. Its theorem stands in DispatchProofs, as it
needs the invariant of Dispatch.

**Reload.** `step` is where the main thread is in `sighuphandler`, `qaoed_startup` and
`qaoed_shutdown`; the loops over interfaces and devices visit one element per step in
any order, which includes list order. `thread[g][x]` is the thread of x in the g-th
startup, `tid` what the configuration's entry remembers of it, `cancel` the pending
cancellations. A listener ends in `read`, a worker in `pthread_cond_wait`, which then
leaves the queue lock locked for ever (`"locked"`). `JoinAgainCrashes` and `Stopped`
are the two outcomes of joining a thread twice, which is undefined.

**DeviceList.** The links `head`, `next`, `prev` themselves, the hold counts of the
read-write lock, the API thread's position in TARGET_ADD and TARGET_DEL. Whether the
lock prefers readers (glibc's default) or writers is chosen at the start
(`writerPref`). Of an address only the slot is kept, with its 8-bit wrap. `Devices` is what
a walk from `head` meets, `Onward` what one meets from where it stands.

**CfgString** (with **CfgRegister**). `mem[d]` is the whole of `cfg[]`, bytes of older
strings and of `malloc` included, `len[d]` is `cfg_len`; a request's length is
converted as the build's byte order has it. `CfgRegister` is what a client expects; it
leaves open whether a partial match is answered for bytes that are not in the string.

**AccessList.** `Made` is `parseACL`, `Parsed` what it makes of one statement. A check is the test of the pointer, the call (the
compiler may read the pointer once or twice, `Call` has both) and one step per row.
SETACL is two assignments per list and device, NULL and then the new list, which is
what `seen` records as `"gap"`.

**ConfigLoad.** One action per call of `qaoed_loadconfig`, one step per section; the
numbers keep their width. `Logs`, `Lists` and `Blocks` are the sections, a statement that is
not made being None, `Devices` what a block becomes. `Kept` is the loop of `findLOG` and
`findACL`, a recursive function. `Meant` is written from the manual page and says what a file
means, independently of the order in which the code gets there; `Rest` leaves out a
section that cannot be parsed, with those of its kind before it. `stuck` is a load that
never returns.

**ConfigSyntax.** A file is the sequence of its tokens. `stack` is the recursion of
`tokenize` over included files, one step per token that is searched for an include;
`checkdatatype`, `checkargs`, `recursiveparse` and the others are operators with the
names of the functions. What is read past the end of a list of tokens may be anything
(`beyond`), and is noted (`past`), as are the files that are opened (`opened`). `Meanings` is the grammar of the manual, in which
any word may be a value, keywords such as `default` among them, and `allow` is a rule;
`Expected` is the same over includes; these and `recursiveparse` are recursive functions. `Words` are the
tokens that a file may have, any set of them. The names of the state machine
(`SyntaxInit`, `SyntaxNext`, `ValidateTokens`, `Nil`) are such that ConfigProofs extends both
ConfigLoad and this module.

**AtaService.** A client with retransmission and a network that loses frames (external)
around the listener and the workers of one target. A write stores its tag in its
sectors; `known[s]` is what the client may find in sector s.

**ApiSession** with **FrameSize**. FrameSize has the sizes of an interface in the
numbers of the source: mtu, buffer, announced sectors. ApiSession EXTENDS it: programs
that connect, the streams in pieces of the size that one `send` has, the API thread from
`accept` to the end of the connection, one action per command. `SetMtu` of FrameSize is
what the SETMTU command does, and frames come and go between the requests. Of what ADD,
DEL and STATUS do to the device list only the slots in use and the read hold that
STATUS leaves are kept; the rest is DeviceList.

What composes what: Dispatch has the device list fixed, DeviceList shows that a walk
is whole; Reload has one request queue per worker, Dispatch shows that it is served.
ApiSession has a request done in one step, DeviceList and AccessList show what happens
between; ConfigSyntax ends with the blocks that ConfigLoad begins with, and Reload has
both as a load that succeeds, fails or exits. CfgString and AtaService have the queue of a device as a sequence, which Dispatch
shows it to be.

## 3. Runs

| Run | Shows | Distinct states |
|---|---|---|
| dispatch | `Delivery`: the threads implement RequestDelivery with its liveness; `RefcountExact`: nothing leaks; `NoStaleWork` | 158 000 |
| work_queue | `IInv`, `UseSafe`: nothing is used after it was freed but by a worker woken for nothing, where malloc fails and wakeups are spurious; `NoLostWakeup`; `ResponsesDropped` (big-endian); `Linked` | 980 000 |
| reload | `NoFreedListener`, `Drained`, `InService`, `ReloadEnds` with loads and starts that fail | 51 000 |
| reload_workers | violated: `WorkersStopped` | |
| device_list | `ListShape` (with the types), `WholeWalk`, `UniqueTargets`, `FramesServed`, `RequestsServed` | 170 000 |
| list_status | violated: `HoldsReturned` | |
| cfg_string | `Behaves` (refines CfgRegister), `PathsAgree` | 2 040 000 |
| access_list | `Justified`, `SuccessMeansSet`, `PathsAlike` | 1 400 000 |
| config_load | `LoadedIsMeant`, `LoadedIsRight`, `RefusedIsWrong` | 1 730 000 |
| config_syntax | `Understood`, `NothingElse`, `InBounds` | 71 000 |
| ata_service | `AcknowledgedIsStored`, `ReadsRight` | 1 880 000 |
| api_session | `OwnAnswer`, `ToldRight`, `NoMutualWait`, `Served`, `SentIsDone`; `WholeWrites`, `AnswersSent` | 580 000 |

### Bounds, and why they are enough

- *Dispatch*: two listeners and two workers are what a race on one count, one queue or
  one entry takes. In dispatch two frames may come on one interface or on two, and one
  of them reaches one device twice. The safety part is proved for any number.
- *work_queue*: five frames: a request, a broadcast, a response, a short one and a failed
  read whose buffer holds a header; up to three reach one device, so
  that entries are appended to a list of two, to one, and to one just emptied. One
  listener: what it does to the list is under the queue mutex.
- *Reload*: two interfaces and one device, three configurations (two reloads, so that a
  thread of the first can meet the third), two waiting requests. Devices do not
  interact; two listeners of one worker do, over the queue lock.
- *DeviceList*: slots 0..2 wrap within the additions of a behaviour; four structs are
  two of the configuration and two added. Memory is not reused, so the number of
  structs bounds additions.
- *CfgString*: a `cfg[]` of one byte; strings of none, of one, which may differ, and of
  two, which is longer than the limit. Up to two requests wait at each device and a third is
  on its way, so that those of two clients overlap and one path is ahead of the other; the
  paths are alike (symmetry).
- *AccessList*: a list with an address in two rows and a match in the last row against
  its policy, one without rows. The checks of one device are followed (`Followed`):
  checks of different devices read nothing in common.
- *ConfigLoad*: slots of two bits and shelves of one, so that counting reaches "not set"
  and wraps within three devices. Files satisfy `NumbersFit` and `AllStated` (section 4),
  which TLC evaluates (`FilesAsAsked`). Up to two
  log targets: a circle of one and of two, an unnamed one before and behind the default.
- *ConfigSyntax*: thirteen sets of files (all kinds of blocks; includes of a file, of
  several, of an include, of the file itself, of an empty one, of none; the manual's
  `name = default`, `log = default` and `allow`; values that are misread; a file with a
  fault that nothing includes) and each of them
  after one edit of the main file or of the one it includes: a token left out, doubled or
  exchanged with the next, or the rest cut off, as by an editor that is not done. One
  edit is what separates a file from its neighbours. Besides, every file of up to four
  tokens, and every file of up to three that a well-formed one includes. `MaxOpen` stands
  for the limit of open files. The three properties are proved for any files.
- *AtaService*: three requests, two under way at a time, two frames on the network and
  in a queue: a write, its late copy, and a later write or read. A file of one sector,
  and one past its end.
- *ApiSession*: one qdctl and one program that sends its command only: one that is
  served and one that waits. Thirteen targets fit a reply and fourteen do not, which is
  where qdctl leaves data in the stream. MTUs of 20 (less than a header), 1024, 4200 (more
  than the initial buffer) and 10000 (more than the interface has).

`MaxLoads`, `MaxQueue`, `MaxStatus`, `MaxTag`, `MaxPending`, `MaxFrames`, `MaxOpen` and `Counts` bound
behaviours and are named in the modules. `CHECK_DEADLOCK FALSE` is set where the system
may come to rest (all frames served) or die.

### Fairness

- *Dispatch*, *Reload*: weak fairness of each thread - the scheduler runs what can run.
  Arriving frames, signals and spurious wakeups are promised to nobody. No mutex is
  held across steps there, so nothing stronger is needed.
- *ApiSession*: weak fairness of the API thread and of each program's sending and
  receiving. Nobody has to connect or to be killed, `accept` need not fail. A `recv` that
  waits for a client that does nothing is no step, and so promised nothing.
- *DeviceList*: weak fairness of the API thread, strong fairness of a listener's walk:
  a writer that unlocks wakes the readers that wait, so one that may have the lock over
  and over gets it. A writer gets no such promise from glibc, and `RequestsServed` is
  claimed only where the lock prefers writers.

## 4. Where the code and its documents disagree

Two are runs with a counterexample:

- **reload_workers**: `main.c:75` says "Wait for all device threads to finish"; the loop
  joins the listeners again. Workers outlive the configuration that is freed.
- **list_status**: `api.c:39` says "Place a readlock on the int-list"; the code locks
  `devlistlock` a second time and unlocks a lock it does not hold. The API thread then
  blocks itself at the next TARGET_ADD or TARGET_DEL (`SelfBlocked`); with a lock that
  prefers writers it takes the listeners with it, which is why `FramesServed` and
  `RequestsServed` make an exception of it.

The others are in the models, as the code has them, and delimit what the properties
above are stated for:

- `network.c:151`: the response bit is masked with `htons()` of an 8-bit flag, so a
  little-endian build never drops responses ("If its a response we simply drop it").
  `SeenAsResponse`; `ResponsesDropped` fails with `LittleEndian = TRUE`.
- `devices.c:634`: an `if` around `pthread_cond_wait`. A spurious wakeup (or the signal
  after a failed `insertwork`) makes the worker go on with an old pointer: a use of what
  was freed or never set. `TakeNothing`; `NoStaleWork` fails with `Spurious = TRUE` or
  `MallocFails = TRUE`, and this use is the exception that `UseSafe` names. What it does is
  undefined: nothing is claimed of the worker after it, and what the other properties say
  of the others is said of a run in which it did no harm to them.
- `arch/linux_net.c:166`, `network.c:127`: "The packet has to be at least sizeof(struct
  aoe_hdr) long", but the length is an int and the size a size_t: the -1 of a failed
  `read` passes both tests, and a buffer nobody wrote is taken for a frame. The kind
  `"failed"` in `AfterTests`: what it holds may be dropped or queued.
- `main.c:98-103`: after a file that did not load SIGHUP stays ignored (qaoed.8: SIGHUP
  "Causes server to reread and reload the configuration"). `LoadNull`; `ReloadEnds`, which
  ends with SIGHUP handled again, is stated for a shutdown, that is for a file that did.
- `devices.c:622`: a worker can be cancelled while it logs that it starts, before it looks
  at its queue. A reload that follows another closely loses what the listeners had queued
  by then. `EndWorker`; `Drained` is about workers that end in their wait.
- `main.c:124-150`: "Revoke the change and continue running the old config" shuts down
  listeners that never started; `pthread_cancel` gets an id nobody filled in and the
  daemon ends. (For a worker a failure is only logged, main.c:71.) `Missed`; the restart of the old configuration is never reached.
- `api.c:902`: after a TARGET_DEL that succeeded `device` is NULL and is dereferenced.
  `DelCrashes`.
- `api.c:967-983`: a TARGET_ADD that is refused as a duplicate is not answered: qdctl
  waits for its answer, the API thread for the next request, everybody else for the
  thread. `AddDuplicate`, and in the same way `Ignore` for a command without a handler;
  `MutualWait`, the exception in `NoMutualWait` and `Served`.
- `api.c:40` again: as qdctl sends STATUS first, each of its TARGET_ADD and TARGET_DEL
  blocks the API thread for good. `SelfBlock`, part of `Stuck`.
- `api.c:1283`: one `accept` that fails ends the thread. `AcceptFails`, part of `Stuck`.
- `api.c:657`: INTERFACE_STATUS announces 32 bytes and sends 24, and qdctl reads 12 of
  them. As it leaves after the SETMTU that follows, without reading on, it does not meet
  the rest. `IfStatus`; a qdctl that waited for the reply to a SETMTU would read the rest
  of that answer for a header (the mutant `AwaitsAll` of `OwnAnswer`).
- `qdctl.c:170`: room for a reply is allocated if it is shorter than 2048 bytes, and it is
  read if it is not longer: a list of exactly 2048 bytes is read over the end of 8. What
  becomes of qdctl is not modelled (it reads nothing after a list). A longer list is not
  read. `Wants`.
- `devices.c:395`: the length of a match is compared without `ntohs`; `Behaves` fails
  with `LittleEndian = TRUE` ("respond to exact match").
- `devices.c:409`: a partial match ignores `cfg_len`. `PartlyMatches`.
- `network.c:198`: the paths of one target have strings of their own; with requests on
  two interfaces the listeners queue in different orders and the strings differ, so
  `PathsAgree` is stated for one. In the same way each path carries each write out on
  the one file, a slow one after a newer write: `ReadsRight` is stated for one path.
- `api.c:695`: SETACL passes through NULL, which lets everything through, between two
  lists that both reject. `Clear`; `Justified` counts the gap. `api.c:701`: a list that
  does not exist leaves the device without one.
- `acl.c:26`: a refused request is logged as "allow", as no rule is zero. `Logged`.
- `parseconf.c:156`, 1190: slot and shelf do not default to zero (qaoed.conf.5: "This
  value default to zero"), such a file is refused. `AllStated` says that a file states
  them, on the device or in the default section: the hypothesis of what is said of
  refused files.
- `parseconf.c:189`: numbers are cut to their field; 256 is slot 0. `parseconf.c:915`: a
  device whose slot is 255, or its shelf 65535, has stated none: it takes the one of the
  default section, and a slot counts on. The manual ends the range before that, but neither
  `parseDEV` nor the validation says so to who states it. (For shelves it ends it at 65533,
  the code one later.) `NumbersFit` has the numbers
  within the range, the hypothesis of what is said of the files that are loaded.
- `parseconf.c:274`, 315: a section with a wrong statement drops those of its kind before
  it, the file is loaded, and the devices that are left count their slots anew. `Kept`,
  `FindDEV`; `Rest`.
- `parseconf.c:483`: examples/qaoed.conf:46 says of the log target named default that it
  "will be automatically created if it isnt defined". Where there are log targets and
  none has that name the list is closed to a circle, and `openlogs` goes round it for
  ever, or until files run out: the daemon hangs at its start, and at a reload within the
  signal handler. `CreateLOG`, `OpenLogs`; `NoDefaultLog`, the exception in
  `RefusedIsWrong`. `ReloadEnds` is stated for loads that end.
- `parseconf.c:114`, `acl.c:64`: the search for a name follows a null pointer where a log
  target, or an access list, without a name comes before the one that is looked for.
  `Trips`. `acl.c:97`: a list that is found is locked by a mutex that nobody initialised,
  so that a file that names lists may end the load. `ListHurts`. Such loads are `"dead"`, as
  is one that follows a pointer nobody set (`WildNext`): nothing is claimed of them.
- `parseconf.c:1107-1132`: a list that names a log target that is not there is refused, a
  device that does so is not. `LogsFound`.
- `rcfg/readconf.c:26`, 146, 445: tokens past the end are looked at if a file ends in a
  keyword, or one token behind it, or in "=". `Beyond`; `CutShort`, the exception in
  `InBounds`.
- `rcfg/readconf.c:582`: after interface, name, policy, accept and reject, which have no
  entry in `datatype`, a missing semicolon goes unnoticed and the next statement loses
  its keyword, or is not read; nor are blocks of these names (but for interface) refused.
  `Unended`, an exception in `NothingElse`, and so are `} {`
  (braces are only counted, `Crossed`), a value or a block without a keyword
  (`Nameless`), a sign or `include` for a value (`Valued`), and an argument that is a part
  of one that is allowed, as "o" is of "on" (`strstr`, `Parted`).
- `rcfg/readconf.c:166`: `allow` is no keyword and `checktokenlist` refuses it, so the
  manual's own access list (qaoed.conf.5:434 `allow = "00:16:3E:2F:E1:17";`) is not read;
  the code has `accept`, as has the grammar of the page (325). `Misread`, the exception in `Understood`.
- `rcfg/readconf.c:145`, 442: `checkargs` and the search for includes look at every token,
  values too. A value that is `policy`, `type`, `writecache`, `broadcast`, `log-level`
  or one of syslog's two is checked as that keyword against the token two behind it, and one that is `include`
  includes what stands there. The manual excludes no name from being a value
  (`log = default;`, 442, is read as it should be). `Misread`, and `Valued` in `Faulty`.
- `rcfg/readconf.c:437`: a file without tokens is refused, and with it every file that
  includes it. `ValidateTokens`. So is an include that stands for no file. `Include`. What is included is read behind the whole of the file that
  includes it, not in the place of the statement. `Close`.
- `parseconf.c:36`: a list that does not exist is logged and the device left open.
- `parseconf.c:1171`: a directory passes the validation, which says "is not a regular file or
  block device!" and goes on (qaoed.conf.5: "The file or blockdevice to export"). `Valid`;
  `Exportable`, the exception in `LoadedIsRight`.
- `devices.c:150`: a write that stored only a part, of a sector even, is acknowledged
  ("Everything is OK", 161). `Write`; the sectors it fell short of, `cut`, are the exception
  in `AcknowledgedIsStored` and `ReadsRight`.
- `parseconf.c:690`: an interface without `mtu` has 1500; qaoed.conf.5:308 says that "the
  default is to try to figure out the MTU automatically", for which the code wants
  `mtu = auto`. `CfgMtus` has 0 for auto and numbers; what is left out is a number.
- `arch/linux_net.c:62`: where the system does not tell the mtu `getifmtu` returns -1, and
  `auto` takes it for one, in the configuration (`parseconf.c:1001`) as in SETMTU
  (`api.c:587`). `Reported`; such an mtu is too low (below).
- `api.c:598`: SETMTU raises the mtu and not the buffer. `SetMtu`; `raised`
  remembers it, the exception in `WholeWrites`, which so says of SETMTU only that smaller
  ones do no harm.
- `devices.c:370`: an mtu below 36 announces 255 sectors. `MaxSect`; `TooLow` of the
  mtu the client was told of (`told`), the exception in `WholeWrites` and `AnswersSent`.

## 5. Proofs

Eight modules, `xProofs` for module `x`, hold theorems for *every* value of the constants: any
number of listeners, devices, clients, targets, frames, lists and bytes. The assumptions are
those the modules name (`ASSUME`), and each of them is evaluated by TLC in a run:

| Assumption | Says |
|---|---|
| `ThreadsAssumption`, `FramesAssumption` (Dispatch), `NullAssumption` (WorkQueue) | threads are finitely many, listeners are no devices; frames and devices have addresses; NULL is no entry |
| `BoundsAssumption` (Reload) | there are interfaces and devices, as a file without is refused, and they are different; bounds are at least one |
| `ListAssumption`, `InitAssumption` (DeviceList) | NULL is no struct, interface or device; structs are finitely many; what the configuration holds is a list of unique targets |
| `CfgAssumption`, `NoneAssumption` (CfgString) | strings have lengths that fit a request; "nothing" is no request, interfaces are finitely many |
| `AccessAssumption`, `NoneAssumption` (AccessList) | fields are all different, blocks are sequences; "nothing" is no name and no check |
| `SessionAssumption`, `CommandsAssumption` (ApiSession), `SizesAssumption` (FrameSize) | numbers are numbers, "nobody" is no client, qdctl is a client; what a list of commands asks for is well formed; one to 255 sectors are asked for |
| `FilesAssumption` (ConfigLoad) | sections state numbers and names or nothing, "default" is a name, "nothing" is none; 0xff and 0xffff are positive |
| `SyntaxAssumption` (ConfigSyntax) | files are sequences of `Words`, at least one may be open, what is past the end (`Nil`) is no word, keyword or verdict, nor `allow` |
| `AtaAssumption` (AtaService) | there are paths, finitely many, the file has a sector, junk is no tag |

Hypotheses of single theorems are stated with them: `~MallocFails` and `~Spurious` where the
code is wrong without them (section 4), `~LittleEndian` where a length or flag is compared
turned round; `NumbersFit` and, for refused files, `AllStated`, where what the manual says
and what the code does with a number are different things (section 4).

| Module | Theorem | States |
|---|---|---|
| DispatchProofs | `NoUseAfterFree`, `ExactCounts`, `NoWakeupLost`, `NoWorkStale`, `NoResponseServed` | `UseSafe`, `RefcountExact`, `NoLostWakeup`, `NoStaleWork`, `ResponsesDropped` |
| DispatchProofs | `KeepsPromise` | the safety part of `Delivery`: RequestDelivery without its fairness |
| DispatchProofs | `ListIsQueue` | `Linked` |
| ReloadProofs | `NothingFreedIsRead`, `NothingIsLeftQueued`, `ReloadServes` | `NoFreedListener`, `Drained`, `InService` |
| DeviceListProofs | `ListIsOne`, `WalksAreWhole`, `TargetsAreUnique` | `ListShape`, `WholeWalk`, `UniqueTargets` |
| CfgStringProofs | `DevicesBehave`, `AllPathsAgree` | `Behaves` (a refinement), `PathsAgree` |
| AccessListProofs | `VerdictsAreJustified`, `SuccessIsTrue`, `PathsEndAlike` | `Justified`, `SuccessMeansSet`, `PathsAlike` |
| ApiSessionProofs | `AnswersAreOwn`, `AddedIsThere`, `WaitsAreNamed`, `WritesAreWhole`, `AnswersAreSent` | `OwnAnswer`, `ToldRight`, `NoMutualWait`, `WholeWrites`, `AnswersSent` |
| ConfigProofs | `LoadsWhatIsMeant`, `LoadsWhatIsRight`, `RefusesWhatIsWrong` | `LoadedIsMeant`, `LoadedIsRight`, `RefusedIsWrong` |
| ConfigProofs | `SyntaxUnderstood`, `SyntaxNothingElse`, `SyntaxInBounds` | `Understood`, `NothingElse`, `InBounds` |
| AtaServiceProofs | `WritesAreKept`, `ReadsAreRight` | `AcknowledgedIsStored`, `ReadsRight` |

In each module the invariant that is proved is not the property but a stronger one that a
step preserves. TLC checked it on the instance of the module's run before it was proved.

**Dispatch.** `Kept`, the part of `UseSafe` about what is held, is not inductive: that a count is positive where a thread stands says
nothing of who else is about to lower it. `IInv` therefore counts: `Holders` is the set of all
references there are - a thread's own for the frame it works on, the one a listener has
taken for the entry it is about to append, and each entry in a queue - and `Counts` says
that each count is at least their number, and equal to it where malloc does not fail.
For a step to change the set by the one element the count changes by, an entry may not
be in a queue twice and may not be there before it is appended (`Entries`), and only the
listener that read a frame works on it before it is queued (`Places`). The cardinality
steps (adding, removing, moving one holder) are lemmas; then one lemma per action and
conjunct. `NoLostWakeup` and `NoStaleWork` need their own short inductions, and so does
`ResponsesDropped` (no frame that is a response is ever wrapped). `UseSafe` is `Kept`, or the
use of a stale pointer that takes a spurious return or a malloc that failed.

`KeepsPromise` is the refinement: with the mapping of `Promise`, `Init` is an initial state of
`RequestDelivery`, `MakeWork` is its `Accept`, `Handle` its `Serve`, and every other step leaves
the mapped state as it is (`PromisedStep`). The steps that move a frame along its line are the
ones to argue about: an append (`InsertUnseen`: out of the walk, to the end of the queue), an
unlink (`TakeUnseen`: off the queue, into the worker's hands) and the change of loops
(`NextPass` in `QuietSteps`). What the queue contributes to the line of one
interface is `Only`, read off the places of that interface's frames; `OnlyAppend` and
`OnlyTail` say what an append and an unlink do to it, from the fact that a finite set of numbers
is counted in increasing order in one way (`Counted`, `Countable`). `Only` is defined by counting
because `SelectSeq` is recursive. It assumes that no malloc fails: with a failing one a
request is lost, and the promise with it. Spurious wakeups it allows: a worker that crashes
on one serves nothing more, but nothing wrong.

**WorkQueue.** `Linked` alone is not inductive: an entry could be linked
that was freed before, or whose `next` still leads somewhere. `ListInv` adds that the
entries that were freed are not made again (`Spent`: their frame was wrapped, and no walk
has yet to queue them) and that entries yet to be made lead nowhere (`Unmade`). Two lemmas
are about one list and one operation, `InsertHolds` and `UnlinkHolds`; that a queue holds
no entry twice, which both need, is `Entries` of `IInv`.

**Reload.** That nothing freed is read depends on who was joined before the free, and that on
which thread an entry of the configuration names. `Order` says which configuration is
started, stopped, kept and destroyed at each `step`; `Named` which generation its entries name
then; `Doomed` that a startup that failed half-way has a listener nobody started, on which the
shutdown dies before it can free anything; `Cancelled` that a worker is cancelled only when
the listeners of its generation have ended, and nobody of the generation in service;
`Living` that whoever was created runs until then.

**DeviceList.** `Chain` is the list as a sequence, `IsList` says that the links, forward and
back, are those of that sequence and of nothing else. `Adding` keeps the struct of a TARGET_ADD
off every list until it is linked, and free of clashes once `Duplicate` was evaluated, which
holds because nobody but the API thread adds; `Locked` says that a writer is alone. `Walked`
is what makes `WholeWalk` inductive: what a walk has met, followed by what it will
meet, is the whole list. Linking and unlinking are lemmas on sequences.

**CfgString.** `DevicesBehave` is the implementation of `CfgRegister`: initial states map to
initial states, every step to a step or a stutter, with `Content` for the string. For
`PathsAgree` what is in a device's queue is taken into account: `Agreed` says that there is
one string to which every device comes once it has carried out what is pending, `Leads` by a
witness for the strings in between.

**AccessList.** A verdict is judged by `Rule`, the meaning of a block in the manual, while
the code walks the list that `Made` builds one statement at a time; `MadeStands` shows
that the rows are the accept and reject statements in order, and the policy the last one.
`Checked` says that a worker's check has seen the list in force, that the list it walks is one
it has seen, and that no row it has passed has the source. For SETACL `Progress` says that
each field that is done has what was asked for, and NULL where no list has the name, which
`ok` remembers: with nothing left that is `SuccessMeansSet` and `PathsAlike`.

**ApiSession and FrameSize.** `Stage` ties what a program is doing to what either stream holds
and to what the daemon is doing: a program that awaits a reply has nothing of an older one
before it. `Told` is what has been read. `SizeInv` is the part of FrameSize: what a
client was told fits the mtu it was told of and, until SETMTU raises the mtu over the
buffer, the buffer.

**AtaService.** The requests queued on a path and those still on the wire are one line
(`Line`). `Ordered` says that behind a copy of a request that the client waits for nothing else
comes for its sectors; `Stored` that the file, and each write still in the line, has
only what the client may find; `Answered` that once a write was answered, everything
in the line that writes its sectors is a copy of it. `Stored` and `Answered` hold for one
path, as the properties do. A step makes a line thinner (`Thins`) or puts a request at its
end.

**ConfigLoad.** `LoadInv` says, for each part of `qaoed_loadconfig`, what has been read by
then. `Kept` of the code, a loop that starts anew at each bad section, is `Rest` of the
manual, what follows the last of them (`KeptIsRest`); `Found` is the same for the devices
half-way, with the last bad section as a witness. For the defaults `Heir` has what a device
inherits as it stands, and `Counting` the slots: either the default section has handed them
out as they were due, or a device got 0xff, on which the validation refuses the file
whatever came after the wrap. So the devices are `Meant` if the file is valid
(`ValidIsMeant`), and if the manual finds nothing wrong with it (`FaultlessIsMeant`); and once
they are, validation and manual ask for the same (`SameDemands`).

**ConfigSyntax.** Three parts. *One list of tokens*: `Level` counts the braces, and
`MeaningSound` shows by induction from the end of the list that tokens with a meaning are
balanced at every point, begin as an item begins, and that each of them has a `Role` in
one (value, sign, keyword). From that follows that the checks let them pass unless a word is misread (`FinePasses`),
and that a block can end at one brace only, the one `recursiveparse` finds: there is one meaning,
and it is what the code makes (`MeaningParsed`). The other way, tokens that the checks let
pass and that have none of the faults are `Flawless`, and what is flawless and balanced has
a meaning (`PassesMeans`). *Lists joined*: what the tokens of an included file mean goes
behind (`MeaningsJoined`), a meaning does not depend on where its tokens stand
(`MeaningMoved`). *The stack*: `StackInv` says that a file that was validated begins with its
own tokens and ends as some file ends, which is all that `InBounds` needs (`ParseEnded`: only
after a last "=" is a value missing). `Truth` adds, for the other two, and as long as no
file that was opened is misread or none is faulty, `Told` of each file
on the stack: of the files its includes stand for, those that are done are behind its own tokens
with what they mean, one may be on the stack above it, and the rest is still in `todo`. With nothing
left, what the top means is one of `Expected` (`ToldWhole`), and goes behind the file that
included it (`ToldBehind`). `Needs` says that a file at depth l of a configuration that is well
formed can be read with the files that may still be opened, so that the limit does not refuse it.

*Recursion.* The lists of DeviceList, AccessList and ConfigLoad are computed by recursive
functions, and so are `recursiveparse`, `Scanned`, `Meaning` and `Expected` of ConfigSyntax.
That such a function exists, and that what it computes has a property, is proved with
the least number for which it would fail (`Least`, from the well-foundedness of `<` on
the naturals), as the library's induction theorems take an operator as parameter, which the
provers here cannot instantiate.

*Only model-checked:* everything temporal beyond invariants, action properties and
`Behaves` - the liveness of `Delivery` (its safety is `KeepsPromise`), `ReloadEnds`,
`FramesServed`, `RequestsServed`, `Served`, `SentIsDone` - since TLAPS does not do liveness
under fairness. Every invariant and action property of the runs that pass is proved.

## 6. Not modelled, and why

- Identify and C/H/S numbers: no state changes. Constant fields of replies: layout.
- BSD's listener and ioctl calls: a second implementation of the modelled Linux ones.
- Logging: output only. What a device or an interface names as its log target.
- How characters make tokens: lines, comments and quotes of a file.
- Numbers too large for their field (`parseconf.c:189`) are cut by `Number`, but no file of
  config_load has one: the manual gives them no meaning to compare with.
- Memory that cannot be allocated for a reply of the API, and arguments cut short by
  their sender; `processTARGET_DETAILS`, `processACL_STATUS`, `processINTERFACE_ADD` and
  `processINTERFACE_DEL`, which are called from nowhere.
- The command line and daemonising: before any thread exists.
- The API thread's end: nothing stops it, at a reload it goes on with the pointer it has.
- The window between `signal()` and the end of the handler: it depends on which thread
  the kernel delivers a process signal to.
- Reference counts of access lists: nothing reads them. Replies that are allocated and
  not sent: memory that is only lost changes nothing a client can see.

## 7. Plan

In order of importance:

1. **Proofs**: the composition of ConfigSyntax and ConfigLoad, so that the sections that are
   loaded are those of the tokens: what `cfg` is at the end as a file of ConfigLoad.
2. Composition of Dispatch and DeviceList: a device that is added while frames are
   queued on others. Deletion ends in a crash before anything else can go wrong.
3. The characters of a configuration; a SIGHUP that arrives in the last statement of its
   handler.
