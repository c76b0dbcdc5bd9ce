-------------------------------- MODULE Reload --------------------------------
(***************************************************************************)
(* Start, shutdown and the SIGHUP reload of the daemon (main.c), with the  *)
(* threads it starts and cancels (network.c, devices.c).                   *)
(*                                                                         *)
(* The main thread runs the handler; listeners and workers run beside it.  *)
(* A configuration is what qaoed_loadconfig returns, a generation is one   *)
(* call of qaoed_startup.  A frame is queued on one device here; how       *)
(* frames are queued in detail is module Dispatch.                         *)
(***************************************************************************)
EXTENDS Naturals, FiniteSets

CONSTANTS Ifs,          \* interfaces, the same in every configuration
          Devs,         \* devices, likewise: a file without either does not load
          MaxLoads,     \* bound: configurations loaded in one behaviour
          MaxQueue,     \* bound: requests waiting for one device
          LoadFails,    \* qaoed_loadconfig may return NULL or exit
          StartFails    \* a device may fail to open, a thread to be created

\* Where a thread is; a listener may also be on its way to the queue of a device.
ThreadStates == {"none", "read", "start", "idle", "busy", "gone", "locked"}

ASSUME BoundsAssumption ==
  /\ MaxLoads \in Nat \ {0}
  /\ MaxQueue \in Nat \ {0}
  /\ Ifs # {} /\ Devs # {} /\ Ifs \cap Devs = {}
  /\ Devs \cap ThreadStates = {}
  /\ LoadFails \in BOOLEAN
  /\ StartFails \in BOOLEAN

Configs == 1..MaxLoads
Gens    == 1..(2 * MaxLoads)    \* each configuration is started at most twice

VARIABLES
  step,     \* where the main thread is
  left,     \* what the loop it is in has still to visit
  curcfg,   \* the configuration in use, 0 before the first start
  conf,     \* the configuration loaded last
  on,       \* the argument of the qaoed_startup or qaoed_shutdown that runs
  disp,     \* what SIGHUP does: kill, call the handler, nothing
  mem,      \* mem[c]: whether configuration c is allocated
  gen,      \* generations started so far
  tid,      \* tid[c][x]: generation of the thread whose id x's entry holds
  thread,   \* thread[g][x]: where the thread of x of generation g is
  cancel,   \* threads with a cancellation pending
  queue     \* queue[g][d]: requests waiting for the worker of d

vars == <<step, left, curcfg, conf, on, disp, mem, gen, tid, thread, cancel, queue>>
config == <<curcfg, conf, on, disp, mem>>
threads == <<thread, cancel, queue>>

Init == /\ step = "startD" /\ left = Devs
        /\ curcfg = 0 /\ conf = 1 /\ on = 1
        /\ disp = "kill"
        /\ mem = [c \in Configs |-> IF c = 1 THEN "live" ELSE "none"]
        /\ gen = 1
        /\ tid = [c \in Configs |-> [x \in Ifs \cup Devs |-> 0]]
        /\ thread = [g \in Gens |-> [x \in Ifs \cup Devs |-> "none"]]
        /\ cancel = {}
        /\ queue = [g \in Gens |-> [d \in Devs |-> 0]]

-----------------------------------------------------------------------------
(* The threads. *)

\* A thread that pthread_join would return from: it acted on its cancellation,
\* a worker perhaps inside pthread_cond_wait, which hands it the queue lock.
Ended == {"gone", "locked"}
Alive(g, x) == thread[g][x] \notin Ended \cup {"none"}

Move(g, x, to) == thread' = [thread EXCEPT ![g][x] = to]

\* Listener i reads a frame for device d.  From here to the next read() it
\* cannot be cancelled.
TakeFrame(g, i, d) ==
  /\ thread[g][i] = "read" /\ <<g, i>> \notin cancel
  /\ queue[g][d] + Cardinality({j \in Ifs : thread[g][j] = d}) < MaxQueue
  /\ Move(g, i, d)
  /\ UNCHANGED <<step, left, config, gen, tid, cancel, queue>>

\* It appends the request, unless a worker died with the queue lock.
QueueFrame(g, i, d) ==
  /\ thread[g][i] = d /\ thread[g][d] # "locked"
  /\ queue' = [queue EXCEPT ![g][d] = @ + 1]
  /\ Move(g, i, "read")
  /\ UNCHANGED <<step, left, config, gen, tid, cancel>>

\* read() is the listener's cancellation point.
EndListener(g, i) ==
  /\ thread[g][i] = "read" /\ <<g, i>> \in cancel
  /\ Move(g, i, "gone")
  /\ UNCHANGED <<step, left, config, gen, tid, cancel, queue>>

\* The worker has logged its start and advertised the device.
BeginWork(g, d) ==
  /\ thread[g][d] = "start"
  /\ Move(g, d, "idle")
  /\ UNCHANGED <<step, left, config, gen, tid, cancel, queue>>

\* It takes a request; cancellation is off until the request is done.
TakeWork(g, d) ==
  /\ thread[g][d] = "idle" /\ queue[g][d] > 0
  /\ queue' = [queue EXCEPT ![g][d] = @ - 1]
  /\ Move(g, d, "busy")
  /\ UNCHANGED <<step, left, config, gen, tid, cancel>>

FinishWork(g, d) ==
  /\ thread[g][d] = "busy"
  /\ Move(g, d, "idle")
  /\ UNCHANGED <<step, left, config, gen, tid, cancel, queue>>

\* Mutant: pthread_cond_wait is reached, and cancelled in, with work queued.
EndWorkerEarly(g, d) ==
  /\ <<g, d>> \in cancel
  /\ thread[g][d] \in {"start", "idle"}
  /\ Move(g, d, IF thread[g][d] = "idle" THEN "locked" ELSE "gone")
  /\ UNCHANGED <<step, left, config, gen, tid, cancel, queue>>

\* A worker can be cancelled while it logs its start, whatever is queued by then, and
\* in pthread_cond_wait, which it calls only when its queue is empty.
EndWorker(g, d) ==
  /\ <<g, d>> \in cancel
  /\ \/ thread[g][d] = "start" /\ Move(g, d, "gone")
     \/ thread[g][d] = "idle" /\ queue[g][d] = 0 /\ Move(g, d, "locked")
  /\ UNCHANGED <<step, left, config, gen, tid, cancel, queue>>

-----------------------------------------------------------------------------
(* qaoed_startup(on): the devices first, then the listeners. *)

\* Thread creation: x's entry keeps the id of the new thread.
Create(x, to) ==
  /\ Move(gen, x, to)
  /\ tid' = [tid EXCEPT ![on][x] = gen]
  /\ left' = left \ {x}

StartDevice(d) ==
  /\ step = "startD" /\ d \in left
  /\ Create(d, "start")
  /\ UNCHANGED <<step, config, gen, cancel, queue>>

\* Mutant: a device that cannot be opened is passed over in silence.
DevicesStartedSome ==
  /\ step = "startD"
  /\ step' = "startL" /\ left' = Ifs
  /\ UNCHANGED <<config, gen, tid, threads>>

DevicesStarted ==
  /\ step = "startD" /\ left = {}
  /\ step' = "startL" /\ left' = Ifs
  /\ UNCHANGED <<config, gen, tid, threads>>

StartListener(i) ==
  /\ step = "startL" /\ i \in left
  /\ Create(i, "read")
  /\ UNCHANGED <<step, config, gen, cancel, queue>>

\* All is started: the configuration that was in use before is destroyed, the
\* handler is registered (again) and the main thread sleeps.
Started ==
  /\ step = "startL" /\ left = {}
  /\ step' = "sleep" /\ disp' = "handle"
  /\ curcfg' = on
  /\ mem' = [c \in Configs |-> IF c = curcfg /\ on # curcfg THEN "freed" ELSE mem[c]]
  /\ UNCHANGED <<left, conf, on, gen, tid, threads>>

\* A device or a listener does not start and the rest is left out.  qaoed_main
\* ignores that; the handler shuts the new configuration down again; if the old
\* one fails too the daemon goes on with what it has.
StartFailed ==
  /\ StartFails
  /\ step \in {"startD", "startL"} /\ left # {}
  /\ IF on = curcfg \/ curcfg = 0
       THEN step' = "sleep" /\ disp' = "handle" /\ curcfg' = on /\ UNCHANGED left
       ELSE step' = "cancelL" /\ left' = Ifs /\ UNCHANGED <<disp, curcfg>>
  /\ UNCHANGED <<conf, on, mem, gen, tid, threads>>

-----------------------------------------------------------------------------
(* qaoed_shutdown(on). *)

\* pthread_cancel of an id nobody filled in crashes or fails; a failure ends the
\* daemon for a listener and is only logged for a worker.
Missed(x) == /\ step' \in {"dead"} \cup (IF x \in Devs THEN {step} ELSE {})
             /\ UNCHANGED cancel

\* Mutant: the cancellation request does not reach the thread.
CancelLost(x) == IF tid[on][x] = 0 THEN Missed(x) ELSE UNCHANGED <<step, cancel>>

\* pthread_cancel(x->threadID).
Cancel(x) ==
  IF tid[on][x] = 0
    THEN Missed(x)
    ELSE cancel' = cancel \cup {<<tid[on][x], x>>} /\ UNCHANGED step

CancelListener(i) ==
  /\ step = "cancelL" /\ i \in left
  /\ Cancel(i)
  /\ left' = left \ {i}
  /\ UNCHANGED <<config, gen, tid, thread, queue>>

ListenersCancelled ==
  /\ step = "cancelL" /\ left = {}
  /\ step' = "joinL" /\ left' = Ifs
  /\ UNCHANGED <<config, gen, tid, threads>>

\* Mutant: the listeners are not waited for.
JoinListenerNot(i) ==
  /\ step = "joinL" /\ i \in left
  /\ left' = left \ {i}
  /\ UNCHANGED <<step, config, gen, tid, threads>>

\* pthread_join returns once the listener has ended.
JoinListener(i) ==
  /\ step = "joinL" /\ i \in left
  /\ thread[tid[on][i]][i] \in Ended
  /\ left' = left \ {i}
  /\ UNCHANGED <<step, config, gen, tid, threads>>

ListenersJoined ==
  /\ step = "joinL" /\ left = {}
  /\ step' = "cancelD" /\ left' = Devs
  /\ UNCHANGED <<config, gen, tid, threads>>

CancelWorker(d) ==
  /\ step = "cancelD" /\ d \in left
  /\ Cancel(d)
  /\ left' = left \ {d}
  /\ UNCHANGED <<config, gen, tid, thread, queue>>

WorkersCancelled ==
  /\ step = "cancelD" /\ left = {}
  /\ step' = "joinAgain"
  /\ UNCHANGED <<left, config, gen, tid, threads>>

\* The last loop goes over the interfaces again: a thread that was joined is
\* joined once more, which is undefined; it fails, or crashes the daemon.
JoinAgainCrashes ==
  /\ step = "joinAgain"
  /\ step' = "dead"
  /\ UNCHANGED <<left, config, gen, tid, threads>>

\* It returns: the old configuration makes way for the new one, a new one that
\* failed is destroyed and the old one is started again.
Stopped ==
  /\ step = "joinAgain"
  /\ on' = IF on = curcfg THEN conf ELSE curcfg
  /\ mem' = IF on = curcfg THEN mem ELSE [mem EXCEPT ![conf] = "freed"]
  /\ step' = "startD" /\ left' = Devs
  /\ gen' = gen + 1
  /\ UNCHANGED <<curcfg, conf, disp, tid, threads>>

-----------------------------------------------------------------------------
(* SIGHUP. *)

\* Before qaoed_main registers the handler the signal has its default effect.
SighupKills ==
  /\ disp = "kill" /\ step # "dead"
  /\ step' = "dead"
  /\ UNCHANGED <<left, config, gen, tid, threads>>

Sighup ==
  /\ disp = "handle" /\ step = "sleep" /\ conf < MaxLoads
  /\ step' = "load" /\ disp' = "ignore"
  /\ UNCHANGED <<left, curcfg, conf, on, mem, gen, tid, threads>>

\* A new configuration is loaded and the old one shut down.
Load ==
  /\ step = "load"
  /\ conf' = conf + 1
  /\ mem' = [mem EXCEPT ![conf'] = "live"]
  /\ on' = curcfg
  /\ step' = "cancelL" /\ left' = Ifs
  /\ UNCHANGED <<curcfg, disp, gen, tid, threads>>

\* The file does not describe a configuration: the handler returns.
LoadNull ==
  /\ LoadFails
  /\ step = "load"
  /\ step' = "sleep"
  /\ UNCHANGED <<left, config, gen, tid, threads>>

\* The file has a syntax error: the parser exits.
LoadExits ==
  /\ LoadFails
  /\ step = "load"
  /\ step' = "dead"
  /\ UNCHANGED <<left, config, gen, tid, threads>>

-----------------------------------------------------------------------------
Startup ==
  \/ \E d \in Devs : StartDevice(d)
  \/ DevicesStarted
  \/ \E i \in Ifs : StartListener(i)
  \/ Started \/ StartFailed

Shutdown ==
  \/ \E i \in Ifs : CancelListener(i) \/ JoinListener(i)
  \/ ListenersCancelled \/ ListenersJoined
  \/ \E d \in Devs : CancelWorker(d)
  \/ WorkersCancelled \/ JoinAgainCrashes \/ Stopped

Main == Startup \/ Shutdown \/ Load \/ LoadNull \/ LoadExits

Listener(g, i) ==
  /\ step # "dead"
  /\ \/ \E d \in Devs : QueueFrame(g, i, d)
     \/ EndListener(g, i)

Worker(g, d) ==
  /\ step # "dead"
  /\ BeginWork(g, d) \/ TakeWork(g, d) \/ FinishWork(g, d) \/ EndWorker(g, d)

Arrival == step # "dead" /\ \E g \in Gens, i \in Ifs, d \in Devs : TakeFrame(g, i, d)

Next ==
  \/ Main \/ Sighup \/ SighupKills \/ Arrival
  \/ \E g \in Gens : \/ \E i \in Ifs : Listener(g, i)
                     \/ \E d \in Devs : Worker(g, d)

\* The scheduler runs every thread that can run; frames and signals come or do
\* not come.
Fairness ==
  /\ WF_vars(Main)
  /\ \A g \in Gens : /\ \A i \in Ifs : WF_vars(Listener(g, i))
                     /\ \A d \in Devs : WF_vars(Worker(g, d))

Spec == Init /\ [][Next]_vars
FairSpec == Spec /\ Fairness
-----------------------------------------------------------------------------
\* The generations that a configuration's entries name.
Of(c, x) == {g \in Gens : tid[c][x] = g}

\* No listener runs on a configuration that was destroyed: qaoed_shutdown waits
\* for the listeners before anything is freed.
NoFreedListener ==
  \A c \in Configs, i \in Ifs : mem[c] = "freed" =>
    \A g \in Of(c, i) : ~Alive(g, i)

\* Nothing is queued for a worker that has ended: the listeners have ended before
\* it is cancelled.  And one that ends in pthread_cond_wait leaves no request behind.
\* One that is cancelled while it logs its start does: what it was sent is lost.
Drained ==
  \A g \in Gens, d \in Devs :
    /\ thread[g][d] \in Ended => \A i \in Ifs : thread[g][i] # d
    /\ thread[g][d] = "locked" => queue[g][d] = 0

\* After a reload all threads of the new configuration are there and none of them
\* is being cancelled.  (After the first start, whose result qaoed_main ignores,
\* some may be missing.)
InService ==
  step = "sleep" /\ gen > 1 => \A x \in Ifs \cup Devs :
    \E g \in Of(curcfg, x) : Alive(g, x) /\ <<g, x>> \notin cancel

\* A shutdown comes to its end, in the new configuration with SIGHUP handled again,
\* or in a crash: nobody waits for ever on a thread that does not end, nor on a lock
\* that a cancelled worker took with it.
ReloadEnds ==
  step = "cancelL" ~> \/ step = "sleep" /\ curcfg = conf /\ disp = "handle"
                      \/ step = "dead"

\* "Wait for all device threads to finish": when qaoed_shutdown has returned
\* and the next configuration starts, no worker of the last one is left.
WorkersStopped ==
  step = "startD" /\ curcfg # 0 =>
    \A d \in Devs : \A g \in Of(curcfg, d) : ~Alive(g, d)

-----------------------------------------------------------------------------
(* The inductive invariant the proofs rest on.                               *)

Starting == {"startD", "startL"}
Stopping == {"cancelL", "joinL", "cancelD", "joinAgain"}
Resting  == {"sleep", "load"}

AtListener == {"none", "read", "gone"} \cup Devs
AtWorker   == ThreadStates \ {"read"}

\* Every variable holds a value of its kind, and a loop visits what it is about.
TypeOK ==
  /\ step \in Starting \cup Stopping \cup Resting \cup {"dead"}
  /\ step \in {"startD", "cancelD"} => left \subseteq Devs
  /\ step \in {"startL", "cancelL", "joinL"} => left \subseteq Ifs
  /\ curcfg \in {0} \cup Configs /\ conf \in Configs /\ on \in Configs
  /\ disp \in {"kill", "handle", "ignore"}
  /\ mem \in [Configs -> {"none", "live", "freed"}]
  /\ gen \in Gens
  /\ tid \in [Configs -> [Ifs \cup Devs -> {0} \cup Gens]]
  /\ thread \in [Gens -> [Ifs \cup Devs -> ThreadStates \cup Devs]]
  /\ \A g \in Gens, i \in Ifs : thread[g][i] \in AtListener
  /\ \A g \in Gens, d \in Devs : thread[g][d] \in AtWorker
  /\ cancel \in SUBSET (Gens \X (Ifs \cup Devs))
  /\ queue \in [Gens -> [Devs -> Nat]]

\* Which configuration is started, stopped, kept and destroyed when.
Order ==
  /\ step \in Starting => on = conf /\ curcfg < conf
  /\ step \in Stopping => on \in {curcfg, conf} /\ 0 < curcfg /\ curcfg < conf
  /\ step \in Resting => on = conf /\ curcfg = conf
  /\ step = "load" => conf < MaxLoads
  /\ gen <= conf
  /\ curcfg = 0 => gen = 1
  /\ step \in Stopping /\ on = curcfg => gen < conf
  /\ \A c \in Configs : /\ c > conf => mem[c] = "none"
                        /\ mem[c] = "freed" => c \notin {on, curcfg, conf}

\* What the startup under way has created so far.
Begun == IF step = "startD" THEN Devs \ left ELSE Devs \cup (Ifs \ left)

\* Which generation the entries of a configuration name: the present one where it
\* was started, an older one where it was stopped before.
Named ==
  /\ \A c \in Configs, x \in Ifs \cup Devs :
       /\ tid[c][x] <= gen
       /\ c > conf \/ (step \in Stopping /\ on = curcfg /\ c = conf) => tid[c][x] = 0
       /\ mem[c] = "freed" \/ (step \in Starting /\ c # on) => tid[c][x] < gen
  /\ \A x \in Ifs \cup Devs :
       /\ step # "dead" => tid[on][x] \in {0, gen}
       /\ step \in Starting => tid[on][x] = IF x \in Begun THEN gen ELSE 0
       /\ step \in Resting /\ gen > 1 => tid[on][x] = gen
  /\ \A i \in Ifs :
       \/ step = "cancelL" /\ i \notin left
       \/ step \in {"joinL", "cancelD", "joinAgain"}
       => tid[on][i] = gen

\* A configuration that did not start as a whole is not stopped as a whole either:
\* one of its listeners is missing, and pthread_cancel comes upon an id that nobody
\* filled in.
Doomed ==
  step \in Stopping /\ on # curcfg =>
    step = "cancelL" /\ \E i \in Ifs : i \in left /\ tid[on][i] = 0

\* Who is cancelled: nobody of the generation that starts or serves, and a worker
\* only when the listeners of its generation have ended.
Cancelled ==
  /\ \A g \in Gens, x \in Ifs \cup Devs : <<g, x>> \in cancel =>
       /\ g <= gen
       /\ step \in Starting \cup Resting => g < gen
  /\ \A g \in Gens, d \in Devs :
       /\ <<g, d>> \in cancel => \A i \in Ifs : ~Alive(g, i)
       /\ thread[g][d] \in Ended => <<g, d>> \in cancel

\* Who runs: everybody whom a startup has created, until somebody is cancelled, and
\* no listener that was joined.
Living ==
  /\ \A x \in Ifs \cup Devs :
       step \in Starting \cup Resting /\ tid[on][x] = gen => Alive(gen, x)
  /\ \A i \in Ifs :
       /\ step = "joinL" /\ i \notin left => ~Alive(gen, i)
       /\ step \in {"cancelD", "joinAgain"} => ~Alive(gen, i)
       /\ step \in Starting /\ curcfg # 0 => \A g \in Of(curcfg, i) : ~Alive(g, i)

\* With these a reload leaves no listener behind, nor a request on a queue that was
\* waited on.
IInv == /\ TypeOK /\ Order /\ Named /\ Doomed /\ Cancelled /\ Living
        /\ NoFreedListener /\ Drained
=============================================================================
