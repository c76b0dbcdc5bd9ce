----------------------------- MODULE ReloadProofs -----------------------------
(***************************************************************************)
(* Proofs about Reload, for any number of interfaces, devices and          *)
(* configurations, with or without failing loads and starts.               *)
(***************************************************************************)
EXTENDS Reload, TLAPS

-----------------------------------------------------------------------------
(* The steps, by what they change.                                           *)

\* A step of a listener or a worker.
Threading ==
  \E g \in Gens :
    \/ \E i \in Ifs, d \in Devs : TakeFrame(g, i, d) \/ QueueFrame(g, i, d)
    \/ \E i \in Ifs : EndListener(g, i)
    \/ \E d \in Devs : BeginWork(g, d) \/ TakeWork(g, d) \/ FinishWork(g, d) \/ EndWorker(g, d)

\* A step of the main thread that creates, cancels and joins nobody.
Turning ==
  \/ DevicesStarted \/ Started \/ StartFailed
  \/ ListenersCancelled \/ ListenersJoined \/ WorkersCancelled
  \/ JoinAgainCrashes \/ Stopped
  \/ Sighup \/ SighupKills \/ Load \/ LoadNull \/ LoadExits

\* The threads do not touch what the main thread keeps, nor the other way round.
LEMMA StepKinds ==
  ASSUME [Next]_vars
  PROVE  \/ Threading \/ Turning
         \/ \E d \in Devs : StartDevice(d) \/ CancelWorker(d)
         \/ \E i \in Ifs : StartListener(i) \/ CancelListener(i) \/ JoinListener(i)
         \/ UNCHANGED vars
BY DEF Next, Main, Startup, Shutdown, Arrival, Listener, Worker, Threading, Turning

\* The loop of a cancellation: it goes on if there is a thread to cancel.
LEMMA Cancelling ==
  ASSUME IInv, NEW x \in Ifs \cup Devs, Cancel(x), step # "dead"
  PROVE  \/ step' = "dead" /\ cancel' = cancel /\ tid[on][x] = 0
         \/ step' = step /\ cancel' = cancel /\ tid[on][x] = 0 /\ x \in Devs
         \/ step' = step /\ cancel' = cancel \cup {<<gen, x>>} /\ tid[on][x] = gen
<1>1. tid[on][x] \in {0, gen} /\ gen # 0
  BY DEF IInv, Named, TypeOK, Gens
<1> QED BY <1>1 DEF Cancel, Missed

\* A thread that moves: no other does.
LEMMA Moving ==
  ASSUME TypeOK, NEW g \in Gens, NEW x \in Ifs \cup Devs, NEW to \in ThreadStates \cup Devs,
         Move(g, x, to)
  PROVE  /\ thread' \in [Gens -> [Ifs \cup Devs -> ThreadStates \cup Devs]]
         /\ thread'[g][x] = to
         /\ \A h \in Gens, y \in Ifs \cup Devs :
              h # g \/ y # x => thread'[h][y] = thread[h][y]
BY DEF TypeOK, Move

\* Thread creation, in the generation of the startup.
LEMMA Creating ==
  ASSUME IInv, NEW x \in Ifs \cup Devs, NEW to \in ThreadStates, Create(x, to)
  PROVE  /\ left' = left \ {x}
         /\ thread'[gen][x] = to /\ tid'[on][x] = gen
         /\ \A g \in Gens, y \in Ifs \cup Devs :
              g # gen \/ y # x => thread'[g][y] = thread[g][y]
         /\ \A c \in Configs, y \in Ifs \cup Devs :
              c # on \/ y # x => tid'[c][y] = tid[c][y]
         /\ tid' \in [Configs -> [Ifs \cup Devs -> {0} \cup Gens]]
         /\ thread' \in [Gens -> [Ifs \cup Devs -> ThreadStates \cup Devs]]
BY DEF IInv, TypeOK, Create, Move

-----------------------------------------------------------------------------
(* Types.                                                                    *)

LEMMA ThreadingTypes ==
  ASSUME IInv, Threading
  PROVE  /\ thread' \in [Gens -> [Ifs \cup Devs -> ThreadStates \cup Devs]]
         /\ \A g \in Gens, i \in Ifs : thread'[g][i] \in AtListener
         /\ \A g \in Gens, d \in Devs : thread'[g][d] \in AtWorker
         /\ queue' \in [Gens -> [Devs -> Nat]]
         /\ UNCHANGED <<step, left, curcfg, conf, on, disp, mem, gen, tid, cancel>>
<1>0. TypeOK
  BY DEF IInv
<1>1. UNCHANGED <<step, left, curcfg, conf, on, disp, mem, gen, tid, cancel>>
  BY DEF Threading, TakeFrame, QueueFrame, EndListener, BeginWork, TakeWork, FinishWork,
         EndWorker, config
<1>2. queue' \in [Gens -> [Devs -> Nat]]
  <2>1. ASSUME NEW g \in Gens, NEW i \in Ifs, NEW d \in Devs, QueueFrame(g, i, d)
        PROVE  queue' \in [Gens -> [Devs -> Nat]]
    <3>1. queue[g][d] + 1 \in Nat
      BY <1>0 DEF TypeOK
    <3> QED BY <1>0, <2>1, <3>1 DEF QueueFrame, TypeOK
  <2>2. ASSUME NEW g \in Gens, NEW d \in Devs, TakeWork(g, d)
        PROVE  queue' \in [Gens -> [Devs -> Nat]]
    <3>1. queue[g][d] - 1 \in Nat
      BY <1>0, <2>2 DEF TakeWork, TypeOK
    <3> QED BY <1>0, <2>2, <3>1 DEF TakeWork, TypeOK
  <2>3. \/ queue' = queue
        \/ \E g \in Gens, i \in Ifs, d \in Devs : QueueFrame(g, i, d)
        \/ \E g \in Gens, d \in Devs : TakeWork(g, d)
    BY DEF Threading, TakeFrame, EndListener, BeginWork, FinishWork, EndWorker
  <2> QED BY <1>0, <2>1, <2>2, <2>3 DEF TypeOK
<1>3. ASSUME NEW g \in Gens, NEW x \in Ifs \cup Devs, NEW to \in ThreadStates \cup Devs,
             Move(g, x, to), x \in Ifs => to \in AtListener, x \in Devs => to \in AtWorker
      PROVE  /\ thread' \in [Gens -> [Ifs \cup Devs -> ThreadStates \cup Devs]]
             /\ \A h \in Gens, i \in Ifs : thread'[h][i] \in AtListener
             /\ \A h \in Gens, d \in Devs : thread'[h][d] \in AtWorker
  <2>1. /\ thread' \in [Gens -> [Ifs \cup Devs -> ThreadStates \cup Devs]]
        /\ thread'[g][x] = to
        /\ \A h \in Gens, y \in Ifs \cup Devs :
             h # g \/ y # x => thread'[h][y] = thread[h][y]
    BY <1>0, <1>3, Moving
  <2>2. /\ \A h \in Gens, i \in Ifs : thread[h][i] \in AtListener
        /\ \A h \in Gens, d \in Devs : thread[h][d] \in AtWorker
    BY <1>0 DEF TypeOK
  <2> QED BY <1>3, <2>1, <2>2
<1>4. \E g \in Gens, x \in Ifs \cup Devs, to \in ThreadStates \cup Devs :
        Move(g, x, to) /\ (x \in Ifs => to \in AtListener) /\ (x \in Devs => to \in AtWorker)
  <2>0. /\ {"read", "gone", "idle", "busy", "locked"} \subseteq ThreadStates
        /\ {"read", "gone"} \cup Devs \subseteq AtListener
        /\ {"idle", "busy", "gone", "locked"} \subseteq AtWorker
    BY DEF ThreadStates, AtListener, AtWorker
  <2>1. ASSUME NEW g \in Gens, NEW i \in Ifs, NEW d \in Devs,
               TakeFrame(g, i, d) \/ QueueFrame(g, i, d)
        PROVE  Move(g, i, d) \/ Move(g, i, "read")
    BY <2>1 DEF TakeFrame, QueueFrame
  <2>2. ASSUME NEW g \in Gens, NEW i \in Ifs, EndListener(g, i) PROVE Move(g, i, "gone")
    BY <2>2 DEF EndListener
  <2>3. ASSUME NEW g \in Gens, NEW d \in Devs,
               BeginWork(g, d) \/ TakeWork(g, d) \/ FinishWork(g, d) \/ EndWorker(g, d)
        PROVE  Move(g, d, "idle") \/ Move(g, d, "busy") \/ Move(g, d, "gone")
                 \/ Move(g, d, "locked")
    BY <2>3 DEF BeginWork, TakeWork, FinishWork, EndWorker
  <2>4. \A i \in Ifs : i \notin Devs
    BY BoundsAssumption
  <2> QED BY <2>0, <2>1, <2>2, <2>3, <2>4 DEF Threading
<1> QED BY <1>1, <1>2, <1>3, <1>4

\* A step of the main thread that leaves the threads alone keeps what is said of
\* the threads alone.
LEMMA ThreadsKept ==
  ASSUME IInv, UNCHANGED <<tid, thread, cancel, queue>>
  PROVE  /\ Drained'
         /\ mem' = mem => NoFreedListener'
         /\ \A g \in Gens, x \in Ifs \cup Devs : Alive(g, x)' <=> Alive(g, x)
         /\ \A c \in Configs, x \in Ifs \cup Devs : Of(c, x)' = Of(c, x)
         /\ \A g \in Gens, d \in Devs :
              /\ <<g, d>> \in cancel' => \A i \in Ifs : ~Alive(g, i)'
              /\ thread'[g][d] \in Ended => <<g, d>> \in cancel'
BY DEF IInv, Drained, NoFreedListener, Alive, Of, Cancelled

LEMMA TurningKeeps ==
  ASSUME IInv, Turning
  PROVE  IInv'
<1>0. TypeOK /\ Order /\ Named /\ Doomed /\ Cancelled /\ Living /\ NoFreedListener
  BY DEF IInv
<1>u. UNCHANGED <<tid, thread, cancel, queue>>
  BY DEF Turning, threads, DevicesStarted, Started, StartFailed, ListenersCancelled,
     ListenersJoined, WorkersCancelled, JoinAgainCrashes, Stopped, Sighup, SighupKills,
     Load, LoadNull, LoadExits
<1>k. /\ Drained'
      /\ mem' = mem => NoFreedListener'
      /\ \A g \in Gens, x \in Ifs \cup Devs : Alive(g, x)' <=> Alive(g, x)
      /\ \A c \in Configs, x \in Ifs \cup Devs : Of(c, x)' = Of(c, x)
      /\ \A g \in Gens, d \in Devs :
           /\ <<g, d>> \in cancel' => \A i \in Ifs : ~Alive(g, i)'
           /\ thread'[g][d] \in Ended => <<g, d>> \in cancel'
  BY <1>u, ThreadsKept
<1>1. CASE DevicesStarted
  <2>1. TypeOK'
    BY <1>0, <1>u, <1>k, <1>1 DEF DevicesStarted, config, threads, TypeOK, Starting,
       Stopping, Resting
  <2>2. Order'
    BY <1>0, <1>u, <1>k, <1>1 DEF DevicesStarted, config, threads, Order, TypeOK, Configs,
       Gens, Starting, Stopping, Resting
  <2>3. Named'
    BY <1>0, <1>u, <1>k, <1>1 DEF DevicesStarted, config, threads, Named, Begun, TypeOK,
       Order, Configs, Gens, Starting, Stopping, Resting
  <2>4. Doomed'
    BY <1>0, <1>u, <1>k, <1>1 DEF DevicesStarted, config, threads, Doomed, Named, Begun,
       Starting, Stopping, Resting
  <2>5. Cancelled'
    BY <1>0, <1>u, <1>k, <1>1 DEF DevicesStarted, config, threads, Cancelled, TypeOK,
       Order, Gens, Starting, Stopping, Resting
  <2>6. Living'
    <3>1. gen \in Gens /\ (curcfg # 0 => curcfg \in Configs)
      BY <1>0 DEF TypeOK
    <3>2. UNCHANGED <<on, curcfg, gen>> /\ step = "startD" /\ step' = "startL"
      BY <1>1 DEF DevicesStarted, config
    <3>3. \A x \in Ifs \cup Devs : tid[on][x] = gen => Alive(gen, x)
      BY <1>0, <3>2 DEF Living, Starting
    <3>4. \A i \in Ifs : curcfg # 0 => \A g \in Of(curcfg, i) : ~Alive(g, i)
      BY <1>0, <3>2 DEF Living, Starting
    <3>5. \A x \in Ifs \cup Devs : tid'[on'][x] = gen' => Alive(gen, x)'
      BY <1>u, <1>k, <3>1, <3>2, <3>3
    <3>6. \A i \in Ifs : curcfg' # 0 => \A g \in Of(curcfg, i)' : ~Alive(g, i)'
      BY <1>u, <1>k, <3>1, <3>2, <3>4 DEF Of
    <3> QED BY <3>2, <3>5, <3>6 DEF Living, Starting, Resting, Alive
  <2>7. NoFreedListener'
    BY <1>k, <1>1 DEF DevicesStarted, config, threads
  <2> QED BY <1>k, <2>1, <2>2, <2>3, <2>4, <2>5, <2>6, <2>7 DEF IInv
<1>2. CASE Started
  <2>1. TypeOK'
    BY <1>0, <1>u, <1>k, <1>2 DEF Started, config, threads, TypeOK, Starting, Stopping,
       Resting
  <2>2. Order'
    BY <1>0, <1>u, <1>k, <1>2 DEF Started, config, threads, Order, TypeOK, Configs, Gens,
       Starting, Stopping, Resting
  <2>3. Named'
    BY <1>0, <1>u, <1>k, <1>2 DEF Started, config, threads, Named, Begun, TypeOK, Order,
       Configs, Gens, Starting, Stopping, Resting
  <2>4. Doomed'
    BY <1>0, <1>u, <1>k, <1>2 DEF Started, config, threads, Doomed, Named, Begun,
       Starting, Stopping, Resting
  <2>5. Cancelled'
    BY <1>0, <1>u, <1>k, <1>2 DEF Started, config, threads, Cancelled, TypeOK, Order,
       Gens, Starting, Stopping, Resting
  <2>6. Living'
    BY <1>0, <1>u, <1>k, <1>2 DEF Started, config, threads, Living, Named, Order, TypeOK,
       Configs, Gens, Starting, Stopping, Resting
  <2>7. NoFreedListener'
    <3> SUFFICES ASSUME NEW c \in Configs, NEW i \in Ifs, mem'[c] = "freed", NEW g \in Gens,
                         tid[c][i] = g
                  PROVE  ~Alive(g, i)
      BY <1>u, <1>k DEF NoFreedListener, Of
    <3>1. mem[c] = "freed" \/ c = curcfg
      BY <1>2 DEF Started
    <3>2. CASE mem[c] = "freed"
      BY <1>0, <3>2 DEF NoFreedListener, Of
    <3>3. CASE c = curcfg
      <4>1. curcfg # 0 /\ step \in Starting
        BY <1>2, <3>3 DEF Started, Configs, Starting
      <4> QED BY <1>0, <3>3, <4>1 DEF Living, Of
    <3> QED BY <3>1, <3>2, <3>3
  <2> QED BY <1>k, <2>1, <2>2, <2>3, <2>4, <2>5, <2>6, <2>7 DEF IInv
<1>3. CASE StartFailed
  <2>1. TypeOK'
    BY <1>0, <1>u, <1>k, <1>3 DEF StartFailed, config, threads, TypeOK, Starting,
       Stopping, Resting
  <2>2. Order'
    BY <1>0, <1>u, <1>k, <1>3 DEF StartFailed, config, threads, Order, TypeOK, Configs,
       Gens, Starting, Stopping, Resting
  <2>3. Named'
    <3>1. step \in Starting /\ on = conf /\ curcfg < conf /\ step' \in {"sleep", "cancelL"}
      BY <1>0, <1>3 DEF StartFailed, Order, Starting
    <3>2. CASE curcfg = 0
      <4>1. gen = 1 /\ gen' = gen
        BY <1>0, <1>3, <3>2 DEF StartFailed, Order
      <4> QED BY <1>0, <1>u, <1>3, <3>1, <3>2, <4>1
              DEF StartFailed, config, threads, Named, TypeOK, Configs, Starting, Stopping, Resting
    <3>3. CASE curcfg # 0
      BY <1>0, <1>u, <1>3, <3>1, <3>3
         DEF StartFailed, config, threads, Named, TypeOK, Configs, Starting, Stopping, Resting
    <3> QED BY <3>2, <3>3
  <2>4. Doomed'
    <3>1. \E i \in Ifs : i \notin Begun
      <4>1. CASE step = "startD"
        BY <4>1, BoundsAssumption DEF Begun
      <4>2. CASE step = "startL"
        BY <1>0, <1>3, <4>2, BoundsAssumption DEF StartFailed, TypeOK, Begun
      <4> QED BY <1>3, <4>1, <4>2 DEF StartFailed
    <3>2. PICK x \in Ifs : x \notin Begun
      BY <3>1
    <3>3. tid[on][x] = 0
      BY <1>0, <1>3, <3>2 DEF StartFailed, Named, Starting
    <3>4. step' \in Stopping /\ on' # curcfg' => step' = "cancelL" /\ left' = Ifs /\ on' = on
      BY <1>0, <1>3 DEF StartFailed, Stopping, config
    <3> QED BY <1>u, <3>2, <3>3, <3>4 DEF Doomed
  <2>5. Cancelled'
    BY <1>0, <1>u, <1>k, <1>3 DEF StartFailed, config, threads, Cancelled, TypeOK, Order,
       Gens, Starting, Stopping, Resting
  <2>6. Living'
    BY <1>0, <1>u, <1>k, <1>3 DEF StartFailed, config, threads, Living, Named, Order,
       TypeOK, Configs, Gens, Starting, Stopping, Resting
  <2>7. NoFreedListener'
    BY <1>k, <1>3 DEF StartFailed, config, threads
  <2> QED BY <1>k, <2>1, <2>2, <2>3, <2>4, <2>5, <2>6, <2>7 DEF IInv
<1>4. CASE ListenersCancelled
  <2>1. TypeOK'
    BY <1>0, <1>u, <1>k, <1>4 DEF ListenersCancelled, config, threads, TypeOK, Starting,
       Stopping, Resting
  <2>2. Order'
    BY <1>0, <1>u, <1>k, <1>4 DEF ListenersCancelled, config, threads, Order, TypeOK,
       Configs, Gens, Starting, Stopping, Resting
  <2>3. Named'
    BY <1>0, <1>u, <1>k, <1>4 DEF ListenersCancelled, config, threads, Named, Begun,
       TypeOK, Order, Configs, Gens, Starting, Stopping, Resting
  <2>4. Doomed'
    BY <1>0, <1>u, <1>k, <1>4 DEF ListenersCancelled, config, threads, Doomed, Named,
       Begun, Starting, Stopping, Resting
  <2>5. Cancelled'
    BY <1>0, <1>u, <1>k, <1>4 DEF ListenersCancelled, config, threads, Cancelled, TypeOK,
       Order, Gens, Starting, Stopping, Resting
  <2>6. Living'
    BY <1>0, <1>u, <1>k, <1>4 DEF ListenersCancelled, config, threads, Living, Named,
       Order, TypeOK, Configs, Gens, Starting, Stopping, Resting
  <2>7. NoFreedListener'
    BY <1>k, <1>4 DEF ListenersCancelled, config, threads
  <2> QED BY <1>k, <2>1, <2>2, <2>3, <2>4, <2>5, <2>6, <2>7 DEF IInv
<1>5. CASE ListenersJoined
  <2>1. TypeOK'
    BY <1>0, <1>u, <1>k, <1>5 DEF ListenersJoined, config, threads, TypeOK, Starting,
       Stopping, Resting
  <2>2. Order'
    BY <1>0, <1>u, <1>k, <1>5 DEF ListenersJoined, config, threads, Order, TypeOK,
       Configs, Gens, Starting, Stopping, Resting
  <2>3. Named'
    BY <1>0, <1>u, <1>k, <1>5 DEF ListenersJoined, config, threads, Named, Begun, TypeOK,
       Order, Configs, Gens, Starting, Stopping, Resting
  <2>4. Doomed'
    BY <1>0, <1>u, <1>k, <1>5 DEF ListenersJoined, config, threads, Doomed, Named, Begun,
       Starting, Stopping, Resting
  <2>5. Cancelled'
    BY <1>0, <1>u, <1>k, <1>5 DEF ListenersJoined, config, threads, Cancelled, TypeOK,
       Order, Gens, Starting, Stopping, Resting
  <2>6. Living'
    BY <1>0, <1>u, <1>k, <1>5 DEF ListenersJoined, config, threads, Living, Named, Order,
       TypeOK, Configs, Gens, Starting, Stopping, Resting
  <2>7. NoFreedListener'
    BY <1>k, <1>5 DEF ListenersJoined, config, threads
  <2> QED BY <1>k, <2>1, <2>2, <2>3, <2>4, <2>5, <2>6, <2>7 DEF IInv
<1>6. CASE WorkersCancelled
  <2>1. TypeOK'
    BY <1>0, <1>u, <1>k, <1>6 DEF WorkersCancelled, config, threads, TypeOK, Starting,
       Stopping, Resting
  <2>2. Order'
    BY <1>0, <1>u, <1>k, <1>6 DEF WorkersCancelled, config, threads, Order, TypeOK,
       Configs, Gens, Starting, Stopping, Resting
  <2>3. Named'
    BY <1>0, <1>u, <1>k, <1>6 DEF WorkersCancelled, config, threads, Named, Begun, TypeOK,
       Order, Configs, Gens, Starting, Stopping, Resting
  <2>4. Doomed'
    BY <1>0, <1>u, <1>k, <1>6 DEF WorkersCancelled, config, threads, Doomed, Named, Begun,
       Starting, Stopping, Resting
  <2>5. Cancelled'
    BY <1>0, <1>u, <1>k, <1>6 DEF WorkersCancelled, config, threads, Cancelled, TypeOK,
       Order, Gens, Starting, Stopping, Resting
  <2>6. Living'
    BY <1>0, <1>u, <1>k, <1>6 DEF WorkersCancelled, config, threads, Living, Named, Order,
       TypeOK, Configs, Gens, Starting, Stopping, Resting
  <2>7. NoFreedListener'
    BY <1>k, <1>6 DEF WorkersCancelled, config, threads
  <2> QED BY <1>k, <2>1, <2>2, <2>3, <2>4, <2>5, <2>6, <2>7 DEF IInv
<1>7. CASE JoinAgainCrashes
  <2>1. TypeOK'
    BY <1>0, <1>u, <1>k, <1>7 DEF JoinAgainCrashes, config, threads, TypeOK, Starting,
       Stopping, Resting
  <2>2. Order'
    BY <1>0, <1>u, <1>k, <1>7 DEF JoinAgainCrashes, config, threads, Order, TypeOK,
       Configs, Gens, Starting, Stopping, Resting
  <2>3. Named'
    BY <1>0, <1>u, <1>k, <1>7 DEF JoinAgainCrashes, config, threads, Named, Begun, TypeOK,
       Order, Configs, Gens, Starting, Stopping, Resting
  <2>4. Doomed'
    BY <1>0, <1>u, <1>k, <1>7 DEF JoinAgainCrashes, config, threads, Doomed, Named, Begun,
       Starting, Stopping, Resting
  <2>5. Cancelled'
    BY <1>0, <1>u, <1>k, <1>7 DEF JoinAgainCrashes, config, threads, Cancelled, TypeOK,
       Order, Gens, Starting, Stopping, Resting
  <2>6. Living'
    BY <1>0, <1>u, <1>k, <1>7 DEF JoinAgainCrashes, config, threads, Living, Named, Order,
       TypeOK, Configs, Gens, Starting, Stopping, Resting
  <2>7. NoFreedListener'
    BY <1>k, <1>7 DEF JoinAgainCrashes, config, threads
  <2> QED BY <1>k, <2>1, <2>2, <2>3, <2>4, <2>5, <2>6, <2>7 DEF IInv
<1>8. CASE Stopped
  <2>a. step = "joinAgain" /\ on = curcfg
    BY <1>0, <1>8 DEF Stopped, Doomed, Stopping
  <2>b. /\ curcfg \in Configs /\ conf \in Configs /\ gen \in Gens
        /\ 0 < curcfg /\ curcfg < conf /\ gen < conf /\ gen + 1 \in Gens
    BY <1>0, <2>a, BoundsAssumption DEF TypeOK, Order, Stopping, Configs, Gens
  <2>c. /\ step' = "startD" /\ left' = Devs /\ gen' = gen + 1 /\ on' = conf /\ mem' = mem
        /\ UNCHANGED <<curcfg, conf, disp>>
    BY <1>8, <2>a DEF Stopped
  <2>1. TypeOK'
    BY <1>0, <1>u, <2>b, <2>c DEF TypeOK, Starting
  <2>2. Order'
    BY <1>0, <2>a, <2>b, <2>c DEF TypeOK, Order, Starting, Stopping, Resting, Configs, Gens
  <2>3. Named'
    <3>1. \A c \in Configs, x \in Ifs \cup Devs : tid[c][x] \in Nat /\ tid[c][x] < gen + 1
      BY <1>0, <2>b DEF TypeOK, Named, Gens
    <3>2. \A x \in Ifs \cup Devs : tid[conf][x] = 0
      BY <1>0, <2>a, <2>b DEF Named, Stopping
    <3>3. Begun' = {}
      BY <2>c DEF Begun
    <3>4. \A c \in Configs, x \in Ifs \cup Devs : c > conf => tid[c][x] = 0
      BY <1>0 DEF Named
    <3>5. \A c \in Configs, x \in Ifs \cup Devs : tid[c][x] <= gen + 1
      BY <3>1, <2>b DEF Gens
    <3> QED BY <1>u, <2>b, <2>c, <3>1, <3>2, <3>3, <3>4, <3>5 DEF Named, Starting,
               Stopping, Resting
  <2>4. Doomed'
    BY <1>0, <1>u, <1>k, <1>8 DEF Stopped, config, threads, Doomed, Named, Begun,
       Starting, Stopping, Resting
  <2>5. Cancelled'
    BY <1>0, <1>u, <1>k, <1>8 DEF Stopped, config, threads, Cancelled, TypeOK, Order,
       Gens, Starting, Stopping, Resting
  <2>6. Living'
    <3>1. \A x \in Ifs \cup Devs : tid'[on'][x] # gen'
      <4>1. \A x \in Ifs \cup Devs : tid[conf][x] = 0
        BY <1>0, <2>a, <2>b DEF Named, Stopping
      <4>2. gen + 1 # 0
        BY <2>b DEF Gens
      <4> QED BY <1>u, <2>c, <4>1, <4>2
    <3>2. \A i \in Ifs : tid[curcfg][i] = gen /\ ~Alive(gen, i)
      BY <1>0, <2>a DEF Named, Living
    <3>3. \A i \in Ifs : \A g \in Of(curcfg, i) : ~Alive(g, i)
      BY <3>2 DEF Of
    <3>4. \A i \in Ifs : Of(curcfg, i)' = Of(curcfg, i)
      BY <1>k, <2>b, <2>c
    <3>5. \A i \in Ifs : \A g \in Of(curcfg, i)' : ~Alive(g, i)'
      BY <1>k, <3>3, <3>4 DEF Of
    <3> QED BY <2>c, <3>1, <3>5 DEF Living, Starting, Resting
  <2>7. NoFreedListener'
    BY <1>k, <2>c
  <2> QED BY <1>k, <2>1, <2>2, <2>3, <2>4, <2>5, <2>6, <2>7 DEF IInv
<1>9. CASE Sighup
  <2>1. TypeOK'
    BY <1>0, <1>u, <1>k, <1>9 DEF Sighup, config, threads, TypeOK, Starting, Stopping,
       Resting
  <2>2. Order'
    BY <1>0, <1>u, <1>k, <1>9 DEF Sighup, config, threads, Order, TypeOK, Configs, Gens,
       Starting, Stopping, Resting
  <2>3. Named'
    BY <1>0, <1>u, <1>k, <1>9 DEF Sighup, config, threads, Named, Begun, TypeOK, Order,
       Configs, Gens, Starting, Stopping, Resting
  <2>4. Doomed'
    BY <1>0, <1>u, <1>k, <1>9 DEF Sighup, config, threads, Doomed, Named, Begun, Starting,
       Stopping, Resting
  <2>5. Cancelled'
    BY <1>0, <1>u, <1>k, <1>9 DEF Sighup, config, threads, Cancelled, TypeOK, Order, Gens,
       Starting, Stopping, Resting
  <2>6. Living'
    BY <1>0, <1>u, <1>k, <1>9 DEF Sighup, config, threads, Living, Named, Order, TypeOK,
       Configs, Gens, Starting, Stopping, Resting
  <2>7. NoFreedListener'
    BY <1>k, <1>9 DEF Sighup, config, threads
  <2> QED BY <1>k, <2>1, <2>2, <2>3, <2>4, <2>5, <2>6, <2>7 DEF IInv
<1>10. CASE SighupKills
  <2>1. TypeOK'
    BY <1>0, <1>u, <1>k, <1>10 DEF SighupKills, config, threads, TypeOK, Starting,
       Stopping, Resting
  <2>2. Order'
    BY <1>0, <1>u, <1>k, <1>10 DEF SighupKills, config, threads, Order, TypeOK, Configs,
       Gens, Starting, Stopping, Resting
  <2>3. Named'
    BY <1>0, <1>u, <1>k, <1>10 DEF SighupKills, config, threads, Named, Begun, TypeOK,
       Order, Configs, Gens, Starting, Stopping, Resting
  <2>4. Doomed'
    BY <1>0, <1>u, <1>k, <1>10 DEF SighupKills, config, threads, Doomed, Named, Begun,
       Starting, Stopping, Resting
  <2>5. Cancelled'
    BY <1>0, <1>u, <1>k, <1>10 DEF SighupKills, config, threads, Cancelled, TypeOK, Order,
       Gens, Starting, Stopping, Resting
  <2>6. Living'
    BY <1>0, <1>u, <1>k, <1>10 DEF SighupKills, config, threads, Living, Named, Order,
       TypeOK, Configs, Gens, Starting, Stopping, Resting
  <2>7. NoFreedListener'
    BY <1>k, <1>10 DEF SighupKills, config, threads
  <2> QED BY <1>k, <2>1, <2>2, <2>3, <2>4, <2>5, <2>6, <2>7 DEF IInv
<1>11. CASE Load
  <2>1. TypeOK'
    <3>1. conf' = conf + 1 /\ conf' \in Configs
      BY <1>0, <1>11, BoundsAssumption DEF Load, Order, TypeOK, Configs
    <3>2. mem' \in [Configs -> {"none", "live", "freed"}]
      BY <1>0, <1>11, <3>1 DEF Load, TypeOK
    <3>3. on' \in Configs
      BY <1>0, <1>11 DEF Load, Order, TypeOK, Resting
    <3> QED BY <1>0, <1>u, <1>11, <3>1, <3>2, <3>3 DEF Load, TypeOK, Stopping
  <2>2. Order'
    BY <1>0, <1>u, <1>k, <1>11 DEF Load, config, threads, Order, TypeOK, Configs, Gens,
       Starting, Stopping, Resting
  <2>3. Named'
    BY <1>0, <1>u, <1>k, <1>11 DEF Load, config, threads, Named, Begun, TypeOK, Order,
       Configs, Gens, Starting, Stopping, Resting
  <2>4. Doomed'
    BY <1>0, <1>u, <1>k, <1>11 DEF Load, config, threads, Doomed, Named, Begun, Starting,
       Stopping, Resting
  <2>5. Cancelled'
    BY <1>0, <1>u, <1>k, <1>11 DEF Load, config, threads, Cancelled, TypeOK, Order, Gens,
       Starting, Stopping, Resting
  <2>6. Living'
    BY <1>0, <1>u, <1>k, <1>11 DEF Load, config, threads, Living, Named, Order, TypeOK,
       Configs, Gens, Starting, Stopping, Resting
  <2>7. NoFreedListener'
    <3> SUFFICES ASSUME NEW c \in Configs, NEW i \in Ifs, mem'[c] = "freed", NEW g \in Gens,
                         tid[c][i] = g
                  PROVE  ~Alive(g, i)
      BY <1>u, <1>k DEF NoFreedListener, Of
    <3>1. mem[c] = "freed"
      BY <1>0, <1>11 DEF Load, TypeOK
    <3> QED BY <1>0, <3>1 DEF NoFreedListener, Of
  <2> QED BY <1>k, <2>1, <2>2, <2>3, <2>4, <2>5, <2>6, <2>7 DEF IInv
<1>12. CASE LoadNull
  <2>1. TypeOK'
    BY <1>0, <1>u, <1>k, <1>12 DEF LoadNull, config, threads, TypeOK, Starting, Stopping,
       Resting
  <2>2. Order'
    BY <1>0, <1>u, <1>k, <1>12 DEF LoadNull, config, threads, Order, TypeOK, Configs,
       Gens, Starting, Stopping, Resting
  <2>3. Named'
    BY <1>0, <1>u, <1>k, <1>12 DEF LoadNull, config, threads, Named, Begun, TypeOK, Order,
       Configs, Gens, Starting, Stopping, Resting
  <2>4. Doomed'
    BY <1>0, <1>u, <1>k, <1>12 DEF LoadNull, config, threads, Doomed, Named, Begun,
       Starting, Stopping, Resting
  <2>5. Cancelled'
    BY <1>0, <1>u, <1>k, <1>12 DEF LoadNull, config, threads, Cancelled, TypeOK, Order,
       Gens, Starting, Stopping, Resting
  <2>6. Living'
    BY <1>0, <1>u, <1>k, <1>12 DEF LoadNull, config, threads, Living, Named, Order,
       TypeOK, Configs, Gens, Starting, Stopping, Resting
  <2>7. NoFreedListener'
    BY <1>k, <1>12 DEF LoadNull, config, threads
  <2> QED BY <1>k, <2>1, <2>2, <2>3, <2>4, <2>5, <2>6, <2>7 DEF IInv
<1>13. CASE LoadExits
  <2>1. TypeOK'
    BY <1>0, <1>u, <1>k, <1>13 DEF LoadExits, config, threads, TypeOK, Starting, Stopping,
       Resting
  <2>2. Order'
    BY <1>0, <1>u, <1>k, <1>13 DEF LoadExits, config, threads, Order, TypeOK, Configs,
       Gens, Starting, Stopping, Resting
  <2>3. Named'
    BY <1>0, <1>u, <1>k, <1>13 DEF LoadExits, config, threads, Named, Begun, TypeOK,
       Order, Configs, Gens, Starting, Stopping, Resting
  <2>4. Doomed'
    BY <1>0, <1>u, <1>k, <1>13 DEF LoadExits, config, threads, Doomed, Named, Begun,
       Starting, Stopping, Resting
  <2>5. Cancelled'
    BY <1>0, <1>u, <1>k, <1>13 DEF LoadExits, config, threads, Cancelled, TypeOK, Order,
       Gens, Starting, Stopping, Resting
  <2>6. Living'
    BY <1>0, <1>u, <1>k, <1>13 DEF LoadExits, config, threads, Living, Named, Order,
       TypeOK, Configs, Gens, Starting, Stopping, Resting
  <2>7. NoFreedListener'
    BY <1>k, <1>13 DEF LoadExits, config, threads
  <2> QED BY <1>k, <2>1, <2>2, <2>3, <2>4, <2>5, <2>6, <2>7 DEF IInv
<1> QED BY <1>1, <1>2, <1>3, <1>4, <1>5, <1>6, <1>7, <1>8, <1>9, <1>10, <1>11, <1>12,
           <1>13 DEF Turning

-----------------------------------------------------------------------------
(* Listeners and workers.                                                    *)

\* Nobody comes to life by itself, and nobody ends without being cancelled.
LEMMA ThreadingLives ==
  ASSUME IInv, Threading, NEW h \in Gens, NEW y \in Ifs \cup Devs
  PROVE  /\ Alive(h, y)' => Alive(h, y)
         /\ Alive(h, y) /\ <<h, y>> \notin cancel => Alive(h, y)'
         /\ thread'[h][y] \in Ended => thread[h][y] \in Ended \/ <<h, y>> \in cancel
<1>0. TypeOK /\ \A d \in Devs : d \notin {"none", "gone", "locked"}
  BY BoundsAssumption DEF IInv, ThreadStates
<1>1. ASSUME NEW g \in Gens, NEW x \in Ifs \cup Devs, NEW to \in ThreadStates \cup Devs,
             Move(g, x, to), Alive(g, x), ~(to \in {"none", "gone", "locked"}) \/ <<g, x>> \in cancel
      PROVE  /\ Alive(h, y)' => Alive(h, y)
             /\ Alive(h, y) /\ <<h, y>> \notin cancel => Alive(h, y)'
             /\ thread'[h][y] \in Ended => thread[h][y] \in Ended \/ <<h, y>> \in cancel
  BY <1>0, <1>1, Moving DEF Alive, Ended
<1>2. \E g \in Gens, x \in Ifs \cup Devs, to \in ThreadStates \cup Devs :
        Move(g, x, to) /\ Alive(g, x) /\ (~(to \in {"none", "gone", "locked"}) \/ <<g, x>> \in cancel)
  <2>0. {"read", "gone", "idle", "busy", "locked"} \subseteq ThreadStates
    BY DEF ThreadStates
  <2>1. ASSUME NEW g \in Gens, NEW i \in Ifs, NEW d \in Devs, TakeFrame(g, i, d)
        PROVE  Move(g, i, d) /\ Alive(g, i) /\ ~(d \in {"none", "gone", "locked"})
    BY <1>0, <2>1 DEF TakeFrame, Alive, Ended
  <2>2. ASSUME NEW g \in Gens, NEW i \in Ifs, NEW d \in Devs, QueueFrame(g, i, d)
        PROVE  Move(g, i, "read") /\ Alive(g, i)
    BY <1>0, <2>2 DEF QueueFrame, Alive, Ended
  <2>3. ASSUME NEW g \in Gens, NEW i \in Ifs, EndListener(g, i)
        PROVE  Move(g, i, "gone") /\ Alive(g, i) /\ <<g, i>> \in cancel
    BY <2>3 DEF EndListener, Alive, Ended
  <2>4. ASSUME NEW g \in Gens, NEW d \in Devs, BeginWork(g, d) \/ TakeWork(g, d) \/ FinishWork(g, d)
        PROVE  (Move(g, d, "idle") \/ Move(g, d, "busy")) /\ Alive(g, d)
    BY <2>4 DEF BeginWork, TakeWork, FinishWork, Alive, Ended
  <2>5. ASSUME NEW g \in Gens, NEW d \in Devs, EndWorker(g, d)
        PROVE  (Move(g, d, "gone") \/ Move(g, d, "locked")) /\ Alive(g, d) /\ <<g, d>> \in cancel
    BY <2>5 DEF EndWorker, Alive, Ended
  <2> QED BY <2>0, <2>1, <2>2, <2>3, <2>4, <2>5 DEF Threading
<1> QED BY <1>1, <1>2

\* Who is cancelled has no listeners left; a worker that dies with its lock has an
\* empty queue, and then keeps it so.
LEMMA ThreadingDrains ==
  ASSUME IInv, Threading
  PROVE  /\ Drained'
         /\ \A h \in Gens, e \in Devs : thread'[h][e] \in Ended => <<h, e>> \in cancel
<1>0. /\ TypeOK /\ Drained /\ \A d \in Devs : d \notin ThreadStates
      /\ \A i \in Ifs : i \notin Devs
  BY BoundsAssumption DEF IInv
<1>1. /\ \A g \in Gens, d \in Devs : <<g, d>> \in cancel => \A i \in Ifs : ~Alive(g, i)
      /\ \A g \in Gens, d \in Devs : thread[g][d] \in Ended => <<g, d>> \in cancel
  BY DEF IInv, Cancelled
<1>2. ASSUME NEW h \in Gens, NEW e \in Devs, thread'[h][e] \in Ended
      PROVE  <<h, e>> \in cancel /\ \A j \in Ifs : thread'[h][j] # e
  <2>1. <<h, e>> \in cancel
    BY <1>1, <1>2, ThreadingLives
  <2>2. \A j \in Ifs : ~Alive(h, j)'
    BY <1>1, <2>1, ThreadingLives
  <2> QED BY <1>0, <2>1, <2>2 DEF Alive, Ended, ThreadStates
<1>3. ASSUME NEW h \in Gens, NEW e \in Devs, thread'[h][e] = "locked"
      PROVE  queue'[h][e] = 0
  <2>1. /\ thread[h][e] = "locked" => queue[h][e] = 0
        /\ "locked" \in ThreadStates
    BY <1>0 DEF Drained, ThreadStates
  <2>2. ASSUME NEW g \in Gens, NEW i \in Ifs, NEW d \in Devs, TakeFrame(g, i, d)
        PROVE  queue'[h][e] = 0
    <3>1. thread[h][e] = "locked" /\ queue' = queue
      BY <1>0, <1>3, <2>2, Moving DEF TakeFrame
    <3> QED BY <2>1, <3>1
  <2>3. ASSUME NEW g \in Gens, NEW i \in Ifs, NEW d \in Devs, QueueFrame(g, i, d)
        PROVE  queue'[h][e] = 0
    <3>0. "read" \in ThreadStates
      BY DEF ThreadStates
    <3>1. thread[h][e] = "locked" /\ thread[g][d] # "locked"
      BY <1>0, <1>3, <2>3, <3>0, Moving DEF QueueFrame
    <3>2. queue'[h][e] = queue[h][e]
      BY <1>0, <2>3, <3>1 DEF QueueFrame, TypeOK
    <3> QED BY <2>1, <3>1, <3>2
  <2>4. ASSUME NEW g \in Gens, NEW x \in Ifs \cup Devs, NEW to \in ThreadStates \ {"locked"},
               Move(g, x, to), queue' = queue \/ \E d \in Devs : TakeWork(g, d)
        PROVE  queue'[h][e] = 0
    <3>1. thread[h][e] = "locked"
      BY <1>0, <1>3, <2>4, Moving
    <3>2. queue'[h][e] = queue[h][e]
      BY <1>0, <2>4, <3>1 DEF TakeWork, TypeOK
    <3> QED BY <2>1, <3>1, <3>2
  <2>5. ASSUME NEW g \in Gens, NEW d \in Devs, queue[g][d] = 0, queue' = queue,
               Move(g, d, "locked")
        PROVE  queue'[h][e] = 0
    <3>1. CASE h = g /\ e = d
      BY <2>5, <3>1
    <3>2. CASE h # g \/ e # d
      <4>1. thread[h][e] = "locked"
        BY <1>0, <1>3, <2>1, <2>5, <3>2, Moving
      <4> QED BY <2>1, <2>5, <4>1
    <3> QED BY <3>1, <3>2
  <2>6. {"read", "gone", "idle", "busy"} \subseteq ThreadStates \ {"locked"}
    BY DEF ThreadStates
  <2>7. ASSUME NEW g \in Gens, NEW i \in Ifs, EndListener(g, i)
        PROVE  Move(g, i, "gone") /\ queue' = queue
    BY <2>7 DEF EndListener
  <2>8. ASSUME NEW g \in Gens, NEW d \in Devs, BeginWork(g, d) \/ FinishWork(g, d)
        PROVE  Move(g, d, "idle") /\ queue' = queue
    BY <2>8 DEF BeginWork, FinishWork
  <2>9. ASSUME NEW g \in Gens, NEW d \in Devs, TakeWork(g, d)
        PROVE  Move(g, d, "busy") /\ TakeWork(g, d)
    BY <2>9 DEF TakeWork
  <2>10. ASSUME NEW g \in Gens, NEW d \in Devs, EndWorker(g, d)
         PROVE  /\ queue' = queue
                /\ \/ Move(g, d, "gone")
                   \/ queue[g][d] = 0 /\ Move(g, d, "locked")
    BY <2>10 DEF EndWorker
  <2> QED BY <2>2, <2>3, <2>4, <2>5, <2>6, <2>7, <2>8, <2>9, <2>10 DEF Threading
<1> QED BY <1>2, <1>3 DEF Drained

LEMMA ThreadingKeeps ==
  ASSUME IInv, Threading
  PROVE  IInv'
<1>0. TypeOK /\ Order /\ Named /\ Doomed /\ Cancelled /\ Living /\ NoFreedListener
  BY DEF IInv
<1>t. /\ thread' \in [Gens -> [Ifs \cup Devs -> ThreadStates \cup Devs]]
      /\ \A g \in Gens, i \in Ifs : thread'[g][i] \in AtListener
      /\ \A g \in Gens, d \in Devs : thread'[g][d] \in AtWorker
      /\ queue' \in [Gens -> [Devs -> Nat]]
  BY ThreadingTypes
<1>u. UNCHANGED <<step, left, curcfg, conf, on, disp, mem, gen, tid, cancel>>
  BY ThreadingTypes
<1>l. \A h \in Gens, y \in Ifs \cup Devs :
        /\ Alive(h, y)' => Alive(h, y)
        /\ Alive(h, y) /\ <<h, y>> \notin cancel => Alive(h, y)'
  BY ThreadingLives
<1>o. \A c \in Configs, x \in Ifs \cup Devs : Of(c, x)' = Of(c, x)
  BY <1>u DEF Of
<1>1. TypeOK'
  BY <1>0, <1>t, <1>u DEF TypeOK
<1>2. Order' /\ Named' /\ Doomed'
  BY <1>0, <1>u DEF Order, Named, Doomed, Begun
<1>3. Drained' /\ \A h \in Gens, e \in Devs : thread'[h][e] \in Ended => <<h, e>> \in cancel
  BY ThreadingDrains
<1>4. Cancelled'
  BY <1>0, <1>u, <1>l, <1>3 DEF Cancelled
<1>5. Living'
  <2>0. gen \in Gens /\ gen \in Nat /\ (curcfg # 0 => curcfg \in Configs)
    BY <1>0, BoundsAssumption DEF TypeOK, Gens
  <2>1. \A x \in Ifs \cup Devs : step \in Starting \cup Resting => <<gen, x>> \notin cancel
    BY <1>0, <2>0 DEF Cancelled
  <2>2. \A x \in Ifs \cup Devs, g \in Gens :
          step \in Starting \cup Resting /\ g = gen /\ tid[on][x] = g => Alive(g, x)'
    BY <1>0, <1>l, <2>1 DEF Living
  <2>3. \A i \in Ifs, g \in Gens : ~Alive(g, i) => ~Alive(g, i)'
    BY <1>l
  <2>4. \A i \in Ifs, g \in Gens :
          step \in Starting /\ curcfg # 0 /\ tid[curcfg][i] = g => ~Alive(g, i)'
    BY <1>0, <2>0, <2>3 DEF Living, Of
  <2> QED BY <1>0, <1>u, <2>0, <2>2, <2>3, <2>4 DEF Living, Alive, Of
<1>6. NoFreedListener'
  BY <1>0, <1>u, <1>l, <1>o DEF NoFreedListener, Of
<1> QED BY <1>1, <1>2, <1>3, <1>4, <1>5, <1>6 DEF IInv

-----------------------------------------------------------------------------
(* The loops of the main thread: create, cancel, join.                       *)

\* What the arithmetic and the sets of threads give.
LEMMA Ranges ==
  ASSUME IInv
  PROVE  /\ gen \in Gens /\ gen \in Nat /\ gen # 0 /\ on \in Configs
         /\ \A i \in Ifs : i \notin Devs
         /\ \A d \in Devs : d \notin ThreadStates
<1>1. gen \in Gens /\ on \in Configs
  BY DEF IInv, TypeOK
<1>2. gen \in Nat /\ gen # 0
  BY <1>1, BoundsAssumption DEF Gens
<1> QED BY <1>1, <1>2, BoundsAssumption

\* A startup creates one more thread.
LEMMA CreatingKeeps ==
  ASSUME IInv, NEW x \in Ifs \cup Devs, NEW to \in ThreadStates, Create(x, to), x \in left,
         \/ step = "startD" /\ x \in Devs /\ to = "start"
         \/ step = "startL" /\ x \in Ifs /\ to = "read",
         UNCHANGED <<step, config, gen, cancel, queue>>
  PROVE  IInv'
<1>0. /\ TypeOK /\ Order /\ Named /\ Cancelled /\ Living /\ NoFreedListener /\ Drained
      /\ gen \in Gens /\ gen \in Nat /\ on \in Configs
      /\ \A y \in Ifs : y \notin Devs
      /\ \A d \in Devs : d \notin ThreadStates
  BY Ranges DEF IInv
<1>u. UNCHANGED <<step, curcfg, conf, on, disp, mem, gen, cancel, queue>>
  BY DEF config
<1>s. step \in Starting /\ step \notin Stopping \cup Resting /\ on = conf /\ curcfg # on
  BY <1>0 DEF Order, TypeOK, Configs, Starting, Stopping, Resting
<1>c. /\ left' = left \ {x}
      /\ thread'[gen][x] = to /\ tid'[on][x] = gen
      /\ \A g \in Gens, y \in Ifs \cup Devs :
           g # gen \/ y # x => thread'[g][y] = thread[g][y]
      /\ \A c \in Configs, y \in Ifs \cup Devs :
           c # on \/ y # x => tid'[c][y] = tid[c][y]
      /\ tid' \in [Configs -> [Ifs \cup Devs -> {0} \cup Gens]]
      /\ thread' \in [Gens -> [Ifs \cup Devs -> ThreadStates \cup Devs]]
  BY Creating
<1>a. /\ to \notin {"none", "gone", "locked"}
      /\ \A g \in Gens, y \in Ifs \cup Devs : g # gen \/ y # x => (Alive(g, y)' <=> Alive(g, y))
      /\ \A g \in Gens : g = gen => Alive(g, x)'
  BY <1>c DEF Alive, Ended
<1>1. TypeOK'
  <2>1. \A g \in Gens, i \in Ifs : thread'[g][i] \in AtListener
    BY <1>0, <1>c DEF TypeOK, AtListener
  <2>2. \A g \in Gens, d \in Devs : thread'[g][d] \in AtWorker
    BY <1>0, <1>c DEF TypeOK, AtWorker
  <2> QED BY <1>0, <1>u, <1>c, <2>1, <2>2 DEF TypeOK
<1>2. Order'
  BY <1>0, <1>u DEF Order
<1>3. Named'
  <2>1. \A y \in Ifs \cup Devs : tid'[on][y] = IF y \in Begun' THEN gen ELSE 0
    <3>1. \A y \in Ifs \cup Devs : y \in Begun' <=> y \in Begun \/ y = x
      BY <1>0, <1>u, <1>c DEF Begun, TypeOK
    <3>2. \A y \in Ifs \cup Devs : tid[on][y] = IF y \in Begun THEN gen ELSE 0
      BY <1>0, <1>s DEF Named
    <3> QED BY <1>0, <1>c, <3>1, <3>2
  <2>2. \A c \in Configs, y \in Ifs \cup Devs :
          /\ tid'[c][y] <= gen
          /\ c > conf => tid'[c][y] = 0
          /\ mem[c] = "freed" \/ c # on => tid'[c][y] < gen
    <3> SUFFICES ASSUME NEW c \in Configs, NEW y \in Ifs \cup Devs
                 PROVE  /\ tid'[c][y] <= gen
                        /\ c > conf => tid'[c][y] = 0
                        /\ mem[c] = "freed" \/ c # on => tid'[c][y] < gen
      OBVIOUS
    <3>1. CASE c = on
      <4>1. ~(c > conf) /\ mem[c] # "freed"
        BY <1>0, <1>s, <3>1 DEF Order, Configs
      <4>2. tid'[c][y] = gen \/ tid'[c][y] = 0
        BY <2>1, <3>1
      <4> QED BY <1>0, <3>1, <4>1, <4>2
    <3>2. CASE c # on
      BY <1>0, <1>c, <1>s, <3>2 DEF Named
    <3> QED BY <3>1, <3>2
  <2> QED BY <1>u, <1>s, <2>1, <2>2 DEF Named, Starting, Stopping, Resting
<1>4. Doomed'
  BY <1>u, <1>s DEF Doomed
<1>5. Cancelled'
  <2>1. \A g \in Gens, y \in Ifs \cup Devs : <<g, y>> \in cancel => g # gen
    BY <1>0, <1>s DEF Cancelled
  <2>2. \A g \in Gens, d \in Devs : thread'[g][d] \in Ended => thread[g][d] \in Ended
    BY <1>c, <1>a DEF Ended
  <2> QED BY <1>0, <1>u, <1>a, <2>1, <2>2 DEF Cancelled
<1>6. Living'
  <2>1. \A y \in Ifs \cup Devs, g \in Gens : g = gen /\ tid'[on][y] = g => Alive(g, y)'
    BY <1>0, <1>s, <1>c, <1>a DEF Living
  <2>2. \A i \in Ifs, g \in Gens : curcfg # 0 /\ tid'[curcfg][i] = g => ~Alive(g, i)'
    <3> SUFFICES ASSUME NEW i \in Ifs, NEW g \in Gens, curcfg # 0, tid'[curcfg][i] = g
                 PROVE  ~Alive(g, i)'
      OBVIOUS
    <3>1. curcfg \in Configs
      BY <1>0 DEF TypeOK
    <3>2. tid[curcfg][i] = g
      BY <1>c, <1>s, <3>1
    <3>3. g # gen
      BY <1>0, <1>s, <3>1, <3>2 DEF Named
    <3>4. ~Alive(g, i)
      BY <1>0, <1>s, <3>2 DEF Living, Of
    <3> QED BY <1>a, <3>3, <3>4
  <2> QED BY <1>0, <1>u, <1>s, <2>1, <2>2 DEF Living, Alive, Of, Starting, Stopping, Resting
<1>7. NoFreedListener'
  <2> SUFFICES ASSUME NEW c \in Configs, NEW i \in Ifs, mem[c] = "freed", NEW g \in Gens,
                      tid'[c][i] = g
               PROVE  ~Alive(g, i)'
    BY <1>u DEF NoFreedListener, Of
  <2>1. c # on
    BY <1>0 DEF Order
  <2>2. tid[c][i] = g
    BY <1>c, <2>1
  <2>3. g # gen
    BY <1>0, <2>2 DEF Named
  <2>4. ~Alive(g, i)
    BY <1>0, <2>2 DEF NoFreedListener, Of
  <2> QED BY <1>a, <2>3, <2>4
<1>8. Drained'
  <2> SUFFICES ASSUME NEW g \in Gens, NEW d \in Devs, thread'[g][d] \in Ended
               PROVE  /\ \A i \in Ifs : thread'[g][i] # d
                      /\ thread'[g][d] = "locked" => queue[g][d] = 0
    BY <1>u DEF Drained, Ended
  <2>1. thread[g][d] = thread'[g][d]
    BY <1>c, <1>a DEF Ended
  <2>2. /\ \A i \in Ifs : thread[g][i] # d
        /\ thread'[g][d] = "locked" => queue[g][d] = 0
    BY <1>0, <2>1 DEF Drained
  <2>3. to # d
    BY <1>0
  <2> QED BY <1>c, <2>2, <2>3
<1> QED BY <1>1, <1>2, <1>3, <1>4, <1>5, <1>6, <1>7, <1>8 DEF IInv

\* A shutdown cancels one more thread, or comes upon an entry without one.
LEMMA CancellingKeeps ==
  ASSUME IInv, NEW x \in Ifs \cup Devs, Cancel(x), x \in left, left' = left \ {x},
         \/ step = "cancelL" /\ x \in Ifs
         \/ step = "cancelD" /\ x \in Devs,
         UNCHANGED <<config, gen, tid, thread, queue>>
  PROVE  IInv'
<1>0. /\ TypeOK /\ Order /\ Named /\ Doomed /\ Cancelled /\ Living /\ NoFreedListener /\ Drained
      /\ gen \in Gens /\ gen \in Nat /\ gen # 0
      /\ \A y \in Ifs : y \notin Devs
  BY Ranges DEF IInv
<1>u. UNCHANGED <<curcfg, conf, on, disp, mem, gen, tid, thread, queue>>
  BY DEF config
<1>s. step \in Stopping /\ step \notin Starting \cup Resting \cup {"dead"}
  BY DEF Starting, Stopping, Resting
<1>c. \/ step' = "dead" /\ cancel' = cancel
      \/ step' = step /\ cancel' = cancel /\ x \in Devs
      \/ step' = step /\ cancel' = cancel \cup {<<gen, x>>} /\ tid[on][x] = gen
  BY <1>s, Cancelling
<1>1. TypeOK' /\ Order' /\ NoFreedListener' /\ Drained'
  <2>1. TypeOK'
    <3>1. cancel' \in SUBSET (Gens \X (Ifs \cup Devs))
      BY <1>0, <1>c DEF TypeOK
    <3>2. /\ step' \in {step, "dead"}
          /\ step' \in {"startD", "cancelD"} => left' \subseteq Devs
          /\ step' \in {"startL", "cancelL", "joinL"} => left' \subseteq Ifs
      BY <1>0, <1>c DEF TypeOK
    <3> QED BY <1>0, <1>u, <3>1, <3>2 DEF TypeOK
  <2>2. Order'
    BY <1>0, <1>u, <1>c DEF Order, Starting, Stopping, Resting
  <2>3. NoFreedListener' /\ Drained'
    BY <1>0, <1>u DEF NoFreedListener, Drained, Alive, Of
  <2> QED BY <2>1, <2>2, <2>3
<1>2. Named'
  <2>1. CASE step' = "dead"
    BY <1>0, <1>u, <2>1 DEF Named, Starting, Stopping, Resting
  <2>2. CASE step' = step /\ (tid[on][x] = gen \/ x \in Devs)
    <3>1. \A i \in Ifs :
            \/ step = "cancelL" /\ i \notin left'
            \/ step \in {"joinL", "cancelD", "joinAgain"}
            => tid[on][i] = gen
      BY <1>0, <2>2 DEF Named
    <3> QED BY <1>0, <1>u, <1>s, <2>2, <3>1 DEF Named
  <2> QED BY <1>c, <2>1, <2>2
<1>3. Doomed'
  BY <1>0, <1>u, <1>c DEF Doomed, Stopping
<1>4. Cancelled'
  <2>1. x \in Devs => \A i \in Ifs : ~Alive(gen, i)
    BY <1>0 DEF Living
  <2>2. \A g \in Gens, y \in Ifs \cup Devs : <<g, y>> \in cancel' => <<g, y>> \in cancel \/ (g = gen /\ y = x)
    BY <1>c
  <2>3. cancel \subseteq cancel' /\ step' \notin Starting \cup Resting
    BY <1>c, <1>s DEF Starting, Stopping, Resting
  <2> QED BY <1>0, <1>u, <2>1, <2>2, <2>3 DEF Cancelled, Alive
<1>5. Living'
  BY <1>0, <1>u, <1>c, <1>s DEF Living, Alive, Of, Starting, Stopping, Resting
<1> QED BY <1>1, <1>2, <1>3, <1>4, <1>5 DEF IInv

\* A shutdown waits for one more listener.
LEMMA JoiningKeeps ==
  ASSUME IInv, NEW i \in Ifs, JoinListener(i)
  PROVE  IInv'
<1>0. TypeOK /\ Order /\ Named /\ Doomed /\ Cancelled /\ Living /\ NoFreedListener /\ Drained
  BY DEF IInv
<1>u. UNCHANGED <<step, curcfg, conf, on, disp, mem, gen, tid, thread, cancel, queue>>
  BY DEF JoinListener, config, threads
<1>s. step = "joinL" /\ left' = left \ {i} /\ tid[on][i] = gen /\ thread[gen][i] \in Ended
  BY <1>0 DEF JoinListener, Named
<1>1. TypeOK' /\ Order' /\ NoFreedListener' /\ Drained'
  <2>1. TypeOK'
    BY <1>0, <1>u, <1>s DEF TypeOK
  <2>2. Order' /\ NoFreedListener' /\ Drained'
    BY <1>0, <1>u DEF Order, NoFreedListener, Drained, Alive, Of
  <2> QED BY <2>1, <2>2
<1>2. Named' /\ Doomed' /\ Cancelled'
  BY <1>0, <1>u, <1>s DEF Named, Doomed, Cancelled, Alive, Starting, Stopping, Resting
<1>3. Living'
  BY <1>0, <1>u, <1>s DEF Living, Alive, Of, Starting, Stopping, Resting
<1> QED BY <1>1, <1>2, <1>3 DEF IInv

-----------------------------------------------------------------------------
(* The theorems.                                                             *)

LEMMA InitInv == Init => IInv
<1> SUFFICES ASSUME Init PROVE IInv
  OBVIOUS
<1>0. /\ 1 \in Configs /\ 1 \in Gens /\ "none" \in ThreadStates
      /\ "none" \in AtListener /\ "none" \in AtWorker
  BY BoundsAssumption DEF Configs, Gens, ThreadStates, AtListener, AtWorker
<1>1. TypeOK
  BY <1>0 DEF Init, TypeOK, Starting
<1>2. Order
  BY <1>0 DEF Init, Order, Starting, Stopping, Resting, Configs
<1>3. Named
  BY <1>0 DEF Init, Named, Begun, Starting, Stopping, Resting
<1>4. Doomed /\ Cancelled
  BY DEF Init, Doomed, Cancelled, Stopping, Ended
<1>5. Living
  BY <1>0 DEF Init, Living, Starting, Resting
<1>6. NoFreedListener /\ Drained
  BY <1>0 DEF Init, NoFreedListener, Drained, Alive, Ended
<1> QED BY <1>1, <1>2, <1>3, <1>4, <1>5, <1>6 DEF IInv

LEMMA NextInv == IInv /\ [Next]_vars => IInv'
<1> SUFFICES ASSUME IInv, [Next]_vars PROVE IInv'
  OBVIOUS
<1>0. {"start", "read"} \subseteq ThreadStates
  BY DEF ThreadStates
<1>1. CASE Threading
  BY <1>1, ThreadingKeeps
<1>2. CASE Turning
  BY <1>2, TurningKeeps
<1>3. ASSUME NEW d \in Devs, StartDevice(d) PROVE IInv'
  BY <1>0, <1>3, CreatingKeeps DEF StartDevice
<1>4. ASSUME NEW i \in Ifs, StartListener(i) PROVE IInv'
  BY <1>0, <1>4, CreatingKeeps DEF StartListener
<1>5. ASSUME NEW d \in Devs, CancelWorker(d) PROVE IInv'
  BY <1>5, CancellingKeeps DEF CancelWorker
<1>6. ASSUME NEW i \in Ifs, CancelListener(i) PROVE IInv'
  BY <1>6, CancellingKeeps DEF CancelListener
<1>7. ASSUME NEW i \in Ifs, JoinListener(i) PROVE IInv'
  BY <1>7, JoiningKeeps
<1>8. CASE UNCHANGED vars
  <2>0. UNCHANGED <<step, left, curcfg, conf, on, disp, mem, gen, tid, thread, cancel, queue>>
    BY <1>8 DEF vars
  <2>1. TypeOK'
    BY <2>0 DEF IInv, TypeOK
  <2>2. Order' /\ Named' /\ Doomed'
    BY <2>0 DEF IInv, Order, Named, Doomed, Begun
  <2>3. Cancelled' /\ Living'
    BY <2>0 DEF IInv, Cancelled, Living, Alive, Of
  <2>4. NoFreedListener' /\ Drained'
    BY <2>0 DEF IInv, NoFreedListener, Drained, Alive, Of
  <2> QED BY <2>1, <2>2, <2>3, <2>4 DEF IInv
<1> QED BY <1>1, <1>2, <1>3, <1>4, <1>5, <1>6, <1>7, <1>8, StepKinds

\* The invariant of start, shutdown and reload holds for any number of interfaces,
\* devices and reloads, whatever fails to load or to start.
THEOREM Invariance == Spec => []IInv
<1> QED BY InitInv, NextInv, PTL DEF Spec

\* No listener runs on a configuration that a reload destroyed.
THEOREM NothingFreedIsRead == Spec => []NoFreedListener
<1>1. IInv => NoFreedListener
  BY DEF IInv
<1> QED BY <1>1, Invariance, PTL

\* A worker that is cancelled while it waits for work leaves no request behind, and to
\* no worker that has ended does a listener bring another.
THEOREM NothingIsLeftQueued == Spec => []Drained
<1>1. IInv => Drained
  BY DEF IInv
<1> QED BY <1>1, Invariance, PTL

\* After a reload every thread of the configuration in use runs and stays.
THEOREM ReloadServes == Spec => []InService
<1>1. IInv => InService
  <2> SUFFICES ASSUME IInv, step = "sleep", gen > 1, NEW x \in Ifs \cup Devs
               PROVE  \E g \in Of(curcfg, x) : Alive(g, x) /\ <<g, x>> \notin cancel
    BY DEF InService
  <2>0. /\ TypeOK /\ Order /\ Named /\ Cancelled /\ Living
        /\ gen \in Gens /\ gen \in Nat /\ step \in Resting
    BY Ranges DEF IInv, Resting
  <2>1. on = curcfg /\ tid[on][x] = gen
    BY <2>0 DEF Order, Named
  <2>2. Alive(gen, x) /\ <<gen, x>> \notin cancel
    BY <2>0, <2>1 DEF Living, Cancelled
  <2> QED BY <2>0, <2>1, <2>2 DEF Of
<1> QED BY <1>1, Invariance, PTL
=============================================================================
