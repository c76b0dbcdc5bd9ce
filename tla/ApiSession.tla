------------------------------ MODULE ApiSession ------------------------------
(***************************************************************************)
(* The API: programs that connect to the socket of the daemon (qdctl.c),   *)
(* and the API thread, which serves one connection at a time to its end    *)
(* (api.c).  A connection is two streams; what is sent in one call is one  *)
(* piece of it, with a size in bytes, and a recv takes from the first      *)
(* piece.  SETMTU acts on the interface of module FrameSize, whose frames  *)
(* come and go meanwhile.                                                  *)
(*                                                                         *)
(* Of a target only the slot is kept; its list is module DeviceList.       *)
(***************************************************************************)
EXTENDS FrameSize, Sequences

CONSTANTS Clients,
          Qdctl,        \* the clients that are qdctl; others send their command only
          Commands,     \* what users ask for: [cmd, arg]
          FirstTargets, \* slots in use at first, out of Slots
          Slots,
          Others,       \* targets on further slots
          Ifs, Acls,    \* how many interfaces and access lists there are
          Unknown       \* argument: an interface that does not exist

ASSUME SessionAssumption ==
  /\ Qdctl \subseteq Clients /\ FirstTargets \subseteq Slots
  /\ {Others, Ifs, Acls} \subseteq Nat
  /\ None \notin Clients

VARIABLES
  command,   \* command[c]: what the user of c asked for
  pc,        \* pc[c]: start, send, arg, wait, done or killed
  at,        \* at[c]: which of its requests c has come to
  up, down,  \* up[c], down[c]: the streams to and from the daemon
  read,      \* read[c]: the reply that c read last, and what it had asked
  backlog,   \* connections that were not accepted yet
  api,       \* where the API thread is
  conn,      \* the connection it serves
  request,   \* the request it works on
  held,      \* it keeps a read hold of devlistlock
  targets,   \* slots in use
  carried    \* clients whose last request was carried out (history)

clientVars == <<command, pc, at, read>>
daemonVars == <<api, conn, request, held, targets, carried>>
streams    == <<up, down>>
vars == <<sizes, clientVars, daemonVars, streams, backlog>>

-----------------------------------------------------------------------------
(* Messages. *)

HdrLen == 8          \* sizeof(struct apihdr)
MaxArg == 2048

ArgLen == [STATUS |-> 0, INT_LIST |-> 0, TARGET_LIST |-> 0, ACL_LIST |-> 0,
           IF_STATUS |-> 24, SETMTU |-> 24, TARGET_ADD |-> 152, TARGET_DEL |-> 152,
           TARGET_STATUS |-> 0]

\* What a user can ask for are commands of the API; a program that sends a SETMTU
\* sends a number with it.
ASSUME CommandsAssumption ==
  /\ \A k \in Commands : /\ k.cmd \in DOMAIN ArgLen
                         /\ k.cmd = "SETMTU" => k.arg \in Int \cup {Unknown}
  /\ IsFiniteSet(FirstTargets)
  /\ None \notin [cmd : DOMAIN ArgLen, ok : BOOLEAN, len : Nat]

NoHandler == {"TARGET_STATUS"}
Lists     == {"INT_LIST", "TARGET_LIST", "ACL_LIST"}

Piece(head, size) == [head |-> head, size |-> size]

\* recv of k bytes: a piece that is longer leaves its end in the stream.
Recv(s, k) ==
  IF s = <<>> \/ k = 0 THEN [got |-> 0, head |-> None, rest |-> s]
  ELSE IF Head(s).size <= k
    THEN [got |-> Head(s).size, head |-> Head(s).head, rest |-> Tail(s)]
    ELSE [got |-> k, head |-> None, rest |-> <<Piece(None, Head(s).size - k)>> \o Tail(s)]

-----------------------------------------------------------------------------
(* qdctl. *)

Request(cmd, arg) == [cmd |-> cmd, arg |-> arg]

\* openapi asks for the status first; set_interface_mtu whether the interface
\* exists.
Requests(c) ==
  (IF c \in Qdctl THEN <<Request("STATUS", None)>> ELSE <<>>)
    \o (IF command[c].cmd = "SETMTU" /\ c \in Qdctl
          THEN <<Request("IF_STATUS", command[c].arg)>> ELSE <<>>)
    \o <<command[c]>>

Current(c) == Requests(c)[at[c]]
Gone(c)    == pc[c] \in {"done", "killed"}

\* The daemon's end of the connection is open.
Connected(c) == api # "dead" /\ (conn = c \/ \E n \in 1..Len(backlog) : backlog[n] = c)

\* Mutant: the reply to a SETMTU is waited for, too.
AwaitsAll(r) == TRUE

\* qdctl exits after a SETMTU without reading the reply.
Awaits(r) == r.cmd # "SETMTU"

\* A program that ends closes its socket; what it did not read is gone.
Leave(c, as) == pc' = [pc EXCEPT ![c] = as] /\ down' = [down EXCEPT ![c] = <<>>]

AfterRequest(c) ==
  IF Awaits(Current(c)) THEN pc' = [pc EXCEPT ![c] = "wait"] /\ UNCHANGED down
                        ELSE Leave(c, "done")

Connect(c) ==
  /\ pc[c] = "start"
  /\ IF api = "dead" THEN pc' = [pc EXCEPT ![c] = "done"] /\ UNCHANGED backlog
                     ELSE /\ pc' = [pc EXCEPT ![c] = "send"]
                          /\ backlog' = Append(backlog, c)
  /\ UNCHANGED <<sizes, command, at, read, daemonVars, streams>>

SendHeader(c) ==
  /\ pc[c] = "send"
  /\ up' = [up EXCEPT ![c] = Append(@, Piece(Current(c), HdrLen))]
  /\ IF ArgLen[Current(c).cmd] > 0
       THEN pc' = [pc EXCEPT ![c] = "arg"] /\ UNCHANGED down
       ELSE AfterRequest(c)
  /\ UNCHANGED <<sizes, command, at, read, daemonVars, backlog>>

SendArg(c) ==
  /\ pc[c] = "arg"
  /\ up' = [up EXCEPT ![c] = Append(@, Piece(None, ArgLen[Current(c).cmd]))]
  /\ AfterRequest(c)
  /\ UNCHANGED <<sizes, command, at, read, daemonVars, backlog>>

\* testAPIsocket and check_interface read no more than a struct qaoed_status of
\* what is announced, readreply all of it, or nothing if that is too much.
Wants(r, len) ==
  IF r.cmd \in {"STATUS", "IF_STATUS"} THEN (IF len > 0 THEN 12 ELSE 0)
  ELSE IF len > MaxArg THEN 0 ELSE len

\* Whether the program goes on with its next request: qdctl does not set an mtu
\* that is out of range.
GoesOn(c, ok) ==
  /\ ok /\ at[c] < Len(Requests(c))
  /\ Current(c).cmd = "IF_STATUS" => Current(c).arg = -1 \/ Current(c).arg \in 1..10000

\* The header of the reply and its data; that the daemon sends them one after the
\* other only makes the second recv wait.  Ends if the daemon has hung up.
Receive(c) ==
  /\ pc[c] = "wait" /\ (down[c] # <<>> \/ ~Connected(c))
  /\ LET r    == Current(c)
         h    == Recv(down[c], HdrLen)
         good == h.got = HdrLen /\ h.head # None
         len  == IF good THEN h.head.len ELSE 0
         d    == Recv(h.rest, Wants(r, len))
         ok   == /\ good /\ h.head.ok
                 /\ r.cmd \in {"STATUS", "IF_STATUS"} \/ len = d.got
     IN /\ read' = [read EXCEPT ![c] = IF h.got = 0 THEN @ ELSE
                      [asked |-> r, head |-> h.head]]
        /\ IF GoesOn(c, ok)
             THEN /\ pc' = [pc EXCEPT ![c] = "send"] /\ at' = [at EXCEPT ![c] = @ + 1]
                  /\ down' = [down EXCEPT ![c] = d.rest]
             ELSE Leave(c, "done") /\ UNCHANGED at
  /\ UNCHANGED <<sizes, command, up, daemonVars, backlog>>

\* The user, or the system, ends the program.
Kill(c) ==
  /\ pc[c] \in {"send", "arg", "wait"}
  /\ Leave(c, "killed")
  /\ UNCHANGED <<sizes, command, at, up, read, daemonVars, backlog>>

-----------------------------------------------------------------------------
(* The API thread. *)

Accept ==
  /\ api = "accept" /\ backlog # <<>>
  /\ conn' = Head(backlog) /\ backlog' = Tail(backlog)
  /\ api' = "header"
  /\ UNCHANGED <<sizes, clientVars, streams, request, held, targets, carried>>

\* accept fails once, and the thread ends; the socket stays open.
AcceptFails ==
  /\ api = "accept" /\ backlog # <<>>
  /\ api' = "ended"
  /\ UNCHANGED <<sizes, clientVars, streams, backlog, conn, request, held, targets, carried>>

RecvHeader ==
  /\ api = "header" /\ up[conn] # <<>>
  /\ request' = Head(up[conn]).head
  /\ up' = [up EXCEPT ![conn] = Tail(@)]
  /\ api' = IF ArgLen[request'.cmd] > 0 THEN "arg" ELSE "serve"
  /\ UNCHANGED <<sizes, clientVars, down, backlog, conn, held, targets, carried>>

RecvArg ==
  /\ api = "arg" /\ up[conn] # <<>>
  /\ up' = [up EXCEPT ![conn] = Tail(@)]
  /\ api' = "serve"
  /\ UNCHANGED <<sizes, clientVars, down, backlog, conn, request, held, targets, carried>>

\* Mutant: a client that has gone is given up with all that it sent.
HangUpAtOnce ==
  /\ api \in {"header", "arg"} /\ Gone(conn)
  /\ api' = "accept" /\ conn' = None /\ request' = None
  /\ up' = [up EXCEPT ![conn] = <<>>]
  /\ UNCHANGED <<sizes, clientVars, down, backlog, held, targets, carried>>

\* Mutant: the end of the stream in the middle of a request is not noticed.
HangUpBetween ==
  /\ api = "header" /\ Gone(conn) /\ up[conn] = <<>>
  /\ api' = "accept" /\ conn' = None /\ request' = None
  /\ UNCHANGED <<sizes, clientVars, streams, backlog, held, targets, carried>>

\* Where recv returns less than was asked for, the connection is closed.
HangUp ==
  /\ api \in {"header", "arg"} /\ Gone(conn) /\ up[conn] = <<>>
  /\ api' = "accept" /\ conn' = None /\ request' = None
  /\ UNCHANGED <<sizes, clientVars, streams, backlog, held, targets, carried>>

\* Header and data of a reply; a client that has gone gets nothing.
Answer(ok, len, sent) ==
  down' = IF Gone(conn) THEN down ELSE
    [down EXCEPT ![conn] = @ \o <<Piece([cmd |-> request.cmd, ok |-> ok, len |-> len], HdrLen)>>
                             \o (IF sent > 0 THEN <<Piece(None, sent)>> ELSE <<>>)]

Done == /\ api' = "header" /\ request' = None
        /\ carried' = IF at[conn] = Len(Requests(conn)) THEN carried \cup {conn} ELSE carried
        /\ UNCHANGED <<clientVars, up, backlog, conn>>

Serving(cmds) == api = "serve" /\ request.cmd \in cmds

\* The second read hold is not given back: module DeviceList.
Status ==
  /\ Serving({"STATUS"})
  /\ held' = TRUE
  /\ Answer(TRUE, 12, 12) /\ Done
  /\ UNCHANGED <<sizes, targets>>

ListLen == [INT_LIST    |-> 32 * Ifs,
            TARGET_LIST |-> 152 * (Others + Cardinality(targets)),
            ACL_LIST    |-> 128 * Acls]

List ==
  /\ Serving(Lists)
  /\ Answer(TRUE, ListLen[request.cmd], ListLen[request.cmd]) /\ Done
  /\ UNCHANGED <<sizes, held, targets>>

\* Announces a struct qaoed_if_info and sends as much of it as a struct
\* qaoed_interface_cmd has.
IfStatus ==
  /\ Serving({"IF_STATUS"})
  /\ Answer(request.arg # Unknown, 32, 24) /\ Done
  /\ UNCHANGED <<sizes, held, targets>>

\* The number asked for, or what auto came to, is set or refused.
ApiSetMtu ==
  /\ Serving({"SETMTU"})
  /\ \/ request.arg # Unknown /\ SetMtu(request.arg) /\ Answer(TRUE, 24, 24)
     \/ /\ request.arg # Unknown => MtuRefused(request.arg)
        /\ Answer(FALSE, 24, 24) /\ UNCHANGED sizes
  /\ Done
  /\ UNCHANGED <<held, targets>>

\* A target that is there already: no answer.
AddDuplicate ==
  /\ Serving({"TARGET_ADD"}) /\ request.arg \in targets
  /\ Done
  /\ UNCHANGED <<sizes, down, held, targets>>

\* Mutant: a target that did not start is reported as added.
AddFailsInSilence ==
  /\ Serving({"TARGET_ADD"}) /\ request.arg \notin targets
  /\ Answer(TRUE, 152, 152) /\ Done
  /\ UNCHANGED <<sizes, held, targets>>

\* The target does not start: its file cannot be opened.
AddFails ==
  /\ Serving({"TARGET_ADD"}) /\ request.arg \notin targets
  /\ Answer(FALSE, 152, 152) /\ Done
  /\ UNCHANGED <<sizes, held, targets>>

Add ==
  /\ Serving({"TARGET_ADD"}) /\ request.arg \notin targets /\ ~held
  /\ targets' = targets \cup {request.arg}
  /\ Answer(TRUE, 152, 152) /\ Done
  /\ UNCHANGED <<sizes, held>>

\* A write lock is asked for while the thread itself holds the lock to read.
SelfBlock ==
  /\ held
  /\ \/ Serving({"TARGET_ADD"}) /\ request.arg \notin targets
     \/ Serving({"TARGET_DEL"})
  /\ api' = "blocked"
  /\ UNCHANGED <<sizes, clientVars, streams, backlog, conn, request, held, targets, carried>>

\* Mutant: a target that is not there is not worth an answer.
DelRefusedInSilence ==
  /\ Serving({"TARGET_DEL"}) /\ ~held /\ request.arg \notin targets
  /\ Done
  /\ UNCHANGED <<sizes, down, held, targets>>

DelRefused ==
  /\ Serving({"TARGET_DEL"}) /\ ~held /\ request.arg \notin targets
  /\ Answer(FALSE, 0, 0) /\ Done
  /\ UNCHANGED <<sizes, held, targets>>

\* The one target that matches is unlinked, then a null pointer followed.
DelCrashes ==
  /\ Serving({"TARGET_DEL"}) /\ ~held /\ request.arg \in targets
  /\ api' = "dead" /\ targets' = targets \ {request.arg}
  /\ UNCHANGED <<sizes, clientVars, streams, backlog, conn, request, held, carried>>

Ignore ==
  /\ Serving(NoHandler)
  /\ Done
  /\ UNCHANGED <<sizes, down, held, targets>>

-----------------------------------------------------------------------------
SessionInit ==
  /\ Init
  /\ command \in [Clients -> Commands]
  /\ pc = [c \in Clients |-> "start"] /\ at = [c \in Clients |-> 1]
  /\ up = [c \in Clients |-> <<>>] /\ down = up
  /\ read = [c \in Clients |-> None]
  /\ backlog = <<>>
  /\ api = "accept" /\ conn = None /\ request = None
  /\ held = FALSE /\ targets = FirstTargets /\ carried = {}

Program(c) == SendHeader(c) \/ SendArg(c) \/ Receive(c)

Handler == \/ Status \/ List \/ IfStatus \/ ApiSetMtu \/ Ignore
           \/ AddDuplicate \/ AddFails \/ Add \/ SelfBlock \/ DelRefused \/ DelCrashes

Thread == Accept \/ RecvHeader \/ RecvArg \/ HangUp \/ Handler

Traffic == api # "dead" /\ Frames
             /\ UNCHANGED <<clientVars, daemonVars, streams, backlog>>

SessionNext == \/ \E c \in Clients : Connect(c) \/ Program(c) \/ Kill(c)
               \/ Thread \/ AcceptFails \/ Traffic

\* Programs and the API thread go on when they can; nobody has to be killed.
Session == /\ SessionInit /\ [][SessionNext]_vars
           /\ WF_vars(Thread) /\ \A c \in Clients : WF_vars(Program(c))
-----------------------------------------------------------------------------
\* A program that reads a header reads the header of the answer to what it asked
\* last, and not the rest of an answer that it did not read to the end.
OwnAnswer ==
  \A c \in Clients : read[c] # None =>
    read[c].head # None /\ read[c].head.cmd = read[c].asked.cmd

\* Who is told that a target was added finds it exported, as long as the daemon
\* runs.
ToldRight ==
  \A c \in Clients :
    /\ read[c] # None /\ read[c].head # None /\ api # "dead"
    /\ read[c].asked.cmd = "TARGET_ADD" /\ read[c].head.ok
    => read[c].asked.arg \in targets

\* The thread waits for a client that waits for an answer.
MutualWait(c) == /\ conn = c /\ api = "header" /\ up[c] = <<>>
                 /\ pc[c] = "wait" /\ down[c] = <<>>

\* That happens with commands that are not implemented, and with a target that is
\* there already, and not otherwise.
NoMutualWait ==
  \A c \in Clients : MutualWait(c) =>
    \/ Current(c).cmd \in NoHandler
    \/ Current(c).cmd = "TARGET_ADD" /\ Current(c).arg \in targets

\* The API serves nobody any more.
Stuck == api \in {"ended", "blocked", "dead"} \/ \E c \in Clients : MutualWait(c)

\* Everybody who connects comes to an end, also when others are killed in the
\* middle of a request, unless the API is stuck.
Served == \A c \in Clients : pc[c] # "start" ~> Gone(c) \/ Stuck

\* A SETMTU that was sent is carried out although the client leaves at once.
SentIsDone ==
  \A c \in Clients :
    pc[c] = "done" /\ Current(c).cmd = "SETMTU" /\ c \in Qdctl
      ~> c \in carried \/ Stuck
-----------------------------------------------------------------------------
(* The inductive invariant the proofs rest on.                               *)

HasArg(c)   == ArgLen[Current(c).cmd] > 0
HeaderOf(c) == Piece(Current(c), HdrLen)
ArgOf(c)    == Piece(None, ArgLen[Current(c).cmd])
Sent(c)     == IF HasArg(c) THEN <<HeaderOf(c), ArgOf(c)>> ELSE <<HeaderOf(c)>>

\* Every variable of the session holds a value of its kind.
TypeOK ==
  /\ command \in [Clients -> Commands]
  /\ pc \in [Clients -> {"start", "send", "arg", "wait", "done", "killed"}]
  /\ at \in [Clients -> Nat] /\ \A c \in Clients : at[c] \in 1..Len(Requests(c))
  /\ DOMAIN up = Clients /\ DOMAIN down = Clients /\ DOMAIN read = Clients
  /\ backlog \in Seq(Clients)
  /\ api \in {"accept", "header", "arg", "serve", "blocked", "ended", "dead"}
  /\ conn \in Clients \cup {None}
  /\ conn # None <=> api \in {"header", "arg", "serve", "blocked", "dead"}
  /\ api \in {"arg", "serve", "blocked"} => request = Current(conn)
  /\ api = "arg" => HasArg(conn)
  /\ IsFiniteSet(targets)

\* What of the present request of c the daemon has not read.
Unread(c) ==
  IF conn = c /\ api = "arg" THEN up[c] \in {<<>>, <<ArgOf(c)>>}
  ELSE IF conn = c /\ api \in {"serve", "blocked", "dead"} THEN up[c] = <<>>
  ELSE up[c] \in {<<>>, <<HeaderOf(c)>>, Sent(c)}

\* The answer to the present request of c, all of it, is on its way.
Reply(c) ==
  /\ down[c] # <<>>
  /\ LET h    == down[c][1].head
         sent == IF h.cmd = "IF_STATUS" THEN 24 ELSE h.len
     IN /\ h \in [cmd : DOMAIN ArgLen, ok : BOOLEAN, len : Nat]
        /\ h.cmd = Current(c).cmd
        /\ down[c] = IF sent > 0 THEN <<Piece(h, HdrLen), Piece(None, sent)>>
                                 ELSE <<Piece(h, HdrLen)>>
        /\ h.cmd = "STATUS" => h.len = 12
        /\ h.cmd = "IF_STATUS" => h.len = 32
        /\ h.cmd = "TARGET_ADD" /\ h.ok /\ api # "dead" => Current(c).arg \in targets

\* A request that the daemon does not answer.
Unanswered(c) ==
  \/ Current(c).cmd \in NoHandler
  \/ Current(c).cmd = "TARGET_ADD" /\ Current(c).arg \in targets

\* How far program and daemon have come with a request, on either side: what was
\* left unread of an earlier answer is no answer to this one, because this one is
\* not waited for.
Stage(c) ==
  /\ pc[c] = "start" =>
       /\ up[c] = <<>> /\ down[c] = <<>> /\ conn # c
       /\ \A n \in 1..Len(backlog) : backlog[n] # c
  /\ pc[c] \in {"send", "arg"} /\ Awaits(Current(c)) => down[c] = <<>>
  /\ pc[c] = "send" => up[c] = <<>> /\ (conn = c => api = "header")
  /\ pc[c] = "arg" =>
       /\ HasArg(c)
       /\ \/ up[c] = <<>> /\ conn = c /\ api = "arg"
          \/ up[c] = <<HeaderOf(c)>> /\ (conn = c => api = "header")
  /\ pc[c] = "wait" =>
       /\ Awaits(Current(c))
       /\ \/ down[c] = <<>> /\ up[c] = Sent(c) /\ (conn = c => api = "header")
          \/ down[c] = <<>> /\ up[c] = <<ArgOf(c)>> /\ conn = c /\ api = "arg"
          \/ /\ down[c] = <<>> /\ up[c] = <<>> /\ conn = c
             /\ api \in {"serve", "blocked", "dead"}
          \/ /\ up[c] = <<>> /\ conn = c /\ api = "header"
             /\ \/ Reply(c)
                \/ down[c] = <<>> /\ Unanswered(c)

\* What c has read is the answer to what it asked, and true.
Told(c) ==
  read[c] # None =>
    /\ read[c].head # None /\ read[c].head.cmd = read[c].asked.cmd
    /\ api # "dead" /\ read[c].asked.cmd = "TARGET_ADD" /\ read[c].head.ok
         => read[c].asked.arg \in targets

SessionInv ==
  SizeInv /\ TypeOK /\ \A c \in Clients : Unread(c) /\ Stage(c) /\ Told(c)
=============================================================================
