--------------------------- MODULE ApiSessionProofs ---------------------------
(***************************************************************************)
(* Proofs about FrameSize and ApiSession, for any number of programs with  *)
(* any commands, any targets, and any mtus.                                *)
(***************************************************************************)
EXTENDS ApiSession, FiniteSetTheorems, SequenceTheorems, TLAPS

-----------------------------------------------------------------------------
(* Sizes: the interface with its mtu, its buffer and what it announces.      *)

\* The number of sectors is a byte, and if the mtu has room for a header that many
\* fit it.
LEMMA Announcement ==
  ASSUME NEW m \in Int
  PROVE  /\ ((m - Header) \div Sector) % 256 \in 0..255
         /\ ~TooLow(m) => Length(((m - Header) \div Sector) % 256) <= m
<1> DEFINE k == (m - Header) \div Sector
<1>1. k \in Int /\ Sector * k <= m - Header
  BY DEF Header, Sector
<1>2. k % 256 \in 0..255 /\ (k >= 0 => k % 256 <= k)
  BY <1>1
<1>3. ~TooLow(m) => k >= 0
  BY DEF TooLow, Header, Sector
<1> HIDE DEF k
<1>4. ~TooLow(m) => Length(k % 256) <= m
  BY <1>1, <1>2, <1>3 DEF Length, Header, Sector
<1> QED BY <1>2, <1>4 DEF k

LEMMA SizesInit == Init => SizeInv
<1> SUFFICES ASSUME Init PROVE SizeInv
  OBVIOUS
<1>1. PICK cfg \in CfgMtus : mtu \in Configured(cfg)
  BY DEF Init
<1>2. ifmtu \in Nat /\ mtu \in Int /\ mtu <= ifmtu
  BY <1>1, SizesAssumption DEF Init, Configured, Reported
<1>3. buffsize = Buffer(mtu) /\ buffsize \in Nat /\ mtu <= buffsize /\ Initial <= buffsize
  BY <1>2 DEF Init, Buffer, Initial, Ether
<1>0. maxsect = 0 /\ told = mtu /\ frame = None /\ raised = FALSE
  BY DEF Init
<1>6. raised \in BOOLEAN /\ Framed
  BY <1>0 DEF Framed
<1>4. Mtus
  BY <1>0, <1>2, <1>3, <1>6 DEF Mtus
<1>5. Announced
  BY <1>0, <1>2, <1>3 DEF Announced, TooLow, Length, Header, Sector, Initial
<1> QED BY <1>4, <1>5, <1>6 DEF SizeInv

LEMMA DiscoverKeeps == SizeInv /\ Discover => SizeInv'
<1> SUFFICES ASSUME SizeInv, Discover PROVE SizeInv'
  OBVIOUS
<1>1. Mtus'
  BY Announcement DEF SizeInv, Mtus, Discover, MaxSect
<1>2. mtu <= Buffer(mtu)
  BY DEF SizeInv, Mtus, Buffer, Initial, Ether
<1>3. Buffer(mtu) \in Int /\ Length(MaxSect) \in Int
  BY Announcement DEF SizeInv, Mtus, Buffer, Initial, Ether, Length, MaxSect, Header, Sector
<1>4. ~TooLow(mtu) => Length(MaxSect) <= mtu
  BY Announcement DEF SizeInv, Mtus, MaxSect
<1>5. Announced'
  BY <1>2, <1>3, <1>4 DEF SizeInv, Mtus, Announced, Discover, Buffer, TooLow, Length
<1>6. Framed'
  BY DEF Framed, Discover
<1> QED BY <1>1, <1>5, <1>6 DEF SizeInv

\* SETMTU does not touch the buffer nor what was told, and is remembered if the
\* buffer is too small for it.
LEMMA SetMtuKeeps ==
  ASSUME SizeInv, NEW m \in Int, SetMtu(m)
  PROVE  SizeInv'
<1>1. mtu' \in Int /\ mtu' <= ifmtu
  BY DEF SizeInv, Mtus, SetMtu, Wanted, Reported
<1>2. UNCHANGED <<ifmtu, buffsize, maxsect, told, frame>>
  BY DEF SetMtu
<1>3. raised' = (raised \/ Buffer(mtu') > buffsize)
  BY DEF SetMtu
<1>4. Buffer(mtu') \in Int
  BY <1>1 DEF Buffer, Initial, Ether
<1>5. Mtus' /\ Framed'
  BY <1>1, <1>2, <1>3 DEF SizeInv, Mtus, Framed, Length
<1>6. (raised => raised') /\ (Buffer(mtu') > buffsize => raised')
  BY <1>3
<1>7. buffsize \in Int
  BY DEF SizeInv, Mtus
<1>8. ~raised' => ~raised /\ Buffer(mtu') <= buffsize
  BY <1>4, <1>6, <1>7
<1>9. Buffer(mtu)' = Buffer(mtu')
  BY DEF Buffer
<1>10. Announced'
  BY <1>2, <1>8, <1>9 DEF SizeInv, Announced, TooLow, Length
<1> QED BY <1>5, <1>10 DEF SizeInv

LEMMA FramesKeep == SizeInv /\ Frames => SizeInv'
<1> SUFFICES ASSUME SizeInv, Frames PROVE SizeInv'
  OBVIOUS
<1>1. ASSUME NEW n \in Counts, Write(n) \/ Read(n) PROVE SizeInv'
  <2>1. /\ UNCHANGED <<ifmtu, mtu, buffsize, maxsect, told, raised>>
        /\ n \in 1..maxsect /\ maxsect \in 0..255
    BY <1>1 DEF Write, Read, SizeInv, Mtus
  <2>2. Mtus' /\ Announced'
    BY <2>1 DEF SizeInv, Mtus, Announced, Buffer, TooLow, Length
  <2>3. Length(n) \in Nat /\ Length(n) <= Length(maxsect)
    BY <2>1 DEF Length, Header, Sector
  <2>4. Framed'
    BY <1>1, <2>1, <2>3 DEF Framed, Write, Read, Length
  <2> QED BY <2>2, <2>4 DEF SizeInv
<1> QED BY <1>1, DiscoverKeeps DEF Frames

\* What the two properties of the frames need of the invariant.
LEMMA FramesRight == SizeInv => WholeWrites /\ AnswersSent
<1> SUFFICES ASSUME SizeInv PROVE WholeWrites /\ AnswersSent
  OBVIOUS
<1>1. Length(maxsect) \in Nat
  BY DEF SizeInv, Mtus, Length, Header, Sector
<1>2. WholeWrites
  BY <1>1 DEF SizeInv, Mtus, Announced, Framed, WholeWrites
<1>3. ~TooLow(told) => Length(maxsect) <= ifmtu
  BY <1>1 DEF SizeInv, Mtus, Announced
<1>4. Length(MaxSect) > mtu => TooLow(mtu)
  <2>1. Length(MaxSect) \in Int
    BY Announcement DEF SizeInv, Mtus, MaxSect, Length, Header, Sector
  <2> QED BY <2>1, Announcement DEF SizeInv, Mtus, MaxSect
<1>5. AnswersSent
  BY <1>1, <1>3, <1>4 DEF SizeInv, Mtus, Framed, AnswersSent, Ether
<1> QED BY <1>2, <1>5

-----------------------------------------------------------------------------
(* Requests and pieces.                                                      *)

\* Short sequences joined.
LEMMA Joined ==
  ASSUME NEW x, NEW y, NEW z
  PROVE  /\ Append(<<>>, x) = <<x>> /\ Append(<<x>>, y) = <<x, y>>
         /\ <<>> \o <<>> \o <<z>> = <<z>>
         /\ <<x>> \o <<>> \o <<z>> = <<x, z>>
         /\ <<x>> \o <<y>> \o <<z>> = <<x, y, z>>
         /\ <<>> \o <<x>> \o <<>> = <<x>> /\ <<>> \o <<x>> \o <<y>> = <<x, y>>
<1> DEFINE S == {x, y, z}
<1>1. /\ <<>> \in Seq(S) /\ <<x>> \in Seq(S) /\ <<y>> \in Seq(S) /\ <<z>> \in Seq(S)
      /\ <<x, y>> \in Seq(S) /\ x \in S /\ y \in S /\ z \in S
  OBVIOUS
<1>2. /\ Append(<<>>, x) = <<x>> /\ Append(<<x>>, y) = <<x, y>> /\ Append(<<x>>, z) = <<x, z>>
      /\ Append(<<x, y>>, z) = <<x, y, z>>
  <2>1. Append(<<>>, x) = <<x>>
    OBVIOUS
  <2> HIDE DEF S
  <2>2. ASSUME NEW v \in S PROVE Append(<<x>>, v) = <<x, v>>
    <3>1. /\ Append(<<x>>, v) \in Seq(S) /\ Len(Append(<<x>>, v)) = 2
          /\ Append(<<x>>, v)[1] = x /\ Append(<<x>>, v)[2] = v
      BY <1>1, AppendProperties
    <3> DEFINE s == Append(<<x>>, v)
               t == <<x, v>>
    <3>2. t \in Seq(S) /\ Len(t) = 2 /\ t[1] = x /\ t[2] = v
      BY <1>1
    <3> HIDE DEF t
    <3>3. \A i \in 1..2 : i = 1 \/ i = 2
      OBVIOUS
    <3>4. s = t
      <4> HIDE DEF s
      <4>1. \A i \in 1..Len(s) : s[i] = t[i]
        BY <3>1, <3>2, <3>3 DEF s
      <4> QED BY <3>1, <3>2, <4>1, SeqEqual DEF s
    <3> QED BY <3>4 DEF t
  <2>3. Append(<<x, y>>, z) = <<x, y, z>>
    <3>1. /\ Append(<<x, y>>, z) \in Seq(S) /\ Len(Append(<<x, y>>, z)) = 3
          /\ Append(<<x, y>>, z)[1] = x /\ Append(<<x, y>>, z)[2] = y
          /\ Append(<<x, y>>, z)[3] = z
      BY <1>1, AppendProperties
    <3> DEFINE s == Append(<<x, y>>, z)
               t == <<x, y, z>>
    <3>2. t \in Seq(S) /\ Len(t) = 3 /\ t[1] = x /\ t[2] = y /\ t[3] = z
      BY <1>1
    <3> HIDE DEF t
    <3>3. \A i \in 1..3 : i = 1 \/ i = 2 \/ i = 3
      OBVIOUS
    <3>4. s = t
      <4> HIDE DEF s
      <4>1. \A i \in 1..Len(s) : s[i] = t[i]
        BY <3>1, <3>2, <3>3 DEF s
      <4> QED BY <3>1, <3>2, <4>1, SeqEqual DEF s
    <3> QED BY <3>4 DEF t
  <2>4. Append(<<x>>, y) = <<x, y>> /\ Append(<<x>>, z) = <<x, z>>
    BY <1>1, <2>2
  <2> QED BY <2>1, <2>3, <2>4
<1> HIDE DEF S
<1>3. /\ <<x>> \o <<y>> = Append(<<x>>, y) /\ <<x>> \o <<z>> = Append(<<x>>, z)
      /\ <<x, y>> \o <<z>> = Append(<<x, y>>, z)
  BY <1>1, AppendIsConcat
<1>4. /\ <<>> \o <<>> = <<>> /\ <<>> \o <<x>> = <<x>> /\ <<>> \o <<z>> = <<z>>
      /\ <<x>> \o <<>> = <<x>>
  BY <1>1, ConcatEmptySeq
<1> QED BY <1>2, <1>3, <1>4

\* What a program asks for is asked last; before it qdctl asks for the status, and
\* for that of an interface only to set its mtu.
LEMMA Asked ==
  ASSUME NEW c \in Clients, command[c] \in Commands, NEW n \in 1..Len(Requests(c))
  PROVE  /\ Len(Requests(c)) \in Nat
         /\ Requests(c)[n].cmd \in DOMAIN ArgLen
         /\ Requests(c)[n].cmd = "SETMTU" => Requests(c)[n].arg \in Int \cup {Unknown}
         /\ n < Len(Requests(c)) =>
              \/ Requests(c)[n].cmd = "STATUS"
              \/ /\ Requests(c)[n].cmd = "IF_STATUS"
                 /\ Requests(c)[n + 1].cmd = "SETMTU"
<1> DEFINE s == Request("STATUS", None)
           f == Request("IF_STATUS", command[c].arg)
<1>1. /\ s.cmd = "STATUS" /\ f.cmd = "IF_STATUS"
      /\ "STATUS" \in DOMAIN ArgLen /\ "IF_STATUS" \in DOMAIN ArgLen
  BY DEF Request, ArgLen
<1>2. /\ command[c].cmd \in DOMAIN ArgLen
      /\ command[c].cmd = "SETMTU" => command[c].arg \in Int \cup {Unknown}
  BY CommandsAssumption
<1>3. \/ Requests(c) = <<>> \o <<>> \o <<command[c]>>
      \/ Requests(c) = <<s>> \o <<>> \o <<command[c]>>
      \/ Requests(c) = <<s>> \o <<f>> \o <<command[c]>> /\ command[c].cmd = "SETMTU"
  BY DEF Requests
<1> HIDE DEF s, f
<1>4. /\ <<>> \o <<>> \o <<command[c]>> = <<command[c]>>
      /\ <<s>> \o <<>> \o <<command[c]>> = <<s, command[c]>>
      /\ <<s>> \o <<f>> \o <<command[c]>> = <<s, f, command[c]>>
  BY Joined
<1>5. CASE Requests(c) = <<command[c]>>
  BY <1>2, <1>5
<1>6. CASE Requests(c) = <<s, command[c]>>
  <2>1. n = 1 \/ n = 2
    BY <1>6
  <2> QED BY <1>1, <1>2, <1>6, <2>1
<1>7. CASE Requests(c) = <<s, f, command[c]>> /\ command[c].cmd = "SETMTU"
  <2>1. n = 1 \/ n = 2 \/ n = 3
    BY <1>7
  <2> QED BY <1>1, <1>2, <1>7, <2>1
<1> QED BY <1>3, <1>4, <1>5, <1>6, <1>7

LEMMA AsksSomething ==
  ASSUME NEW c PROVE 1 \in 1..Len(Requests(c))
<1> DEFINE s == Request("STATUS", None)
           f == Request("IF_STATUS", command[c].arg)
<1>1. \/ Requests(c) = <<>> \o <<>> \o <<command[c]>>
      \/ Requests(c) = <<s>> \o <<>> \o <<command[c]>>
      \/ Requests(c) = <<>> \o <<f>> \o <<command[c]>>
      \/ Requests(c) = <<s>> \o <<f>> \o <<command[c]>>
  BY DEF Requests
<1> HIDE DEF s, f
<1>2. /\ <<>> \o <<>> \o <<command[c]>> = <<command[c]>>
      /\ <<s>> \o <<>> \o <<command[c]>> = <<s, command[c]>>
      /\ <<>> \o <<f>> \o <<command[c]>> = <<f, command[c]>>
      /\ <<s>> \o <<f>> \o <<command[c]>> = <<s, f, command[c]>>
  <2>1. <<>> \o <<f>> = <<f>> \o <<>>
    BY Joined, ConcatEmptySeq, <<f>> \in Seq({f})
  <2> QED BY Joined, <2>1
<1> QED BY <1>1, <1>2

\* A piece that is read in one call.
LEMMA RecvPiece ==
  ASSUME NEW x, NEW n \in Nat, NEW k \in Nat, n > 0
  PROVE  /\ Recv(<<Piece(x, n)>>, 0) = [got |-> 0, head |-> None, rest |-> <<Piece(x, n)>>]
         /\ k >= n => Recv(<<Piece(x, n)>>, k) = [got |-> n, head |-> x, rest |-> <<>>]
         /\ 0 < k /\ k < n => Recv(<<Piece(x, n)>>, k).got = k
<1>1. /\ <<Piece(x, n)>> # <<>> /\ Head(<<Piece(x, n)>>) = Piece(x, n)
      /\ Tail(<<Piece(x, n)>>) = <<>>
      /\ Piece(x, n).size = n /\ Piece(x, n).head = x
  BY DEF Piece
<1> QED BY <1>1 DEF Recv

LEMMA RecvNothing ==
  ASSUME NEW k PROVE Recv(<<>>, k) = [got |-> 0, head |-> None, rest |-> <<>>]
BY DEF Recv

\* The header of an answer is read and leaves its data.
LEMMA RecvHead ==
  ASSUME NEW x, NEW y
  PROVE  /\ Recv(<<Piece(x, HdrLen)>>, HdrLen) = [got |-> HdrLen, head |-> x, rest |-> <<>>]
         /\ Recv(<<Piece(x, HdrLen), y>>, HdrLen) = [got |-> HdrLen, head |-> x, rest |-> <<y>>]
<1>1. /\ Piece(x, HdrLen).size = 8 /\ Piece(x, HdrLen).head = x
  BY DEF Piece, HdrLen
<1>2. /\ <<Piece(x, HdrLen)>> # <<>> /\ Head(<<Piece(x, HdrLen)>>) = Piece(x, HdrLen)
      /\ Tail(<<Piece(x, HdrLen)>>) = <<>>
  OBVIOUS
<1>3. /\ <<Piece(x, HdrLen), y>> # <<>>
      /\ Head(<<Piece(x, HdrLen), y>>) = Piece(x, HdrLen)
      /\ Tail(<<Piece(x, HdrLen), y>>) = <<y>>
  OBVIOUS
<1> QED BY <1>1, <1>2, <1>3 DEF Recv, HdrLen

\* What the streams to the daemon may hold, piece by piece.
LEMMA Pieces ==
  ASSUME NEW x, NEW y
  PROVE  /\ <<x>> # <<>> /\ Head(<<x>>) = x /\ Tail(<<x>>) = <<>>
         /\ <<x, y>> # <<>> /\ Head(<<x, y>>) = x /\ Tail(<<x, y>>) = <<y>>
OBVIOUS

-----------------------------------------------------------------------------
(* One client at a time.                                                     *)

\* The present request of c is that of the step before, if c is not the one that
\* goes on to another.
LEMMA SameRequest ==
  ASSUME NEW c, command'[c] = command[c], at'[c] = at[c]
  PROVE  /\ Requests(c)' = Requests(c) /\ Current(c)' = Current(c)
         /\ HasArg(c)' = HasArg(c) /\ HeaderOf(c)' = HeaderOf(c) /\ ArgOf(c)' = ArgOf(c)
         /\ Sent(c)' = Sent(c)
<1>1. Requests(c)' = Requests(c)
  BY DEF Requests
<1>2. Current(c)' = Current(c)
  BY <1>1 DEF Current
<1>3. HasArg(c)' = HasArg(c) /\ HeaderOf(c)' = HeaderOf(c) /\ ArgOf(c)' = ArgOf(c)
  BY <1>2 DEF HasArg, HeaderOf, ArgOf
<1> QED BY <1>1, <1>2, <1>3 DEF Sent

\* A step that is about somebody else.
LEMMA Kept ==
  ASSUME NEW c \in Clients, Unread(c), Stage(c), Told(c),
         command'[c] = command[c], at'[c] = at[c], pc'[c] = pc[c],
         up'[c] = up[c], down'[c] = down[c], read'[c] = read[c],
         conn' = c <=> conn = c, conn = c => api' = api,
         api' # "dead" => api # "dead" /\ targets \subseteq targets',
         pc[c] = "start" => \A n \in 1..Len(backlog') : backlog'[n] # c
  PROVE  Unread(c)' /\ Stage(c)' /\ Told(c)'
<1>1. /\ Current(c)' = Current(c)
      /\ HasArg(c)' = HasArg(c) /\ HeaderOf(c)' = HeaderOf(c) /\ ArgOf(c)' = ArgOf(c)
      /\ Sent(c)' = Sent(c)
  BY SameRequest
<1>2. Unread(c)'
  BY <1>1 DEF Unread
<1>3. Told(c)'
  BY DEF Told
<1>4. Reply(c) => Reply(c)'
  BY <1>1 DEF Reply
<1>5. conn = c /\ api = "header" /\ Unanswered(c) => Unanswered(c)'
  BY <1>1 DEF Unanswered
<1>6. Stage(c)'
  BY <1>1, <1>4, <1>5 DEF Stage
<1> QED BY <1>2, <1>3, <1>6

LEMMA SizesSame == SizeInv /\ UNCHANGED sizes => SizeInv'
BY DEF SizeInv, Mtus, Announced, Framed, sizes, Buffer, TooLow, Length

-----------------------------------------------------------------------------
(* The initial states.                                                       *)

LEMMA InitSession == SessionInit => SessionInv
<1> SUFFICES ASSUME SessionInit PROVE SessionInv
  OBVIOUS
<1>1. SizeInv
  BY SizesInit DEF SessionInit
<1>2. ASSUME NEW c \in Clients
      PROVE  /\ pc[c] = "start" /\ at[c] = 1 /\ up[c] = <<>> /\ down[c] = <<>>
             /\ read[c] = None /\ command[c] \in Commands
  BY <1>2 DEF SessionInit
<1>3. /\ backlog = <<>> /\ api = "accept" /\ conn = None /\ targets = FirstTargets
      /\ command \in [Clients -> Commands] /\ at = [c \in Clients |-> 1]
      /\ DOMAIN up = Clients /\ DOMAIN down = Clients /\ DOMAIN read = Clients
      /\ pc = [c \in Clients |-> "start"]
  BY DEF SessionInit
<1>4. ASSUME NEW c \in Clients PROVE at[c] \in 1..Len(Requests(c))
  BY <1>2, <1>4, AsksSomething
<1>5. TypeOK
  <2>1. /\ pc \in [Clients -> {"start", "send", "arg", "wait", "done", "killed"}]
        /\ at \in [Clients -> Nat] /\ backlog \in Seq(Clients)
    BY <1>3
  <2>2. /\ api \in {"accept", "header", "arg", "serve", "blocked", "ended", "dead"}
        /\ conn \in Clients \cup {None}
        /\ conn # None <=> api \in {"header", "arg", "serve", "blocked", "dead"}
        /\ api \in {"arg", "serve", "blocked"} => request = Current(conn)
        /\ api = "arg" => HasArg(conn)
        /\ IsFiniteSet(targets)
    BY <1>3, CommandsAssumption
  <2> QED BY <1>3, <1>4, <2>1, <2>2 DEF TypeOK
<1>6. ASSUME NEW c \in Clients PROVE Unread(c) /\ Stage(c) /\ Told(c)
  <2>1. conn # c /\ \A n \in 1..Len(backlog) : backlog[n] # c
    BY <1>3, SessionAssumption
  <2> QED BY <1>2, <2>1 DEF Unread, Stage, Told
<1> QED BY <1>1, <1>5, <1>6 DEF SessionInv

-----------------------------------------------------------------------------
(* The steps of a program.                                                   *)

LEMMA ConnectKeeps ==
  ASSUME SessionInv, NEW c \in Clients, Connect(c)
  PROVE  SessionInv'
<1>1. /\ pc[c] = "start" /\ Unread(c) /\ Stage(c) /\ Told(c) /\ TypeOK
      /\ UNCHANGED <<sizes, command, at, read, daemonVars, streams>>
  BY DEF SessionInv, Connect
<1>2. /\ pc'[c] \in {"send", "done"}
      /\ \A d \in Clients : d # c => pc'[d] = pc[d]
      /\ pc' \in [Clients -> {"start", "send", "arg", "wait", "done", "killed"}]
  BY <1>1 DEF Connect, TypeOK
<1>3. /\ backlog' \in Seq(Clients)
      /\ \A d \in Clients :
           d # c /\ (\A n \in 1..Len(backlog) : backlog[n] # d)
             => \A n \in 1..Len(backlog') : backlog'[n] # d
  <2>1. CASE backlog' = backlog
    BY <1>1, <2>1 DEF TypeOK
  <2>2. CASE backlog' = Append(backlog, c)
    <3>1. backlog \in Seq(Clients)
      BY <1>1 DEF TypeOK
    <3>2. /\ backlog' \in Seq(Clients) /\ Len(backlog') = Len(backlog) + 1
          /\ \A n \in 1..Len(backlog) : backlog'[n] = backlog[n]
          /\ backlog'[Len(backlog) + 1] = c
      BY <2>2, <3>1, AppendProperties
    <3> QED BY <3>1, <3>2
  <2> QED BY <2>1, <2>2 DEF Connect
<1>4. SizeInv'
  BY <1>1, SizesSame DEF SessionInv
<1>5. \A d \in Clients :
        /\ Requests(d)' = Requests(d) /\ Current(d)' = Current(d)
        /\ HasArg(d)' = HasArg(d) /\ HeaderOf(d)' = HeaderOf(d) /\ ArgOf(d)' = ArgOf(d)
        /\ Sent(d)' = Sent(d)
  BY <1>1, SameRequest
<1>6. TypeOK'
  BY <1>1, <1>2, <1>3, <1>5 DEF TypeOK, daemonVars, streams
<1>7. ASSUME NEW d \in Clients, d # c PROVE Unread(d)' /\ Stage(d)' /\ Told(d)'
  <2>1. Unread(d) /\ Stage(d) /\ Told(d)
    BY DEF SessionInv
  <2>2. pc[d] = "start" => \A n \in 1..Len(backlog') : backlog'[n] # d
    BY <1>3, <1>7, <2>1 DEF Stage
  <2> QED BY <1>1, <1>2, <1>7, <2>1, <2>2, Kept DEF daemonVars, streams
<1>8. Unread(c)' /\ Told(c)'
  BY <1>1, <1>5 DEF Unread, Told, daemonVars, streams
<1>9. Stage(c)'
  BY <1>1, <1>2, <1>5 DEF Stage, daemonVars, streams
<1> QED BY <1>4, <1>6, <1>7, <1>8, <1>9 DEF SessionInv

\* The steps of a program that only change its state and its own streams.
LEMMA ProgramKeeps ==
  ASSUME SessionInv, NEW c \in Clients,
         UNCHANGED <<sizes, command, at, daemonVars, backlog>>,
         DOMAIN read' = Clients, \A d \in Clients : read'[d] = read[d],
         pc[c] # "start", pc'[c] # "start",
         pc' \in [Clients -> {"start", "send", "arg", "wait", "done", "killed"}],
         DOMAIN up' = Clients, DOMAIN down' = Clients,
         \A d \in Clients : d # c => pc'[d] = pc[d] /\ up'[d] = up[d] /\ down'[d] = down[d],
         Unread(c)', Stage(c)'
  PROVE  SessionInv'
<1>1. SizeInv'
  BY SizesSame DEF SessionInv
<1>2. \A d \in Clients :
        /\ Requests(d)' = Requests(d) /\ Current(d)' = Current(d)
        /\ HasArg(d)' = HasArg(d)
  BY SameRequest
<1>3. TypeOK'
  BY <1>2 DEF SessionInv, TypeOK, daemonVars
<1>4. ASSUME NEW d \in Clients, d # c PROVE Unread(d)' /\ Stage(d)' /\ Told(d)'
  <2>1. Unread(d) /\ Stage(d) /\ Told(d)
    BY DEF SessionInv
  <2>2. pc[d] = "start" => \A n \in 1..Len(backlog') : backlog'[n] # d
    BY <2>1 DEF Stage
  <2> QED BY <1>4, <2>1, <2>2, Kept DEF daemonVars
<1>5. Told(c)'
  BY DEF SessionInv, Told, daemonVars
<1> QED BY <1>1, <1>3, <1>4, <1>5 DEF SessionInv

\* What AfterRequest does to the program that has sent a request.
LEMMA AfterRequestDoes ==
  ASSUME TypeOK, NEW c \in Clients, AfterRequest(c)
  PROVE  /\ pc' \in [Clients -> {"start", "send", "arg", "wait", "done", "killed"}]
         /\ DOMAIN down' = Clients
         /\ \A d \in Clients : d # c => pc'[d] = pc[d] /\ down'[d] = down[d]
         /\ \/ Awaits(Current(c)) /\ pc'[c] = "wait" /\ down'[c] = down[c]
            \/ ~Awaits(Current(c)) /\ pc'[c] = "done" /\ down'[c] = <<>>
BY DEF TypeOK, AfterRequest, Leave

LEMMA SendHeaderKeeps ==
  ASSUME SessionInv, NEW c \in Clients, SendHeader(c)
  PROVE  SessionInv'
<1>1. /\ pc[c] = "send" /\ TypeOK /\ Unread(c) /\ Stage(c)
      /\ UNCHANGED <<sizes, command, at, read, daemonVars, backlog>>
  BY DEF SessionInv, SendHeader
<1>2. /\ Current(c)' = Current(c)
      /\ HasArg(c)' = HasArg(c) /\ HeaderOf(c)' = HeaderOf(c) /\ ArgOf(c)' = ArgOf(c)
      /\ Sent(c)' = Sent(c)
  BY <1>1, SameRequest
<1>3. /\ DOMAIN up' = Clients /\ \A d \in Clients : d # c => up'[d] = up[d]
      /\ up'[c] = <<HeaderOf(c)>>
  <2>1. up'[c] = Append(up[c], HeaderOf(c)) /\ up[c] = <<>>
    BY <1>1 DEF SendHeader, HeaderOf, TypeOK, Stage
  <2>2. Append(<<>>, HeaderOf(c)) = <<HeaderOf(c)>>
    BY Joined
  <2>3. DOMAIN up' = Clients /\ \A d \in Clients : d # c => up'[d] = up[d]
    BY <1>1 DEF SendHeader, TypeOK
  <2> QED BY <2>1, <2>2, <2>3
<1>4. /\ pc' \in [Clients -> {"start", "send", "arg", "wait", "done", "killed"}]
      /\ DOMAIN down' = Clients
      /\ \A d \in Clients : d # c => pc'[d] = pc[d] /\ down'[d] = down[d]
      /\ \/ HasArg(c) /\ pc'[c] = "arg" /\ down'[c] = down[c]
         \/ ~HasArg(c) /\ Awaits(Current(c)) /\ pc'[c] = "wait" /\ down'[c] = down[c]
         \/ pc'[c] = "done"
  <2>1. CASE HasArg(c)
    BY <1>1, <2>1 DEF SendHeader, HasArg, TypeOK
  <2>2. CASE ~HasArg(c)
    BY <1>1, <2>2, AfterRequestDoes DEF SendHeader, HasArg
  <2> QED BY <2>1, <2>2
<1>5. conn = c => api = "header"
  BY <1>1 DEF Stage
<1>6. Unread(c)'
  BY <1>1, <1>2, <1>3, <1>5 DEF Unread, daemonVars
<1>7. Stage(c)'
  <2>1. CASE pc'[c] = "arg"
    BY <1>1, <1>2, <1>3, <1>4, <1>5, <2>1 DEF Stage, daemonVars
  <2>2. CASE pc'[c] = "wait"
    <3>1. ~HasArg(c) /\ Awaits(Current(c)) /\ down'[c] = down[c] /\ down[c] = <<>>
      BY <1>1, <1>4, <2>2 DEF Stage
    <3>2. up'[c] = Sent(c)
      BY <1>3, <3>1 DEF Sent
    <3> QED BY <1>1, <1>2, <1>5, <2>2, <3>1, <3>2 DEF Stage, daemonVars
  <2>3. CASE pc'[c] = "done"
    BY <2>3 DEF Stage
  <2> QED BY <1>4, <2>1, <2>2, <2>3
<1>8. /\ pc[c] # "start" /\ pc'[c] # "start"
      /\ DOMAIN read' = Clients /\ \A d \in Clients : read'[d] = read[d]
  BY <1>1, <1>4 DEF TypeOK
<1> QED BY <1>1, <1>3, <1>4, <1>6, <1>7, <1>8, ProgramKeeps

LEMMA SendArgKeeps ==
  ASSUME SessionInv, NEW c \in Clients, SendArg(c)
  PROVE  SessionInv'
<1>1. /\ pc[c] = "arg" /\ TypeOK /\ Unread(c) /\ Stage(c)
      /\ UNCHANGED <<sizes, command, at, read, daemonVars, backlog>>
  BY DEF SessionInv, SendArg
<1>2. /\ Current(c)' = Current(c)
      /\ HasArg(c)' = HasArg(c) /\ HeaderOf(c)' = HeaderOf(c) /\ ArgOf(c)' = ArgOf(c)
      /\ Sent(c)' = Sent(c)
  BY <1>1, SameRequest
<1>3. DOMAIN up' = Clients /\ \A d \in Clients : d # c => up'[d] = up[d]
  BY <1>1 DEF SendArg, TypeOK
<1>4. HasArg(c) /\ Sent(c) = <<HeaderOf(c), ArgOf(c)>>
  BY <1>1 DEF Stage, Sent
<1>5. \/ up'[c] = <<ArgOf(c)>> /\ conn = c /\ api = "arg"
      \/ up'[c] = Sent(c) /\ (conn = c => api = "header")
  <2>1. up'[c] = Append(up[c], ArgOf(c))
    BY <1>1 DEF SendArg, ArgOf, TypeOK
  <2>2. /\ Append(<<>>, ArgOf(c)) = <<ArgOf(c)>>
        /\ Append(<<HeaderOf(c)>>, ArgOf(c)) = <<HeaderOf(c), ArgOf(c)>>
    BY Joined
  <2> QED BY <1>1, <1>4, <2>1, <2>2 DEF Stage
<1>6. /\ pc' \in [Clients -> {"start", "send", "arg", "wait", "done", "killed"}]
      /\ DOMAIN down' = Clients
      /\ \A d \in Clients : d # c => pc'[d] = pc[d] /\ down'[d] = down[d]
      /\ \/ Awaits(Current(c)) /\ pc'[c] = "wait" /\ down'[c] = down[c]
         \/ ~Awaits(Current(c)) /\ pc'[c] = "done" /\ down'[c] = <<>>
  BY <1>1, AfterRequestDoes DEF SendArg
<1>7. Unread(c)'
  BY <1>1, <1>2, <1>5 DEF Unread, daemonVars
<1>8. Stage(c)'
  <2>1. CASE pc'[c] = "wait"
    <3>1. Awaits(Current(c)) /\ down'[c] = <<>>
      BY <1>1, <1>6, <2>1 DEF Stage
    <3> QED BY <1>1, <1>2, <1>5, <2>1, <3>1 DEF Stage, daemonVars
  <2>2. CASE pc'[c] = "done"
    BY <2>2 DEF Stage
  <2> QED BY <1>6, <2>1, <2>2
<1>9. /\ pc[c] # "start" /\ pc'[c] # "start"
      /\ DOMAIN read' = Clients /\ \A d \in Clients : read'[d] = read[d]
  BY <1>1, <1>6 DEF TypeOK
<1> QED BY <1>1, <1>3, <1>6, <1>7, <1>8, <1>9, ProgramKeeps

LEMMA KillKeeps ==
  ASSUME SessionInv, NEW c \in Clients, Kill(c)
  PROVE  SessionInv'
<1>1. /\ pc[c] # "start" /\ TypeOK /\ Unread(c)
      /\ UNCHANGED <<sizes, command, at, up, read, daemonVars, backlog>>
  BY DEF SessionInv, Kill
<1>2. /\ pc' \in [Clients -> {"start", "send", "arg", "wait", "done", "killed"}]
      /\ pc'[c] = "killed" /\ DOMAIN down' = Clients /\ DOMAIN up' = Clients
      /\ \A d \in Clients : d # c => pc'[d] = pc[d] /\ up'[d] = up[d] /\ down'[d] = down[d]
  BY <1>1 DEF Kill, Leave, TypeOK
<1>3. Unread(c)'
  <2>1. /\ HeaderOf(c)' = HeaderOf(c) /\ ArgOf(c)' = ArgOf(c) /\ Sent(c)' = Sent(c)
    BY <1>1, SameRequest
  <2> QED BY <1>1, <2>1 DEF Unread, daemonVars
<1>4. /\ Stage(c)' /\ pc'[c] # "start"
      /\ DOMAIN read' = Clients /\ \A d \in Clients : read'[d] = read[d]
  BY <1>1, <1>2 DEF Stage, TypeOK
<1> QED BY <1>1, <1>2, <1>3, <1>4, ProgramKeeps

\* What a program reads of the answer to its request: the header, and as much of
\* the data as it wants; of an answer to STATUS nothing is left.
LEMMA ReplyRead ==
  ASSUME SessionInv, NEW c \in Clients, Reply(c),
         NEW h, h = Recv(down[c], HdrLen),
         NEW d, d = Recv(h.rest, Wants(Current(c), h.head.len))
  PROVE  /\ h.got = HdrLen /\ h.head # None /\ h.head.cmd = Current(c).cmd
         /\ h.head.len \in Nat
         /\ Current(c).cmd = "STATUS" => d.rest = <<>>
         /\ h.head.cmd = "TARGET_ADD" /\ h.head.ok /\ api # "dead" => Current(c).arg \in targets
<1> DEFINE x == down[c][1].head
           n == IF x.cmd = "IF_STATUS" THEN 24 ELSE x.len
<1>1. /\ x \in [cmd : DOMAIN ArgLen, ok : BOOLEAN, len : Nat]
      /\ x.cmd = Current(c).cmd
      /\ down[c] = IF n > 0 THEN <<Piece(x, HdrLen), Piece(None, n)>> ELSE <<Piece(x, HdrLen)>>
      /\ x.cmd = "STATUS" => x.len = 12
      /\ x.cmd = "IF_STATUS" => x.len = 32
      /\ x.cmd = "TARGET_ADD" /\ x.ok /\ api # "dead" => Current(c).arg \in targets
  BY DEF Reply
<1> HIDE DEF x
<1>2. n \in Nat /\ x.len \in Nat /\ x # None
  BY <1>1, CommandsAssumption
<1> HIDE DEF n
<1>3. /\ h.got = HdrLen /\ h.head = x
      /\ h.rest = IF n > 0 THEN <<Piece(None, n)>> ELSE <<>>
  <2>1. CASE n > 0
    <3>1. h = Recv(<<Piece(x, HdrLen), Piece(None, n)>>, HdrLen)
      BY <1>1, <2>1
    <3>2. h = [got |-> HdrLen, head |-> x, rest |-> <<Piece(None, n)>>]
      BY <3>1, RecvHead
    <3> QED BY <2>1, <3>2
  <2>2. CASE ~(n > 0)
    <3>1. h = Recv(<<Piece(x, HdrLen)>>, HdrLen)
      BY <1>1, <2>2
    <3>2. h = [got |-> HdrLen, head |-> x, rest |-> <<>>]
      BY <3>1, RecvHead
    <3> QED BY <2>2, <3>2
  <2> QED BY <2>1, <2>2
<1> DEFINE k == Wants(Current(c), x.len)
<1>4. k \in Nat
  BY <1>2 DEF Wants
<1>5. /\ n > 0 /\ k = 0 => d.got = 0
      /\ n > 0 /\ k >= n => d.got = n /\ d.rest = <<>>
      /\ n > 0 /\ 0 < k /\ k < n => d.got = k
      /\ n = 0 => d.got = 0 /\ d.rest = <<>>
  <2>1. d = Recv(IF n > 0 THEN <<Piece(None, n)>> ELSE <<>>, k)
    BY <1>3
  <2> HIDE DEF k
  <2>2. ASSUME n > 0
        PROVE  /\ k = 0 => d.got = 0
               /\ k >= n => d.got = n /\ d.rest = <<>>
               /\ 0 < k /\ k < n => d.got = k
    <3>1. d = Recv(<<Piece(None, n)>>, k)
      BY <2>1, <2>2
    <3>2. CASE k = 0
      <4>1. d = [got |-> 0, head |-> None, rest |-> <<Piece(None, n)>>]
        BY <1>2, <2>2, <3>1, <3>2, RecvPiece
      <4>2. d.got = 0
        BY <4>1
      <4> QED BY <1>2, <2>2, <3>2, <4>2
    <3>3. CASE k >= n
      <4>1. d = [got |-> n, head |-> None, rest |-> <<>>]
        BY <1>2, <1>4, <2>2, <3>1, <3>3, RecvPiece
      <4> QED BY <1>2, <1>4, <2>2, <3>3, <4>1
    <3>4. CASE 0 < k /\ k < n
      <4>1. d.got = k
        BY <1>2, <1>4, <2>2, <3>1, <3>4, RecvPiece
      <4> QED BY <1>2, <1>4, <3>4, <4>1
    <3> QED BY <1>2, <1>4, <3>2, <3>3, <3>4
  <2>3. ASSUME n = 0 PROVE d.got = 0 /\ d.rest = <<>>
    <3>1. d = Recv(<<>>, k)
      BY <2>1, <2>3
    <3> QED BY <3>1, RecvNothing
  <2> QED BY <2>2, <2>3
<1>6. CASE Current(c).cmd = "STATUS"
  <2>1. n = 12 /\ k = 12
    BY <1>1, <1>6 DEF n, Wants
  <2> QED BY <1>1, <1>2, <1>3, <1>5, <1>6, <2>1
<1> QED BY <1>1, <1>2, <1>3, <1>6

\* Receive, when the daemon has gone and there is nothing: the program ends.
LEMMA ReceiveNothing ==
  ASSUME SessionInv, NEW c \in Clients, Receive(c), down[c] = <<>>
  PROVE  SessionInv'
<1>1. /\ pc[c] = "wait" /\ TypeOK /\ Unread(c) /\ Stage(c) /\ Told(c)
      /\ UNCHANGED <<sizes, command, up, daemonVars, backlog>>
  BY DEF SessionInv, Receive
<1> DEFINE r    == Current(c)
           h    == Recv(down[c], HdrLen)
           good == h.got = HdrLen /\ h.head # None
           len  == IF good THEN h.head.len ELSE 0
           d    == Recv(h.rest, Wants(r, len))
           ok   == /\ good /\ h.head.ok
                   /\ r.cmd \in {"STATUS", "IF_STATUS"} \/ len = d.got
<1>2. h.got = 0 /\ ~good
  BY RecvNothing DEF HdrLen
<1>3. /\ read' = [read EXCEPT ![c] = IF h.got = 0 THEN @ ELSE
                      [asked |-> r, head |-> h.head]]
      /\ Leave(c, "done") /\ UNCHANGED at
  <2>1. /\ read' = [read EXCEPT ![c] = IF h.got = 0 THEN @ ELSE
                      [asked |-> r, head |-> h.head]]
        /\ ~GoesOn(c, ok) => Leave(c, "done") /\ UNCHANGED at
    BY DEF Receive
  <2>2. ~GoesOn(c, ok)
    BY <1>2 DEF GoesOn
  <2> QED BY <2>1, <2>2
<1>4. DOMAIN read' = Clients /\ \A b \in Clients : read'[b] = read[b]
  BY <1>1, <1>2, <1>3 DEF TypeOK
<1> HIDE DEF r, h, good, len, d, ok
<1>5. /\ pc' \in [Clients -> {"start", "send", "arg", "wait", "done", "killed"}]
      /\ pc'[c] = "done" /\ DOMAIN down' = Clients /\ DOMAIN up' = Clients
      /\ \A b \in Clients : b # c => pc'[b] = pc[b] /\ up'[b] = up[b] /\ down'[b] = down[b]
  BY <1>1, <1>3 DEF Leave, TypeOK
<1>6. Unread(c)'
  <2>1. /\ HeaderOf(c)' = HeaderOf(c) /\ ArgOf(c)' = ArgOf(c) /\ Sent(c)' = Sent(c)
    BY <1>1, <1>3, SameRequest
  <2> QED BY <1>1, <2>1 DEF Unread, daemonVars
<1>7. Stage(c)' /\ pc[c] # "start" /\ pc'[c] # "start"
  BY <1>1, <1>5 DEF Stage
<1> QED BY <1>1, <1>3, <1>4, <1>5, <1>6, <1>7, ProgramKeeps

LEMMA ReceiveAnswer ==
  ASSUME SessionInv, NEW c \in Clients, Receive(c), down[c] # <<>>
  PROVE  SessionInv'
<1> DEFINE r    == Current(c)
           h    == Recv(down[c], HdrLen)
           good == h.got = HdrLen /\ h.head # None
           len  == IF good THEN h.head.len ELSE 0
           d    == Recv(h.rest, Wants(r, len))
           ok   == /\ good /\ h.head.ok
                   /\ r.cmd \in {"STATUS", "IF_STATUS"} \/ len = d.got
           heard == [asked |-> r, head |-> h.head]
<1>1. /\ pc[c] = "wait" /\ TypeOK /\ Unread(c) /\ Stage(c) /\ Told(c)
      /\ UNCHANGED <<sizes, command, up, daemonVars, backlog>>
  BY DEF SessionInv, Receive
<1>2. /\ read' = [read EXCEPT ![c] = IF h.got = 0 THEN @ ELSE heard]
      /\ IF GoesOn(c, ok)
           THEN /\ pc' = [pc EXCEPT ![c] = "send"] /\ at' = [at EXCEPT ![c] = @ + 1]
                /\ down' = [down EXCEPT ![c] = d.rest]
           ELSE Leave(c, "done") /\ UNCHANGED at
  BY DEF Receive
<1>3. up[c] = <<>> /\ conn = c /\ api = "header" /\ Reply(c) /\ Awaits(r)
  BY <1>1 DEF Stage
<1>4. /\ h.got = HdrLen /\ h.head # None /\ h.head.cmd = r.cmd /\ good
      /\ len = h.head.len /\ len \in Nat
      /\ r.cmd = "STATUS" => d.rest = <<>>
      /\ h.head.cmd = "TARGET_ADD" /\ h.head.ok /\ api # "dead" => r.arg \in targets
  <2>1. h.got = HdrLen /\ h.head # None
    BY <1>3, ReplyRead
  <2>2. good /\ len = h.head.len
    BY <2>1
  <2> QED BY <1>3, <2>1, <2>2, ReplyRead
<1>5. read'[c] = heard /\ DOMAIN read' = Clients
      /\ \A b \in Clients : b # c => read'[b] = read[b]
  BY <1>1, <1>2, <1>4 DEF TypeOK, HdrLen
<1>6. Told(c)'
  <2> DEFINE t == heard
  <2>1. t.asked = r /\ t.head = h.head
    OBVIOUS
  <2>2. api' = api /\ targets' = targets /\ read'[c] = t
    BY <1>1, <1>5 DEF daemonVars
  <2> HIDE DEF heard, r, h, d, len, good, t
  <2> QED BY <1>4, <2>1, <2>2 DEF Told
<1> HIDE DEF heard, h, d, len, ok, good
<1>7. /\ pc' \in [Clients -> {"start", "send", "arg", "wait", "done", "killed"}]
      /\ DOMAIN down' = Clients /\ DOMAIN up' = Clients /\ at' \in [Clients -> Nat]
      /\ \A b \in Clients : b # c => /\ pc'[b] = pc[b] /\ up'[b] = up[b]
                                     /\ down'[b] = down[b] /\ at'[b] = at[b]
      /\ \/ pc'[c] = "done" /\ at'[c] = at[c]
         \/ /\ pc'[c] = "send" /\ at'[c] = at[c] + 1 /\ at[c] < Len(Requests(c))
            /\ down'[c] = d.rest
  <2>1. CASE GoesOn(c, ok)
    <3>1. /\ pc' = [pc EXCEPT ![c] = "send"] /\ at' = [at EXCEPT ![c] = @ + 1]
          /\ down' = [down EXCEPT ![c] = d.rest] /\ up' = up
      BY <1>1, <1>2, <2>1
    <3>2. at[c] < Len(Requests(c))
      BY <2>1 DEF GoesOn
    <3> QED BY <1>1, <3>1, <3>2 DEF TypeOK
  <2>2. CASE ~GoesOn(c, ok)
    BY <1>1, <1>2, <2>2 DEF Leave, TypeOK
  <2> QED BY <2>1, <2>2
<1>8. \A b \in Clients : Requests(b)' = Requests(b)
  BY <1>1 DEF Requests
<1>9. at[c] \in 1..Len(Requests(c)) /\ command[c] \in Commands
  BY <1>1 DEF TypeOK
<1>10. TypeOK'
  <2>1. \A b \in Clients : at'[b] \in 1..Len(Requests(b))'
    <3>1. Len(Requests(c)) \in Nat
      BY <1>9, Asked
    <3>2. at'[c] \in 1..Len(Requests(c))
      BY <1>7, <1>9, <3>1
    <3>3. \A b \in Clients : b # c => at'[b] \in 1..Len(Requests(b))
      BY <1>1, <1>7 DEF TypeOK
    <3> QED BY <1>8, <3>2, <3>3
  <2>2. api' = "header" /\ conn' = conn
    BY <1>1, <1>3 DEF daemonVars
  <2> QED BY <1>1, <1>5, <1>7, <2>1, <2>2 DEF TypeOK, daemonVars
<1>11. SizeInv'
  BY <1>1, SizesSame DEF SessionInv
<1>12. ASSUME NEW b \in Clients, b # c PROVE Unread(b)' /\ Stage(b)' /\ Told(b)'
  <2>1. Unread(b) /\ Stage(b) /\ Told(b)
    BY DEF SessionInv
  <2>2. pc[b] = "start" => \A n \in 1..Len(backlog') : backlog'[n] # b
    BY <1>1, <2>1 DEF Stage
  <2> QED BY <1>1, <1>5, <1>7, <1>12, <2>1, <2>2, Kept DEF daemonVars
<1>13. Unread(c)'
  BY <1>1, <1>3 DEF Unread, daemonVars
<1>14. Stage(c)'
  <2>1. CASE pc'[c] = "done"
    BY <2>1 DEF Stage
  <2>2. CASE /\ pc'[c] = "send" /\ at'[c] = at[c] + 1 /\ at[c] < Len(Requests(c))
             /\ down'[c] = d.rest
    <3>1. Current(c)' = Requests(c)[at[c] + 1]
      BY <1>8, <2>2 DEF Current
    <3>2. \/ r.cmd = "STATUS"
          \/ Requests(c)[at[c] + 1].cmd = "SETMTU"
      BY <1>9, <2>2, Asked DEF Current
    <3>3. Awaits(Current(c))' => down'[c] = <<>>
      <4>1. CASE r.cmd = "STATUS"
        BY <1>4, <2>2, <4>1
      <4>2. CASE Requests(c)[at[c] + 1].cmd = "SETMTU"
        <5>1. Current(c)'.cmd = "SETMTU"
          BY <3>1, <4>2
        <5> QED BY <5>1 DEF Awaits
      <4> QED BY <3>2, <4>1, <4>2
    <3>4. up'[c] = <<>> /\ api' = "header"
      BY <1>1, <1>3 DEF daemonVars
    <3> QED BY <2>2, <3>3, <3>4 DEF Stage
  <2> QED BY <1>7, <2>1, <2>2
<1> QED BY <1>6, <1>10, <1>11, <1>12, <1>13, <1>14 DEF SessionInv

-----------------------------------------------------------------------------
(* The steps of the API thread.                                              *)

\* Those that leave the programs as they are.
LEMMA ThreadKeeps ==
  ASSUME SessionInv, SizeInv', UNCHANGED clientVars,
         DOMAIN up' = Clients, DOMAIN down' = Clients, backlog' \in Seq(Clients),
         api' \in {"accept", "header", "arg", "serve", "blocked", "ended", "dead"},
         conn' \in Clients \cup {None},
         conn' # None <=> api' \in {"header", "arg", "serve", "blocked", "dead"},
         api' \in {"arg", "serve", "blocked"} => request' = Current(conn'),
         api' = "arg" => HasArg(conn'),
         IsFiniteSet(targets'),
         api' # "dead" => api # "dead" /\ targets \subseteq targets',
         \A d \in Clients :
           \/ Unread(d)' /\ Stage(d)' /\ Told(d)'
           \/ /\ up'[d] = up[d] /\ down'[d] = down[d]
              /\ conn' = d <=> conn = d
              /\ conn = d => api' = api
              /\ pc[d] = "start" => \A n \in 1..Len(backlog') : backlog'[n] # d
  PROVE  SessionInv'
<1>1. \A d : Requests(d)' = Requests(d)
  BY DEF Requests, clientVars
<1>2. TypeOK'
  <2>1. TypeOK /\ UNCHANGED <<command, pc, at, read>>
    BY DEF SessionInv, clientVars
  <2>2. \A d \in Clients : at'[d] \in 1..Len(Requests(d))'
    BY <1>1, <2>1 DEF TypeOK
  <2>3. ASSUME NEW d, conn' = d
        PROVE  Current(conn)' = Current(d) /\ (HasArg(conn)' <=> HasArg(d))
    <3>1. Current(conn)' = Current(d)
      BY <1>1, <2>1, <2>3 DEF Current, Requests
    <3> QED BY <3>1 DEF HasArg
  <2> QED BY <2>1, <2>2, <2>3 DEF TypeOK
<1>3. ASSUME NEW d \in Clients PROVE Unread(d)' /\ Stage(d)' /\ Told(d)'
  <2>1. Unread(d) /\ Stage(d) /\ Told(d)
    BY DEF SessionInv
  <2>2. /\ command'[d] = command[d] /\ at'[d] = at[d] /\ pc'[d] = pc[d]
        /\ read'[d] = read[d]
    BY DEF clientVars
  <2> QED BY <2>1, <2>2, Kept
<1> QED BY <1>2, <1>3 DEF SessionInv

LEMMA AcceptKeeps == SessionInv /\ Accept => SessionInv'
<1> SUFFICES ASSUME SessionInv, Accept PROVE SessionInv'
  OBVIOUS
<1>1. /\ TypeOK /\ api = "accept" /\ backlog # <<>>
      /\ conn' = Head(backlog) /\ backlog' = Tail(backlog) /\ api' = "header"
      /\ UNCHANGED <<sizes, clientVars, streams, request, held, targets, carried>>
  BY DEF SessionInv, Accept
<1>2. conn = None /\ backlog \in Seq(Clients) /\ Len(backlog) \in Nat \ {0}
  BY <1>1 DEF TypeOK
<1>3. /\ conn' \in Clients /\ conn' = backlog[1] /\ backlog' \in Seq(Clients)
      /\ Len(backlog') = Len(backlog) - 1
      /\ \A n \in 1..Len(backlog') : backlog'[n] = backlog[n + 1]
  BY <1>1, <1>2, HeadTailProperties
<1>4. SizeInv'
  BY <1>1, SizesSame DEF SessionInv
<1>5. ASSUME NEW d \in Clients
      PROVE  /\ pc[d] = "start" => /\ conn' # d
                                   /\ \A n \in 1..Len(backlog') : backlog'[n] # d
             /\ conn # d
  <2>1. Stage(d)
    BY DEF SessionInv
  <2> QED BY <1>2, <1>3, <2>1, SessionAssumption DEF Stage
<1>6. ASSUME NEW d \in Clients, conn' = d PROVE Unread(d)' /\ Stage(d)' /\ Told(d)'
  <2>1. Unread(d) /\ Stage(d) /\ Told(d) /\ conn # d
    BY <1>5 DEF SessionInv
  <2>2. /\ command'[d] = command[d] /\ at'[d] = at[d] /\ pc'[d] = pc[d]
        /\ read'[d] = read[d] /\ up' = up /\ down' = down /\ targets' = targets
    BY <1>1 DEF clientVars, streams
  <2>3. /\ Current(d)' = Current(d)
        /\ HasArg(d)' = HasArg(d) /\ HeaderOf(d)' = HeaderOf(d) /\ ArgOf(d)' = ArgOf(d)
        /\ Sent(d)' = Sent(d)
    BY <2>2, SameRequest
  <2>4. Unread(d)'
    BY <1>1, <2>1, <2>2, <2>3 DEF Unread
  <2>5. Stage(d)'
    BY <1>1, <1>5, <1>6, <2>1, <2>2, <2>3 DEF Stage
  <2>6. Told(d)'
    BY <1>1, <2>1, <2>2 DEF Told
  <2> QED BY <2>4, <2>5, <2>6
<1>7. DOMAIN up' = Clients /\ DOMAIN down' = Clients /\ IsFiniteSet(targets') /\ conn' # None
  BY <1>1, <1>3, SessionAssumption DEF TypeOK, streams
<1>8. ASSUME NEW d \in Clients
      PROVE  \/ Unread(d)' /\ Stage(d)' /\ Told(d)'
             \/ /\ up'[d] = up[d] /\ down'[d] = down[d]
                /\ conn' = d <=> conn = d
                /\ conn = d => api' = api
                /\ pc[d] = "start" => \A n \in 1..Len(backlog') : backlog'[n] # d
  BY <1>1, <1>5, <1>6 DEF streams
<1> QED BY <1>1, <1>3, <1>4, <1>7, <1>8, ThreadKeeps

\* The thread's step is about the connection it has, and that one only.
LEMMA ConnKeeps ==
  ASSUME SessionInv, SizeInv', UNCHANGED <<clientVars, backlog, conn>>,
         NEW c \in Clients, conn = c,
         DOMAIN up' = Clients, DOMAIN down' = Clients,
         api' \in {"header", "arg", "serve", "blocked", "dead"},
         api' \in {"arg", "serve", "blocked"} => request' = Current(c),
         api' = "arg" => HasArg(c),
         IsFiniteSet(targets'),
         api' # "dead" => api # "dead" /\ targets \subseteq targets',
         \A d \in Clients : d # c => up'[d] = up[d] /\ down'[d] = down[d],
         Unread(c)', Stage(c)', Told(c)'
  PROVE  SessionInv'
<1>1. /\ backlog' \in Seq(Clients) /\ conn' \in Clients \cup {None}
      /\ conn' # None <=> api' \in {"header", "arg", "serve", "blocked", "dead"}
      /\ api' \in {"arg", "serve", "blocked"} => request' = Current(conn')
      /\ api' = "arg" => HasArg(conn')
  BY SessionAssumption DEF SessionInv, TypeOK
<1>2. ASSUME NEW d \in Clients
      PROVE  \/ Unread(d)' /\ Stage(d)' /\ Told(d)'
             \/ /\ up'[d] = up[d] /\ down'[d] = down[d]
                /\ conn' = d <=> conn = d
                /\ conn = d => api' = api
                /\ pc[d] = "start" => \A n \in 1..Len(backlog') : backlog'[n] # d
  <2>1. CASE d = c
    BY <2>1
  <2>2. CASE d # c
    <3>1. Stage(d)
      BY DEF SessionInv
    <3> QED BY <2>2, <3>1 DEF Stage
  <2> QED BY <2>1, <2>2
<1> QED BY <1>1, <1>2, ThreadKeeps DEF clientVars

LEMMA AcceptFailsKeeps == SessionInv /\ AcceptFails => SessionInv'
<1> SUFFICES ASSUME SessionInv, AcceptFails PROVE SessionInv'
  OBVIOUS
<1>1. /\ TypeOK /\ api = "accept" /\ api' = "ended"
      /\ UNCHANGED <<sizes, clientVars, streams, backlog, conn, request, held, targets, carried>>
  BY DEF SessionInv, AcceptFails
<1>2. conn = None /\ SizeInv'
  BY <1>1, SizesSame DEF SessionInv, TypeOK
<1>3. \A d \in Clients :
        /\ conn # d /\ up'[d] = up[d] /\ down'[d] = down[d]
        /\ pc[d] = "start" => \A n \in 1..Len(backlog') : backlog'[n] # d
  BY <1>1, <1>2, SessionAssumption DEF SessionInv, Stage, streams
<1> QED BY <1>1, <1>2, <1>3, ThreadKeeps DEF TypeOK, streams

LEMMA HangUpKeeps == SessionInv /\ HangUp => SessionInv'
<1> SUFFICES ASSUME SessionInv, HangUp PROVE SessionInv'
  OBVIOUS
<1>1. /\ TypeOK /\ api \in {"header", "arg"} /\ Gone(conn) /\ up[conn] = <<>>
      /\ api' = "accept" /\ conn' = None
      /\ UNCHANGED <<sizes, clientVars, streams, backlog, held, targets, carried>>
  BY DEF SessionInv, HangUp
<1>2. conn \in Clients /\ SizeInv'
  BY <1>1, SizesSame DEF SessionInv, TypeOK
<1>3. ASSUME NEW d \in Clients, conn = d PROVE Unread(d)' /\ Stage(d)' /\ Told(d)'
  <2>1. pc'[d] \in {"done", "killed"} /\ up'[d] = <<>> /\ conn' # d
    BY <1>1, <1>3, SessionAssumption DEF Gone, clientVars, streams
  <2>2. Told(d)
    BY DEF SessionInv
  <2> QED BY <1>1, <2>1, <2>2 DEF Unread, Stage, Told, clientVars
<1>4. ASSUME NEW d \in Clients, conn # d
      PROVE  /\ conn' # d
             /\ pc[d] = "start" => \A n \in 1..Len(backlog') : backlog'[n] # d
  BY <1>1, <1>4, SessionAssumption DEF SessionInv, Stage
<1>5. ASSUME NEW d \in Clients
      PROVE  \/ Unread(d)' /\ Stage(d)' /\ Told(d)'
             \/ /\ up'[d] = up[d] /\ down'[d] = down[d]
                /\ conn' = d <=> conn = d
                /\ conn = d => api' = api
                /\ pc[d] = "start" => \A n \in 1..Len(backlog') : backlog'[n] # d
  <2>1. CASE conn = d
    BY <1>3, <2>1
  <2>2. CASE conn # d
    BY <1>1, <1>4, <2>2 DEF streams
  <2> QED BY <2>1, <2>2
<1> QED BY <1>1, <1>2, <1>5, ThreadKeeps DEF TypeOK, streams

LEMMA RecvHeaderKeeps == SessionInv /\ RecvHeader => SessionInv'
<1> SUFFICES ASSUME SessionInv, RecvHeader PROVE SessionInv'
  OBVIOUS
<1>1. /\ TypeOK /\ api = "header" /\ up[conn] # <<>>
      /\ request' = Head(up[conn]).head
      /\ up' = [up EXCEPT ![conn] = Tail(@)]
      /\ api' = IF ArgLen[request'.cmd] > 0 THEN "arg" ELSE "serve"
      /\ UNCHANGED <<sizes, clientVars, down, backlog, conn, held, targets, carried>>
  BY DEF SessionInv, RecvHeader
<1>2. PICK c \in Clients : conn = c
  BY <1>1 DEF TypeOK
<1>3. /\ Unread(c) /\ Stage(c) /\ Told(c) /\ SizeInv'
  BY <1>1, SizesSame DEF SessionInv
<1>4. \/ up[c] = <<HeaderOf(c)>>
      \/ up[c] = Sent(c)
  BY <1>1, <1>2, <1>3 DEF Unread
<1>5. /\ request' = Current(c)
      /\ up[c] = <<HeaderOf(c)>> => up'[c] = <<>>
      /\ up[c] = Sent(c) /\ HasArg(c) => up'[c] = <<ArgOf(c)>>
      /\ up[c] = Sent(c) /\ ~HasArg(c) => up'[c] = <<>>
  <2>1. HeaderOf(c).head = Current(c)
    BY DEF HeaderOf, Piece
  <2>2. request' = Head(up[c]).head /\ up'[c] = Tail(up[c])
    BY <1>1, <1>2 DEF TypeOK
  <2>3. /\ Head(<<HeaderOf(c)>>) = HeaderOf(c) /\ Tail(<<HeaderOf(c)>>) = <<>>
        /\ Head(<<HeaderOf(c), ArgOf(c)>>) = HeaderOf(c)
        /\ Tail(<<HeaderOf(c), ArgOf(c)>>) = <<ArgOf(c)>>
    BY Pieces
  <2> QED BY <1>4, <2>1, <2>2, <2>3 DEF Sent
<1>6. /\ HasArg(c) => api' = "arg"
      /\ ~HasArg(c) => api' = "serve"
  BY <1>1, <1>5 DEF HasArg
<1>7. /\ Current(c)' = Current(c)
      /\ HasArg(c)' = HasArg(c) /\ HeaderOf(c)' = HeaderOf(c) /\ ArgOf(c)' = ArgOf(c)
      /\ Sent(c)' = Sent(c)
  BY <1>1, SameRequest DEF clientVars
<1>8. ~HasArg(c) => Sent(c) = <<HeaderOf(c)>>
  BY DEF Sent
<1>9. Unread(c)'
  <2>1. conn' = c
    BY <1>1, <1>2
  <2>2. HasArg(c) => up'[c] \in {<<>>, <<ArgOf(c)>>}
    BY <1>4, <1>5
  <2>3. ~HasArg(c) => up'[c] = <<>>
    BY <1>4, <1>5
  <2> QED BY <1>6, <1>7, <2>1, <2>2, <2>3 DEF Unread
<1>10. Told(c)'
  BY <1>1, <1>3 DEF Told, clientVars
<1>11. Stage(c)'
  <2>1. /\ pc[c] \in {"arg", "wait", "done", "killed"} /\ pc'[c] = pc[c]
        /\ down'[c] = down[c] /\ conn' = c
    BY <1>1, <1>2, <1>3 DEF TypeOK, Stage, clientVars
  <2>2. CASE pc[c] = "arg"
    <3>1. HasArg(c) /\ up[c] = <<HeaderOf(c)>>
      BY <1>1, <1>2, <1>3, <2>2 DEF Stage
    <3> QED BY <1>3, <1>5, <1>6, <1>7, <2>1, <2>2, <3>1 DEF Stage
  <2>3. CASE pc[c] = "wait"
    <3>1. down[c] = <<>> /\ up[c] = Sent(c) /\ Awaits(Current(c))
      BY <1>1, <1>2, <1>3, <2>3 DEF Stage
    <3>2. CASE HasArg(c)
      <4>1. down'[c] = <<>> /\ up'[c] = <<ArgOf(c)>> /\ api' = "arg"
        BY <1>5, <1>6, <2>1, <3>1, <3>2
      <4> QED BY <1>7, <2>1, <2>3, <3>1, <4>1 DEF Stage
    <3>3. CASE ~HasArg(c)
      <4>1. down'[c] = <<>> /\ up'[c] = <<>> /\ api' = "serve"
        BY <1>5, <1>6, <2>1, <3>1, <3>3
      <4> QED BY <1>7, <2>1, <2>3, <3>1, <4>1 DEF Stage
    <3> QED BY <3>2, <3>3
  <2>4. CASE pc[c] \in {"done", "killed"}
    BY <2>1, <2>4 DEF Stage
  <2> QED BY <2>1, <2>2, <2>3, <2>4
<1>12. /\ DOMAIN up' = Clients /\ \A d \in Clients : d # c => up'[d] = up[d]
       /\ DOMAIN down' = Clients /\ \A d \in Clients : down'[d] = down[d]
       /\ IsFiniteSet(targets') /\ targets' = targets
       /\ UNCHANGED <<clientVars, backlog, conn>>
  BY <1>1, <1>2 DEF TypeOK
<1>13. /\ api' \in {"arg", "serve"} /\ api' = "arg" => HasArg(c)
  BY <1>6
<1> QED BY <1>1, <1>2, <1>3, <1>5, <1>9, <1>10, <1>11, <1>12, <1>13, ConnKeeps

LEMMA RecvArgKeeps == SessionInv /\ RecvArg => SessionInv'
<1> SUFFICES ASSUME SessionInv, RecvArg PROVE SessionInv'
  OBVIOUS
<1>1. /\ TypeOK /\ api = "arg" /\ up[conn] # <<>> /\ api' = "serve"
      /\ up' = [up EXCEPT ![conn] = Tail(@)]
      /\ UNCHANGED <<sizes, clientVars, down, backlog, conn, request, held, targets, carried>>
  BY DEF SessionInv, RecvArg
<1>2. PICK c \in Clients : conn = c
  BY <1>1 DEF TypeOK
<1>3. /\ Unread(c) /\ Stage(c) /\ Told(c) /\ SizeInv' /\ request' = Current(c)
  BY <1>1, <1>2, SizesSame DEF SessionInv, TypeOK
<1>4. up[c] = <<ArgOf(c)>> /\ up'[c] = <<>>
  <2>1. up[c] = <<ArgOf(c)>> /\ up'[c] = Tail(up[c])
    BY <1>1, <1>2, <1>3 DEF TypeOK, Unread
  <2> QED BY <2>1, Pieces
<1>5. Unread(c)'
  BY <1>1, <1>2, <1>4 DEF Unread
<1>6. Told(c)'
  BY <1>1, <1>3 DEF Told, clientVars
<1>7. Current(c)' = Current(c)
  BY <1>1, SameRequest DEF clientVars
<1>8. Stage(c)'
  <2>1. /\ pc[c] \in {"wait", "done", "killed"} /\ pc'[c] = pc[c]
        /\ down'[c] = down[c] /\ conn' = c
        /\ pc[c] = "wait" => down[c] = <<>> /\ Awaits(Current(c))
    BY <1>1, <1>2, <1>3, <1>4 DEF TypeOK, Stage, clientVars
  <2> QED BY <1>1, <1>4, <1>7, <2>1 DEF Stage
<1>9. /\ DOMAIN up' = Clients /\ \A d \in Clients : d # c => up'[d] = up[d]
      /\ DOMAIN down' = Clients /\ \A d \in Clients : down'[d] = down[d]
      /\ IsFiniteSet(targets') /\ targets' = targets
      /\ UNCHANGED <<clientVars, backlog, conn>>
  BY <1>1, <1>2 DEF TypeOK
<1> QED BY <1>1, <1>2, <1>3, <1>5, <1>6, <1>8, <1>9, ConnKeeps

\* While a request is worked on, its client waits for the answer with nothing in
\* either stream, or has gone.
LEMMA Serves ==
  ASSUME SessionInv, api = "serve"
  PROVE  \E c \in Clients :
           /\ conn = c /\ request = Current(c) /\ up[c] = <<>>
           /\ command[c] \in Commands /\ at[c] \in 1..Len(Requests(c))
           /\ Current(c).cmd \in DOMAIN ArgLen
           /\ \/ Gone(c)
              \/ pc[c] = "wait" /\ ~Gone(c) /\ Awaits(Current(c)) /\ down[c] = <<>>
<1>1. TypeOK
  BY DEF SessionInv
<1>2. PICK c \in Clients : conn = c
  BY <1>1 DEF TypeOK
<1>3. /\ request = Current(c) /\ command[c] \in Commands /\ at[c] \in 1..Len(Requests(c))
  BY <1>1, <1>2 DEF TypeOK
<1>4. Current(c).cmd \in DOMAIN ArgLen
  BY <1>3, Asked DEF Current
<1>5. Unread(c) /\ Stage(c)
  BY DEF SessionInv
<1>6. up[c] = <<>>
  BY <1>2, <1>5 DEF Unread
<1>7. \/ Gone(c)
      \/ pc[c] = "wait" /\ ~Gone(c) /\ Awaits(Current(c)) /\ down[c] = <<>>
  BY <1>1, <1>2, <1>5 DEF TypeOK, Stage, Gone
<1> QED BY <1>2, <1>3, <1>4, <1>6, <1>7

\* A request that gets its answer, whichever it is.
LEMMA AnsweredKeeps ==
  ASSUME SessionInv, api = "serve", SizeInv',
         NEW ok \in BOOLEAN, NEW len \in Nat, NEW sent \in Nat,
         Answer(ok, len, sent), Done,
         sent = IF request.cmd = "IF_STATUS" THEN 24 ELSE len,
         request.cmd = "STATUS" => len = 12,
         request.cmd = "IF_STATUS" => len = 32,
         request.cmd = "TARGET_ADD" /\ ok => request.arg \in targets',
         IsFiniteSet(targets'), targets \subseteq targets'
  PROVE  SessionInv'
<1>1. PICK c \in Clients :
        /\ conn = c /\ request = Current(c) /\ up[c] = <<>>
        /\ command[c] \in Commands /\ at[c] \in 1..Len(Requests(c))
        /\ Current(c).cmd \in DOMAIN ArgLen
        /\ \/ Gone(c)
           \/ pc[c] = "wait" /\ ~Gone(c) /\ Awaits(Current(c)) /\ down[c] = <<>>
  BY Serves
<1>2. /\ TypeOK /\ Told(c) /\ api' = "header" /\ UNCHANGED <<clientVars, up, backlog, conn>>
  BY DEF SessionInv, Done
<1> DEFINE h == [cmd |-> request.cmd, ok |-> ok, len |-> len]
           data == IF sent > 0 THEN <<Piece(None, sent)>> ELSE <<>>
           all == IF sent > 0 THEN <<Piece(h, HdrLen), Piece(None, sent)>>
                              ELSE <<Piece(h, HdrLen)>>
<1>3. /\ DOMAIN down' = Clients /\ \A d \in Clients : d # c => down'[d] = down[d]
      /\ ~Gone(c) => down'[c] = down[c] \o <<Piece(h, HdrLen)>> \o data
  BY <1>1, <1>2 DEF Answer, TypeOK
<1>4. /\ h \in [cmd : DOMAIN ArgLen, ok : BOOLEAN, len : Nat]
      /\ h.cmd = request.cmd /\ h.ok = ok /\ h.len = len
  BY <1>1
<1> HIDE DEF h
<1>5. ~Gone(c) => down'[c] = all
  <2>1. /\ <<>> \o <<Piece(h, HdrLen)>> \o <<>> = <<Piece(h, HdrLen)>>
        /\ <<>> \o <<Piece(h, HdrLen)>> \o <<Piece(None, sent)>>
             = <<Piece(h, HdrLen), Piece(None, sent)>>
    BY Joined
  <2> QED BY <1>1, <1>3, <2>1
<1>6. /\ all # <<>> /\ all[1].head = h
  BY DEF Piece
<1> HIDE DEF all
<1>7. /\ Current(c)' = Current(c)
  BY <1>2, SameRequest DEF clientVars
<1>8. Unread(c)'
  BY <1>1, <1>2 DEF Unread
<1>9. Told(c)'
  BY <1>2 DEF Told, clientVars
<1>10. ~Gone(c) => Reply(c)'
  <2> SUFFICES ASSUME ~Gone(c) PROVE Reply(c)'
    OBVIOUS
  <2>1. down'[c] = all /\ down'[c][1].head = h /\ down'[c] # <<>>
    BY <1>5, <1>6
  <2>2. sent = IF h.cmd = "IF_STATUS" THEN 24 ELSE h.len
    BY <1>4
  <2>3. down'[c] = IF sent > 0 THEN <<Piece(h, HdrLen), Piece(None, sent)>>
                               ELSE <<Piece(h, HdrLen)>>
    BY <2>1 DEF all
  <2>4. h.cmd = Current(c)'.cmd /\ (h.cmd = "STATUS" => h.len = 12)
        /\ (h.cmd = "IF_STATUS" => h.len = 32)
        /\ (h.cmd = "TARGET_ADD" /\ h.ok => Current(c)'.arg \in targets')
    BY <1>1, <1>4, <1>7
  <2> QED BY <1>4, <2>1, <2>2, <2>3, <2>4 DEF Reply
<1>11. Stage(c)'
  <2>1. pc'[c] = pc[c] /\ up'[c] = <<>> /\ conn' = c
    BY <1>1, <1>2 DEF clientVars
  <2>2. CASE Gone(c)
    BY <2>1, <2>2 DEF Stage, Gone
  <2>3. CASE pc[c] = "wait" /\ ~Gone(c) /\ Awaits(Current(c))
    BY <1>2, <1>7, <1>10, <2>1, <2>3 DEF Stage
  <2> QED BY <1>1, <2>2, <2>3
<1>12. DOMAIN up' = Clients /\ \A d \in Clients : d # c => up'[d] = up[d]
  BY <1>2 DEF TypeOK
<1> QED BY <1>1, <1>2, <1>3, <1>8, <1>9, <1>11, <1>12, ConnKeeps

\* A request that gets no answer.
LEMMA UnansweredKeeps ==
  ASSUME SessionInv, api = "serve", UNCHANGED <<sizes, down, targets>>, Done,
         Unanswered(conn)
  PROVE  SessionInv'
<1>1. PICK c \in Clients :
        /\ conn = c /\ request = Current(c) /\ up[c] = <<>>
        /\ command[c] \in Commands /\ at[c] \in 1..Len(Requests(c))
        /\ Current(c).cmd \in DOMAIN ArgLen
        /\ \/ Gone(c)
           \/ pc[c] = "wait" /\ ~Gone(c) /\ Awaits(Current(c)) /\ down[c] = <<>>
  BY Serves
<1>2. /\ TypeOK /\ Told(c) /\ api' = "header" /\ UNCHANGED <<clientVars, up, backlog, conn>>
  BY DEF SessionInv, Done
<1>3. SizeInv'
  BY SizesSame DEF SessionInv
<1>4. /\ Current(c)' = Current(c)
  BY <1>2, SameRequest DEF clientVars
<1>5. Unread(c)' /\ Told(c)'
  BY <1>1, <1>2 DEF Unread, Told, clientVars
<1>6. Unanswered(c)'
  BY <1>1, <1>4 DEF Unanswered
<1>7. Stage(c)'
  <2>1. pc'[c] = pc[c] /\ up'[c] = <<>> /\ conn' = c /\ down'[c] = down[c]
    BY <1>1, <1>2 DEF clientVars
  <2>2. CASE Gone(c)
    BY <2>1, <2>2 DEF Stage, Gone
  <2>3. CASE pc[c] = "wait" /\ ~Gone(c) /\ Awaits(Current(c)) /\ down[c] = <<>>
    BY <1>2, <1>4, <1>6, <2>1, <2>3 DEF Stage
  <2> QED BY <1>1, <2>2, <2>3
<1>8. /\ DOMAIN up' = Clients /\ \A d \in Clients : d # c => up'[d] = up[d] /\ down'[d] = down[d]
      /\ DOMAIN down' = Clients /\ IsFiniteSet(targets')
  BY <1>2 DEF TypeOK
<1> QED BY <1>1, <1>2, <1>3, <1>5, <1>7, <1>8, ConnKeeps

LEMMA StatusKeeps == SessionInv /\ Status => SessionInv'
<1> SUFFICES ASSUME SessionInv, Status PROVE SessionInv'
  OBVIOUS
<1>1. /\ api = "serve" /\ request.cmd = "STATUS" /\ Answer(TRUE, 12, 12) /\ Done
      /\ UNCHANGED <<sizes, targets>>
  BY DEF Status, Serving
<1>2. SizeInv' /\ IsFiniteSet(targets') /\ targets \subseteq targets'
  BY <1>1, SizesSame DEF SessionInv, TypeOK
<1> QED BY <1>1, <1>2, AnsweredKeeps

LEMMA ListKeeps == SessionInv /\ List => SessionInv'
<1> SUFFICES ASSUME SessionInv, List PROVE SessionInv'
  OBVIOUS
<1> DEFINE n == ListLen[request.cmd]
<1>1. /\ api = "serve" /\ request.cmd \in Lists /\ Answer(TRUE, n, n) /\ Done
      /\ UNCHANGED <<sizes, held, targets>>
  BY DEF List, Serving
<1>2. SizeInv' /\ IsFiniteSet(targets') /\ targets \subseteq targets'
  BY <1>1, SizesSame DEF SessionInv, TypeOK
<1>3. n \in Nat
  <2>1. Cardinality(targets) \in Nat
    BY FS_CardinalityType DEF SessionInv, TypeOK
  <2> DEFINE k == Cardinality(targets)
  <2> HIDE DEF k
  <2>2. 32 * Ifs \in Nat /\ 152 * (Others + k) \in Nat /\ 128 * Acls \in Nat
    BY <2>1, SessionAssumption DEF k
  <2> QED BY <1>1, <2>2 DEF ListLen, Lists, k
<1>4. request.cmd \notin {"STATUS", "IF_STATUS", "TARGET_ADD"}
  BY <1>1 DEF Lists
<1> HIDE DEF n
<1> QED BY <1>1, <1>2, <1>3, <1>4, AnsweredKeeps

LEMMA IfStatusKeeps == SessionInv /\ IfStatus => SessionInv'
<1> SUFFICES ASSUME SessionInv, IfStatus PROVE SessionInv'
  OBVIOUS
<1> DEFINE ok == request.arg # Unknown
<1>1. /\ api = "serve" /\ request.cmd = "IF_STATUS" /\ Answer(ok, 32, 24) /\ Done
      /\ UNCHANGED <<sizes, held, targets>> /\ ok \in BOOLEAN
  BY DEF IfStatus, Serving
<1>2. SizeInv' /\ IsFiniteSet(targets') /\ targets \subseteq targets'
  BY <1>1, SizesSame DEF SessionInv, TypeOK
<1> HIDE DEF ok
<1> QED BY <1>1, <1>2, AnsweredKeeps

LEMMA ApiSetMtuKeeps == SessionInv /\ ApiSetMtu => SessionInv'
<1> SUFFICES ASSUME SessionInv, ApiSetMtu PROVE SessionInv'
  OBVIOUS
<1>1. /\ api = "serve" /\ request.cmd = "SETMTU" /\ Done
      /\ UNCHANGED <<held, targets>>
      /\ Answer(TRUE, 24, 24) \/ Answer(FALSE, 24, 24)
      /\ UNCHANGED sizes \/ (request.arg # Unknown /\ SetMtu(request.arg))
  BY DEF ApiSetMtu, Serving
<1>2. PICK c \in Clients : /\ request = Current(c) /\ command[c] \in Commands
                           /\ at[c] \in 1..Len(Requests(c))
  BY <1>1, Serves
<1>3. request.arg \in Int \cup {Unknown}
  BY <1>1, <1>2, Asked DEF Current
<1>4. SizeInv'
  BY <1>1, <1>3, SizesSame, SetMtuKeeps DEF SessionInv
<1>5. IsFiniteSet(targets') /\ targets \subseteq targets'
  BY <1>1 DEF SessionInv, TypeOK
<1> QED BY <1>1, <1>4, <1>5, AnsweredKeeps

LEMMA AddFailsKeeps == SessionInv /\ AddFails => SessionInv'
<1> SUFFICES ASSUME SessionInv, AddFails PROVE SessionInv'
  OBVIOUS
<1>1. /\ api = "serve" /\ request.cmd = "TARGET_ADD" /\ Answer(FALSE, 152, 152) /\ Done
      /\ UNCHANGED <<sizes, held, targets>>
  BY DEF AddFails, Serving
<1>2. SizeInv' /\ IsFiniteSet(targets') /\ targets \subseteq targets'
  BY <1>1, SizesSame DEF SessionInv, TypeOK
<1> QED BY <1>1, <1>2, AnsweredKeeps

LEMMA AddKeeps == SessionInv /\ Add => SessionInv'
<1> SUFFICES ASSUME SessionInv, Add PROVE SessionInv'
  OBVIOUS
<1>1. /\ api = "serve" /\ request.cmd = "TARGET_ADD" /\ Answer(TRUE, 152, 152) /\ Done
  BY DEF Add, Serving
<1>2. targets' = targets \cup {request.arg} /\ UNCHANGED sizes
  BY DEF Add
<1>3. SizeInv' /\ IsFiniteSet(targets)
  BY <1>2, SizesSame DEF SessionInv, TypeOK
<1>4. IsFiniteSet(targets') /\ targets \subseteq targets' /\ request.arg \in targets'
  BY <1>2, <1>3, FS_AddElement
<1> QED BY <1>1, <1>3, <1>4, AnsweredKeeps

LEMMA DelRefusedKeeps == SessionInv /\ DelRefused => SessionInv'
<1> SUFFICES ASSUME SessionInv, DelRefused PROVE SessionInv'
  OBVIOUS
<1>1. /\ api = "serve" /\ request.cmd = "TARGET_DEL" /\ Answer(FALSE, 0, 0) /\ Done
      /\ UNCHANGED <<sizes, held, targets>>
  BY DEF DelRefused, Serving
<1>2. SizeInv' /\ IsFiniteSet(targets') /\ targets \subseteq targets'
  BY <1>1, SizesSame DEF SessionInv, TypeOK
<1> QED BY <1>1, <1>2, AnsweredKeeps

LEMMA AddDuplicateKeeps == SessionInv /\ AddDuplicate => SessionInv'
<1> SUFFICES ASSUME SessionInv, AddDuplicate PROVE SessionInv'
  OBVIOUS
<1>1. /\ api = "serve" /\ request.cmd = "TARGET_ADD" /\ request.arg \in targets /\ Done
      /\ UNCHANGED <<sizes, down, held, targets>>
  BY DEF AddDuplicate, Serving
<1>2. Unanswered(conn)
  BY <1>1 DEF SessionInv, TypeOK, Unanswered
<1> QED BY <1>1, <1>2, UnansweredKeeps

LEMMA IgnoreKeeps == SessionInv /\ Ignore => SessionInv'
<1> SUFFICES ASSUME SessionInv, Ignore PROVE SessionInv'
  OBVIOUS
<1>1. /\ api = "serve" /\ request.cmd \in NoHandler /\ Done
      /\ UNCHANGED <<sizes, down, held, targets>>
  BY DEF Ignore, Serving
<1>2. Unanswered(conn)
  BY <1>1 DEF SessionInv, TypeOK, Unanswered
<1> QED BY <1>1, <1>2, UnansweredKeeps

\* The thread stops for good, blocked by itself or with the daemon.
LEMMA StopKeeps ==
  ASSUME SessionInv, api = "serve", api' \in {"blocked", "dead"},
         UNCHANGED <<sizes, clientVars, streams, backlog, conn, request>>,
         IsFiniteSet(targets'), api' = "blocked" => targets' = targets
  PROVE  SessionInv'
<1>1. PICK c \in Clients :
        /\ conn = c /\ request = Current(c) /\ up[c] = <<>>
        /\ \/ Gone(c)
           \/ pc[c] = "wait" /\ ~Gone(c) /\ Awaits(Current(c)) /\ down[c] = <<>>
  BY Serves
<1>2. SizeInv' /\ Told(c) /\ TypeOK
  BY SizesSame DEF SessionInv
<1>3. Current(c)' = Current(c)
  BY SameRequest DEF clientVars
<1>4. Unread(c)' /\ Told(c)'
  BY <1>1, <1>2 DEF Unread, Told, clientVars, streams
<1>5. Stage(c)'
  <2>1. pc'[c] = pc[c] /\ up'[c] = <<>> /\ conn' = c /\ down'[c] = down[c]
    BY <1>1 DEF clientVars, streams
  <2>2. CASE Gone(c)
    BY <2>1, <2>2 DEF Stage, Gone
  <2>3. CASE pc[c] = "wait" /\ Awaits(Current(c)) /\ down[c] = <<>>
    BY <1>3, <2>1, <2>3 DEF Stage
  <2> QED BY <1>1, <2>2, <2>3
<1>6. /\ DOMAIN up' = Clients /\ \A d \in Clients : d # c => up'[d] = up[d] /\ down'[d] = down[d]
      /\ DOMAIN down' = Clients /\ UNCHANGED <<clientVars, backlog, conn>>
      /\ request' = Current(c) /\ (api' # "dead" => targets \subseteq targets')
  BY <1>1, <1>2 DEF TypeOK, streams
<1> QED BY <1>1, <1>2, <1>4, <1>5, <1>6, ConnKeeps

LEMMA SelfBlockKeeps == SessionInv /\ SelfBlock => SessionInv'
<1> SUFFICES ASSUME SessionInv, SelfBlock PROVE SessionInv'
  OBVIOUS
<1>1. /\ api = "serve" /\ api' = "blocked"
      /\ UNCHANGED <<sizes, clientVars, streams, backlog, conn, request, targets>>
  BY DEF SelfBlock, Serving
<1>2. IsFiniteSet(targets')
  BY <1>1 DEF SessionInv, TypeOK
<1> QED BY <1>1, <1>2, StopKeeps

LEMMA DelCrashesKeeps == SessionInv /\ DelCrashes => SessionInv'
<1> SUFFICES ASSUME SessionInv, DelCrashes PROVE SessionInv'
  OBVIOUS
<1>1. /\ api = "serve" /\ api' = "dead" /\ targets' = targets \ {request.arg}
      /\ UNCHANGED <<sizes, clientVars, streams, backlog, conn, request>>
  BY DEF DelCrashes, Serving
<1>2. IsFiniteSet(targets')
  BY <1>1, FS_Difference DEF SessionInv, TypeOK
<1> QED BY <1>1, <1>2, StopKeeps

LEMMA TrafficKeeps == SessionInv /\ Traffic => SessionInv'
<1> SUFFICES ASSUME SessionInv, Traffic PROVE SessionInv'
  OBVIOUS
<1>1. SizeInv' /\ TypeOK /\ UNCHANGED <<clientVars, daemonVars, streams, backlog>>
  BY FramesKeep DEF SessionInv, Traffic
<1>2. \A d \in Clients :
        /\ up'[d] = up[d] /\ down'[d] = down[d]
        /\ pc[d] = "start" => \A n \in 1..Len(backlog') : backlog'[n] # d
  BY <1>1 DEF SessionInv, Stage, streams
<1>3. api' # "dead" => api # "dead" /\ targets \subseteq targets'
  BY <1>1 DEF daemonVars
<1> QED BY <1>1, <1>2, <1>3, ThreadKeeps DEF TypeOK, daemonVars, streams

LEMMA NothingKeeps == SessionInv /\ UNCHANGED vars => SessionInv'
<1> SUFFICES ASSUME SessionInv, UNCHANGED vars PROVE SessionInv'
  OBVIOUS
<1>1. SizeInv' /\ TypeOK /\ UNCHANGED <<clientVars, daemonVars, streams, backlog>>
  BY SizesSame DEF SessionInv, vars
<1>2. \A d \in Clients :
        /\ up'[d] = up[d] /\ down'[d] = down[d]
        /\ pc[d] = "start" => \A n \in 1..Len(backlog') : backlog'[n] # d
  BY <1>1 DEF SessionInv, Stage, streams
<1>3. SizeInv' /\ UNCHANGED clientVars /\ api' = api /\ conn' = conn /\ request' = request
      /\ targets' = targets /\ backlog' = backlog /\ up' = up /\ down' = down
  BY <1>1 DEF daemonVars, streams
<1> QED BY <1>1, <1>2, <1>3, ThreadKeeps DEF TypeOK

-----------------------------------------------------------------------------
(* The theorems.                                                             *)

\* Every step of the session keeps the invariant: how far a program has come with
\* its request always fits how far the API thread has come with it.
THEOREM SessionInvariance == Session => []SessionInv
<1>1. ASSUME SessionInv, SessionNext PROVE SessionInv'
  <2>1. ASSUME NEW c \in Clients, Connect(c) \/ Program(c) \/ Kill(c) PROVE SessionInv'
    BY <1>1, <2>1, ConnectKeeps, SendHeaderKeeps, SendArgKeeps, ReceiveNothing,
       ReceiveAnswer, KillKeeps DEF Program
  <2>2. CASE Thread
    BY <1>1, <2>2, AcceptKeeps, RecvHeaderKeeps, RecvArgKeeps, HangUpKeeps, StatusKeeps,
       ListKeeps, IfStatusKeeps, ApiSetMtuKeeps, IgnoreKeeps, AddDuplicateKeeps,
       AddFailsKeeps, AddKeeps, SelfBlockKeeps, DelRefusedKeeps, DelCrashesKeeps
       DEF Thread, Handler
  <2>3. CASE AcceptFails
    BY <1>1, <2>3, AcceptFailsKeeps
  <2>4. CASE Traffic
    BY <1>1, <2>4, TrafficKeeps
  <2> QED BY <1>1, <2>1, <2>2, <2>3, <2>4 DEF SessionNext
<1>2. SessionInv /\ [SessionNext]_vars => SessionInv'
  BY <1>1, NothingKeeps
<1> QED BY <1>2, InitSession, PTL DEF Session

\* A program that reads a header reads the answer to what it asked last.
THEOREM AnswersAreOwn == Session => []OwnAnswer
<1>1. SessionInv => OwnAnswer
  BY DEF SessionInv, Told, OwnAnswer
<1> QED BY <1>1, SessionInvariance, PTL

\* A target that a program was told is added is exported while the daemon runs.
THEOREM AddedIsThere == Session => []ToldRight
<1>1. SessionInv => ToldRight
  BY DEF SessionInv, Told, ToldRight
<1> QED BY <1>1, SessionInvariance, PTL

\* Program and thread wait for each other only over a command without an answer.
THEOREM WaitsAreNamed == Session => []NoMutualWait
<1>1. ASSUME SessionInv, NEW c \in Clients, MutualWait(c) PROVE Unanswered(c)
  <2>1. Stage(c) /\ pc[c] = "wait" /\ conn = c /\ api = "header" /\ up[c] = <<>> /\ down[c] = <<>>
    BY <1>1 DEF SessionInv, MutualWait
  <2>2. Sent(c) # <<>>
    BY DEF Sent
  <2>3. ~Reply(c)
    BY <2>1 DEF Reply
  <2> QED BY <2>1, <2>2, <2>3 DEF Stage
<1>2. SessionInv => NoMutualWait
  BY <1>1 DEF NoMutualWait, Unanswered
<1> QED BY <1>2, SessionInvariance, PTL

\* A write of a client that keeps to what it was told is read in full, unless SETMTU
\* has set a larger mtu than the buffer was made for, or the mtu it was told of has no
\* room for a header.
THEOREM WritesAreWhole == Session => []WholeWrites
<1>1. SessionInv => WholeWrites
  BY FramesRight DEF SessionInv
<1> QED BY <1>1, SessionInvariance, PTL

\* An answer to a client that keeps to what it was told, and was told of an mtu that
\* has room for a header, is one that the system sends, whatever mtu is set meanwhile.
THEOREM AnswersAreSent == Session => []AnswersSent
<1>1. SessionInv => AnswersSent
  BY FramesRight DEF SessionInv
<1> QED BY <1>1, SessionInvariance, PTL
=============================================================================
