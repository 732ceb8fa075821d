------------------------------- MODULE Bridge -------------------------------
(***************************************************************************)
(* bridge mode (bridge.c): a single loop that makes a brick on the other   *)
(* end of `handle' look like one on the network.  It announces itself over *)
(* UDP, accepts one TCP client at a time, answers its GET, cuts the byte   *)
(* stream into packets for the brick and copies the brick's replies back.  *)
(*                                                                         *)
(* A TCP stream is a sequence of units: Get (the client's handshake text,  *)
(* one segment), Accept (the bridge's answer) and <<c, n, p>>, byte p of   *)
(* request n of client c, or of the reply to it; bytes 1 and 2 are the     *)
(* length.  The bytes of a request arrive one by one, so every read finds  *)
(* a fragment of any size.  Clients are external and behave as tcp_open()  *)
(* and the commands do: they wait for some bytes after the GET, and for a  *)
(* reply's worth of bytes after each request.  They may leave at any time; *)
(* connections are closed in order, never reset.                           *)
(***************************************************************************)
EXTENDS Integers, Sequences, FiniteSets, SequencesExt

CONSTANTS
  Clients,       \* TCP clients, each connecting once
  BodyLen,       \* sequence: bytes after the length field of request n
  ReplyLen,      \* bytes of a reply, length field included
  Misread,       \* lengths that two bytes of a body may spell
  HidErrors,     \* may a read from the brick fail (it was unplugged)?
  BeaconErrors,  \* may a UDP beacon fail?
  MaxAccepted    \* connections whose descriptors the process may hold

ASSUME BodiesAssumption == BodyLen \in Seq(Nat \ {0})
ASSUME ReplyAssumption == ReplyLen \in Nat \ {0, 1} /\ Misread \subseteq Nat
ASSUME ClientsAssumption == "none" \notin Clients
ASSUME ErrorsAssumption == HidErrors \in BOOLEAN /\ BeaconErrors \in BOOLEAN
ASSUME AcceptedAssumption == MaxAccepted \in Nat \ {0}

VARIABLES
  pc,              \* the place in bridge_mode()
  NetConnection, TcpRead,    \* State
  TcpRestLen,      \* bytes of the packet still to be read
  ReadBuf,         \* what is in the packet buffer (TcpReadBufPointer of it)
  WriteBuf,        \* the write_len bytes of the reply from write_pos on
  sock,            \* TcpConnectionSocket: the client it leads to, or None
  udpOpen,         \* UdpSocketDescriptor is open
  backlog,         \* clients the kernel holds for accept()
  there,           \* client: has it connected, and not left?
  req, part,       \* client: its request, and how much of it was sent
  up,              \* client -> bridge: bytes not read yet
  down,            \* bridge -> client: all bytes ever written
  hid,             \* requests on their way to the brick
  hidReplies,      \* replies on their way to the bridge
  forwarded,       \* history: what clean connections handed to ev3_write
  clean            \* history: sock was accepted with no reply outstanding

vars == <<pc, NetConnection, TcpRead, TcpRestLen, ReadBuf, WriteBuf, sock,
          udpOpen, backlog, there, req, part, up, down, hid, hidReplies,
          forwarded, clean>>
net == <<backlog, there, req, part>>
usb == <<hid, hidReplies, forwarded>>

None == "none"
Get == <<"get">>
Accept == <<"accept">>
PacketOf(c, n) == [p \in 1 .. 2 + BodyLen[n] |-> <<c, n, p>>]
FirstByteOf(c, n) == << <<c, n, 1>> >>
ReplyTo(c, n) == [p \in 1 .. ReplyLen |-> <<c, n, p>>]

Init ==
  /\ pc = "start"
  /\ NetConnection = "CLOSED" /\ TcpRead = "TCP_IDLE"
  /\ TcpRestLen = 0 /\ ReadBuf = << >> /\ WriteBuf = << >>
  /\ sock = None
  /\ udpOpen = FALSE
  /\ backlog = << >>
  /\ there = [c \in Clients |-> "new"]
  /\ req = [c \in Clients |-> 0] /\ part = [c \in Clients |-> 0]
  /\ up = [c \in Clients |-> << >>] /\ down = [c \in Clients |-> << >>]
  /\ hid = << >> /\ hidReplies = << >>
  /\ forwarded = << >>
  /\ clean = TRUE

-----------------------------------------------------------------------------
(***************************************************************************)
(* The pieces bridge_mode() is made of.                                    *)
(***************************************************************************)

\* The socket is shut down, never closed: its descriptor stays in use.
cNetTcpClose == sock' = None /\ NetConnection' = "TCP_NOT_CONNECTED"

\* Every connection that was ever accepted holds a descriptor.
Accepted == {c \in Clients : there[c] # "new" /\ c \notin ToSet(backlog)}
DescriptorLeft == Cardinality(Accepted) < MaxAccepted

\* write() takes all the bytes it was given, at the end of the stream.
cNetWriteTcp(bytes) == down' = [down EXCEPT ![sock] = @ \o bytes]

\* cNetTransmitBeacon, when BEACON_TIME has passed: a failure closes the
\* socket and sets CLOSED; on a closed socket it always fails.
BeaconSent == udpOpen /\ UNCHANGED <<udpOpen, NetConnection>>
BeaconFails ==
  /\ BeaconErrors \/ ~udpOpen
  /\ udpOpen' = FALSE
  /\ NetConnection' = "CLOSED"

\* The first beacon is sent at once; if it fails the state is set to
\* TCP_NOT_CONNECTED all the same.
cNetInitUdp ==
  /\ NetConnection' = "TCP_NOT_CONNECTED"
  /\ udpOpen' \in {TRUE, ~BeaconErrors}

cNetInitTcpServer == TcpRead' = "TCP_IDLE"

\* Both succeed, or the first or the second fails and ERR_IO is returned.
BridgeStart ==
  /\ pc = "start"
  /\ \/ cNetInitUdp /\ cNetInitTcpServer /\ pc' \in {"top", "exited"}
     \/ pc' = "exited" /\ UNCHANGED <<NetConnection, udpOpen, TcpRead>>
  /\ UNCHANGED <<TcpRestLen, ReadBuf, WriteBuf, sock, net, up, down, usb,
                 clean>>

\* Loop, not connected: the beacon, if it is due.
Beacon ==
  /\ pc = "top" /\ NetConnection = "TCP_NOT_CONNECTED"
  /\ pc' = "accept"
  /\ \/ BeaconSent
     \/ BeaconFails
     \/ UNCHANGED <<udpOpen, NetConnection>>  \* not due
  /\ UNCHANGED <<TcpRead, TcpRestLen, ReadBuf, WriteBuf, sock, net, up, down,
                 usb, clean>>

\* ... then cNetWaitForTcpConnection, whatever the beacon did: accept() fails
\* when nobody waits, and also when the descriptors are used up.
WaitForTcpConnection ==
  /\ pc = "accept"
  /\ pc' = "top"
  /\ IF backlog # << >> /\ DescriptorLeft
       THEN /\ sock' = Head(backlog)
            /\ backlog' = Tail(backlog)
            /\ TcpRead' = "TCP_WAIT_ON_START"
            /\ NetConnection' = "TCP_CONNECTED"
            /\ clean' = (WriteBuf = << >> /\ hid = << >> /\ hidReplies = << >>)
       ELSE UNCHANGED <<sock, backlog, TcpRead, NetConnection, clean>>
  /\ UNCHANGED <<TcpRestLen, ReadBuf, WriteBuf, udpOpen, there, req, part, up,
                 down, usb>>

\* Loop, connected: fetch a reply unless one is still being written.
Poll ==
  /\ pc = "top" /\ NetConnection = "TCP_CONNECTED"
  /\ pc' = "read"
  /\ IF WriteBuf = << >> /\ hidReplies # << >>
       THEN WriteBuf' = Head(hidReplies) /\ hidReplies' = Tail(hidReplies)
       ELSE UNCHANGED <<WriteBuf, hidReplies>>
  /\ UNCHANGED <<NetConnection, TcpRead, TcpRestLen, ReadBuf, sock, udpOpen,
                 net, up, down, hid, forwarded, clean>>

\* The read fails: write_len is -1, not 0, so the length in the old buffer is
\* compared with it and the assertion stops the program.
PollFails ==
  /\ pc = "top" /\ NetConnection = "TCP_CONNECTED"
  /\ HidErrors /\ WriteBuf = << >>
  /\ pc' = "aborted"
  /\ UNCHANGED <<NetConnection, TcpRead, TcpRestLen, ReadBuf, WriteBuf, sock,
                 udpOpen, net, up, down, usb, clean>>

-----------------------------------------------------------------------------
(***************************************************************************)
(* cNetReadTcp, when select() says there is something to read: bytes, or   *)
(* the end of the stream.                                                  *)
(***************************************************************************)
Readable == up[sock] # << >> \/ there[sock] = "gone"

\* read(): at most `most' of the bytes that are there.
Fragment(most) ==
  SubSeq(up[sock], 1, IF Len(up[sock]) < most THEN Len(up[sock]) ELSE most)
Consume(got) ==
  up' = [up EXCEPT ![sock] = SubSeq(@, Len(got) + 1, Len(@))]

\* Mutant: the end of the stream is not noticed.
EndOfStreamIgnored ==
  /\ pc' = "write"
  /\ UNCHANGED <<NetConnection, sock, TcpRead, TcpRestLen, ReadBuf, down, usb>>

\* End of the stream: close, and go round the loop with nothing to write to.
EndOfStream ==
  /\ cNetTcpClose
  /\ pc' = "top"
  /\ UNCHANGED <<TcpRead, TcpRestLen, ReadBuf, down, usb>>

\* One read takes everything that is there (up to 100 bytes).
ReadStart ==
  /\ TcpRead = "TCP_WAIT_ON_START"
  /\ LET got == up[sock] IN
     /\ Consume(got)
     /\ \/ got = << >> /\ EndOfStream
        \/ /\ got # << >>
           /\ IF Contains(got, Get)
                THEN /\ cNetWriteTcp(<<Accept>>)
                     /\ TcpRead' = "TCP_WAIT_ON_LENGTH"
                ELSE UNCHANGED <<down, TcpRead>>
           /\ pc' = "write"
           /\ UNCHANGED <<NetConnection, sock, TcpRestLen, ReadBuf, usb>>

\* TcpRestLen, from the first two bytes of a packet, or from whatever is
\* there when the start of the packet is lost.
RestLen(got) ==
  IF got[1][3] = 1 THEN {BodyLen[got[1][2]]} ELSE Misread

\* One byte of a length closes the connection, but cNetReadTcp() still
\* returns 1: ev3_write() takes the byte for a packet.  When that fails the
\* connection is closed once more, and this socket is descriptor 0: shutdown()
\* fails and cNetTcpClose() reads standard input until it ends.
HalfLength(got) ==
  /\ cNetTcpClose
  /\ \/ /\ hid' = Append(hid, got)
        /\ forwarded' = IF clean THEN Append(forwarded, got) ELSE forwarded
        /\ pc' = "top"
     \/ pc' = "stdin" /\ UNCHANGED <<hid, forwarded>>
  /\ UNCHANGED <<TcpRead, TcpRestLen, ReadBuf, down, hidReplies>>

\* Both bytes of the length, or the connection is closed.
ReadLength ==
  /\ TcpRead = "TCP_WAIT_ON_LENGTH"
  /\ LET got == Fragment(2) IN
     /\ Consume(got)
     /\ \/ got = << >> /\ EndOfStream
        \/ Len(got) = 1 /\ HalfLength(got)
        \/ /\ Len(got) = 2
           /\ TcpRestLen' \in RestLen(got)
           /\ ReadBuf' = got
           /\ TcpRead' = "TCP_WAIT_ON_ONLY_CHUNK"
           /\ pc' = "write"
           /\ UNCHANGED <<NetConnection, sock, down, usb>>

\* ev3_write takes the packet, or the connection is closed and the rest of
\* the iteration is skipped.
Forward(packet) ==
  \/ /\ hid' = Append(hid, packet)
     /\ forwarded' = IF clean THEN Append(forwarded, packet) ELSE forwarded
     /\ pc' = "write"
     /\ UNCHANGED <<NetConnection, sock, hidReplies>>
  \/ /\ cNetTcpClose
     /\ pc' = "top"
     /\ UNCHANGED usb

\* Mutant: the first fragment is taken for the whole packet.
ReadChunkOnce ==
  /\ TcpRead = "TCP_WAIT_ON_ONLY_CHUNK"
  /\ LET got == Fragment(TcpRestLen) IN
     /\ Consume(got)
     /\ \/ got = << >> /\ EndOfStream
        \/ /\ got # << >>
           /\ ReadBuf' = ReadBuf \o got
           /\ TcpRead' = "TCP_WAIT_ON_LENGTH"
           /\ Forward(ReadBuf')
           /\ UNCHANGED <<TcpRestLen, down>>

\* Mutant: TcpRestLen is not reduced by what was read.
ReadChunkAgain ==
  /\ TcpRead = "TCP_WAIT_ON_ONLY_CHUNK"
  /\ LET got == Fragment(TcpRestLen) IN
     /\ Consume(got)
     /\ \/ got = << >> /\ EndOfStream
        \/ /\ got # << >>
           /\ ReadBuf' = ReadBuf \o got
           /\ IF Len(got) = TcpRestLen
                THEN TcpRead' = "TCP_WAIT_ON_LENGTH" /\ Forward(ReadBuf')
                ELSE /\ pc' = "write"
                     /\ UNCHANGED <<TcpRead, NetConnection, sock, usb>>
           /\ UNCHANGED <<TcpRestLen, down>>

ReadChunk ==
  /\ TcpRead = "TCP_WAIT_ON_ONLY_CHUNK"
  /\ LET got == Fragment(TcpRestLen) IN
     /\ Consume(got)
     /\ \/ got = << >> /\ EndOfStream
        \/ /\ got # << >>
           /\ ReadBuf' = ReadBuf \o got
           /\ IF Len(got) = TcpRestLen
                THEN /\ TcpRead' = "TCP_WAIT_ON_LENGTH"
                     /\ Forward(ReadBuf')
                     /\ UNCHANGED TcpRestLen
                ELSE /\ TcpRestLen' = TcpRestLen - Len(got)
                     /\ pc' = "write"
                     /\ UNCHANGED <<TcpRead, NetConnection, sock, usb>>
           /\ UNCHANGED down

Read ==
  /\ pc = "read"
  /\ IF Readable
       THEN ReadStart \/ ReadLength \/ ReadChunk
       ELSE /\ pc' = "write"
            /\ UNCHANGED <<NetConnection, TcpRead, TcpRestLen, ReadBuf, sock,
                           up, down, usb>>
  /\ UNCHANGED <<WriteBuf, udpOpen, net, clean>>

-----------------------------------------------------------------------------
\* Mutant: write_pos is not advanced after a short write.
WriteFromStart ==
  /\ pc = "write"
  /\ pc' = "top"
  /\ \E written \in 0 .. Len(WriteBuf) :
       /\ WriteBuf # << >> => written > 0
       /\ cNetWriteTcp(SubSeq(WriteBuf, 1, written))
       /\ WriteBuf' = SubSeq(WriteBuf, 1, Len(WriteBuf) - written)
  /\ UNCHANGED <<NetConnection, TcpRead, TcpRestLen, ReadBuf, sock, udpOpen,
                 net, up, usb, clean>>

\* The rest of the iteration: write() takes some of the reply.
Write ==
  /\ pc = "write"
  /\ pc' = "top"
  /\ \E written \in 0 .. Len(WriteBuf) :
       /\ WriteBuf # << >> => written > 0
       /\ cNetWriteTcp(SubSeq(WriteBuf, 1, written))
       /\ WriteBuf' = SubSeq(WriteBuf, written + 1, Len(WriteBuf))
  /\ UNCHANGED <<NetConnection, TcpRead, TcpRestLen, ReadBuf, sock, udpOpen,
                 net, up, usb, clean>>

\* CLOSED ends the loop; TCP and UDP are closed and bridge_mode() returns.
Stop ==
  /\ pc = "top" /\ NetConnection = "CLOSED"
  /\ pc' = "exited"
  /\ sock' = None
  /\ udpOpen' = FALSE
  /\ UNCHANGED <<NetConnection, TcpRead, TcpRestLen, ReadBuf, WriteBuf, net,
                 up, down, usb, clean>>

-----------------------------------------------------------------------------
(***************************************************************************)
(* Clients and brick (external).                                           *)
(***************************************************************************)
Running == pc \notin {"start", "exited", "aborted"}

Connect(c) ==
  /\ Running
  /\ there[c] = "new" /\ backlog = << >>
  /\ there' = [there EXCEPT ![c] = "silent"]
  /\ backlog' = Append(backlog, c)
  /\ UNCHANGED <<pc, NetConnection, TcpRead, TcpRestLen, ReadBuf, WriteBuf,
                 sock, udpOpen, req, part, up, down, usb, clean>>

\* Its GET arrives, before or after the bridge has accepted the connection.
Greet(c) ==
  /\ there[c] = "silent"
  /\ there' = [there EXCEPT ![c] = "here"]
  /\ up' = [up EXCEPT ![c] = <<Get>>]
  /\ UNCHANGED <<pc, NetConnection, TcpRead, TcpRestLen, ReadBuf, WriteBuf,
                 sock, udpOpen, backlog, req, part, down, usb, clean>>

\* The confirmation and the replies so far have arrived: next request.
Ask(c) ==
  /\ there[c] = "here"
  /\ req[c] < Len(BodyLen)
  /\ req[c] > 0 => part[c] = 2 + BodyLen[req[c]]
  /\ Len(down[c]) >= 1 + ReplyLen * req[c]
  /\ req' = [req EXCEPT ![c] = @ + 1]
  /\ part' = [part EXCEPT ![c] = 0]
  /\ UNCHANGED <<pc, NetConnection, TcpRead, TcpRestLen, ReadBuf, WriteBuf,
                 sock, udpOpen, backlog, there, up, down, usb, clean>>

\* One more byte of it arrives.
Arrive(c) ==
  /\ there[c] = "here"
  /\ req[c] > 0 /\ part[c] < 2 + BodyLen[req[c]]
  /\ part' = [part EXCEPT ![c] = @ + 1]
  /\ up' = [up EXCEPT ![c] = Append(@, <<c, req[c], part'[c]>>)]
  /\ UNCHANGED <<pc, NetConnection, TcpRead, TcpRestLen, ReadBuf, WriteBuf,
                 sock, udpOpen, backlog, there, req, down, usb, clean>>

Leave(c) ==
  /\ there[c] \in {"silent", "here"}
  /\ there' = [there EXCEPT ![c] = "gone"]
  /\ UNCHANGED <<pc, NetConnection, TcpRead, TcpRestLen, ReadBuf, WriteBuf,
                 sock, udpOpen, backlog, req, part, up, down, usb, clean>>

\* What is not a request from its first byte to its last may be ignored.
Brick ==
  /\ hid # << >>
  /\ LET c == Head(hid)[1][1]
         n == Head(hid)[1][2] IN
     \/ hidReplies' = Append(hidReplies, ReplyTo(c, n))
     \/ Head(hid) # PacketOf(c, n) /\ UNCHANGED hidReplies
  /\ hid' = Tail(hid)
  /\ UNCHANGED <<pc, NetConnection, TcpRead, TcpRestLen, ReadBuf, WriteBuf,
                 sock, udpOpen, net, up, down, forwarded, clean>>

\* The end of standard input, which cNetTcpClose() may be reading.
StdinEnds ==
  /\ pc = "stdin"
  /\ pc' = "top"
  /\ UNCHANGED <<NetConnection, TcpRead, TcpRestLen, ReadBuf, WriteBuf, sock,
                 udpOpen, net, up, down, usb, clean>>

-----------------------------------------------------------------------------
bridge_mode ==
  \/ BridgeStart \/ Beacon \/ WaitForTcpConnection \/ Poll \/ PollFails
  \/ Read \/ Write \/ Stop

Next ==
  \/ bridge_mode
  \/ Brick
  \/ StdinEnds
  \/ \E c \in Clients :
       Connect(c) \/ Greet(c) \/ Ask(c) \/ Arrive(c) \/ Leave(c)

Spec == Init /\ [][Next]_vars

(***************************************************************************)
(* The loop never blocks for longer than a second, the brick answers what  *)
(* it receives and TCP delivers what was sent.                             *)
(***************************************************************************)
FairSpec ==
  /\ Spec
  /\ WF_vars(bridge_mode)
  /\ WF_vars(Brick)
  /\ \A c \in Clients : WF_vars(Arrive(c))

-----------------------------------------------------------------------------
(***************************************************************************)
(* Properties.                                                             *)
(***************************************************************************)
Bytes == UNION {{<<c, n, p>> : p \in 1 .. 2 + BodyLen[n] + ReplyLen} :
                c \in Clients, n \in 1 .. Len(BodyLen)}
Units == {Get, Accept} \cup Bytes

\* Every variable stays in its type, and a connection exists exactly while
\* the state is TCP_CONNECTED.
TypeOK ==
  /\ pc \in {"start", "top", "accept", "read", "write", "stdin", "exited",
             "aborted"}
  /\ NetConnection \in {"TCP_NOT_CONNECTED", "TCP_CONNECTED", "CLOSED"}
  /\ TcpRead \in {"TCP_IDLE", "TCP_WAIT_ON_START", "TCP_WAIT_ON_LENGTH",
                  "TCP_WAIT_ON_ONLY_CHUNK"}
  /\ TcpRestLen \in Nat
  /\ ReadBuf \in Seq(Units) /\ WriteBuf \in Seq(Units)
  /\ sock \in Clients \cup {None}
  /\ udpOpen \in BOOLEAN /\ clean \in BOOLEAN
  /\ backlog \in Seq(Clients)
  /\ there \in [Clients -> {"new", "silent", "here", "gone"}]
  /\ req \in [Clients -> 0 .. Len(BodyLen)]
  /\ part \in [Clients -> Nat]
  /\ up \in [Clients -> Seq(Units)] /\ down \in [Clients -> Seq(Units)]
  /\ hid \in Seq(Seq(Units)) /\ hidReplies \in Seq(Seq(Units))
  /\ forwarded \in Seq(Seq(Units))
  /\ sock # None <=> NetConnection = "TCP_CONNECTED"

\* However TCP cuts the stream of a clean connection, the brick receives the
\* requests as the client sent them, none twice, none out of order and none
\* left out.  The exception is a length field of which one byte was read: the
\* brick receives that byte, and then nothing more of this client.
WholePackets ==
  /\ \A i \in 1 .. Len(forwarded) :
       \E c \in Clients, n \in 1 .. Len(BodyLen) :
         /\ n <= req[c]
         /\ \/ forwarded[i] = PacketOf(c, n)
            \/ /\ forwarded[i] = FirstByteOf(c, n)
               /\ \A j \in i + 1 .. Len(forwarded) : forwarded[j][1][1] # c
         /\ n > 1 => i > 1 /\ forwarded[i - 1] = PacketOf(c, n - 1)
  /\ IsInjective(forwarded)

\* Unit k of what a client of a clean connection is sent: the confirmation,
\* then the whole replies to its own requests, in order.
Due(c, k) ==
  IF k = 1 THEN Accept
           ELSE <<c, 1 + (k - 2) \div ReplyLen, 1 + ((k - 2) % ReplyLen)>>
Expected(c) == [k \in 1 .. 1 + ReplyLen * req[c] |-> Due(c, k)]

\* A client that connects while no reply is outstanding is sent nothing but
\* the confirmation and the replies to its own requests.
RepliesToAsker == sock # None /\ clean => IsPrefix(down[sock], Expected(sock))

\* The request a clean connection has sent in full is answered, unless the
\* connection ends or the brick is unplugged first.
RequestsAnswered ==
  \A c \in Clients : \A n \in 1 .. Len(BodyLen) :
    (sock = c /\ clean /\ req[c] = n /\ part[c] = 2 + BodyLen[n])
      ~> (sock # c \/ pc = "aborted" \/ Len(down[c]) = 1 + ReplyLen * n)

\* A client that waits for a connection gets one, unless the client before
\* it stays, the bridge ends or reads standard input, or the connections so
\* far have used up the descriptors: no other error path leaves the loop stuck.
ClientsServed ==
  \A c \in Clients :
    (backlog = <<c>>) ~>
      (backlog # <<c>> \/ pc \in {"exited", "aborted", "stdin"} \/
       (sock # None /\ there[sock] # "gone") \/ ~DescriptorLeft)
=============================================================================
