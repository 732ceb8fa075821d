---------------------------- MODULE BridgeProofs ----------------------------
(***************************************************************************)
(* Proofs about Bridge, for any set of clients, lengths of requests and    *)
(* replies, and every fragmentation of the streams: what the brick is sent *)
(* and what the clients are sent.                                          *)
(***************************************************************************)
EXTENDS Bridge, SequenceTheorems, TLAPS

-----------------------------------------------------------------------------
(***************************************************************************)
(* The inductive invariant.                                                *)
(***************************************************************************)

\* The places in the loop where there is, or is not, a connection.
PlaceInv ==
  /\ pc \in {"read", "write"} => sock # None
  /\ pc \in {"start", "accept"} => sock = None
  /\ sock # None => TcpRead # "TCP_IDLE"

\* A client that has not been accepted yet.
Waits(c) == backlog # << >> /\ backlog[1] = c
Fresh(c) == there[c] = "new" \/ Waits(c)

FreshInv ==
  /\ Len(backlog) <= 1
  /\ \A c \in Clients :
       /\ there[c] = "new" => ~Waits(c)
       /\ there[c] \in {"new", "silent"} => up[c] = << >>
       /\ Fresh(c) =>
            /\ sock # c
            /\ req[c] = 0 /\ part[c] = 0 /\ down[c] = << >>
            /\ up[c] \in {<< >>, <<Get>>}

\* The handshake is over once its text was read; what follows are the bytes
\* of requests, in all buffers on the way to the brick.
BytesInv ==
  /\ sock # None /\ TcpRead # "TCP_WAIT_ON_START" =>
       there[sock] # "silent" /\ up[sock] \in Seq(Bytes)
  /\ sock # None /\ TcpRead = "TCP_WAIT_ON_ONLY_CHUNK" =>
       ReadBuf \in Seq(Bytes) /\ ReadBuf # << >>
  /\ hid \in Seq(Seq(Bytes) \ {<< >>})

-----------------------------------------------------------------------------
(***************************************************************************)
(* The stages of a clean connection.                                       *)
(***************************************************************************)

\* Of c's requests the first n were handed to the brick, the n-th last, and
\* no piece of another.
Handed(c, n) ==
  /\ \A i \in 1 .. Len(forwarded), m \in 1 .. Len(BodyLen) :
       /\ forwarded[i] = PacketOf(c, m) => m <= n
       /\ forwarded[i] # FirstByteOf(c, m)
  /\ n > 0 => forwarded # << >> /\ forwarded[Len(forwarded)] = PacketOf(c, n)

\* c was sent the confirmation, n replies and q bytes of the next one.
Told(c, n, q) ==
  /\ Len(down[c]) = 1 + ReplyLen * n + q
  /\ \A k \in 1 .. Len(down[c]) : down[c][k] = Due(c, k)

Outstanding(h, r, w) == hid = h /\ hidReplies = r /\ WriteBuf = w

\* The handshake has not been read.
Awaiting(c) ==
  /\ TcpRead = "TCP_WAIT_ON_START"
  /\ req[c] = 0 /\ part[c] = 0 /\ down[c] = << >> /\ up[c] \in {<< >>, <<Get>>}
  /\ Outstanding(<< >>, << >>, << >>) /\ Handed(c, 0)

\* All requests were answered.
Done(c) ==
  /\ TcpRead = "TCP_WAIT_ON_LENGTH"
  /\ up[c] = << >>
  /\ req[c] > 0 => part[c] = 2 + BodyLen[req[c]]
  /\ Outstanding(<< >>, << >>, << >>)
  /\ Handed(c, req[c]) /\ Told(c, req[c], 0)

\* x bytes of request req[c] were read, those that arrived since were not.
Reading(c, x) ==
  /\ req[c] > 0
  /\ x <= part[c] /\ part[c] <= 2 + BodyLen[req[c]]
  /\ Len(up[c]) = part[c] - x
  /\ \A k \in 1 .. part[c] - x : up[c][k] = <<c, req[c], x + k>>
  /\ Outstanding(<< >>, << >>, << >>)
  /\ Handed(c, req[c] - 1) /\ Told(c, req[c] - 1, 0)

ReadingLength(c) == TcpRead = "TCP_WAIT_ON_LENGTH" /\ Reading(c, 0)

ReadingBody(c) ==
  /\ TcpRead = "TCP_WAIT_ON_ONLY_CHUNK"
  /\ Reading(c, Len(ReadBuf))
  /\ Len(ReadBuf) >= 2
  /\ TcpRestLen = 2 + BodyLen[req[c]] - Len(ReadBuf) /\ TcpRestLen > 0
  /\ \A k \in 1 .. Len(ReadBuf) : ReadBuf[k] = <<c, req[c], k>>

\* Request req[c] was handed to the brick, and q bytes of its reply to c.
Answering(c, q) ==
  /\ TcpRead = "TCP_WAIT_ON_LENGTH"
  /\ up[c] = << >>
  /\ req[c] > 0 /\ part[c] = 2 + BodyLen[req[c]]
  /\ Handed(c, req[c]) /\ Told(c, req[c] - 1, q)

Asked(c) ==
  Answering(c, 0) /\ Outstanding(<<PacketOf(c, req[c])>>, << >>, << >>)

Answered(c) ==
  Answering(c, 0) /\ Outstanding(<< >>, <<ReplyTo(c, req[c])>>, << >>)

Writing(c) ==
  \E q \in 0 .. ReplyLen - 1 :
    /\ Answering(c, q)
    /\ Outstanding(<< >>, << >>, SubSeq(ReplyTo(c, req[c]), q + 1, ReplyLen))

Stages(c) ==
  \/ Awaiting(c) \/ Done(c) \/ ReadingLength(c) \/ ReadingBody(c)
  \/ Asked(c) \/ Answered(c) \/ Writing(c)

StageInv == sock # None /\ clean => Stages(sock)

\* Nothing of a client that has not been accepted was handed to the brick.
NothingOfFresh == \A c \in Clients : Fresh(c) => Handed(c, 0)

IInv ==
  /\ TypeOK /\ PlaceInv /\ FreshInv /\ BytesInv
  /\ StageInv /\ NothingOfFresh /\ WholePackets

-----------------------------------------------------------------------------
(***************************************************************************)
(* Bytes, packets and replies.                                             *)
(***************************************************************************)

LEMMA ByteIs ==
  ASSUME NEW c \in Clients, NEW n \in 1 .. Len(BodyLen),
         NEW p \in 1 .. 2 + BodyLen[n] + ReplyLen
  PROVE  <<c, n, p>> \in Bytes /\ <<c, n, p>> \in Units
  <1>. DEFINE X == {<<c, n, r>> : r \in 1 .. 2 + BodyLen[n] + ReplyLen}
  <1>1. <<c, n, p>> \in X
    OBVIOUS
  <1>. DEFINE Z == {{<<d, m, r>> : r \in 1 .. 2 + BodyLen[m] + ReplyLen} :
                     d \in Clients, m \in 1 .. Len(BodyLen)}
  <1>2. X \in Z
    OBVIOUS
  <1>3. Bytes = UNION Z
    BY DEF Bytes
  <1>. HIDE DEF X, Z
  <1>4. <<c, n, p>> \in Bytes
    BY <1>1, <1>2, <1>3
  <1>. QED
    BY <1>4 DEF Units

LEMMA ByteParts ==
  ASSUME NEW b \in Bytes
  PROVE  b[1] \in Clients /\ b[2] \in 1 .. Len(BodyLen) /\ b \in Units /\ b # Get
  <1>1. PICK c \in Clients, n \in 1 .. Len(BodyLen) :
               b \in {<<c, n, r>> : r \in 1 .. 2 + BodyLen[n] + ReplyLen}
    BY DEF Bytes
  <1>2. PICK p \in 1 .. 2 + BodyLen[n] + ReplyLen : b = <<c, n, p>>
    BY <1>1
  <1>. QED
    BY <1>2 DEF Units, Get

LEMMA Bodies ==
  ASSUME NEW n \in 1 .. Len(BodyLen)
  PROVE  BodyLen[n] \in Nat /\ BodyLen[n] > 0
  BY BodiesAssumption, ElementOfSeq DEF BodiesAssumption

LEMMA Count ==
  Len(BodyLen) \in Nat /\ ReplyLen \in Nat /\ ReplyLen > 1
  BY BodiesAssumption, ReplyAssumption, LenProperties
     DEF BodiesAssumption, ReplyAssumption

LEMMA PacketIs ==
  ASSUME NEW c \in Clients, NEW n \in 1 .. Len(BodyLen)
  PROVE  /\ PacketOf(c, n) \in Seq(Bytes)
         /\ Len(PacketOf(c, n)) = 2 + BodyLen[n]
         /\ \A p \in 1 .. 2 + BodyLen[n] : PacketOf(c, n)[p] = <<c, n, p>>
         /\ PacketOf(c, n)[1] = <<c, n, 1>>
         /\ PacketOf(c, n) # << >>
  <1>1. BodyLen[n] \in Nat /\ BodyLen[n] > 0 /\ ReplyLen \in Nat
    BY Bodies, Count
  <1>2. \A p \in 1 .. 2 + BodyLen[n] : <<c, n, p>> \in Bytes
    BY <1>1, ByteIs
  <1>. DEFINE m == 2 + BodyLen[n]
              e(p) == <<c, n, p>>
              f == [p \in 1 .. m |-> e(p)]
  <1>3. m \in Nat /\ 1 \in 1 .. m
    BY <1>1
  <1>4. \A p \in 1 .. m : e(p) \in Bytes
    BY <1>2
  <1>. HIDE DEF e, m
  <1>5. f \in Seq(Bytes)
    BY <1>3, <1>4, IsASeq
  <1>6. Len(f) = m
    BY <1>3, <1>5, LenProperties
  <1>7. \A p \in 1 .. m : f[p] = e(p)
    OBVIOUS
  <1>8. f = PacketOf(c, n)
    BY DEF PacketOf, e, m
  <1>9. f # << >>
    BY <1>3, <1>5, <1>6, EmptySeq
  <1>. HIDE DEF f
  <1>. QED
    BY <1>3, <1>5, <1>6, <1>7, <1>8, <1>9 DEF e, m

\* A packet tells whose it is and which.
LEMMA PacketsDiffer ==
  ASSUME NEW c \in Clients, NEW n \in 1 .. Len(BodyLen),
         NEW d \in Clients, NEW m \in 1 .. Len(BodyLen), PacketOf(c, n) = PacketOf(d, m)
  PROVE  c = d /\ n = m
  <1>1. <<c, n, 1>> = <<d, m, 1>>
    BY PacketIs
  <1>. QED
    BY <1>1

\* So does the first byte of its length, which is shorter than any packet.
LEMMA FirstByteIs ==
  ASSUME NEW c \in Clients, NEW n \in 1 .. Len(BodyLen)
  PROVE  /\ FirstByteOf(c, n) \in Seq(Bytes) /\ Len(FirstByteOf(c, n)) = 1
         /\ FirstByteOf(c, n)[1] = <<c, n, 1>>
         /\ \A d \in Clients, m \in 1 .. Len(BodyLen) :
              /\ FirstByteOf(c, n) # PacketOf(d, m)
              /\ FirstByteOf(c, n) = FirstByteOf(d, m) => c = d /\ n = m
  <1>1. BodyLen[n] \in Nat /\ ReplyLen \in Nat
    BY Bodies, Count
  <1>2. <<c, n, 1>> \in Bytes
    BY <1>1, ByteIs
  <1>3. FirstByteOf(c, n) \in Seq(Bytes) /\ Len(FirstByteOf(c, n)) = 1
        /\ FirstByteOf(c, n)[1] = <<c, n, 1>>
    BY <1>2 DEF FirstByteOf
  <1>4. ASSUME NEW d \in Clients, NEW m \in 1 .. Len(BodyLen)
        PROVE  FirstByteOf(c, n) # PacketOf(d, m)
    <2>1. Len(PacketOf(d, m)) = 2 + BodyLen[m]
      BY PacketIs
    <2>2. 2 + BodyLen[m] # 1
      BY Bodies
    <2>. HIDE DEF FirstByteOf
    <2>. QED
      BY <1>3, <2>1, <2>2
  <1>5. ASSUME NEW d \in Clients, NEW m \in 1 .. Len(BodyLen),
               FirstByteOf(c, n) = FirstByteOf(d, m)
        PROVE  c = d /\ n = m
    <2>1. <<c, n, 1>> = <<d, m, 1>>
      BY <1>3, <1>5 DEF FirstByteOf
    <2>. QED
      BY <2>1
  <1>. QED
    BY <1>3, <1>4, <1>5

LEMMA ReplyIs ==
  ASSUME NEW c \in Clients, NEW n \in 1 .. Len(BodyLen)
  PROVE  /\ ReplyTo(c, n) \in Seq(Units)
         /\ Len(ReplyTo(c, n)) = ReplyLen
         /\ \A p \in 1 .. ReplyLen : ReplyTo(c, n)[p] = <<c, n, p>>
  <1>1. BodyLen[n] \in Nat /\ ReplyLen \in Nat
    BY Bodies, Count
  <1>. DEFINE e(p) == <<c, n, p>>
              f == [p \in 1 .. ReplyLen |-> e(p)]
  <1>2. \A p \in 1 .. ReplyLen : e(p) \in Units
    BY <1>1, ByteIs
  <1>. HIDE DEF e
  <1>3. f \in Seq(Units)
    BY <1>1, <1>2, IsASeq
  <1>4. Len(f) = ReplyLen
    BY <1>1, <1>3, LenProperties
  <1>5. \A p \in 1 .. ReplyLen : f[p] = e(p)
    OBVIOUS
  <1>6. f = ReplyTo(c, n)
    BY DEF ReplyTo, e
  <1>. HIDE DEF f
  <1>. QED
    BY <1>3, <1>4, <1>5, <1>6 DEF e

\* Byte p of reply n + 1 is due after the confirmation and n whole replies.
LEMMA DueIs ==
  ASSUME NEW c, NEW n \in Nat, NEW p \in 1 .. ReplyLen
  PROVE  Due(c, 1 + ReplyLen * n + p) = <<c, n + 1, p>>
  <1>1. ReplyLen \in Nat /\ ReplyLen > 1
    BY Count
  <1>. DEFINE t == ReplyLen * n
              k == t + (p - 1)
  <1>2. t \in Nat /\ k \in Nat /\ p - 1 \in 0 .. ReplyLen - 1
    BY <1>1
  <1>3. k \div ReplyLen = n /\ k % ReplyLen = p - 1
    <2>1. /\ k \div ReplyLen \in Int /\ k % ReplyLen \in 0 .. ReplyLen - 1
          /\ k = ReplyLen * (k \div ReplyLen) + (k % ReplyLen)
      BY <1>1, <1>2
    <2>. DEFINE q == k \div ReplyLen
                r == k % ReplyLen
    <2>2. ReplyLen * n + (p - 1) = ReplyLen * q + r /\ q \in Int /\ r \in 0 .. ReplyLen - 1
      BY <2>1
    <2>. HIDE DEF q, r
    <2>3. ReplyLen * (q - n) = (p - 1) - r
      BY <1>1, <1>2, <2>2
    <2>4. (p - 1) - r > -ReplyLen /\ (p - 1) - r < ReplyLen
      BY <1>1, <1>2, <2>2
    <2>5. q = n
      <3>1. CASE q - n >= 1
        <4>1. ReplyLen * (q - n) = ReplyLen + ReplyLen * ((q - n) - 1)
              /\ ReplyLen * ((q - n) - 1) \in Nat
          <5>1. (q - n) - 1 \in Nat
            BY <2>2, <3>1
          <5>. QED
            BY <1>1, <2>2, <5>1
        <4>. QED
          BY <1>1, <2>3, <2>4, <4>1
      <3>2. CASE q - n <= -1
        <4>1. ReplyLen * (q - n) = -(ReplyLen + ReplyLen * ((n - q) - 1))
              /\ ReplyLen * ((n - q) - 1) \in Nat
          <5>1. (n - q) - 1 \in Nat
            BY <2>2, <3>2
          <5>. QED
            BY <1>1, <2>2, <5>1
        <4>. QED
          BY <1>1, <2>3, <2>4, <4>1
      <3>. QED
        BY <2>2, <3>1, <3>2
    <2>. QED
      BY <1>1, <1>2, <2>2, <2>5 DEF q, r
  <1>4. 1 + ReplyLen * n + p # 1 /\ (1 + ReplyLen * n + p) - 2 = k
    BY <1>1, <1>2
  <1>. HIDE DEF k
  <1>5. Due(c, 1 + ReplyLen * n + p) = <<c, 1 + n, 1 + (p - 1)>>
    BY <1>3, <1>4 DEF Due
  <1>. QED
    BY <1>2, <1>5

\* What a read takes of a stream, and what it leaves.
LEMMA FragmentIs ==
  ASSUME NEW S, NEW s \in Seq(S), NEW most \in Nat, NEW got,
         got = SubSeq(s, 1, IF Len(s) < most THEN Len(s) ELSE most)
  PROVE  /\ got \in Seq(S) /\ Len(got) \in Nat
         /\ Len(got) = (IF Len(s) < most THEN Len(s) ELSE most)
         /\ \A k \in 1 .. Len(got) : got[k] = s[k]
         /\ got = << >> <=> Len(got) = 0
  <1>. DEFINE n == IF Len(s) < most THEN Len(s) ELSE most
  <1>1. Len(s) \in Nat /\ n \in 0 .. Len(s)
    BY LenProperties
  <1>2. \A i \in 1 .. n : s[i] \in S
    BY <1>1, ElementOfSeq
  <1>. HIDE DEF n
  <1>3. /\ SubSeq(s, 1, n) \in Seq(S) /\ Len(SubSeq(s, 1, n)) = n
        /\ \A k \in 1 .. n : SubSeq(s, 1, n)[k] = s[k]
    BY <1>1, <1>2, SubSeqProperties
  <1>4. got = SubSeq(s, 1, n)
    BY DEF n
  <1>5. got = << >> <=> Len(got) = 0
    BY <1>3, <1>4, EmptySeq
  <1>. QED
    BY <1>1, <1>3, <1>4, <1>5 DEF n

LEMMA RestIs ==
  ASSUME NEW S, NEW s \in Seq(S), NEW n \in 0 .. Len(s)
  PROVE  /\ SubSeq(s, n + 1, Len(s)) \in Seq(S)
         /\ Len(SubSeq(s, n + 1, Len(s))) = Len(s) - n
         /\ \A k \in 1 .. Len(s) - n : SubSeq(s, n + 1, Len(s))[k] = s[n + k]
         /\ n = Len(s) => SubSeq(s, n + 1, Len(s)) = << >>
  <1>1. Len(s) \in Nat
    BY LenProperties
  <1>2. \A i \in n + 1 .. Len(s) : s[i] \in S
    BY <1>1, ElementOfSeq
  <1>3. n + 1 \in Int /\ Len(s) \in Int
    BY <1>1
  <1>. DEFINE r == SubSeq(s, n + 1, Len(s))
  <1>4. /\ r \in Seq(S) /\ Len(r) = (IF n + 1 <= Len(s) THEN Len(s) - (n + 1) + 1 ELSE 0)
        /\ \A k \in 1 .. Len(s) - (n + 1) + 1 : r[k] = s[(n + 1) + k - 1]
    BY <1>2, <1>3, SubSeqProperties
  <1>5. n = Len(s) => r = << >>
    BY <1>1, SubSeqEmpty
  <1>. HIDE DEF r
  <1>6. Len(r) = Len(s) - n
    BY <1>1, <1>4
  <1>7. \A k \in 1 .. Len(s) - n : r[k] = s[n + k]
    <2>. TAKE k \in 1 .. Len(s) - n
    <2>1. k \in 1 .. Len(s) - (n + 1) + 1 /\ (n + 1) + k - 1 = n + k
      BY <1>1
    <2>. QED
      BY <1>4, <2>1
  <1>. QED
    BY <1>4, <1>5, <1>6, <1>7 DEF r

-----------------------------------------------------------------------------
(***************************************************************************)
(* What a read from the client can do.                                     *)
(***************************************************************************)

\* The first k bytes that were there have been read.
Taken(k) ==
  /\ k \in 0 .. Len(up[sock])
  /\ up' = [up EXCEPT ![sock] = SubSeq(up[sock], k + 1, Len(up[sock]))]

Kept == UNCHANGED <<WriteBuf, udpOpen, backlog, there, req, part, clean>>
Stays == pc' = "write" /\ UNCHANGED <<NetConnection, sock, hidReplies>>

NothingRead ==
  Stays /\ UNCHANGED <<TcpRead, TcpRestLen, ReadBuf, up, down, hid, forwarded>>

\* The stream has ended, or the brick did not take the packet.
Closed ==
  /\ cNetTcpClose /\ pc' \in {"top", "stdin"}
  /\ \E k \in 0 .. Len(up[sock]) : Taken(k)
  /\ TcpRead' \in {TcpRead, "TCP_WAIT_ON_LENGTH"} /\ ReadBuf' \in Seq(Units)
  /\ UNCHANGED <<TcpRestLen, down, hid, hidReplies, forwarded>>

\* One byte of a length was there, and went to the brick.
HalfRead ==
  /\ cNetTcpClose /\ pc' = "top"
  /\ TcpRead = "TCP_WAIT_ON_LENGTH"
  /\ up[sock] \in Seq(Bytes) /\ Len(up[sock]) = 1 /\ Taken(1)
  /\ hid' = Append(hid, up[sock])
  /\ forwarded' = IF clean THEN Append(forwarded, up[sock]) ELSE forwarded
  /\ UNCHANGED <<TcpRead, TcpRestLen, ReadBuf, down, hidReplies>>

StartRead ==
  /\ Stays /\ TcpRead = "TCP_WAIT_ON_START"
  /\ up[sock] # << >> /\ Taken(Len(up[sock]))
  /\ IF Contains(up[sock], Get)
       THEN /\ TcpRead' = "TCP_WAIT_ON_LENGTH"
            /\ down' = [down EXCEPT ![sock] = down[sock] \o <<Accept>>]
       ELSE UNCHANGED <<TcpRead, down>>
  /\ UNCHANGED <<TcpRestLen, ReadBuf, hid, forwarded>>

LengthRead ==
  /\ Stays /\ TcpRead = "TCP_WAIT_ON_LENGTH"
  /\ Len(up[sock]) >= 2 /\ Taken(2)
  /\ ReadBuf' \in Seq(Bytes) /\ Len(ReadBuf') = 2
  /\ ReadBuf'[1] = up[sock][1] /\ ReadBuf'[2] = up[sock][2]
  /\ TcpRestLen' \in RestLen(ReadBuf') /\ TcpRestLen' \in Nat
  /\ TcpRead' = "TCP_WAIT_ON_ONLY_CHUNK"
  /\ UNCHANGED <<down, hid, forwarded>>

\* k more bytes of a packet.
BytesRead(k) ==
  /\ TcpRead = "TCP_WAIT_ON_ONLY_CHUNK"
  /\ k > 0 /\ k <= TcpRestLen /\ Taken(k)
  /\ ReadBuf' \in Seq(Bytes) /\ Len(ReadBuf') = Len(ReadBuf) + k
  /\ \A i \in 1 .. Len(ReadBuf) : ReadBuf'[i] = ReadBuf[i]
  /\ \A i \in 1 .. k : ReadBuf'[Len(ReadBuf) + i] = up[sock][i]
  /\ UNCHANGED down

PartRead ==
  /\ Stays
  /\ \E k \in 1 .. Len(up[sock]) :
       BytesRead(k) /\ k < TcpRestLen /\ TcpRestLen' = TcpRestLen - k
  /\ UNCHANGED <<TcpRead, hid, forwarded>>

PacketRead ==
  /\ Stays
  /\ BytesRead(TcpRestLen)
  /\ TcpRead' = "TCP_WAIT_ON_LENGTH"
  /\ hid' = Append(hid, ReadBuf')
  /\ forwarded' = IF clean THEN Append(forwarded, ReadBuf') ELSE forwarded
  /\ UNCHANGED TcpRestLen

LEMMA TakenIs ==
  ASSUME TypeOK, sock \in Clients, NEW k \in 0 .. Len(up[sock]), Taken(k)
  PROVE  /\ up' \in [Clients -> Seq(Units)]
         /\ Len(up'[sock]) = Len(up[sock]) - k
         /\ \A i \in 1 .. Len(up[sock]) - k : up'[sock][i] = up[sock][k + i]
         /\ \A c \in Clients : c # sock => up'[c] = up[c]
         /\ k = Len(up[sock]) => up'[sock] = << >>
         /\ \A S : up[sock] \in Seq(S) => up'[sock] \in Seq(S)
  <1>1. up \in [Clients -> Seq(Units)] /\ up[sock] \in Seq(Units)
    BY DEF TypeOK
  <1>. DEFINE s == up[sock]
              r == SubSeq(s, k + 1, Len(s))
  <1>2. up' = [up EXCEPT ![sock] = r]
    BY DEF Taken
  <1>3. \A S : s \in Seq(S) =>
          /\ r \in Seq(S) /\ Len(r) = Len(s) - k
          /\ \A i \in 1 .. Len(s) - k : r[i] = s[k + i]
          /\ k = Len(s) => r = << >>
    BY RestIs
  <1>4. up'[sock] = r /\ \A c \in Clients : c # sock => up'[c] = up[c]
    BY <1>1, <1>2
  <1>. HIDE DEF r
  <1>5. up' \in [Clients -> Seq(Units)]
    BY <1>1, <1>2, <1>3
  <1>. QED
    BY <1>1, <1>3, <1>4, <1>5

LEMMA StartCases ==
  ASSUME TypeOK, sock \in Clients, ReadStart
  PROVE  Closed \/ StartRead
  <1>. DEFINE s == up[sock]
  <1>1. s \in Seq(Units) /\ Len(s) \in Nat /\ ReadBuf \in Seq(Units)
    BY LenProperties DEF TypeOK
  <1>2. TcpRead = "TCP_WAIT_ON_START" /\ Taken(Len(s)) /\ Len(s) \in 0 .. Len(s)
    BY <1>1 DEF ReadStart, Consume, Taken
  <1>3. CASE s = << >> /\ EndOfStream
    BY <1>1, <1>2, <1>3 DEF EndOfStream, Closed, usb
  <1>4. CASE ~(s = << >> /\ EndOfStream)
    BY <1>2, <1>4 DEF ReadStart, StartRead, Stays, cNetWriteTcp, usb
  <1>. QED
    BY <1>3, <1>4

LEMMA LengthCases ==
  ASSUME TypeOK, BytesInv, sock \in Clients, ReadLength
  PROVE  Closed \/ HalfRead \/ LengthRead
  <1>. DEFINE s == up[sock]
              got == Fragment(2)
  <1>0. TcpRead = "TCP_WAIT_ON_LENGTH"
    BY DEF ReadLength
  <1>1. s \in Seq(Bytes) /\ Len(s) \in Nat /\ ReadBuf \in Seq(Units)
    <2>1. sock # None
      BY ClientsAssumption DEF ClientsAssumption, None
    <2>2. s \in Seq(Bytes)
      BY <1>0, <2>1 DEF BytesInv
    <2>. QED
      BY <2>2, LenProperties DEF TypeOK
  <1>2. /\ got \in Seq(Bytes) /\ Len(got) \in Nat
        /\ Len(got) = (IF Len(s) < 2 THEN Len(s) ELSE 2)
        /\ \A k \in 1 .. Len(got) : got[k] = s[k]
    BY <1>1, FragmentIs DEF Fragment
  <1>3. up' = [up EXCEPT ![sock] = SubSeq(s, Len(got) + 1, Len(s))]
    BY DEF ReadLength, Consume
  <1>4. \/ EndOfStream
        \/ Len(got) = 1 /\ HalfLength(got)
        \/ /\ Len(got) = 2 /\ TcpRestLen' \in RestLen(got) /\ ReadBuf' = got
           /\ TcpRead' = "TCP_WAIT_ON_ONLY_CHUNK" /\ pc' = "write"
           /\ UNCHANGED <<NetConnection, sock, down, usb>>
    BY DEF ReadLength
  <1>. HIDE DEF got
  <1>5. Len(got) \in 0 .. Len(s)
    BY <1>1, <1>2
  <1>6. Taken(Len(got))
    BY <1>3, <1>5 DEF Taken
  <1>7. CASE EndOfStream
    BY <1>1, <1>5, <1>6, <1>7 DEF EndOfStream, Closed, usb
  <1>9. CASE Len(got) = 1 /\ HalfLength(got)
    <2>1. CASE pc' = "stdin" /\ UNCHANGED <<hid, forwarded>>
      BY <1>1, <1>5, <1>6, <1>9, <2>1 DEF HalfLength, Closed
    <2>2. CASE ~(pc' = "stdin" /\ UNCHANGED <<hid, forwarded>>)
      <3>1. Len(s) = 1
        BY <1>1, <1>2, <1>9
      <3>2. got = s
        <4>1. \A k \in 1 .. 1 : got[k] = s[k]
          BY <1>2, <1>9
        <4>. QED
          BY <1>1, <1>2, <1>9, <3>1, <4>1, SeqEqual
      <3>. QED
        BY <1>0, <1>1, <1>6, <1>9, <2>2, <3>1, <3>2 DEF HalfLength, HalfRead
    <2>. QED
      BY <2>1, <2>2
  <1>8. CASE ~EndOfStream /\ ~(Len(got) = 1 /\ HalfLength(got))
    <2>0. Len(got) = 2
      BY <1>4, <1>8
    <2>1. Len(got) = 2 /\ Len(s) >= 2
      <3>1. Len(s) \in Nat /\ Len(got) <= Len(s)
        BY <1>1, <1>5
      <3>. QED
        BY <2>0, <3>1
    <2>2. got[1] = s[1] /\ got[2] = s[2] /\ got[1] \in Bytes
      <3>1. 1 \in 1 .. Len(got) /\ 2 \in 1 .. Len(got)
        BY <2>0
      <3>. QED
        BY <1>2, <3>1, ElementOfSeq
    <2>3. RestLen(got) \subseteq Nat
      <3>1. got[1][2] \in 1 .. Len(BodyLen)
        BY <2>2, ByteParts
      <3>2. BodyLen[got[1][2]] \in Nat
        BY <3>1, Bodies
      <3>. QED
        BY <3>2, ReplyAssumption DEF RestLen, ReplyAssumption
    <2>. QED
      BY <1>0, <1>2, <1>4, <1>6, <1>8, <2>1, <2>2, <2>3 DEF LengthRead, Stays, usb
  <1>. QED
    BY <1>7, <1>8, <1>9

LEMMA ChunkCases ==
  ASSUME TypeOK, BytesInv, sock \in Clients, ReadChunk
  PROVE  Closed \/ PartRead \/ PacketRead
  <1>. DEFINE s == up[sock]
              got == Fragment(TcpRestLen)
              buf == ReadBuf \o got
  <1>0. TcpRead = "TCP_WAIT_ON_ONLY_CHUNK" /\ TcpRestLen \in Nat
    BY DEF ReadChunk, TypeOK
  <1>1. s \in Seq(Bytes) /\ Len(s) \in Nat /\ ReadBuf \in Seq(Bytes)
    <2>1. sock # None
      BY ClientsAssumption DEF ClientsAssumption, None
    <2>2. s \in Seq(Bytes) /\ ReadBuf \in Seq(Bytes)
      BY <1>0, <2>1 DEF BytesInv
    <2>. QED
      BY <2>2, LenProperties
  <1>2. /\ got \in Seq(Bytes) /\ Len(got) \in Nat
        /\ Len(got) = (IF Len(s) < TcpRestLen THEN Len(s) ELSE TcpRestLen)
        /\ \A k \in 1 .. Len(got) : got[k] = s[k]
        /\ got = << >> <=> Len(got) = 0
    BY <1>0, <1>1, FragmentIs DEF Fragment
  <1>3. up' = [up EXCEPT ![sock] = SubSeq(s, Len(got) + 1, Len(s))]
    BY DEF ReadChunk, Consume
  <1>4. \/ EndOfStream
        \/ /\ got # << >> /\ ReadBuf' = buf /\ UNCHANGED down
           /\ \/ /\ Len(got) = TcpRestLen /\ TcpRead' = "TCP_WAIT_ON_LENGTH"
                 /\ Forward(ReadBuf') /\ UNCHANGED TcpRestLen
              \/ /\ Len(got) # TcpRestLen
                 /\ TcpRestLen' = TcpRestLen - Len(got) /\ pc' = "write"
                 /\ UNCHANGED <<TcpRead, NetConnection, sock, usb>>
    BY DEF ReadChunk
  <1>. HIDE DEF got
  <1>5. Len(got) \in 0 .. Len(s) /\ Len(got) <= TcpRestLen
    BY <1>0, <1>1, <1>2
  <1>6. Taken(Len(got))
    BY <1>3, <1>5 DEF Taken
  <1>7. buf \in Seq(Bytes) /\ buf \in Seq(Units) /\ Len(buf) = Len(ReadBuf) + Len(got)
        /\ (\A i \in 1 .. Len(ReadBuf) : buf[i] = ReadBuf[i])
        /\ (\A i \in 1 .. Len(got) : buf[Len(ReadBuf) + i] = s[i])
    <2>1. Len(ReadBuf) \in Nat
      BY <1>1, LenProperties
    <2>2. /\ buf \in Seq(Bytes) /\ Len(buf) = Len(ReadBuf) + Len(got)
          /\ \A i \in 1 .. Len(ReadBuf) + Len(got) :
               buf[i] = IF i <= Len(ReadBuf) THEN ReadBuf[i] ELSE got[i - Len(ReadBuf)]
      BY <1>1, <1>2, ConcatProperties
    <2>3. buf \in Seq(Units)
      BY <2>2, SeqMonotonic DEF Units
    <2>. HIDE DEF buf
    <2>4. ASSUME NEW i \in 1 .. Len(ReadBuf) PROVE buf[i] = ReadBuf[i]
      BY <1>2, <2>1, <2>2
    <2>5. ASSUME NEW i \in 1 .. Len(got) PROVE buf[Len(ReadBuf) + i] = s[i]
      <3>1. Len(ReadBuf) + i \in 1 .. Len(ReadBuf) + Len(got)
            /\ ~(Len(ReadBuf) + i <= Len(ReadBuf)) /\ (Len(ReadBuf) + i) - Len(ReadBuf) = i
        BY <1>2, <2>1
      <3>. QED
        BY <1>2, <2>2, <3>1
    <2>. QED
      BY <2>2, <2>3, <2>4, <2>5
  <1>. HIDE DEF buf
  <1>8. CASE EndOfStream
    <2>1. ReadBuf \in Seq(Units)
      BY DEF TypeOK
    <2>. QED
      BY <1>5, <1>6, <1>8, <2>1 DEF EndOfStream, Closed, usb
  <1>9. CASE ~EndOfStream
    <2>1. BytesRead(Len(got))
      BY <1>0, <1>2, <1>4, <1>5, <1>6, <1>7, <1>9 DEF BytesRead
    <2>2. CASE Len(got) # TcpRestLen
      <3>1. Len(got) \in 1 .. Len(s) /\ Len(got) < TcpRestLen
        BY <1>0, <1>2, <1>4, <1>5, <1>9, <2>2
      <3>. QED
        BY <1>4, <1>9, <2>1, <2>2, <3>1 DEF PartRead, Stays, usb
    <2>3. CASE Len(got) = TcpRestLen
      <3>1. /\ TcpRead' = "TCP_WAIT_ON_LENGTH" /\ Forward(ReadBuf')
            /\ UNCHANGED <<TcpRestLen, down>> /\ ReadBuf' = buf
        BY <1>4, <1>9, <2>3
      <3>2. \/ /\ hid' = Append(hid, ReadBuf')
               /\ forwarded' = IF clean THEN Append(forwarded, ReadBuf') ELSE forwarded
               /\ pc' = "write" /\ UNCHANGED <<NetConnection, sock, hidReplies>>
            \/ cNetTcpClose /\ pc' = "top" /\ UNCHANGED <<hid, hidReplies, forwarded>>
        BY <3>1 DEF Forward, usb
      <3>3. CASE cNetTcpClose /\ pc' = "top" /\ UNCHANGED <<hid, hidReplies, forwarded>>
        BY <1>5, <1>6, <1>7, <3>1, <3>3 DEF Closed
      <3>. QED
        BY <2>1, <2>3, <3>1, <3>2, <3>3 DEF PacketRead, Stays
    <2>. QED
      BY <2>2, <2>3
  <1>. QED
    BY <1>8, <1>9

LEMMA ReadCases ==
  ASSUME TypeOK, PlaceInv, BytesInv, Read
  PROVE  /\ sock \in Clients /\ pc = "read" /\ Kept
         /\ \/ NothingRead \/ Closed \/ HalfRead \/ StartRead \/ LengthRead
            \/ PartRead \/ PacketRead
  <1>1. sock \in Clients /\ pc = "read" /\ Kept
    BY DEF Read, PlaceInv, TypeOK, Kept, net
  <1>2. ReadStart \/ ReadLength \/ ReadChunk \/ NothingRead
    BY DEF Read, NothingRead, Stays, usb
  <1>. QED
    BY <1>1, <1>2, StartCases, LengthCases, ChunkCases

-----------------------------------------------------------------------------
(***************************************************************************)
(* Types, the places in the loop and the bytes on their way are kept.      *)
(***************************************************************************)

LEMMA NoneIsNoClient == None \notin Clients
  BY ClientsAssumption DEF ClientsAssumption, None

\* What each step of the bridge keeps of the types.
LEMMA ReadType ==
  ASSUME TypeOK, PlaceInv, BytesInv, Read
  PROVE  TypeOK'
  <1>1. /\ sock \in Clients /\ pc = "read" /\ Kept
        /\ NothingRead \/ Closed \/ HalfRead \/ StartRead \/ LengthRead \/ PartRead \/ PacketRead
    BY ReadCases
  <1>2. sock # None /\ NetConnection = "TCP_CONNECTED"
    BY <1>1, NoneIsNoClient DEF TypeOK
  <1>3. Bytes \subseteq Units /\ \A s \in Seq(Bytes) : s \in Seq(Units)
    BY SeqMonotonic DEF Units
  <1>4. CASE NothingRead
    BY <1>1, <1>4 DEF NothingRead, Stays, Kept, TypeOK
  <1>5. CASE Closed
    <2>1. up' \in [Clients -> Seq(Units)]
      BY <1>1, <1>5, TakenIs DEF Closed
    <2>. QED
      BY <1>1, <1>5, <2>1 DEF Closed, cNetTcpClose, Kept, TypeOK
  <1>10. CASE HalfRead
    <2>1. up' \in [Clients -> Seq(Units)]
      BY <1>1, <1>10, TakenIs DEF HalfRead, Taken
    <2>2. hid' \in Seq(Seq(Units)) /\ forwarded' \in Seq(Seq(Units))
      BY <1>3, <1>10 DEF HalfRead, TypeOK
    <2>. QED
      BY <1>1, <1>10, <2>1, <2>2 DEF HalfRead, cNetTcpClose, Kept, TypeOK
  <1>6. CASE StartRead
    <2>1. up' \in [Clients -> Seq(Units)]
      BY <1>1, <1>6, TakenIs DEF StartRead, Taken
    <2>2. down' \in [Clients -> Seq(Units)]
      <3>1. <<Accept>> \in Seq(Units) /\ down[sock] \in Seq(Units)
        BY <1>1 DEF Units, TypeOK
      <3>2. down[sock] \o <<Accept>> \in Seq(Units)
        BY <3>1, ConcatProperties
      <3>. QED
        BY <1>1, <1>6, <3>2 DEF StartRead, TypeOK
    <2>3. TcpRead' \in {"TCP_WAIT_ON_START", "TCP_WAIT_ON_LENGTH"}
      BY <1>6 DEF StartRead
    <2>. QED
      BY <1>1, <1>2, <1>6, <2>1, <2>2, <2>3 DEF StartRead, Stays, Kept, TypeOK
  <1>7. CASE LengthRead
    <2>1. up' \in [Clients -> Seq(Units)]
      BY <1>1, <1>7, TakenIs DEF LengthRead, Taken
    <2>. QED
      BY <1>1, <1>2, <1>3, <1>7, <2>1 DEF LengthRead, Stays, Kept, TypeOK
  <1>8. CASE PartRead
    <2>1. PICK k \in 1 .. Len(up[sock]) :
                 BytesRead(k) /\ k < TcpRestLen /\ TcpRestLen' = TcpRestLen - k
      BY <1>8 DEF PartRead
    <2>2. up' \in [Clients -> Seq(Units)]
      BY <1>1, <2>1, TakenIs DEF BytesRead, Taken
    <2>3. TcpRestLen' \in Nat
      BY <2>1 DEF TypeOK
    <2>. QED
      BY <1>1, <1>2, <1>3, <1>8, <2>1, <2>2, <2>3 DEF PartRead, BytesRead, Stays, Kept, TypeOK
  <1>9. CASE PacketRead
    <2>1. up' \in [Clients -> Seq(Units)]
      BY <1>1, <1>9, TakenIs DEF PacketRead, BytesRead, Taken
    <2>2. ReadBuf' \in Seq(Units)
      BY <1>3, <1>9 DEF PacketRead, BytesRead
    <2>3. hid' \in Seq(Seq(Units)) /\ forwarded' \in Seq(Seq(Units))
      BY <1>9, <2>2 DEF PacketRead, TypeOK
    <2>. QED
      BY <1>1, <1>2, <1>9, <2>1, <2>2, <2>3 DEF PacketRead, BytesRead, Stays, Kept, TypeOK
  <1>. QED
    BY <1>1, <1>4, <1>5, <1>6, <1>7, <1>8, <1>9, <1>10

\* A write takes w bytes of the reply, of which there may be none.
LEMMA WriteIs ==
  ASSUME TypeOK, PlaceInv, Write
  PROVE  \E w \in 0 .. Len(WriteBuf) :
           /\ WriteBuf # << >> => w > 0
           /\ sock \in Clients /\ Len(WriteBuf) \in Nat
           /\ down' = [down EXCEPT ![sock] = down[sock] \o SubSeq(WriteBuf, 1, w)]
           /\ WriteBuf' = SubSeq(WriteBuf, w + 1, Len(WriteBuf))
           /\ SubSeq(WriteBuf, 1, w) \in Seq(Units) /\ Len(SubSeq(WriteBuf, 1, w)) = w
           /\ \A i \in 1 .. w : SubSeq(WriteBuf, 1, w)[i] = WriteBuf[i]
           /\ WriteBuf' \in Seq(Units) /\ Len(WriteBuf') = Len(WriteBuf) - w
           /\ \A i \in 1 .. Len(WriteBuf) - w : WriteBuf'[i] = WriteBuf[w + i]
  <1>1. WriteBuf \in Seq(Units) /\ Len(WriteBuf) \in Nat /\ sock \in Clients
    BY LenProperties DEF Write, PlaceInv, TypeOK
  <1>2. PICK w \in 0 .. Len(WriteBuf) :
          /\ WriteBuf # << >> => w > 0
          /\ down' = [down EXCEPT ![sock] = down[sock] \o SubSeq(WriteBuf, 1, w)]
          /\ WriteBuf' = SubSeq(WriteBuf, w + 1, Len(WriteBuf))
    BY DEF Write, cNetWriteTcp
  <1>3. \A i \in 1 .. w : WriteBuf[i] \in Units
    BY <1>1, ElementOfSeq
  <1>4. /\ SubSeq(WriteBuf, 1, w) \in Seq(Units) /\ Len(SubSeq(WriteBuf, 1, w)) = w
        /\ \A i \in 1 .. w : SubSeq(WriteBuf, 1, w)[i] = WriteBuf[i]
    BY <1>1, <1>3, SubSeqProperties
  <1>5. /\ WriteBuf' \in Seq(Units) /\ Len(WriteBuf') = Len(WriteBuf) - w
        /\ \A i \in 1 .. Len(WriteBuf) - w : WriteBuf'[i] = WriteBuf[w + i]
    BY <1>1, <1>2, RestIs
  <1>. QED
    BY <1>1, <1>2, <1>4, <1>5

\* The brick answers the client and the request its packet begins with.
LEMMA BrickIs ==
  ASSUME BytesInv, Brick
  PROVE  /\ Head(hid)[1][1] \in Clients /\ Head(hid)[1][2] \in 1 .. Len(BodyLen)
         /\ Tail(hid) \in Seq(Seq(Bytes) \ {<< >>})
  <1>1. hid \in Seq(Seq(Bytes) \ {<< >>}) /\ hid # << >>
    BY DEF BytesInv, Brick
  <1>2. Head(hid) \in Seq(Bytes) \ {<< >>} /\ Tail(hid) \in Seq(Seq(Bytes) \ {<< >>})
    BY <1>1, HeadTailProperties
  <1>3. Head(hid)[1] \in Bytes
    <2>1. Len(Head(hid)) \in Nat \ {0}
      BY <1>2, EmptySeq
    <2>2. 1 \in 1 .. Len(Head(hid))
      BY <2>1
    <2>. QED
      BY <1>2, <2>2, ElementOfSeq
  <1>. QED
    BY <1>2, <1>3, ByteParts

LEMMA TypeStep ==
  ASSUME TypeOK, PlaceInv, BytesInv, [Next]_vars
  PROVE  TypeOK'
  <1>1. CASE UNCHANGED vars
    BY <1>1 DEF vars, TypeOK
  <1>2. CASE BridgeStart
    BY <1>2, ErrorsAssumption
       DEF BridgeStart, cNetInitUdp, cNetInitTcpServer, net, usb, TypeOK, PlaceInv, ErrorsAssumption
  <1>3. CASE Beacon
    BY <1>3 DEF Beacon, BeaconSent, BeaconFails, net, usb, TypeOK
  <1>4. CASE WaitForTcpConnection
    <2>1. CASE ~(backlog # << >> /\ DescriptorLeft)
      BY <1>4, <2>1 DEF WaitForTcpConnection, usb, TypeOK
    <2>2. CASE backlog # << >> /\ DescriptorLeft
      <3>1. Head(backlog) \in Clients /\ Tail(backlog) \in Seq(Clients)
        BY <2>2, HeadTailProperties DEF TypeOK
      <3>. QED
        BY <1>4, <2>2, <3>1, NoneIsNoClient DEF WaitForTcpConnection, usb, TypeOK
    <2>. QED
      BY <2>1, <2>2
  <1>5. CASE Poll
    <2>1. hidReplies # << >> =>
            Head(hidReplies) \in Seq(Units) /\ Tail(hidReplies) \in Seq(Seq(Units))
      BY HeadTailProperties DEF TypeOK
    <2>. QED
      BY <1>5, <2>1 DEF Poll, net, TypeOK
  <1>6. CASE PollFails
    BY <1>6 DEF PollFails, net, usb, TypeOK
  <1>7. CASE Read
    BY <1>7, ReadType
  <1>8. CASE Write
    <2>1. PICK w \in 0 .. Len(WriteBuf) :
            /\ sock \in Clients
            /\ down' = [down EXCEPT ![sock] = down[sock] \o SubSeq(WriteBuf, 1, w)]
            /\ SubSeq(WriteBuf, 1, w) \in Seq(Units) /\ WriteBuf' \in Seq(Units)
      BY <1>8, WriteIs
    <2>2. down[sock] \o SubSeq(WriteBuf, 1, w) \in Seq(Units)
      BY <2>1, ConcatProperties DEF TypeOK
    <2>3. down' \in [Clients -> Seq(Units)]
      BY <2>1, <2>2 DEF TypeOK
    <2>. QED
      BY <1>8, <2>1, <2>3 DEF Write, net, usb, TypeOK
  <1>9. CASE Stop
    BY <1>9 DEF Stop, net, usb, TypeOK
  <1>10. CASE Brick
    <2>1. ReplyTo(Head(hid)[1][1], Head(hid)[1][2]) \in Seq(Units)
      BY <1>10, BrickIs, ReplyIs
    <2>2. hidReplies' \in Seq(Seq(Units))
      <3>. DEFINE r == ReplyTo(Head(hid)[1][1], Head(hid)[1][2])
      <3>1. hidReplies' = Append(hidReplies, r) \/ hidReplies' = hidReplies
        BY <1>10 DEF Brick
      <3>2. hidReplies \in Seq(Seq(Units)) /\ r \in Seq(Units)
        BY <2>1 DEF TypeOK
      <3>. HIDE DEF r
      <3>3. Append(hidReplies, r) \in Seq(Seq(Units))
        BY <3>2, AppendProperties
      <3>. QED
        BY <3>1, <3>2, <3>3
    <2>3. hid' \in Seq(Seq(Units))
      BY <1>10, HeadTailProperties DEF Brick, TypeOK
    <2>. QED
      BY <1>10, <2>2, <2>3 DEF Brick, net, TypeOK
  <1>16. CASE StdinEnds
    BY <1>16 DEF StdinEnds, net, usb, TypeOK
  <1>11. ASSUME NEW c \in Clients, Connect(c) PROVE TypeOK'
    BY <1>11 DEF Connect, usb, TypeOK
  <1>12. ASSUME NEW c \in Clients, Greet(c) PROVE TypeOK'
    <2>1. <<Get>> \in Seq(Units)
      BY DEF Units
    <2>. QED
      BY <1>12, <2>1 DEF Greet, usb, TypeOK
  <1>13. ASSUME NEW c \in Clients, Ask(c) PROVE TypeOK'
    <2>1. req[c] + 1 \in 0 .. Len(BodyLen)
      <3>1. req[c] \in 0 .. Len(BodyLen) /\ req[c] < Len(BodyLen)
        BY <1>13 DEF Ask, TypeOK
      <3>. QED
        BY <3>1, Count
    <2>. QED
      BY <1>13, <2>1 DEF Ask, usb, TypeOK
  <1>14. ASSUME NEW c \in Clients, Arrive(c) PROVE TypeOK'
    <2>0. req[c] \in 0 .. Len(BodyLen) /\ part[c] \in Nat /\ up[c] \in Seq(Units) /\ req[c] > 0
      BY <1>14 DEF Arrive, TypeOK
    <2>1. req[c] \in 1 .. Len(BodyLen) /\ part[c] \in Nat /\ up[c] \in Seq(Units)
      BY <2>0, Count
    <2>2. BodyLen[req[c]] \in Nat /\ ReplyLen \in Nat
      BY <2>1, Bodies, Count
    <2>3. part[c] + 1 \in 1 .. 2 + BodyLen[req[c]] + ReplyLen
      <3>1. part[c] < 2 + BodyLen[req[c]]
        BY <1>14 DEF Arrive
      <3>. QED
        BY <2>1, <2>2, <3>1
    <2>4. <<c, req[c], part[c] + 1>> \in Units
      BY <2>1, <2>3, ByteIs
    <2>5. part' = [part EXCEPT ![c] = part[c] + 1] /\ part'[c] = part[c] + 1
      BY <1>14 DEF Arrive, TypeOK
    <2>6. up' = [up EXCEPT ![c] = Append(up[c], <<c, req[c], part[c] + 1>>)]
      BY <1>14, <2>5 DEF Arrive
    <2>7. up' \in [Clients -> Seq(Units)]
      BY <2>1, <2>4, <2>6 DEF TypeOK
    <2>8. part' \in [Clients -> Nat]
      <3>1. part \in [Clients -> Nat]
        BY DEF TypeOK
      <3>2. part[c] + 1 \in Nat
        BY <2>1
      <3>. QED
        BY <2>5, <3>1, <3>2
    <2>. QED
      BY <1>14, <2>7, <2>8 DEF Arrive, usb, TypeOK
  <1>15. ASSUME NEW c \in Clients, Leave(c) PROVE TypeOK'
    BY <1>15 DEF Leave, usb, TypeOK
  <1>. QED
    BY <1>1, <1>2, <1>3, <1>4, <1>5, <1>6, <1>7, <1>8, <1>9, <1>10, <1>11, <1>12,
       <1>13, <1>14, <1>15, <1>16 DEF Next, bridge_mode

LEMMA PlaceStep ==
  ASSUME TypeOK, PlaceInv, BytesInv, [Next]_vars
  PROVE  PlaceInv'
  <1>1. CASE UNCHANGED vars
    BY <1>1 DEF vars, PlaceInv
  <1>2. CASE BridgeStart \/ Beacon
    BY <1>2 DEF BridgeStart, Beacon, PlaceInv, TypeOK
  <1>3. CASE WaitForTcpConnection
    BY <1>3 DEF WaitForTcpConnection, PlaceInv
  <1>4. CASE Poll \/ PollFails
    BY <1>4 DEF Poll, PollFails, PlaceInv, TypeOK
  <1>5. CASE Read
    <2>1. /\ sock \in Clients /\ pc = "read"
          /\ NothingRead \/ Closed \/ HalfRead \/ StartRead \/ LengthRead \/ PartRead \/ PacketRead
      BY <1>5, ReadCases
    <2>2. CASE Closed \/ HalfRead
      BY <2>2 DEF Closed, HalfRead, cNetTcpClose, PlaceInv
    <2>3. CASE ~Closed /\ ~HalfRead
      <3>1. Stays
        BY <2>1, <2>3 DEF NothingRead, StartRead, LengthRead, PartRead, PacketRead
      <3>2. TcpRead' # "TCP_IDLE"
        <4>1. TcpRead # "TCP_IDLE"
          BY <2>1, NoneIsNoClient DEF PlaceInv
        <4>. QED
          BY <2>1, <2>3, <4>1 DEF NothingRead, StartRead, LengthRead, PartRead, PacketRead
      <3>. QED
        BY <2>1, <3>1, <3>2, NoneIsNoClient DEF Stays, PlaceInv
    <2>. QED
      BY <2>2, <2>3
  <1>6. CASE Write \/ Stop \/ Brick \/ StdinEnds
    BY <1>6 DEF Write, Stop, Brick, StdinEnds, PlaceInv
  <1>7. ASSUME NEW c \in Clients, Connect(c) \/ Greet(c) \/ Ask(c) \/ Arrive(c) \/ Leave(c)
        PROVE  PlaceInv'
    BY <1>7 DEF Connect, Greet, Ask, Arrive, Leave, PlaceInv
  <1>. QED
    BY <1>1, <1>2, <1>3, <1>4, <1>5, <1>6, <1>7 DEF Next, bridge_mode

\* No step of the bridge but accept() touches a client that waits for it.
LEMMA FreshFrame ==
  ASSUME TypeOK, FreshInv, UNCHANGED <<backlog, there, req, part>>,
         sock' \in {sock, None},
         \A c \in Clients : c # sock => up'[c] = up[c] /\ down'[c] = down[c],
         sock \in Clients => up'[sock] = << >> \/ up[sock] # << >>
  PROVE  FreshInv'
  <1>. SUFFICES ASSUME NEW c \in Clients
                PROVE  /\ there[c] = "new" => ~Waits(c)
                       /\ there[c] \in {"new", "silent"} => up'[c] = << >>
                       /\ Fresh(c) => /\ sock' # c
                                      /\ req[c] = 0 /\ part[c] = 0 /\ down'[c] = << >>
                                      /\ up'[c] \in {<< >>, <<Get>>}
    BY DEF FreshInv, Fresh, Waits
  <1>1. CASE c = sock
    BY <1>1 DEF FreshInv
  <1>2. CASE c # sock
    BY <1>2, NoneIsNoClient DEF FreshInv
  <1>. QED
    BY <1>1, <1>2

LEMMA FreshStep ==
  ASSUME TypeOK, PlaceInv, BytesInv, FreshInv, [Next]_vars
  PROVE  FreshInv'
  <1>1. CASE UNCHANGED vars
    BY <1>1 DEF vars, FreshInv, Fresh, Waits
  <1>2. CASE BridgeStart \/ Beacon \/ Poll \/ PollFails \/ Stop \/ Brick \/ StdinEnds
    <2>1. UNCHANGED <<backlog, there, req, part, up, down>> /\ sock' \in {sock, None}
      BY <1>2 DEF BridgeStart, Beacon, Poll, PollFails, Stop, Brick, StdinEnds, net
    <2>. QED
      BY <2>1, FreshFrame
  <1>3. CASE WaitForTcpConnection
    <2>1. CASE ~(backlog # << >> /\ DescriptorLeft)
      BY <1>3, <2>1 DEF WaitForTcpConnection, FreshInv, Fresh, Waits
    <2>2. CASE backlog # << >> /\ DescriptorLeft
      <3>1. Len(backlog) = 1 /\ Head(backlog) = backlog[1] /\ backlog' = << >>
        <4>1. backlog \in Seq(Clients) /\ Len(backlog) <= 1 /\ backlog' = Tail(backlog)
          BY <1>3, <2>2 DEF WaitForTcpConnection, FreshInv, TypeOK
        <4>2. Len(backlog) \in Nat \ {0}
          BY <2>2, <4>1, EmptySeq
        <4>3. Len(backlog) = 1
          <5>. DEFINE n == Len(backlog)
          <5>1. n <= 1 /\ n \in Nat /\ n # 0
            BY <4>1, <4>2
          <5>. HIDE DEF n
          <5>2. n = 1
            BY <5>1
          <5>. QED
            BY <5>2 DEF n
        <4>4. Tail(backlog) \in Seq(Clients) /\ Len(Tail(backlog)) = 0
          BY <2>2, <4>1, <4>3, HeadTailProperties
        <4>5. Tail(backlog) = << >>
          BY <4>4, EmptySeq
        <4>. QED
          BY <4>1, <4>3, <4>5
      <3>. QED
        BY <1>3, <2>2, <3>1, EmptySeq DEF WaitForTcpConnection, FreshInv, Fresh, Waits
    <2>. QED
      BY <2>1, <2>2
  <1>5. CASE Read
    <2>1. /\ sock \in Clients /\ Kept
          /\ NothingRead \/ Closed \/ HalfRead \/ StartRead \/ LengthRead \/ PartRead \/ PacketRead
      BY <1>5, ReadCases
    <2>2. sock' \in {sock, None}
      BY <2>1 DEF NothingRead, Closed, HalfRead, cNetTcpClose, StartRead, LengthRead,
         PartRead, PacketRead, Stays
    <2>3. \A c \in Clients : c # sock => down'[c] = down[c]
      BY <2>1 DEF NothingRead, Closed, HalfRead, StartRead, LengthRead, PartRead,
         PacketRead, BytesRead, TypeOK
    <2>4. up' = up \/ \E k \in 0 .. Len(up[sock]) : Taken(k)
      BY <2>1 DEF NothingRead, Closed, HalfRead, StartRead, LengthRead, PartRead,
         PacketRead, BytesRead, Taken
    <2>5. /\ \A c \in Clients : c # sock => up'[c] = up[c]
          /\ up'[sock] = << >> \/ up[sock] # << >>
      <3>1. CASE up' = up
        BY <3>1
      <3>2. ASSUME NEW k \in 0 .. Len(up[sock]), Taken(k)
            PROVE  /\ \A c \in Clients : c # sock => up'[c] = up[c]
                   /\ up'[sock] = << >> \/ up[sock] # << >>
        <4>1. /\ \A c \in Clients : c # sock => up'[c] = up[c]
              /\ k = Len(up[sock]) => up'[sock] = << >>
          BY <2>1, <3>2, TakenIs
        <4>2. up[sock] = << >> => k = Len(up[sock])
          OBVIOUS
        <4>. QED
          BY <4>1, <4>2
      <3>. QED
        BY <2>4, <3>1, <3>2
    <2>. QED
      BY <2>1, <2>2, <2>3, <2>5, FreshFrame DEF Kept
  <1>6. CASE Write
    <2>1. \A c \in Clients : c # sock => down'[c] = down[c]
      BY <1>6 DEF Write, cNetWriteTcp, TypeOK
    <2>. QED
      BY <1>6, <2>1, FreshFrame DEF Write, net
  <1>7. ASSUME NEW c \in Clients, Connect(c) PROVE FreshInv'
    <2>1. backlog = << >> /\ backlog' = <<c>> /\ there[c] = "new"
          /\ there' = [there EXCEPT ![c] = "silent"]
          /\ UNCHANGED <<sock, req, part, up, down>>
      BY <1>7 DEF Connect
    <2>2. Len(backlog') <= 1 /\ backlog' # << >> /\ backlog'[1] = c
      BY <2>1
    <2>. SUFFICES ASSUME NEW d \in Clients
                  PROVE  /\ there'[d] = "new" => ~Waits(d)'
                         /\ there'[d] \in {"new", "silent"} => up[d] = << >>
                         /\ Fresh(d)' => /\ sock # d
                                         /\ req[d] = 0 /\ part[d] = 0 /\ down[d] = << >>
                                         /\ up[d] \in {<< >>, <<Get>>}
      BY <2>1, <2>2 DEF FreshInv
    <2>3. CASE d = c
      <3>1. there'[d] = "silent" /\ Fresh(d)
        BY <2>1, <2>3 DEF TypeOK, Fresh
      <3>. QED
        BY <2>1, <2>3, <3>1 DEF FreshInv
    <2>4. CASE d # c
      <3>1. there'[d] = there[d] /\ ~Waits(d)'
        BY <2>1, <2>2, <2>4 DEF TypeOK, Waits
      <3>. QED
        BY <2>1, <3>1 DEF FreshInv, Fresh
    <2>. QED
      BY <2>3, <2>4
  <1>8. ASSUME NEW c \in Clients, Greet(c) \/ Leave(c) PROVE FreshInv'
    <2>1. /\ there[c] \in {"silent", "here"} /\ there'[c] \in {"here", "gone"}
          /\ \A d \in Clients \ {c} : there'[d] = there[d] /\ up'[d] = up[d]
          /\ up'[c] = up[c] \/ up'[c] = <<Get>>
          /\ UNCHANGED <<backlog, sock, req, part, down>>
      BY <1>8 DEF Greet, Leave, TypeOK
    <2>. QED
      BY <2>1 DEF FreshInv, Fresh, Waits
  <1>9. ASSUME NEW c \in Clients, Ask(c) \/ Arrive(c) PROVE FreshInv'
    <2>1. there[c] = "here" /\ ~Fresh(c)
      <3>1. CASE Ask(c)
        <4>1. there[c] = "here" /\ Len(down[c]) >= 1 + ReplyLen * req[c]
          BY <3>1 DEF Ask
        <4>2. req[c] = 0 => ReplyLen * req[c] = 0
          BY Count
        <4>3. down[c] = << >> => Len(down[c]) = 0
          OBVIOUS
        <4>. QED
          BY <4>1, <4>2, <4>3 DEF FreshInv
      <3>2. CASE Arrive(c)
        BY <3>2 DEF Arrive, FreshInv
      <3>. QED
        BY <1>9, <3>1, <3>2
    <2>2. /\ \A d \in Clients \ {c} : req'[d] = req[d] /\ part'[d] = part[d] /\ up'[d] = up[d]
          /\ UNCHANGED <<backlog, sock, there, down>>
      BY <1>9 DEF Ask, Arrive, TypeOK
    <2>. QED
      BY <2>1, <2>2 DEF FreshInv, Fresh, Waits
  <1>. QED
    BY <1>1, <1>2, <1>3, <1>5, <1>6, <1>7, <1>8, <1>9 DEF Next, bridge_mode

LEMMA BytesStep ==
  ASSUME TypeOK, PlaceInv, BytesInv, FreshInv, [Next]_vars
  PROVE  BytesInv'
  <1>1. CASE UNCHANGED vars
    BY <1>1 DEF vars, BytesInv
  <1>2. CASE BridgeStart \/ Stop \/ WaitForTcpConnection
    <2>1. hid' = hid /\ (sock' = None \/ TcpRead' = "TCP_WAIT_ON_START")
      BY <1>2 DEF BridgeStart, Stop, WaitForTcpConnection, usb, PlaceInv
    <2>. QED
      BY <2>1 DEF BytesInv
  <1>3. CASE Beacon \/ Poll \/ PollFails \/ Write \/ StdinEnds
    BY <1>3 DEF Beacon, Poll, PollFails, Write, StdinEnds, net, usb, BytesInv
  <1>4. CASE Read
    <2>1. /\ sock \in Clients /\ sock # None /\ Kept
          /\ NothingRead \/ Closed \/ HalfRead \/ StartRead \/ LengthRead \/ PartRead \/ PacketRead
      BY <1>4, ReadCases, NoneIsNoClient
    <2>2. CASE NothingRead
      BY <2>1, <2>2 DEF NothingRead, Stays, Kept, BytesInv
    <2>3. CASE Closed
      BY <2>3 DEF Closed, cNetTcpClose, BytesInv
    <2>9. CASE HalfRead
      <3>1. up[sock] \in Seq(Bytes) \ {<< >>}
        <4>1. up[sock] \in Seq(Bytes) /\ Len(up[sock]) = 1
          BY <2>9 DEF HalfRead
        <4>2. Len(<< >>) = 0
          OBVIOUS
        <4>. QED
          BY <4>1, <4>2
      <3>2. hid' \in Seq(Seq(Bytes) \ {<< >>})
        BY <2>9, <3>1, AppendProperties DEF HalfRead, BytesInv
      <3>. QED
        BY <2>9, <3>2 DEF HalfRead, cNetTcpClose, BytesInv
    <2>4. CASE StartRead
      <3>1. there[sock] # "silent"
        BY <2>1, <2>4 DEF StartRead, FreshInv
      <3>2. up'[sock] = << >>
        BY <2>1, <2>4, TakenIs DEF StartRead, Taken
      <3>3. up'[sock] \in Seq(Bytes)
        BY <3>2, EmptySeq
      <3>4. TcpRead' # "TCP_WAIT_ON_ONLY_CHUNK"
        BY <2>4 DEF StartRead
      <3>. QED
        BY <2>1, <2>4, <3>1, <3>3, <3>4 DEF StartRead, Stays, Kept, BytesInv
    <2>5. CASE LengthRead
      <3>1. there[sock] # "silent" /\ up[sock] \in Seq(Bytes)
        BY <2>1, <2>5 DEF LengthRead, BytesInv
      <3>2. up'[sock] \in Seq(Bytes)
        BY <2>1, <2>5, <3>1, TakenIs DEF LengthRead, Taken
      <3>3. ReadBuf' \in Seq(Bytes) /\ ReadBuf' # << >>
        <4>1. ReadBuf' \in Seq(Bytes) /\ Len(ReadBuf') = 2
          BY <2>5 DEF LengthRead
        <4>2. Len(<< >>) = 0
          OBVIOUS
        <4>. QED
          BY <4>1, <4>2
      <3>. QED
        BY <2>1, <2>5, <3>1, <3>2, <3>3 DEF LengthRead, Stays, Kept, BytesInv
    <2>6. ASSUME NEW k \in 0 .. Len(up[sock]), BytesRead(k)
          PROVE  /\ there[sock] # "silent" /\ up'[sock] \in Seq(Bytes)
                 /\ ReadBuf' \in Seq(Bytes) \ {<< >>}
      <3>1. there[sock] # "silent" /\ up[sock] \in Seq(Bytes)
        BY <2>1, <2>6 DEF BytesRead, BytesInv
      <3>2. up'[sock] \in Seq(Bytes)
        BY <2>1, <2>6, <3>1, TakenIs DEF BytesRead
      <3>3. ReadBuf' \in Seq(Bytes) /\ Len(ReadBuf') = Len(ReadBuf) + k /\ k > 0
        BY <2>6 DEF BytesRead
      <3>4. Len(ReadBuf) \in Nat
        BY LenProperties DEF TypeOK
      <3>5. Len(ReadBuf') # 0
        BY <3>3, <3>4
      <3>6. Len(<< >>) = 0
        OBVIOUS
      <3>. QED
        BY <3>1, <3>2, <3>3, <3>5, <3>6
    <2>7. CASE PartRead
      <3>1. PICK k \in 1 .. Len(up[sock]) : BytesRead(k)
        BY <2>7 DEF PartRead
      <3>2. k \in 0 .. Len(up[sock])
        BY <3>1 DEF BytesRead, Taken
      <3>. QED
        BY <2>1, <2>6, <2>7, <3>1, <3>2 DEF PartRead, Stays, Kept, BytesInv
    <2>8. CASE PacketRead
      <3>1. BytesRead(TcpRestLen) /\ TcpRestLen \in 0 .. Len(up[sock])
        BY <2>8 DEF PacketRead, BytesRead, Taken
      <3>2. ReadBuf' \in Seq(Bytes) \ {<< >>} /\ up'[sock] \in Seq(Bytes) /\ there[sock] # "silent"
        BY <2>6, <3>1
      <3>3. hid' \in Seq(Seq(Bytes) \ {<< >>})
        BY <2>8, <3>2, AppendProperties DEF PacketRead, BytesInv
      <3>. QED
        BY <2>1, <2>8, <3>2, <3>3 DEF PacketRead, Stays, Kept, BytesInv
    <2>. QED
      BY <2>1, <2>2, <2>3, <2>4, <2>5, <2>7, <2>8, <2>9
  <1>5. CASE Brick
    <2>1. hid' \in Seq(Seq(Bytes) \ {<< >>})
      BY <1>5, BrickIs DEF Brick
    <2>. QED
      BY <1>5, <2>1 DEF Brick, net, BytesInv
  <1>6. ASSUME NEW c \in Clients, Connect(c) PROVE BytesInv'
    <2>1. sock # c
      BY <1>6 DEF Connect, FreshInv, Fresh
    <2>2. sock # None => there'[sock] = there[sock]
      BY <1>6, <2>1 DEF Connect, TypeOK
    <2>. QED
      BY <1>6, <2>2 DEF Connect, usb, BytesInv
  <1>7. ASSUME NEW c \in Clients, Greet(c) PROVE BytesInv'
    <2>1. sock # None /\ TcpRead # "TCP_WAIT_ON_START" => sock # c
      BY <1>7 DEF Greet, BytesInv
    <2>2. sock # None /\ sock # c => there'[sock] = there[sock] /\ up'[sock] = up[sock]
      BY <1>7 DEF Greet, TypeOK
    <2>. QED
      BY <1>7, <2>1, <2>2 DEF Greet, usb, BytesInv
  <1>8. ASSUME NEW c \in Clients, Ask(c) PROVE BytesInv'
    BY <1>8 DEF Ask, usb, BytesInv
  <1>9. ASSUME NEW c \in Clients, Arrive(c) PROVE BytesInv'
    <2>1. req[c] \in 0 .. Len(BodyLen) /\ part[c] \in Nat /\ req[c] > 0
      BY <1>9 DEF Arrive, TypeOK
    <2>2. req[c] \in 1 .. Len(BodyLen)
      BY <2>1, Count
    <2>3. BodyLen[req[c]] \in Nat /\ ReplyLen \in Nat
      BY <2>2, Bodies, Count
    <2>4. part[c] + 1 \in 1 .. 2 + BodyLen[req[c]] + ReplyLen
      <3>1. part[c] < 2 + BodyLen[req[c]]
        BY <1>9 DEF Arrive
      <3>. QED
        BY <2>1, <2>3, <3>1
    <2>5. <<c, req[c], part[c] + 1>> \in Bytes
      BY <2>2, <2>4, ByteIs
    <2>6. part'[c] = part[c] + 1
      BY <1>9 DEF Arrive, TypeOK
    <2>7. /\ up'[c] = Append(up[c], <<c, req[c], part[c] + 1>>)
          /\ \A d \in Clients \ {c} : up'[d] = up[d]
      BY <1>9, <2>6 DEF Arrive, TypeOK
    <2>8. ASSUME sock # None, up[sock] \in Seq(Bytes) PROVE up'[sock] \in Seq(Bytes)
      <3>1. sock \in Clients
        BY <2>8 DEF TypeOK
      <3>2. CASE sock = c
        <4>1. up[c] \in Seq(Bytes)
          BY <2>8, <3>2
        <4>2. Append(up[c], <<c, req[c], part[c] + 1>>) \in Seq(Bytes)
          BY <2>5, <4>1, AppendProperties
        <4>. QED
          BY <2>7, <3>2, <4>2
      <3>3. CASE sock # c
        BY <2>7, <2>8, <3>1, <3>3
      <3>. QED
        BY <3>2, <3>3
    <2>. QED
      BY <1>9, <2>8 DEF Arrive, usb, BytesInv
  <1>10. ASSUME NEW c \in Clients, Leave(c) PROVE BytesInv'
    <2>1. sock # None /\ there[sock] # "silent" => there'[sock] # "silent"
      BY <1>10 DEF Leave, TypeOK
    <2>. QED
      BY <1>10, <2>1 DEF Leave, usb, BytesInv
  <1>. QED
    BY <1>1, <1>2, <1>3, <1>4, <1>5, <1>6, <1>7, <1>8, <1>9, <1>10 DEF Next, bridge_mode

-----------------------------------------------------------------------------
(***************************************************************************)
(* A clean connection goes from stage to stage.                            *)
(***************************************************************************)

LEMMA ClientTypes ==
  ASSUME TypeOK, NEW c \in Clients
  PROVE  /\ req[c] \in Nat /\ req[c] \in 0 .. Len(BodyLen) /\ part[c] \in Nat
         /\ up[c] \in Seq(Units) /\ down[c] \in Seq(Units)
         /\ Len(up[c]) \in Nat /\ Len(down[c]) \in Nat
         /\ Len(forwarded) \in Nat /\ Len(ReadBuf) \in Nat
         /\ req[c] > 0 => /\ req[c] \in 1 .. Len(BodyLen)
                          /\ BodyLen[req[c]] \in Nat /\ BodyLen[req[c]] > 0
  <1>1. /\ req[c] \in 0 .. Len(BodyLen) /\ part[c] \in Nat
        /\ up[c] \in Seq(Units) /\ down[c] \in Seq(Units)
        /\ forwarded \in Seq(Seq(Units)) /\ ReadBuf \in Seq(Units)
    BY DEF TypeOK
  <1>2. Len(BodyLen) \in Nat
    BY Count
  <1>3. req[c] \in Nat /\ (req[c] > 0 => req[c] \in 1 .. Len(BodyLen))
    BY <1>1, <1>2
  <1>4. req[c] > 0 => BodyLen[req[c]] \in Nat /\ BodyLen[req[c]] > 0
    BY <1>3, Bodies
  <1>. QED
    BY <1>1, <1>3, <1>4, LenProperties

\* Nothing c or its connection depends on has changed.
Untouched(c) ==
  /\ UNCHANGED <<TcpRead, TcpRestLen, ReadBuf, WriteBuf, hid, hidReplies, forwarded>>
  /\ req'[c] = req[c] /\ part'[c] = part[c] /\ up'[c] = up[c] /\ down'[c] = down[c]

LEMMA StageFrame ==
  ASSUME NEW c \in Clients, Stages(c), Untouched(c)
  PROVE  Stages(c)'
  <1>1. \A n : Handed(c, n) <=> Handed(c, n)'
    BY DEF Handed, Untouched
  <1>2. \A n, q : Told(c, n, q) <=> Told(c, n, q)'
    BY DEF Told, Untouched
  <1>3. \A h, r, w : Outstanding(h, r, w) <=> Outstanding(h, r, w)'
    BY DEF Outstanding, Untouched
  <1>4. \A q : Answering(c, q) <=> Answering(c, q)'
    BY <1>1, <1>2 DEF Answering, Untouched
  <1>5. \A x : Reading(c, x) <=> Reading(c, x)'
    BY <1>1, <1>2, <1>3 DEF Reading, Untouched
  <1>6. Awaiting(c) => Awaiting(c)'
    BY <1>1, <1>3 DEF Awaiting, Untouched
  <1>7. Done(c) => Done(c)'
    BY <1>1, <1>2, <1>3 DEF Done, Untouched
  <1>8. ReadingLength(c) => ReadingLength(c)'
    BY <1>5 DEF ReadingLength, Untouched
  <1>9. ReadingBody(c) => ReadingBody(c)'
    BY <1>5 DEF ReadingBody, Untouched
  <1>10. Asked(c) => Asked(c)'
    BY <1>3, <1>4 DEF Asked, Untouched
  <1>11. Answered(c) => Answered(c)'
    BY <1>3, <1>4 DEF Answered, Untouched
  <1>12. Writing(c) => Writing(c)'
    BY <1>3, <1>4 DEF Writing, Untouched
  <1>. QED
    BY <1>6, <1>7, <1>8, <1>9, <1>10, <1>11, <1>12 DEF Stages

\* What tells the stages apart.
LEMMA StageIs ==
  ASSUME TypeOK, NEW c \in Clients, Stages(c)
  PROVE  /\ TcpRead = "TCP_WAIT_ON_START" => Awaiting(c)
         /\ TcpRead = "TCP_WAIT_ON_ONLY_CHUNK" => ReadingBody(c)
         /\ up[c] # << >> => Awaiting(c) \/ ReadingLength(c) \/ ReadingBody(c)
         /\ hid # << >> => Asked(c)
         /\ hidReplies # << >> => Answered(c)
         /\ WriteBuf # << >> => Writing(c)
  <1>1. ReadingLength(c) \/ ReadingBody(c) => Outstanding(<< >>, << >>, << >>)
    BY DEF ReadingLength, ReadingBody, Reading
  <1>2. CASE Awaiting(c)
    BY <1>2 DEF Awaiting, Outstanding
  <1>3. CASE Done(c)
    BY <1>3 DEF Done, Outstanding
  <1>4. CASE ReadingLength(c)
    BY <1>1, <1>4 DEF ReadingLength, Outstanding
  <1>5. CASE ReadingBody(c)
    BY <1>1, <1>5 DEF ReadingBody, Outstanding
  <1>6. CASE Asked(c)
    BY <1>6 DEF Asked, Answering, Outstanding
  <1>7. CASE Answered(c)
    BY <1>7 DEF Answered, Answering, Outstanding
  <1>8. CASE Writing(c)
    BY <1>8 DEF Writing, Answering, Outstanding
  <1>. QED
    BY <1>2, <1>3, <1>4, <1>5, <1>6, <1>7, <1>8 DEF Stages

\* n whole replies are one reply more than n - 1.
LEMMA OneReplyMore ==
  ASSUME NEW n \in Nat, n > 0
  PROVE  /\ ReplyLen * n \in Nat /\ ReplyLen * (n - 1) \in Nat
         /\ ReplyLen * n = ReplyLen * (n - 1) + ReplyLen
  <1>1. ReplyLen \in Nat /\ n - 1 \in Nat
    BY Count
  <1>. QED
    BY <1>1

\* The confirmation is sent when the handshake has been read.
LEMMA AwaitingToDone ==
  ASSUME TypeOK, NEW c \in Clients, sock = c, Awaiting(c), StartRead, Kept
  PROVE  Done(c)'
  <1>1. up[c] = <<Get>> /\ down[c] = << >> /\ req[c] = 0
    BY DEF Awaiting, StartRead
  <1>2. Contains(up[c], Get)
    BY <1>1 DEF Contains
  <1>3. TcpRead' = "TCP_WAIT_ON_LENGTH" /\ down' = [down EXCEPT ![c] = down[c] \o <<Accept>>]
    BY <1>2 DEF StartRead
  <1>4. down'[c] = <<Accept>>
    BY <1>1, <1>3 DEF TypeOK
  <1>5. up'[c] = << >>
    BY TakenIs DEF StartRead, Taken
  <1>6. req'[c] = 0 /\ Outstanding(<< >>, << >>, << >>)'
    BY <1>1 DEF StartRead, Stays, Kept, Awaiting, Outstanding
  <1>7. Handed(c, 0)'
    BY DEF StartRead, Awaiting, Handed
  <1>8. Told(c, 0, 0)'
    <2>1. ReplyLen * 0 = 0
      BY Count
    <2>2. Len(down'[c]) = 1 /\ down'[c][1] = Due(c, 1)
      BY <1>4 DEF Due
    <2>. QED
      BY <2>1, <2>2 DEF Told, Due
  <1>. QED
    BY <1>3, <1>5, <1>6, <1>7, <1>8 DEF Done

LEMMA LengthToBody ==
  ASSUME TypeOK, NEW c \in Clients, sock = c, ReadingLength(c), LengthRead, Kept
  PROVE  ReadingBody(c)'
  <1>0. PICK n, b : n = req[c] /\ b = BodyLen[n]
    OBVIOUS
  <1>1. /\ n \in 1 .. Len(BodyLen) /\ n > 0 /\ b \in Nat /\ b > 0
        /\ part[c] \in Nat /\ part[c] <= 2 + b /\ Len(up[c]) = part[c]
        /\ \A k \in 1 .. part[c] : up[c][k] = <<c, n, k>>
    <2>1. /\ n \in 1 .. Len(BodyLen) /\ n > 0 /\ b \in Nat /\ b > 0 /\ part[c] \in Nat
      BY <1>0, ClientTypes DEF ReadingLength, Reading
    <2>2. part[c] - 0 = part[c]
      BY <2>1
    <2>3. \A k \in 1 .. part[c] : 0 + k = k
      BY <2>1
    <2>4. part[c] <= 2 + b /\ Len(up[c]) = part[c] /\ \A k \in 1 .. part[c] : up[c][k] = <<c, n, 0 + k>>
      BY <1>0, <2>2 DEF ReadingLength, Reading
    <2>. QED
      BY <2>1, <2>3, <2>4
  <1>2. part[c] >= 2
    BY <1>1 DEF LengthRead
  <1>3. up[c][1] = <<c, n, 1>> /\ up[c][2] = <<c, n, 2>>
    BY <1>1, <1>2
  <1>4. Len(ReadBuf') = 2 /\ ReadBuf'[1] = <<c, n, 1>> /\ ReadBuf'[2] = <<c, n, 2>>
    BY <1>3 DEF LengthRead
  <1>5. TcpRestLen' = b
    BY <1>0, <1>4 DEF LengthRead, RestLen
  <1>6. /\ Len(up'[c]) = part[c] - 2
        /\ \A k \in 1 .. part[c] - 2 : up'[c][k] = up[c][2 + k]
    <2>1. Taken(2) /\ 2 \in 0 .. Len(up[c])
      BY DEF LengthRead, Taken
    <2>2. /\ Len(up'[c]) = Len(up[c]) - 2
          /\ \A k \in 1 .. Len(up[c]) - 2 : up'[c][k] = up[c][2 + k]
      BY <2>1, TakenIs
    <2>. QED
      BY <1>1, <2>2
  <1>7. \A k \in 1 .. part[c] - 2 : up'[c][k] = <<c, n, 2 + k>>
    <2>. TAKE k \in 1 .. part[c] - 2
    <2>1. 2 + k \in 1 .. part[c]
      BY <1>1
    <2>. QED
      BY <1>1, <1>6, <2>1
  <1>8. /\ req' = req /\ part' = part
        /\ Outstanding(<< >>, << >>, << >>)' /\ Handed(c, n - 1)' /\ Told(c, n - 1, 0)'
    BY <1>0 DEF LengthRead, Stays, Kept, ReadingLength, Reading, Outstanding, Handed, Told
  <1>9. \A k \in 1 .. 2 : ReadBuf'[k] = <<c, n, k>>
    BY <1>4
  <1>10. TcpRead' = "TCP_WAIT_ON_ONLY_CHUNK"
    BY DEF LengthRead
  <1>11. req'[c] = n /\ part'[c] = part[c] /\ BodyLen[n] = b
    BY <1>0, <1>8
  <1>12. Reading(c, 2)'
    BY <1>1, <1>2, <1>6, <1>7, <1>8, <1>11 DEF Reading
  <1>. QED
    BY <1>1, <1>4, <1>5, <1>9, <1>10, <1>11, <1>12 DEF ReadingBody

\* More bytes of request n: x of it were read before, y now.
Grown(c, n, x, y) ==
  /\ n \in 1 .. Len(BodyLen) /\ x \in Nat /\ y \in Nat
  /\ x + y <= part[c] /\ part[c] <= 2 + BodyLen[n] /\ part[c] \in Nat
  /\ Len(ReadBuf') = x + y
  /\ \A k \in 1 .. x + y : ReadBuf'[k] = <<c, n, k>>
  /\ Len(up'[c]) = part[c] - (x + y)
  /\ \A k \in 1 .. part[c] - (x + y) : up'[c][k] = <<c, n, (x + y) + k>>
  /\ y = Len(up[c]) => up'[c] = << >>

LEMMA BodyGrows ==
  ASSUME TypeOK, NEW c \in Clients, sock = c, ReadingBody(c), NEW n, n = req[c],
         NEW x, x = Len(ReadBuf), NEW y \in 0 .. Len(up[c]), BytesRead(y)
  PROVE  Grown(c, n, x, y)
  <1>. DEFINE u == up[c]
              v == up'[c]
              p == part[c]
              l == Len(u)
  <1>1. /\ n \in 1 .. Len(BodyLen) /\ x \in Nat /\ p \in Nat /\ BodyLen[n] \in Nat
        /\ x <= p /\ p <= 2 + BodyLen[n] /\ l = p - x /\ l \in Nat
        /\ \A k \in 1 .. p - x : u[k] = <<c, n, x + k>>
        /\ \A k \in 1 .. x : ReadBuf[k] = <<c, n, k>>
    BY ClientTypes DEF ReadingBody, Reading
  <1>2. /\ y > 0 /\ Len(ReadBuf') = x + y
        /\ \A k \in 1 .. x : ReadBuf'[k] = ReadBuf[k]
        /\ \A k \in 1 .. y : ReadBuf'[x + k] = u[k]
    BY DEF BytesRead
  <1>3. /\ Len(v) = l - y /\ \A k \in 1 .. l - y : v[k] = u[y + k]
        /\ y = l => v = << >>
    BY TakenIs DEF BytesRead
  <1>4. y \in 0 .. l
    OBVIOUS
  <1>. HIDE DEF u, v, p, l
  <1>5. y \in Nat /\ x + y <= p /\ l - y = p - (x + y)
    BY <1>1, <1>4
  <1>6. ASSUME NEW k \in 1 .. x + y PROVE ReadBuf'[k] = <<c, n, k>>
    <2>1. CASE k <= x
      <3>1. k \in 1 .. x
        BY <1>1, <1>5, <2>1
      <3>. QED
        BY <1>1, <1>2, <3>1
    <2>2. CASE k > x
      <3>1. k - x \in 1 .. y /\ k - x \in 1 .. p - x /\ x + (k - x) = k
        BY <1>1, <1>5, <2>2
      <3>2. ReadBuf'[x + (k - x)] = u[k - x] /\ u[k - x] = <<c, n, x + (k - x)>>
        BY <1>1, <1>2, <3>1
      <3>. QED
        BY <3>1, <3>2
    <2>. QED
      BY <1>1, <1>5, <2>1, <2>2
  <1>7. ASSUME NEW k \in 1 .. p - (x + y) PROVE v[k] = <<c, n, (x + y) + k>>
    <2>0. k \in 1 .. l - y
      BY <1>5
    <2>1. y + k \in 1 .. p - x /\ x + (y + k) = (x + y) + k
      BY <1>1, <1>5
    <2>2. v[k] = u[y + k] /\ u[y + k] = <<c, n, x + (y + k)>>
      BY <1>1, <1>3, <2>0, <2>1
    <2>. QED
      BY <2>1, <2>2
  <1>8. Len(v) = p - (x + y) /\ (y = l => v = << >>)
    BY <1>3, <1>5
  <1>. QED
    BY <1>1, <1>2, <1>5, <1>6, <1>7, <1>8 DEF Grown, u, v, p, l

LEMMA BodyToBody ==
  ASSUME TypeOK, NEW c \in Clients, sock = c, ReadingBody(c), PartRead, Kept
  PROVE  ReadingBody(c)'
  <1>0. PICK n, x, b : n = req[c] /\ x = Len(ReadBuf) /\ b = BodyLen[n]
    OBVIOUS
  <1>1. PICK y \in 1 .. Len(up[c]) :
               BytesRead(y) /\ y < TcpRestLen /\ TcpRestLen' = TcpRestLen - y
    BY DEF PartRead
  <1>2. y \in 0 .. Len(up[c])
    BY <1>1 DEF BytesRead, Taken
  <1>3. /\ n \in 1 .. Len(BodyLen) /\ x \in Nat /\ y \in Nat
        /\ x + y <= part[c] /\ part[c] <= 2 + b /\ part[c] \in Nat
        /\ Len(ReadBuf') = x + y
        /\ \A k \in 1 .. x + y : ReadBuf'[k] = <<c, n, k>>
        /\ Len(up'[c]) = part[c] - (x + y)
        /\ \A k \in 1 .. part[c] - (x + y) : up'[c][k] = <<c, n, (x + y) + k>>
    <2>1. Grown(c, n, x, y)
      BY <1>0, <1>1, <1>2, BodyGrows
    <2>. QED
      BY <1>0, <2>1 DEF Grown
  <1>4. b \in Nat
    BY <1>0, <1>3, Bodies
  <1>5. /\ req' = req /\ part' = part /\ TcpRead' = "TCP_WAIT_ON_ONLY_CHUNK"
        /\ Outstanding(<< >>, << >>, << >>)' /\ Handed(c, n - 1)' /\ Told(c, n - 1, 0)'
    BY <1>0, <1>1 DEF PartRead, BytesRead, Stays, Kept, ReadingBody, Reading, Outstanding, Handed, Told
  <1>6. x >= 2 /\ TcpRestLen = 2 + b - x /\ TcpRestLen \in Nat
    BY <1>0 DEF ReadingBody, TypeOK
  <1>7. req'[c] = n /\ part'[c] = part[c] /\ BodyLen[n] = b /\ n > 0
    BY <1>0, <1>3, <1>5
  <1>8. TcpRestLen' = 2 + b - (x + y) /\ TcpRestLen' > 0 /\ x + y >= 2
    <2>1. y < TcpRestLen /\ TcpRestLen' = TcpRestLen - y /\ x \in Nat /\ y \in Nat
      BY <1>1, <1>3
    <2>. QED
      BY <1>4, <1>6, <2>1
  <1>9. Reading(c, x + y)'
    BY <1>3, <1>5, <1>7 DEF Reading
  <1>. QED
    BY <1>3, <1>5, <1>7, <1>8, <1>9 DEF ReadingBody

\* The packet handed to the brick is the whole request, and the next in turn.
LEMMA NewPacket ==
  ASSUME TypeOK, NEW c \in Clients, sock = c, ReadingBody(c), PacketRead, Kept,
         NEW n, n = req[c]
  PROVE  /\ n \in 1 .. Len(BodyLen) /\ part[c] = 2 + BodyLen[n]
         /\ ReadBuf' = PacketOf(c, n) /\ up'[c] = << >>
         /\ Handed(c, n - 1) /\ Told(c, n - 1, 0) /\ Outstanding(<< >>, << >>, << >>)
  <1>1. PICK x, y, b : x = Len(ReadBuf) /\ y = TcpRestLen /\ b = BodyLen[n]
    OBVIOUS
  <1>2. BytesRead(y) /\ y \in 0 .. Len(up[c])
    BY <1>1 DEF PacketRead, BytesRead, Taken
  <1>3. /\ n \in 1 .. Len(BodyLen) /\ x \in Nat /\ y \in Nat
        /\ x + y <= part[c] /\ part[c] <= 2 + b /\ part[c] \in Nat
        /\ Len(ReadBuf') = x + y
        /\ \A k \in 1 .. x + y : ReadBuf'[k] = <<c, n, k>>
        /\ y = Len(up[c]) => up'[c] = << >>
    <2>1. Grown(c, n, x, y)
      BY <1>1, <1>2, BodyGrows
    <2>. QED
      BY <1>1, <2>1 DEF Grown
  <1>4. b \in Nat
    BY <1>1, <1>3, Bodies
  <1>5. y = 2 + b - x /\ Len(up[c]) = part[c] - x
    BY <1>1 DEF ReadingBody, Reading
  <1>6. x + y = 2 + b /\ part[c] = 2 + b /\ part[c] - x = y
    BY <1>3, <1>4, <1>5
  <1>7. up'[c] = << >>
    BY <1>3, <1>5, <1>6
  <1>8. ReadBuf' = PacketOf(c, n)
    <2>1. ReadBuf' \in Seq(Bytes) /\ PacketOf(c, n) \in Seq(Bytes)
      BY <1>2, <1>3, PacketIs DEF BytesRead
    <2>2. Len(ReadBuf') = 2 + b /\ Len(PacketOf(c, n)) = 2 + b
      BY <1>1, <1>3, <1>6, PacketIs
    <2>3. \A k \in 1 .. 2 + b : ReadBuf'[k] = PacketOf(c, n)[k]
      <3>1. \A k \in 1 .. 2 + b : ReadBuf'[k] = <<c, n, k>>
        BY <1>3, <1>6
      <3>2. \A k \in 1 .. 2 + b : PacketOf(c, n)[k] = <<c, n, k>>
        BY <1>1, <1>3, PacketIs
      <3>. QED
        BY <3>1, <3>2
    <2>. QED
      BY <2>1, <2>2, <2>3, SeqEqual
  <1>9. Handed(c, n - 1) /\ Told(c, n - 1, 0) /\ Outstanding(<< >>, << >>, << >>)
    BY DEF ReadingBody, Reading
  <1>. QED
    BY <1>1, <1>3, <1>6, <1>7, <1>8, <1>9

LEMMA BodyToAsked ==
  ASSUME TypeOK, NEW c \in Clients, sock = c, clean, ReadingBody(c), PacketRead, Kept
  PROVE  Asked(c)'
  <1>1. PICK n : n = req[c]
    OBVIOUS
  <1>2. /\ n \in 1 .. Len(BodyLen) /\ part[c] = 2 + BodyLen[n]
        /\ ReadBuf' = PacketOf(c, n) /\ up'[c] = << >>
        /\ Handed(c, n - 1) /\ Told(c, n - 1, 0) /\ Outstanding(<< >>, << >>, << >>)
    BY <1>1, NewPacket
  <1>3. /\ TcpRead' = "TCP_WAIT_ON_LENGTH" /\ req'[c] = n /\ part'[c] = part[c]
        /\ hid' = Append(hid, PacketOf(c, n)) /\ forwarded' = Append(forwarded, PacketOf(c, n))
        /\ down' = down /\ hidReplies' = hidReplies /\ WriteBuf' = WriteBuf
    BY <1>1, <1>2 DEF PacketRead, BytesRead, Stays, Kept
  <1>4. Outstanding(<<PacketOf(c, n)>>, << >>, << >>)'
    BY <1>2, <1>3 DEF Outstanding
  <1>5. Told(c, n - 1, 0)'
    BY <1>2, <1>3 DEF Told
  <1>6. Handed(c, n)'
    <2>. DEFINE l == Len(forwarded)
                g == forwarded'
    <2>1. /\ l \in Nat /\ g \in Seq(Seq(Units)) /\ Len(g) = l + 1
          /\ g[l + 1] = PacketOf(c, n) /\ \A i \in 1 .. l : g[i] = forwarded[i]
      <3>1. PacketOf(c, n) \in Seq(Units)
        BY <1>2, PacketIs, SeqMonotonic DEF Units
      <3>. QED
        BY <1>3, <3>1, AppendProperties, LenProperties DEF TypeOK
    <2>. HIDE DEF g, l
    <2>4. ASSUME NEW i \in 1 .. l + 1, NEW m \in 1 .. Len(BodyLen)
          PROVE  g[i] # FirstByteOf(c, m)
      <3>1. CASE i = l + 1
        BY <1>2, <2>1, <3>1, FirstByteIs
      <3>2. CASE i # l + 1
        <4>1. i \in 1 .. l
          BY <2>1, <3>2
        <4>. QED
          BY <1>2, <2>1, <4>1 DEF Handed, l
      <3>. QED
        BY <3>1, <3>2
    <2>2. ASSUME NEW i \in 1 .. l + 1, NEW m \in 1 .. Len(BodyLen), g[i] = PacketOf(c, m)
          PROVE  m <= n
      <3>1. CASE i = l + 1
        <4>1. m = n
          BY <1>2, <2>1, <2>2, <3>1, PacketsDiffer
        <4>. QED
          BY <4>1
      <3>2. CASE i # l + 1
        <4>1. i \in 1 .. l
          BY <2>1, <3>2
        <4>2. m <= n - 1
          BY <1>2, <2>1, <2>2, <4>1 DEF Handed, l
        <4>. QED
          BY <1>2, <4>2
      <3>. QED
        BY <3>1, <3>2
    <2>3. g # << >>
      BY <2>1, EmptySeq
    <2>. QED
      BY <2>1, <2>2, <2>3, <2>4 DEF Handed, g
  <1>. QED
    BY <1>2, <1>3, <1>4, <1>5, <1>6 DEF Asked, Answering

\* The brick answers the request in hand.
LEMMA AskedToAnswered ==
  ASSUME TypeOK, NEW c \in Clients, Asked(c), Brick
  PROVE  Answered(c)'
  <1>1. PICK n : n = req[c]
    OBVIOUS
  <1>2. n \in 1 .. Len(BodyLen)
    BY <1>1, ClientTypes DEF Asked, Answering
  <1>3. /\ Answering(c, 0) /\ hid = <<PacketOf(c, n)>> /\ hidReplies = << >> /\ WriteBuf = << >>
    BY <1>1 DEF Asked, Outstanding
  <1>4. Head(hid)[1] = <<c, n, 1>> /\ hid' = << >>
    BY <1>2, <1>3, PacketIs DEF Brick
  <1>5. hidReplies' = <<ReplyTo(c, n)>> /\ WriteBuf' = << >>
    <2>1. Head(hid) = PacketOf(c, n)
      BY <1>3
    <2>. QED
      BY <1>3, <1>4, <2>1 DEF Brick
  <1>6. Answering(c, 0)' /\ req'[c] = n
    BY <1>1, <1>3 DEF Answering, Handed, Told, Brick, net
  <1>. QED
    BY <1>4, <1>5, <1>6 DEF Answered, Outstanding

\* Its reply is fetched.
LEMMA AnsweredToWriting ==
  ASSUME TypeOK, NEW c \in Clients, Answered(c), Poll
  PROVE  Writing(c)'
  <1>1. PICK n : n = req[c]
    OBVIOUS
  <1>2. n \in 1 .. Len(BodyLen) /\ ReplyLen \in Nat /\ ReplyLen > 1
    BY <1>1, ClientTypes, Count DEF Answered, Answering
  <1>3. /\ Answering(c, 0) /\ hid = << >> /\ hidReplies = <<ReplyTo(c, n)>> /\ WriteBuf = << >>
    BY <1>1 DEF Answered, Outstanding
  <1>4. hidReplies' = << >> /\ WriteBuf' = ReplyTo(c, n) /\ hid' = << >>
    BY <1>3 DEF Poll
  <1>5. Answering(c, 0)' /\ req'[c] = n
    BY <1>1, <1>3 DEF Answering, Handed, Told, Poll, net
  <1>6. ReplyTo(c, n) = SubSeq(ReplyTo(c, n), 0 + 1, ReplyLen)
    <2>1. ReplyTo(c, n) \in Seq(Units) /\ Len(ReplyTo(c, n)) = ReplyLen
      BY <1>2, ReplyIs
    <2>. QED
      BY <2>1, SubSeqFull
  <1>7. 0 \in 0 .. ReplyLen - 1
    BY <1>2
  <1>. QED
    BY <1>4, <1>5, <1>6, <1>7 DEF Writing, Outstanding

\* A write sends the bytes that are due, and stops where the reply ends.
LEMMA WriteMoves ==
  ASSUME TypeOK, PlaceInv, NEW c \in Clients, sock = c, Writing(c), Write
  PROVE  Done(c)' \/ Writing(c)'
  <1>1. PICK n, t : n = req[c] /\ t = ReplyTo(c, n)
    OBVIOUS
  <1>2. n \in 1 .. Len(BodyLen) /\ n \in Nat /\ n > 0 /\ n - 1 \in Nat
        /\ ReplyLen \in Nat /\ ReplyLen > 1
    BY <1>1, ClientTypes, Count DEF Writing, Answering
  <1>3. PICK q \in 0 .. ReplyLen - 1 :
          /\ Answering(c, q) /\ hid = << >> /\ hidReplies = << >>
          /\ WriteBuf = SubSeq(t, q + 1, ReplyLen)
    BY <1>1 DEF Writing, Outstanding
  <1>4. /\ t \in Seq(Units) /\ Len(t) = ReplyLen
        /\ \A p \in 1 .. ReplyLen : t[p] = <<c, n, p>>
    BY <1>1, <1>2, ReplyIs
  <1>5. q \in Nat /\ q < ReplyLen /\ q \in 0 .. Len(t)
    BY <1>2, <1>4
  <1>6. Len(WriteBuf) = ReplyLen - q /\ \A k \in 1 .. ReplyLen - q : WriteBuf[k] = t[q + k]
    BY <1>3, <1>4, <1>5, RestIs
  <1>7. PICK w \in 0 .. Len(WriteBuf) :
          /\ WriteBuf # << >> => w > 0
          /\ down' = [down EXCEPT ![sock] = down[sock] \o SubSeq(WriteBuf, 1, w)]
          /\ WriteBuf' = SubSeq(WriteBuf, w + 1, Len(WriteBuf))
          /\ SubSeq(WriteBuf, 1, w) \in Seq(Units) /\ Len(SubSeq(WriteBuf, 1, w)) = w
          /\ \A i \in 1 .. w : SubSeq(WriteBuf, 1, w)[i] = WriteBuf[i]
          /\ WriteBuf' \in Seq(Units) /\ Len(WriteBuf') = Len(WriteBuf) - w
          /\ \A i \in 1 .. Len(WriteBuf) - w : WriteBuf'[i] = WriteBuf[w + i]
    BY WriteIs
  <1>8. w \in Nat /\ w <= ReplyLen - q /\ q + w \in Nat /\ q + w <= ReplyLen
    BY <1>2, <1>5, <1>6, <1>7
  <1>9. PICK a, z : a = SubSeq(WriteBuf, 1, w) /\ z = ReplyLen * (n - 1)
    OBVIOUS
  <1>10. z \in Nat /\ ReplyLen * n = z + ReplyLen
    BY <1>2, <1>9, OneReplyMore
  <1>11. /\ down[c] \in Seq(Units) /\ Len(down[c]) = 1 + z + q
         /\ \A k \in 1 .. 1 + z + q : down[c][k] = Due(c, k)
    BY <1>1, <1>3, <1>9, ClientTypes DEF Answering, Told
  <1>12. /\ Len(down'[c]) = 1 + z + (q + w)
         /\ \A k \in 1 .. 1 + z + (q + w) : down'[c][k] = Due(c, k)
    <2>. DEFINE l == 1 + z + q
    <2>1. l \in Nat /\ 1 + z + (q + w) = l + w /\ down'[c] = down[c] \o a
          /\ a \in Seq(Units) /\ Len(a) = w /\ Len(down[c]) = l
      <3>1. l \in Nat /\ 1 + z + (q + w) = l + w
        BY <1>5, <1>8, <1>10
      <3>2. down'[c] = down[c] \o a
        BY <1>7, <1>9 DEF TypeOK
      <3>. QED
        BY <1>7, <1>9, <1>11, <3>1, <3>2
    <2>2. /\ Len(down'[c]) = l + w
          /\ \A k \in 1 .. l + w : down'[c][k] = IF k <= l THEN down[c][k] ELSE a[k - l]
      <3>. HIDE DEF l
      <3>1. /\ Len(down[c] \o a) = Len(down[c]) + Len(a)
            /\ \A k \in 1 .. Len(down[c]) + Len(a) :
                 (down[c] \o a)[k] = IF k <= Len(down[c]) THEN down[c][k] ELSE a[k - Len(down[c])]
        BY <1>11, <2>1, ConcatProperties
      <3>. QED
        BY <2>1, <3>1
    <2>. HIDE DEF l
    <2>3. ASSUME NEW k \in 1 .. l + w, k <= l PROVE down'[c][k] = Due(c, k)
      <3>1. k \in 1 .. l
        BY <1>8, <2>1, <2>3
      <3>2. down[c][k] = Due(c, k)
        BY <1>11, <3>1 DEF l
      <3>. QED
        BY <2>2, <2>3, <3>2
    <2>4. ASSUME NEW k \in 1 .. l + w, k > l PROVE down'[c][k] = Due(c, k)
      <3>1. PICK i : i = k - l
        OBVIOUS
      <3>2. i \in 1 .. w /\ i \in 1 .. ReplyLen - q /\ q + i \in 1 .. ReplyLen /\ ~(k <= l)
        BY <1>2, <1>5, <1>8, <2>1, <2>4, <3>1
      <3>3. down'[c][k] = <<c, n, q + i>>
        <4>1. down'[c][k] = a[i] /\ a[i] = WriteBuf[i]
          BY <1>7, <1>9, <2>2, <3>1, <3>2
        <4>. QED
          BY <1>4, <1>6, <3>2, <4>1
      <3>4. k = 1 + ReplyLen * (n - 1) + (q + i) /\ (n - 1) + 1 = n
        BY <1>2, <1>5, <1>9, <1>10, <2>1, <3>1, <3>2 DEF l
      <3>. QED
        BY <1>2, <3>2, <3>3, <3>4, DueIs
    <2>5. \A k \in 1 .. l + w : k <= l \/ k > l
      BY <1>8, <2>1
    <2>6. \A k \in 1 .. l + w : down'[c][k] = Due(c, k)
      BY <2>3, <2>4, <2>5
    <2>. QED
      BY <2>1, <2>2, <2>6
  <1>13. /\ TcpRead' = "TCP_WAIT_ON_LENGTH" /\ up'[c] = << >> /\ req'[c] = n
         /\ part'[c] = 2 + BodyLen[n] /\ Handed(c, n)' /\ hid' = << >> /\ hidReplies' = << >>
    BY <1>1, <1>3 DEF Answering, Handed, Write, net, usb
  <1>14. CASE q + w = ReplyLen
    <2>1. Told(c, n, 0)'
      <3>1. 1 + ReplyLen * n + 0 = 1 + z + (q + w)
        BY <1>10, <1>14
      <3>. QED
        BY <1>12, <3>1 DEF Told
    <2>2. WriteBuf' = << >>
      <3>1. Len(WriteBuf') = 0
        BY <1>2, <1>5, <1>6, <1>7, <1>8, <1>14
      <3>. QED
        BY <1>7, <3>1, EmptySeq
    <2>. QED
      BY <1>13, <2>1, <2>2 DEF Done, Outstanding
  <1>15. CASE q + w # ReplyLen
    <2>1. q + w \in 0 .. ReplyLen - 1 /\ q + w \in 0 .. Len(t)
      BY <1>2, <1>4, <1>8, <1>15
    <2>2. Told(c, n - 1, q + w)'
      BY <1>9, <1>12 DEF Told
    <2>3. WriteBuf' = SubSeq(t, (q + w) + 1, ReplyLen)
      <3>. DEFINE r == SubSeq(t, (q + w) + 1, Len(t))
      <3>1. /\ r \in Seq(Units) /\ Len(r) = Len(t) - (q + w)
            /\ \A k \in 1 .. Len(t) - (q + w) : r[k] = t[(q + w) + k]
        BY <1>4, <2>1, RestIs
      <3>. HIDE DEF r
      <3>2. Len(WriteBuf) - w = ReplyLen - (q + w) /\ Len(r) = ReplyLen - (q + w)
            /\ Len(WriteBuf') = ReplyLen - (q + w)
        BY <1>2, <1>4, <1>5, <1>6, <1>7, <1>8, <3>1
      <3>3. ASSUME NEW k \in 1 .. ReplyLen - (q + w) PROVE WriteBuf'[k] = r[k]
        <4>1. w + k \in 1 .. ReplyLen - q /\ q + (w + k) = (q + w) + k
          BY <1>2, <1>5, <1>8
        <4>2. WriteBuf'[k] = WriteBuf[w + k] /\ WriteBuf[w + k] = t[q + (w + k)]
          BY <1>6, <1>7, <3>2, <4>1
        <4>3. r[k] = t[(q + w) + k]
          BY <1>4, <3>1
        <4>. QED
          BY <4>1, <4>2, <4>3
      <3>4. WriteBuf' = r
        BY <1>7, <3>1, <3>2, <3>3, SeqEqual
      <3>. QED
        BY <1>4, <3>4 DEF r
    <2>4. Answering(c, q + w)'
      BY <1>2, <1>13, <2>2 DEF Answering
    <2>. QED
      BY <1>1, <1>13, <2>1, <2>3, <2>4 DEF Writing, Outstanding
  <1>. QED
    BY <1>14, <1>15

LEMMA WriteKeeps ==
  ASSUME TypeOK, PlaceInv, NEW c \in Clients, sock = c, Stages(c), Write
  PROVE  Stages(c)'
  <1>1. CASE WriteBuf # << >>
    BY <1>1, StageIs, WriteMoves DEF Stages
  <1>2. CASE WriteBuf = << >>
    <2>1. PICK w \in 0 .. Len(WriteBuf) :
            /\ down' = [down EXCEPT ![sock] = down[sock] \o SubSeq(WriteBuf, 1, w)]
            /\ WriteBuf' \in Seq(Units) /\ Len(WriteBuf') = Len(WriteBuf) - w
            /\ SubSeq(WriteBuf, 1, w) \in Seq(Units) /\ Len(SubSeq(WriteBuf, 1, w)) = w
      BY WriteIs
    <2>2. w = 0
      BY <1>2, <2>1
    <2>3. WriteBuf' = << >> /\ SubSeq(WriteBuf, 1, w) = << >>
      BY <1>2, <2>1, <2>2, EmptySeq
    <2>4. down'[c] = down[c]
      <3>1. down[c] \o << >> = down[c]
        BY ClientTypes, ConcatEmptySeq
      <3>2. down'[c] = down[c] \o << >>
        BY <2>1, <2>3 DEF TypeOK
      <3>. QED
        BY <3>1, <3>2
    <2>5. Untouched(c)
      BY <1>2, <2>3, <2>4 DEF Untouched, Write, net, usb
    <2>. QED
      BY <2>5, StageFrame
  <1>. QED
    BY <1>1, <1>2

\* A client asks only when it has been sent all replies so far.
LEMMA AskMoves ==
  ASSUME TypeOK, NEW c \in Clients, Stages(c), Ask(c)
  PROVE  ReadingLength(c)'
  <1>1. PICK n : n = req[c]
    OBVIOUS
  <1>2. /\ n \in Nat /\ n < Len(BodyLen) /\ Len(BodyLen) \in Nat
        /\ ReplyLen \in Nat /\ ReplyLen > 1 /\ Len(down[c]) >= 1 + ReplyLen * n
    BY <1>1, ClientTypes, Count DEF Ask
  <1>3. ASSUME NEW q \in 0 .. ReplyLen - 1, Told(c, n - 1, q), n > 0 PROVE FALSE
    <2>1. PICK z, y : z = ReplyLen * (n - 1) /\ y = ReplyLen * n
      OBVIOUS
    <2>2. z \in Nat /\ y = z + ReplyLen
      BY <1>2, <1>3, <2>1, OneReplyMore
    <2>3. Len(down[c]) = 1 + z + q /\ Len(down[c]) >= 1 + y
      BY <1>2, <1>3, <2>1 DEF Told
    <2>. QED
      BY <1>2, <2>2, <2>3
  <1>4. 0 \in 0 .. ReplyLen - 1
    BY <1>2
  <1>5. ~Awaiting(c)
    <2>1. ReplyLen * 0 = 0 /\ Len(<< >>) = 0
      BY <1>2
    <2>. QED
      BY <1>1, <1>2, <2>1 DEF Awaiting
  <1>6. ~ReadingLength(c) /\ ~ReadingBody(c)
    BY <1>1, <1>3, <1>4 DEF ReadingLength, ReadingBody, Reading
  <1>7. ~Asked(c) /\ ~Answered(c) /\ ~Writing(c)
    BY <1>1, <1>3, <1>4 DEF Asked, Answered, Writing, Answering
  <1>8. Done(c)
    BY <1>5, <1>6, <1>7 DEF Stages
  <1>9. req'[c] = n + 1 /\ part'[c] = 0 /\ TcpRead' = "TCP_WAIT_ON_LENGTH" /\ up'[c] = << >>
    BY <1>1, <1>8 DEF Ask, Done, TypeOK
  <1>10. Outstanding(<< >>, << >>, << >>)' /\ Handed(c, n)' /\ Told(c, n, 0)'
    BY <1>1, <1>8 DEF Ask, usb, Done, Outstanding, Handed, Told
  <1>11. n + 1 > 0 /\ n + 1 \in 1 .. Len(BodyLen) /\ (n + 1) - 1 = n
    BY <1>2
  <1>12. 0 <= 2 + BodyLen[n + 1]
    BY <1>11, Bodies
  <1>13. Len(up'[c]) = 0 - 0 /\ 0 <= 0 /\ 1 .. 0 - 0 = {}
    BY <1>9
  <1>. QED
    BY <1>9, <1>10, <1>11, <1>12, <1>13 DEF ReadingLength, Reading

LEMMA ArriveMoves ==
  ASSUME TypeOK, NEW c \in Clients, Stages(c), Arrive(c)
  PROVE  Stages(c)'
  <1>1. PICK n, p, b : n = req[c] /\ p = part[c] /\ b = BodyLen[n]
    OBVIOUS
  <1>2. n > 0 /\ n \in Nat /\ p \in Nat /\ b \in Nat /\ p < 2 + b
    BY <1>1, ClientTypes DEF Arrive
  <1>3. part'[c] = p + 1 /\ up'[c] = Append(up[c], <<c, n, p + 1>>) /\ req'[c] = n
    BY <1>1 DEF Arrive, TypeOK
  <1>4. ReadingLength(c) \/ ReadingBody(c)
    <2>1. ~Awaiting(c) /\ ~Done(c)
      BY <1>1, <1>2 DEF Awaiting, Done
    <2>2. ~Asked(c) /\ ~Answered(c) /\ ~Writing(c)
      BY <1>1, <1>2 DEF Asked, Answered, Writing, Answering
    <2>. QED
      BY <2>1, <2>2 DEF Stages
  <1>5. ASSUME NEW x \in Nat, Reading(c, x) PROVE Reading(c, x)'
    <2>1. PICK u : u = up[c]
      OBVIOUS
    <2>2. /\ x <= p /\ u \in Seq(Units) /\ Len(u) = p - x
          /\ \A k \in 1 .. p - x : u[k] = <<c, n, x + k>>
      BY <1>1, <1>5, <2>1, ClientTypes DEF Reading
    <2>3. PICK v : v = Append(u, <<c, n, p + 1>>)
      OBVIOUS
    <2>4. Len(v) = (p - x) + 1 /\ v[(p - x) + 1] = <<c, n, p + 1>>
          /\ \A k \in 1 .. p - x : v[k] = u[k]
      <3>1. u \in Seq(Units \cup {<<c, n, p + 1>>})
        BY <2>2, SeqMonotonic
      <3>2. <<c, n, p + 1>> \in Units \cup {<<c, n, p + 1>>}
        OBVIOUS
      <3>3. /\ Len(Append(u, <<c, n, p + 1>>)) = Len(u) + 1
            /\ Append(u, <<c, n, p + 1>>)[Len(u) + 1] = <<c, n, p + 1>>
            /\ \A k \in 1 .. Len(u) : Append(u, <<c, n, p + 1>>)[k] = u[k]
        BY <3>1, <3>2, AppendProperties
      <3>. QED
        BY <2>2, <2>3, <3>3
    <2>5. (p - x) + 1 = (p + 1) - x /\ x <= p + 1 /\ p + 1 <= 2 + b
      BY <1>2, <2>2
    <2>6. ASSUME NEW k \in 1 .. (p + 1) - x PROVE v[k] = <<c, n, x + k>>
      <3>1. k \in 1 .. p - x \/ (k = (p - x) + 1 /\ x + k = p + 1)
        BY <1>2, <2>2
      <3>. QED
        BY <2>2, <2>4, <3>1
    <2>7. up'[c] = v
      BY <1>3, <2>1, <2>3
    <2>8. Outstanding(<< >>, << >>, << >>)' /\ Handed(c, n - 1)' /\ Told(c, n - 1, 0)'
      BY <1>1, <1>5 DEF Reading, Arrive, usb, Outstanding, Handed, Told
    <2>. QED
      BY <1>1, <1>2, <1>3, <2>4, <2>5, <2>6, <2>7, <2>8 DEF Reading
  <1>6. CASE ReadingLength(c)
    <2>1. Reading(c, 0)' /\ TcpRead' = "TCP_WAIT_ON_LENGTH"
      BY <1>5, <1>6 DEF ReadingLength, Arrive
    <2>. QED
      BY <2>1 DEF ReadingLength, Stages
  <1>7. CASE ReadingBody(c)
    <2>1. PICK x : x = Len(ReadBuf)
      OBVIOUS
    <2>2. x \in Nat /\ Reading(c, x)
      BY <1>7, <2>1, ClientTypes DEF ReadingBody
    <2>3. Reading(c, x)' /\ ReadBuf' = ReadBuf /\ TcpRestLen' = TcpRestLen /\ TcpRead' = TcpRead
      BY <1>5, <2>2 DEF Arrive
    <2>4. ReadingBody(c)'
      BY <1>1, <1>3, <1>7, <2>1, <2>3 DEF ReadingBody
    <2>. QED
      BY <2>4 DEF Stages
  <1>. QED
    BY <1>4, <1>6, <1>7

LEMMA GreetMoves ==
  ASSUME TypeOK, FreshInv, BytesInv, NEW c \in Clients, sock = c, Stages(c), Greet(c)
  PROVE  Stages(c)'
  <1>1. TcpRead = "TCP_WAIT_ON_START"
    BY NoneIsNoClient DEF Greet, BytesInv
  <1>2. Awaiting(c)
    BY <1>1, StageIs
  <1>3. up'[c] = <<Get>>
    BY DEF Greet, TypeOK
  <1>4. Awaiting(c)'
    BY <1>2, <1>3 DEF Awaiting, Outstanding, Handed, Greet, usb
  <1>. QED
    BY <1>4 DEF Stages

\* A client that is accepted with nothing outstanding starts afresh.
LEMMA AcceptMoves ==
  ASSUME TypeOK, PlaceInv, FreshInv, NothingOfFresh, WaitForTcpConnection, sock' # None, clean'
  PROVE  Stages(sock)'
  <1>1. backlog # << >> /\ DescriptorLeft /\ sock' = Head(backlog)
    BY DEF WaitForTcpConnection, PlaceInv
  <1>2. PICK c : c = backlog[1]
    OBVIOUS
  <1>3. sock' = c /\ c \in Clients /\ Fresh(c)
    <2>1. Head(backlog) = backlog[1] /\ Head(backlog) \in Clients
      BY <1>1, HeadTailProperties DEF TypeOK
    <2>. QED
      BY <1>1, <1>2, <2>1 DEF Fresh, Waits
  <1>4. /\ req[c] = 0 /\ part[c] = 0 /\ down[c] = << >> /\ up[c] \in {<< >>, <<Get>>}
        /\ Handed(c, 0)
    BY <1>3 DEF FreshInv, NothingOfFresh
  <1>5. /\ TcpRead' = "TCP_WAIT_ON_START" /\ Outstanding(<< >>, << >>, << >>)
        /\ UNCHANGED <<req, part, down, up, hid, hidReplies, WriteBuf, forwarded>>
    BY <1>1 DEF WaitForTcpConnection, Outstanding, usb
  <1>6. Awaiting(c)'
    BY <1>4, <1>5 DEF Awaiting, Outstanding, Handed
  <1>. QED
    BY <1>3, <1>6 DEF Stages

LEMMA StageStep ==
  ASSUME IInv, [Next]_vars
  PROVE  StageInv'
  <1>. SUFFICES ASSUME sock' # None, clean' PROVE Stages(sock)'
    BY DEF StageInv
  <1>0. TypeOK /\ PlaceInv /\ FreshInv /\ BytesInv /\ StageInv /\ NothingOfFresh
    BY DEF IInv
  <1>1. CASE WaitForTcpConnection /\ backlog # << >> /\ DescriptorLeft
    BY <1>0, <1>1, AcceptMoves
  <1>2. CASE ~(WaitForTcpConnection /\ backlog # << >> /\ DescriptorLeft)
    <2>1. sock' = sock /\ clean' = clean
      <3>1. CASE Read
        BY <1>0, <3>1, ReadCases DEF Kept, NothingRead, Closed, HalfRead, cNetTcpClose,
           StartRead, LengthRead, PartRead, PacketRead, Stays
      <3>2. CASE ~Read
        BY <1>2, <3>2 DEF Next, bridge_mode, vars, BridgeStart, Beacon, WaitForTcpConnection,
           Poll, PollFails, Write, Stop, Brick, StdinEnds, Connect, Greet, Ask, Arrive, Leave
      <3>. QED
        BY <3>1, <3>2
    <2>2. PICK c : c = sock
      OBVIOUS
    <2>3. c \in Clients /\ sock = c /\ sock' = c /\ clean /\ Stages(c)
      BY <1>0, <2>1, <2>2 DEF StageInv, TypeOK
    <2>. SUFFICES Stages(c)'
      BY <2>3
    <2>4. CASE UNCHANGED vars \/ PollFails \/ StdinEnds
      <3>1. Untouched(c)
        BY <2>4 DEF vars, PollFails, StdinEnds, net, usb, Untouched
      <3>. QED
        BY <2>3, <3>1, StageFrame
    <2>5. CASE BridgeStart \/ Beacon \/ WaitForTcpConnection \/ Stop
      <3>1. sock' = None
        BY <1>0, <2>1, <2>5 DEF BridgeStart, Beacon, WaitForTcpConnection, Stop, PlaceInv, TypeOK
      <3>. QED
        BY <3>1
    <2>6. CASE Poll
      <3>1. CASE WriteBuf = << >> /\ hidReplies # << >>
        BY <1>0, <2>3, <2>6, <3>1, StageIs, AnsweredToWriting DEF Stages
      <3>2. CASE ~(WriteBuf = << >> /\ hidReplies # << >>)
        <4>1. Untouched(c)
          BY <2>6, <3>2 DEF Poll, net, Untouched
        <4>. QED
          BY <2>3, <4>1, StageFrame
      <3>. QED
        BY <3>1, <3>2
    <2>7. CASE Read
      <3>1. /\ Kept
            /\ NothingRead \/ Closed \/ HalfRead \/ StartRead \/ LengthRead \/ PartRead \/ PacketRead
        BY <1>0, <2>7, ReadCases
      <3>2. CASE NothingRead
        <4>1. Untouched(c)
          BY <3>1, <3>2 DEF NothingRead, Stays, Kept, Untouched
        <4>. QED
          BY <2>3, <4>1, StageFrame
      <3>3. CASE Closed \/ HalfRead
        BY <3>3 DEF Closed, HalfRead, cNetTcpClose
      <3>4. CASE StartRead
        <4>1. Awaiting(c)
          BY <1>0, <2>3, <3>4, StageIs DEF StartRead
        <4>. QED
          BY <1>0, <2>3, <3>1, <3>4, <4>1, AwaitingToDone DEF Stages
      <3>5. CASE LengthRead
        <4>1. TcpRead = "TCP_WAIT_ON_LENGTH" /\ up[c] # << >>
          BY <2>3, <3>5 DEF LengthRead
        <4>2. ReadingLength(c)
          BY <1>0, <2>3, <4>1, StageIs DEF Awaiting, ReadingBody
        <4>. QED
          BY <1>0, <2>3, <3>1, <3>5, <4>2, LengthToBody DEF Stages
      <3>6. CASE PartRead
        <4>1. ReadingBody(c)
          BY <1>0, <2>3, <3>6, StageIs DEF PartRead, BytesRead
        <4>. QED
          BY <1>0, <2>3, <3>1, <3>6, <4>1, BodyToBody DEF Stages
      <3>7. CASE PacketRead
        <4>1. ReadingBody(c)
          BY <1>0, <2>3, <3>7, StageIs DEF PacketRead, BytesRead
        <4>. QED
          BY <1>0, <2>3, <3>1, <3>7, <4>1, BodyToAsked DEF Stages
      <3>. QED
        BY <3>1, <3>2, <3>3, <3>4, <3>5, <3>6, <3>7
    <2>8. CASE Write
      BY <1>0, <2>3, <2>8, WriteKeeps
    <2>9. CASE Brick
      <3>1. Asked(c)
        BY <1>0, <2>3, <2>9, StageIs DEF Brick
      <3>. QED
        BY <1>0, <2>3, <2>9, <3>1, AskedToAnswered DEF Stages
    <2>10. ASSUME NEW d \in Clients, Connect(d) \/ Leave(d) PROVE Stages(c)'
      <3>1. Untouched(c)
        BY <2>10 DEF Connect, Leave, usb, Untouched
      <3>. QED
        BY <2>3, <3>1, StageFrame
    <2>11. ASSUME NEW d \in Clients, d # c, Greet(d) \/ Ask(d) \/ Arrive(d) PROVE Stages(c)'
      <3>1. Untouched(c)
        BY <1>0, <2>3, <2>11 DEF Greet, Ask, Arrive, usb, Untouched, TypeOK
      <3>. QED
        BY <2>3, <3>1, StageFrame
    <2>12. CASE Greet(c) \/ Ask(c) \/ Arrive(c)
      BY <1>0, <2>3, <2>12, GreetMoves, AskMoves, ArriveMoves DEF Stages
    <2>. QED
      BY <2>4, <2>5, <2>6, <2>7, <2>8, <2>9, <2>10, <2>11, <2>12 DEF Next, bridge_mode
  <1>. QED
    BY <1>1, <1>2

-----------------------------------------------------------------------------
(***************************************************************************)
(* What the brick was handed.                                              *)
(***************************************************************************)

\* A step hands the brick nothing, or x, which is the next request of the
\* client that is connected or the first byte of it.
HandsOver(c, n, x) ==
  /\ x \in {PacketOf(c, n), FirstByteOf(c, n)}
  /\ sock = c /\ n = req[c] /\ Handed(c, n - 1)
  /\ forwarded' = Append(forwarded, x)
  /\ req' = req /\ UNCHANGED <<there, backlog>>

LEMMA ForwardedIs ==
  ASSUME IInv, [Next]_vars
  PROVE  \/ forwarded' = forwarded
         \/ \E c \in Clients, n \in 1 .. Len(BodyLen) : \E x : HandsOver(c, n, x)
  <1>0. TypeOK /\ PlaceInv /\ BytesInv /\ StageInv
    BY DEF IInv
  <1>1. CASE Read
    <2>1. /\ sock \in Clients /\ Kept
          /\ NothingRead \/ Closed \/ HalfRead \/ StartRead \/ LengthRead \/ PartRead \/ PacketRead
      BY <1>0, <1>1, ReadCases
    <2>2. CASE PacketRead /\ clean
      <3>1. PICK c, n : c = sock /\ n = req[c]
        OBVIOUS
      <3>2. c \in Clients /\ Stages(c)
        BY <1>0, <2>1, <2>2, <3>1, NoneIsNoClient DEF StageInv
      <3>3. ReadingBody(c)
        BY <1>0, <2>2, <3>2, StageIs DEF PacketRead, BytesRead
      <3>4. n \in 1 .. Len(BodyLen) /\ ReadBuf' = PacketOf(c, n) /\ Handed(c, n - 1)
        BY <1>0, <2>1, <2>2, <3>1, <3>2, <3>3, NewPacket
      <3>5. HandsOver(c, n, PacketOf(c, n))
        BY <2>1, <2>2, <3>1, <3>4 DEF HandsOver, PacketRead, Kept
      <3>. QED
        BY <3>2, <3>4, <3>5
    <2>4. CASE HalfRead /\ clean
      <3>1. PICK c, n, x : c = sock /\ n = req[c] /\ x = up[c]
        OBVIOUS
      <3>2. c \in Clients /\ Stages(c)
        BY <1>0, <2>1, <3>1, <2>4, NoneIsNoClient DEF StageInv
      <3>3. x \in Seq(Bytes) /\ Len(x) = 1 /\ x # << >>
        <4>1. x \in Seq(Bytes) /\ Len(x) = 1
          BY <2>4, <3>1 DEF HalfRead
        <4>2. Len(<< >>) = 0
          OBVIOUS
        <4>. QED
          BY <4>1, <4>2
      <3>4. ReadingLength(c)
        BY <1>0, <2>4, <3>1, <3>2, <3>3, StageIs DEF HalfRead, Awaiting, ReadingBody
      <3>5. n \in 1 .. Len(BodyLen) /\ Handed(c, n - 1) /\ part[c] \in Nat
        BY <1>0, <3>1, <3>2, <3>4, ClientTypes DEF ReadingLength, Reading
      <3>6. x[1] = <<c, n, 1>>
        <4>1. Len(x) = part[c] - 0 /\ \A k \in 1 .. part[c] - 0 : x[k] = <<c, n, 0 + k>>
          BY <3>1, <3>4 DEF ReadingLength, Reading
        <4>2. part[c] = 1
          BY <3>3, <3>5, <4>1
        <4>. QED
          BY <4>1, <4>2
      <3>7. x = FirstByteOf(c, n)
        <4>1. \A k \in 1 .. 1 : x[k] = FirstByteOf(c, n)[k]
          BY <3>2, <3>5, <3>6, FirstByteIs
        <4>. QED
          BY <3>2, <3>3, <3>5, <4>1, FirstByteIs, SeqEqual
      <3>8. HandsOver(c, n, x)
        BY <2>1, <2>4, <3>1, <3>5, <3>7 DEF HandsOver, HalfRead, Kept
      <3>. QED
        BY <3>2, <3>5, <3>8
    <2>3. CASE ~(PacketRead /\ clean) /\ ~(HalfRead /\ clean)
      BY <2>1, <2>3 DEF NothingRead, Closed, HalfRead, StartRead, LengthRead, PartRead,
         PacketRead
    <2>. QED
      BY <2>2, <2>3, <2>4
  <1>2. CASE ~Read
    BY <1>2 DEF Next, bridge_mode, vars, BridgeStart, Beacon, WaitForTcpConnection, Poll,
       PollFails, Write, Stop, Brick, StdinEnds, Connect, Greet, Ask, Arrive, Leave, usb
  <1>. QED
    BY <1>1, <1>2

\* The packets after a hand-over: those before it and the new one.
Longer(c, n, x, l) ==
  /\ l \in Nat /\ Len(forwarded') = l + 1
  /\ forwarded' \in Seq(Seq(Units))
  /\ forwarded'[l + 1] = x /\ x[1] = <<c, n, 1>>
  /\ \A i \in 1 .. l :
       /\ forwarded'[i] = forwarded[i] /\ forwarded[i] # x
       /\ \A m \in 1 .. Len(BodyLen) : forwarded[i] # FirstByteOf(c, m)
  /\ n > 1 => l > 0 /\ forwarded[l] = PacketOf(c, n - 1)

LEMMA HandedOver ==
  ASSUME IInv, NEW c \in Clients, NEW n \in 1 .. Len(BodyLen), NEW x, HandsOver(c, n, x),
         NEW l, l = Len(forwarded)
  PROVE  Longer(c, n, x, l)
  <1>0. TypeOK
    BY DEF IInv
  <1>1. x \in Seq(Units) /\ x[1] = <<c, n, 1>> /\ forwarded \in Seq(Seq(Units)) /\ l \in Nat
    <2>1. x \in Seq(Bytes) /\ x[1] = <<c, n, 1>>
      BY PacketIs, FirstByteIs DEF HandsOver
    <2>. QED
      BY <1>0, <2>1, SeqMonotonic, LenProperties DEF Units, TypeOK
  <1>2. /\ forwarded' \in Seq(Seq(Units)) /\ Len(forwarded') = l + 1
        /\ forwarded'[l + 1] = x /\ \A i \in 1 .. l : forwarded'[i] = forwarded[i]
    BY <1>1, AppendProperties DEF HandsOver
  <1>3. ASSUME NEW i \in 1 .. l, forwarded[i] = x PROVE FALSE
    <2>1. n <= n - 1
      BY <1>3 DEF HandsOver, Handed
    <2>. QED
      BY <2>1
  <1>4. ASSUME n > 1 PROVE l > 0 /\ forwarded[l] = PacketOf(c, n - 1)
    <2>1. n - 1 > 0
      BY <1>4
    <2>2. forwarded # << >> /\ forwarded[l] = PacketOf(c, n - 1)
      BY <2>1 DEF HandsOver, Handed
    <2>3. l # 0
      BY <1>1, <2>2, EmptySeq
    <2>. QED
      BY <1>1, <2>2, <2>3
  <1>5. \A i \in 1 .. l, m \in 1 .. Len(BodyLen) : forwarded[i] # FirstByteOf(c, m)
    BY DEF HandsOver, Handed
  <1>. QED
    BY <1>1, <1>2, <1>3, <1>4, <1>5 DEF Longer

LEMMA NothingOfFreshStep ==
  ASSUME IInv, [Next]_vars, FreshInv'
  PROVE  NothingOfFresh'
  <1>0. TypeOK /\ FreshInv /\ NothingOfFresh /\ PlaceInv /\ BytesInv
    BY DEF IInv
  <1>. SUFFICES ASSUME NEW d \in Clients, Fresh(d)' PROVE Handed(d, 0)'
    BY DEF NothingOfFresh
  <1>1. Fresh(d)
    <2>1. CASE UNCHANGED <<there, backlog>>
      BY <2>1 DEF Fresh, Waits
    <2>2. CASE WaitForTcpConnection
      <3>1. backlog \in Seq(Clients) /\ Len(backlog) <= 1 /\ there' = there
        BY <1>0, <2>2 DEF WaitForTcpConnection, FreshInv, TypeOK
      <3>2. CASE backlog # << >> /\ DescriptorLeft
        <4>1. Len(backlog) \in Nat \ {0} /\ backlog' = Tail(backlog)
          BY <2>2, <3>1, <3>2, EmptySeq DEF WaitForTcpConnection
        <4>2. Tail(backlog) \in Seq(Clients) /\ Len(Tail(backlog)) = Len(backlog) - 1
          BY <3>1, <3>2, HeadTailProperties
        <4>3. Len(Tail(backlog)) = 0
          <5>. DEFINE k == Len(backlog)
          <5>1. k <= 1 /\ k \in Nat /\ k # 0
            BY <3>1, <4>1
          <5>. HIDE DEF k
          <5>2. k - 1 = 0
            BY <5>1
          <5>. QED
            BY <4>2, <5>2 DEF k
        <4>4. backlog' = << >>
          BY <4>1, <4>2, <4>3, EmptySeq
        <4>. QED
          BY <3>1, <4>4 DEF Fresh, Waits
      <3>3. CASE ~(backlog # << >> /\ DescriptorLeft)
        BY <2>2, <3>3 DEF WaitForTcpConnection, Fresh, Waits
      <3>. QED
        BY <3>2, <3>3
    <2>3. ASSUME NEW c \in Clients, Connect(c) PROVE Fresh(d)
      <3>1. there[c] = "new" /\ backlog' = <<c>> /\ there' = [there EXCEPT ![c] = "silent"]
        BY <2>3 DEF Connect
      <3>. QED
        BY <1>0, <3>1 DEF Fresh, Waits, TypeOK
    <2>4. ASSUME NEW c \in Clients, Greet(c) \/ Leave(c) PROVE Fresh(d)
      <3>1. backlog' = backlog /\ (there'[d] = there[d] \/ there'[d] # "new")
        BY <1>0, <2>4 DEF Greet, Leave, TypeOK
      <3>. QED
        BY <3>1 DEF Fresh, Waits
    <2>5. ASSUME NEW c \in Clients, Ask(c) \/ Arrive(c) PROVE Fresh(d)
      BY <2>1, <2>5 DEF Ask, Arrive
    <2>6. CASE BridgeStart \/ Beacon \/ Poll \/ PollFails \/ Write \/ Stop \/ Brick
               \/ UNCHANGED vars \/ Read \/ StdinEnds
      BY <2>1, <2>6 DEF BridgeStart, Beacon, Poll, PollFails, Write, Stop, Brick, vars, Read,
         StdinEnds, net
    <2>. QED
      BY <2>2, <2>3, <2>4, <2>5, <2>6 DEF Next, bridge_mode
  <1>2. Handed(d, 0) /\ sock # d
    BY <1>0, <1>1 DEF NothingOfFresh, FreshInv
  <1>3. CASE forwarded' = forwarded
    BY <1>2, <1>3 DEF Handed
  <1>4. ASSUME NEW c \in Clients, NEW n \in 1 .. Len(BodyLen), NEW x, HandsOver(c, n, x)
        PROVE  Handed(d, 0)'
    <2>1. PICK l : l = Len(forwarded)
      OBVIOUS
    <2>2. /\ l \in Nat /\ Len(forwarded') = l + 1 /\ forwarded'[l + 1] = x
          /\ x[1] = <<c, n, 1>> /\ \A i \in 1 .. l : forwarded'[i] = forwarded[i]
      <3>1. Longer(c, n, x, l)
        BY <1>4, <2>1, HandedOver
      <3>. QED
        BY <3>1 DEF Longer
    <2>3. c # d
      BY <1>2, <1>4 DEF HandsOver
    <2>4. ASSUME NEW i \in 1 .. l + 1, NEW m \in 1 .. Len(BodyLen)
          PROVE  /\ forwarded'[i] = PacketOf(d, m) => m <= 0
                 /\ forwarded'[i] # FirstByteOf(d, m)
      <3>1. CASE i = l + 1
        <4>1. PacketOf(d, m)[1] = <<d, m, 1>> /\ FirstByteOf(d, m)[1] = <<d, m, 1>>
          BY PacketIs, FirstByteIs
        <4>2. <<d, m, 1>> # <<c, n, 1>>
          BY <2>3
        <4>. QED
          BY <2>2, <3>1, <4>1, <4>2
      <3>2. CASE i # l + 1
        <4>1. i \in 1 .. l
          BY <2>2, <3>2
        <4>. QED
          BY <1>2, <2>1, <2>2, <4>1 DEF Handed
      <3>. QED
        BY <3>1, <3>2
    <2>. QED
      BY <2>2, <2>4 DEF Handed
  <1>. QED
    BY <1>3, <1>4, ForwardedIs

\* What WholePackets says of packet i of g, which may follow nothing of d.
Placed(g, i, d, m) ==
  /\ \/ g[i] = PacketOf(d, m)
     \/ /\ g[i] = FirstByteOf(d, m)
        /\ \A j \in i + 1 .. Len(g) : g[j][1][1] # d
  /\ m > 1 => i > 1 /\ g[i - 1] = PacketOf(d, m - 1)

LEMMA WholeStep ==
  ASSUME IInv, [Next]_vars
  PROVE  WholePackets'
  <1>0. TypeOK /\ WholePackets /\ forwarded \in Seq(Seq(Units)) /\ Len(forwarded) \in Nat
    BY LenProperties DEF IInv, TypeOK
  <1>1. \A c \in Clients : req[c] \in Nat /\ req'[c] \in Int /\ req[c] <= req'[c]
    <2>1. \A c \in Clients : req[c] \in Nat
      BY <1>0, ClientTypes
    <2>2. req' = req \/ \E c \in Clients : req' = [req EXCEPT ![c] = req[c] + 1]
      BY DEF Next, bridge_mode, vars, BridgeStart, Beacon, WaitForTcpConnection, Poll,
         PollFails, Read, Write, Stop, Brick, StdinEnds, Connect, Greet, Ask, Arrive, Leave, net
    <2>3. CASE req' = req
      BY <2>1, <2>3
    <2>4. ASSUME NEW c \in Clients, req' = [req EXCEPT ![c] = req[c] + 1], NEW d \in Clients
          PROVE  req[d] \in Nat /\ req'[d] \in Int /\ req[d] <= req'[d]
      <3>1. req'[d] = req[d] \/ req'[d] = req[d] + 1
        BY <1>0, <2>4 DEF TypeOK
      <3>. QED
        BY <2>1, <3>1
    <2>. QED
      BY <2>2, <2>3, <2>4
  <1>2. CASE forwarded' = forwarded
    <2>1. ASSUME NEW i \in 1 .. Len(forwarded)
          PROVE  \E c \in Clients, n \in 1 .. Len(BodyLen) :
                   n <= req'[c] /\ Placed(forwarded, i, c, n)
      <3>1. PICK c \in Clients, n \in 1 .. Len(BodyLen) :
              n <= req[c] /\ Placed(forwarded, i, c, n)
        BY <1>0 DEF WholePackets, Placed
      <3>2. n <= req'[c]
        BY <1>1, <3>1
      <3>. QED
        BY <3>1, <3>2
    <2>. QED
      BY <1>0, <1>2, <2>1 DEF WholePackets, Placed
  <1>3. ASSUME NEW c \in Clients, NEW n \in 1 .. Len(BodyLen), NEW x, HandsOver(c, n, x)
        PROVE  WholePackets'
    <2>1. PICK l, g : l = Len(forwarded) /\ g = forwarded'
      OBVIOUS
    <2>2. /\ l \in Nat /\ Len(g) = l + 1 /\ g \in Seq(Seq(Units)) /\ g[l + 1] = x
          /\ x[1] = <<c, n, 1>>
          /\ \A i \in 1 .. l :
               /\ g[i] = forwarded[i] /\ forwarded[i] # x
               /\ \A m \in 1 .. Len(BodyLen) : forwarded[i] # FirstByteOf(c, m)
          /\ n > 1 => l > 0 /\ forwarded[l] = PacketOf(c, n - 1)
      <3>1. Longer(c, n, x, l)
        BY <1>3, <2>1, HandedOver
      <3>. QED
        BY <2>1, <3>1 DEF Longer
    <2>3. req' = req /\ n = req[c] /\ x \in {PacketOf(c, n), FirstByteOf(c, n)}
      BY <1>3 DEF HandsOver
    <2>4. ASSUME NEW i \in 1 .. l + 1
          PROVE  \E d \in Clients, m \in 1 .. Len(BodyLen) :
                   m <= req[d] /\ Placed(g, i, d, m)
      <3>1. CASE i = l + 1
        <4>1. n > 1 => i > 1 /\ i - 1 \in 1 .. l /\ i - 1 = l
          BY <2>2, <3>1
        <4>2. n <= req[c]
          BY <2>3
        <4>3. \A j \in i + 1 .. Len(g) : FALSE
          BY <2>2, <3>1
        <4>4. Placed(g, i, c, n)
          BY <2>2, <2>3, <3>1, <4>1, <4>3 DEF Placed
        <4>. QED
          BY <4>2, <4>4
      <3>2. CASE i # l + 1
        <4>1. i \in 1 .. l
          BY <2>2, <3>2
        <4>2. PICK d \in Clients, m \in 1 .. Len(BodyLen) :
                m <= req[d] /\ Placed(forwarded, i, d, m)
          BY <1>0, <2>1, <4>1 DEF WholePackets, Placed
        <4>3. i > 1 => i - 1 \in 1 .. l
          BY <2>2, <4>1
        <4>4. m > 1 => i > 1 /\ g[i - 1] = PacketOf(d, m - 1)
          BY <2>2, <4>2, <4>3 DEF Placed
        <4>5. CASE g[i] = PacketOf(d, m)
          BY <4>2, <4>4, <4>5 DEF Placed
        <4>6. CASE g[i] # PacketOf(d, m)
          <5>1. /\ forwarded[i] = FirstByteOf(d, m) /\ g[i] = FirstByteOf(d, m)
                /\ \A j \in i + 1 .. l : forwarded[j][1][1] # d
            BY <2>1, <2>2, <4>1, <4>2, <4>6 DEF Placed
          <5>2. c # d
            BY <2>2, <4>1, <5>1
          <5>3. ASSUME NEW j \in i + 1 .. Len(g) PROVE g[j][1][1] # d
            <6>1. CASE j = l + 1
              BY <2>2, <5>2, <6>1
            <6>2. CASE j # l + 1
              <7>1. j \in i + 1 .. l /\ j \in 1 .. l
                BY <2>2, <4>1, <6>2
              <7>. QED
                BY <2>2, <5>1, <7>1
            <6>. QED
              BY <6>1, <6>2
          <5>. QED
            BY <4>2, <4>4, <5>1, <5>3 DEF Placed
        <4>. QED
          BY <4>5, <4>6
      <3>. QED
        BY <3>1, <3>2
    <2>5. ASSUME NEW i \in 1 .. l + 1, NEW j \in 1 .. l + 1, g[i] = g[j] PROVE i = j
      <3>1. i \in 1 .. l \/ i = l + 1
        BY <2>2
      <3>2. j \in 1 .. l \/ j = l + 1
        BY <2>2
      <3>3. CASE i \in 1 .. l /\ j \in 1 .. l
        <4>1. forwarded[i] = forwarded[j] /\ i \in DOMAIN forwarded /\ j \in DOMAIN forwarded
          BY <1>0, <2>1, <2>2, <2>5, <3>3, LenProperties
        <4>. QED
          BY <1>0, <4>1 DEF WholePackets, IsInjective
      <3>. QED
        BY <2>2, <2>5, <3>1, <3>2, <3>3
    <2>6. DOMAIN g = 1 .. l + 1
      BY <2>2, LenProperties
    <2>7. IsInjective(g)
      BY <2>5, <2>6 DEF IsInjective
    <2>8. ASSUME NEW i \in 1 .. Len(forwarded')
          PROVE  \E d \in Clients, m \in 1 .. Len(BodyLen) :
                   m <= req'[d] /\ Placed(forwarded', i, d, m)
      BY <2>1, <2>2, <2>3, <2>4
    <2>9. IsInjective(forwarded')
      BY <2>1, <2>7
    <2>. QED
      BY <2>8, <2>9 DEF WholePackets, Placed
  <1>. QED
    BY <1>2, <1>3, ForwardedIs

-----------------------------------------------------------------------------
(***************************************************************************)
(* The theorems.                                                           *)
(***************************************************************************)

LEMMA InitIInv == Init => IInv
  <1>. SUFFICES ASSUME Init PROVE IInv
    OBVIOUS
  <1>1. /\ << >> \in Seq(Units) /\ << >> \in Seq(Clients) /\ << >> \in Seq(Seq(Units))
        /\ << >> \in Seq(Seq(Bytes) \ {<< >>}) /\ Len(<< >>) = 0
    BY EmptySeq
  <1>2. 0 \in 0 .. Len(BodyLen)
    BY Count
  <1>3. TypeOK
    BY <1>1, <1>2 DEF Init, TypeOK
  <1>4. PlaceInv
    BY DEF Init, PlaceInv
  <1>5. FreshInv
    BY <1>1, NoneIsNoClient DEF Init, FreshInv, Fresh, Waits
  <1>6. BytesInv /\ StageInv
    BY <1>1 DEF Init, BytesInv, StageInv
  <1>7. NothingOfFresh
    BY DEF Init, NothingOfFresh, Handed
  <1>8. WholePackets
    BY DEF Init, WholePackets, IsInjective
  <1>. QED
    BY <1>3, <1>4, <1>5, <1>6, <1>7, <1>8 DEF IInv

LEMMA NextIInv == IInv /\ [Next]_vars => IInv'
  <1>. SUFFICES ASSUME IInv, [Next]_vars PROVE IInv'
    OBVIOUS
  <1>1. TypeOK /\ PlaceInv /\ FreshInv /\ BytesInv
    BY DEF IInv
  <1>2. TypeOK' /\ PlaceInv' /\ FreshInv' /\ BytesInv'
    BY <1>1, TypeStep, PlaceStep, FreshStep, BytesStep
  <1>3. StageInv' /\ NothingOfFresh' /\ WholePackets'
    BY <1>2, StageStep, NothingOfFreshStep, WholeStep
  <1>. QED
    BY <1>2, <1>3 DEF IInv

LEMMA Invariant == Spec => []IInv
  BY InitIInv, NextIInv, PTL DEF Spec

\* What a client was sent is the confirmation and part of its own replies.
LEMMA SentIsExpected ==
  ASSUME TypeOK, NEW c \in Clients, Stages(c)
  PROVE  IsPrefix(down[c], Expected(c))
  <1>1. PICK n, z, s, e : n = req[c] /\ z = 1 + ReplyLen * n /\ s = down[c] /\ e = Expected(c)
    OBVIOUS
  <1>2. n \in Nat /\ ReplyLen \in Nat /\ ReplyLen > 1 /\ s \in Seq(Units) /\ Len(s) \in Nat
    BY <1>1, ClientTypes, Count
  <1>3. ReplyLen * n \in Nat /\ z \in Nat /\ ReplyLen * 0 = 0
    BY <1>1, <1>2
  <1>4. e = [k \in 1 .. z |-> Due(c, k)]
    BY <1>1 DEF Expected
  <1>5. Len(e) = z /\ \A k \in 1 .. z : e[k] = Due(c, k)
    <2>. DEFINE S == {Due(c, k) : k \in 1 .. z}
    <2>1. \A k \in 1 .. z : Due(c, k) \in S
      OBVIOUS
    <2>. HIDE DEF S
    <2>2. e \in Seq(S)
      BY <1>3, <1>4, <2>1, IsASeq
    <2>. QED
      BY <1>3, <1>4, <2>2, LenProperties
  <1>6. Len(s) <= z /\ \A k \in 1 .. Len(s) : s[k] = Due(c, k)
    <2>1. CASE Awaiting(c)
      BY <1>1, <1>3, <2>1 DEF Awaiting
    <2>2. CASE Done(c)
      BY <1>1, <1>2, <1>3, <2>2 DEF Done, Told
    <2>3. ASSUME NEW q \in 0 .. ReplyLen - 1, Told(c, n - 1, q), n > 0
          PROVE  Len(s) <= z /\ \A k \in 1 .. Len(s) : s[k] = Due(c, k)
      <3>1. PICK y : y = ReplyLen * (n - 1)
        OBVIOUS
      <3>2. y \in Nat /\ ReplyLen * n = y + ReplyLen
        BY <1>2, <2>3, <3>1, OneReplyMore
      <3>3. Len(s) = 1 + y + q /\ \A k \in 1 .. Len(s) : s[k] = Due(c, k)
        BY <1>1, <2>3, <3>1 DEF Told
      <3>4. z = 1 + y + ReplyLen
        BY <1>1, <1>2, <3>2
      <3>. QED
        BY <1>2, <3>2, <3>3, <3>4
    <2>4. 0 \in 0 .. ReplyLen - 1
      BY <1>2
    <2>5. CASE ReadingLength(c) \/ ReadingBody(c)
      BY <1>1, <2>3, <2>4, <2>5 DEF ReadingLength, ReadingBody, Reading
    <2>6. CASE Asked(c) \/ Answered(c) \/ Writing(c)
      BY <1>1, <2>3, <2>4, <2>6 DEF Asked, Answered, Writing, Answering
    <2>. QED
      BY <2>1, <2>2, <2>5, <2>6 DEF Stages
  <1>7. SubSeq(s, 1, Len(s)) = SubSeq(e, 1, Len(s))
    <2>. DEFINE S == {Due(c, k) : k \in 1 .. Len(s)}
    <2>1. \A k \in 1 .. Len(s) : s[k] \in S
      BY <1>6
    <2>2. \A k \in 1 .. Len(s) : e[k] = s[k]
      <3>1. \A k \in 1 .. Len(s) : k \in 1 .. z
        BY <1>2, <1>3, <1>6
      <3>. QED
        BY <1>5, <1>6, <3>1
    <2>. HIDE DEF S
    <2>3. \A k \in 1 .. Len(s) : e[k] \in S
      BY <2>1, <2>2
    <2>4. PICK a, b : a = SubSeq(s, 1, Len(s)) /\ b = SubSeq(e, 1, Len(s))
      OBVIOUS
    <2>5. /\ a \in Seq(S) /\ Len(a) = Len(s)
          /\ \A k \in 1 .. Len(s) : a[k] = s[k]
      BY <1>2, <2>1, <2>4, SubSeqProperties
    <2>6. /\ b \in Seq(S) /\ Len(b) = Len(s)
          /\ \A k \in 1 .. Len(s) : b[k] = e[k]
      BY <1>2, <2>3, <2>4, SubSeqProperties
    <2>7. a = b
      BY <2>2, <2>5, <2>6, SeqEqual
    <2>. QED
      BY <2>4, <2>7
  <1>. QED
    BY <1>1, <1>5, <1>6, <1>7 DEF IsPrefix

\* Every variable of bridge_mode() stays in its type, and there is a
\* connection exactly in the state TCP_CONNECTED.
THEOREM TypeCorrect == Spec => []TypeOK
  <1>1. IInv => TypeOK
    BY DEF IInv
  <1>. QED
    BY <1>1, Invariant, PTL

\* However TCP cuts the stream of a clean connection, bridge_mode() hands
\* the brick whole packets, in order, none twice and none left out, and of a
\* length field cut in two one byte, as the last of that client.
THEOREM PacketsCorrect == Spec => []WholePackets
  <1>1. IInv => WholePackets
    BY DEF IInv
  <1>. QED
    BY <1>1, Invariant, PTL

\* A client that connects while no reply is outstanding is sent nothing but
\* the confirmation and the replies to its own requests, in order, however
\* many writes each of them takes.
THEOREM RepliesCorrect == Spec => []RepliesToAsker
  <1>1. IInv => RepliesToAsker
    <2>. SUFFICES ASSUME IInv, sock # None, clean PROVE IsPrefix(down[sock], Expected(sock))
      BY DEF RepliesToAsker
    <2>1. sock \in Clients /\ TypeOK /\ Stages(sock)
      BY DEF IInv, TypeOK, StageInv
    <2>. QED
      BY <2>1, SentIsExpected
  <1>. QED
    BY <1>1, Invariant, PTL
=============================================================================
