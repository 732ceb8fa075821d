------------------------------- MODULE Serial -------------------------------
(***************************************************************************)
(* The byte-stream transport (bt-unix.c), used for serial ports and, by    *)
(* the same functions, for TCP (tcp.c).  bt_write puts a packet into the   *)
(* stream without its HID report number, in as many pieces as write()      *)
(* takes; bt_read waits for a first byte, reads the length field and then  *)
(* the rest, in as many pieces as read() delivers.                         *)
(*                                                                         *)
(* The caller (a command) is represented by the calls it makes, one after  *)
(* the other; over this transport every read has a timeout.  The brick is  *)
(* external: it cuts what it receives by the length fields and sends       *)
(* packets.  Its bytes arrive one by one.  The line may end (Bluetooth is  *)
(* turned off) or fail at any time.                                        *)
(***************************************************************************)
EXTENDS Integers, SequencesExt

CONSTANTS
  Base,        \* values of a byte (256)
  Requests,    \* what follows the length field in the packets written
  ListBody,    \* the same for CONTINUE_LIST_FILES
  Replies,     \* what follows the length field in the brick's packets
  count,       \* size of the caller's reply buffer
  MaxWrites,   \* calls of bt_write on one connection
  MaxUnread    \* unread bytes above which the brick sends nothing

Byte == 0 .. Base - 1

ASSUME BytesAssumption ==
  /\ Base \in Nat \ {0, 1}
  /\ \A b \in Requests \cup Replies \cup {ListBody} :
       b \in Seq(Byte) /\ Len(b) < Base * Base
  /\ Len(ListBody) >= 2
ASSUME BoundsAssumption ==
  count \in Nat \ {0} /\ MaxWrites \in Nat /\ MaxUnread \in Nat

VARIABLES
  pc,        \* "closed", "idle" between two calls, or the place in a call
  todo,      \* bt_write: buf + sent, what is still to be written
  sent,      \* bt_write: bytes written; what the last call returned
  buf,       \* bt_read: the recvd bytes received so far
  packet_len,   \* bt_read
  result,    \* what the last bt_read returned, and the bytes it had read
  arrived,   \* bytes in the read descriptor
  coming,    \* bytes on their way to it
  line,      \* "up", "eof" or "error"
  wire,      \* the bytes the brick receives
  written,   \* history: packets given to bt_write on this connection
  clean,     \* history: packet borders on this connection are intact
  lost       \* history: a write() of this connection has failed

writing == <<todo, sent, wire, written, lost>>
reading == <<buf, packet_len, result>>
peer == <<coming, line>>
vars == <<pc, writing, reading, peer, arrived, clean>>

\* The two bytes of packetLen, low byte first.
LenField(n) == <<n % Base, n \div Base>>

\* packet_alloc: report number, packetLen, and what it counts.
packet_alloc(body) == <<0>> \o LenField(Len(body)) \o body

\* CONTINUE_LIST_FILES is not allocated; its packetLen is a constant (7)
\* that is two less than what follows it.
CONTINUE_LIST_FILES == <<0>> \o LenField(Len(ListBody) - 2) \o ListBody

\* How the brick cuts a stream into packets, and what is left of it.
Cut[s \in Seq(Byte)] ==
  IF Len(s) < 2 \/ Len(s) < 2 + s[1] + Base * s[2]
    THEN [packets |-> << >>, rest |-> s]
    ELSE LET n == 2 + s[1] + Base * s[2]
             more == Cut[SubSeq(s, n + 1, Len(s))]
         IN  [packets |-> <<SubSeq(s, 1, n)>> \o more.packets, rest |-> more.rest]

Frames(s) == Cut[s].packets
Unframed(s) == Cut[s].rest

Nothing(n) == [n |-> n, bytes |-> << >>]

Init ==
  /\ pc = "closed"
  /\ todo = << >> /\ sent = 0
  /\ buf = << >> /\ packet_len = 2 /\ result = Nothing(0)
  /\ arrived = << >> /\ coming = << >> /\ line = "up"
  /\ wire = << >> /\ written = << >>
  /\ clean = TRUE /\ lost = FALSE

-----------------------------------------------------------------------------
(***************************************************************************)
(* Opening discards what has arrived (TCSAFLUSH).  What is still on its    *)
(* way, or an unfinished packet at the brick, may be gone with the old     *)
(* connection or not.                                                      *)
(***************************************************************************)
bt_open ==
  /\ pc = "closed"
  /\ pc' = "idle"
  /\ arrived' = << >> /\ line' = "up"
  /\ \/ coming' = << >> /\ wire' = << >>
     \/ coming' = coming /\ wire' = Unframed(wire)
  /\ clean' = (coming' = << >> /\ wire' = << >>)
  /\ written' = << >> /\ lost' = FALSE
  /\ sent' = 0 /\ result' = Nothing(0)
  /\ UNCHANGED <<todo, buf, packet_len>>

bt_close ==
  /\ pc = "idle"
  /\ pc' = "closed"
  /\ arrived' = << >>
  /\ UNCHANGED <<writing, reading, peer, clean>>

-----------------------------------------------------------------------------
(***************************************************************************)
(* bt_write                                                                *)
(***************************************************************************)

\* Mutant: the report number is written, too.
WithReport(packet) == packet

\* buf++, count--: the HID report number is omitted.
Payload(packet) == Tail(packet)

CallWrite ==
  /\ pc = "idle" /\ Len(written) < MaxWrites
  /\ \E p \in {packet_alloc(b) : b \in Requests} \cup {CONTINUE_LIST_FILES} :
       todo' = Payload(p) /\ written' = Append(written, Tail(p))
  /\ pc' = "write" /\ sent' = 0
  /\ UNCHANGED <<wire, lost, reading, peer, arrived, clean>>

\* One write() takes some of the bytes; the loop ends with the last.
WriteSome ==
  /\ pc = "write" /\ line = "up"
  /\ \E n \in 1 .. Len(todo) :
       /\ wire' = wire \o SubSeq(todo, 1, n)
       /\ todo' = SubSeq(todo, n + 1, Len(todo))
       /\ sent' = sent + n
  /\ pc' = IF todo' = << >> THEN "idle" ELSE "write"
  /\ UNCHANGED <<written, lost, reading, peer, arrived, clean>>

\* write() returns -1: the loop is left, sent is returned.
WriteFails ==
  /\ pc = "write"
  /\ pc' = "idle" /\ todo' = << >>
  /\ lost' = TRUE
  /\ UNCHANGED <<sent, wire, written, reading, peer, arrived, clean>>

-----------------------------------------------------------------------------
(***************************************************************************)
(* bt_read                                                                 *)
(***************************************************************************)
CallRead ==
  /\ pc = "idle"
  /\ pc' = "select"
  /\ UNCHANGED <<writing, reading, peer, arrived, clean>>

\* The locals are given their initial values for the next call.
ReturnRead(r) ==
  pc' = "idle" /\ result' = r /\ buf' = << >> /\ packet_len' = 2

\* select() returns with a readable descriptor or after the timeout.
SelectReady ==
  /\ pc = "select"
  /\ arrived # << >> \/ line # "up"
  /\ pc' = "header"
  /\ UNCHANGED <<writing, reading, peer, arrived, clean>>

SelectTimeout ==
  /\ pc = "select"
  /\ arrived = << >> /\ line = "up"
  /\ ReturnRead(Nothing(0))
  /\ UNCHANGED <<writing, peer, arrived, clean>>

\* One read(): all that is there, but not more than the packet needs.
Received == Min({packet_len - Len(buf), Len(arrived)})

TakeBytes ==
  /\ arrived # << >>
  /\ arrived' = SubSeq(arrived, Received + 1, Len(arrived))

Filled == buf \o SubSeq(arrived, 1, Received)

\* Mutant: the length field is not counted.
LengthOnly(b) == b[1] + Base * b[2]

\* packet_len, with the two bytes already read.
PacketLen(b) == 2 + b[1] + Base * b[2]

TooLong == PacketLen(Filled) > 2 * count

\* A packet that is too long is left where it is, without its length field.
ReadHeader ==
  /\ pc = "header"
  /\ TakeBytes
  /\ CASE Len(Filled) < 2 ->
            buf' = Filled /\ UNCHANGED <<pc, packet_len, result, clean>>
       [] Len(Filled) = 2 /\ TooLong ->
            /\ ReturnRead(Nothing(-1))
            /\ clean' = FALSE
       [] Len(Filled) = 2 /\ ~TooLong /\ PacketLen(Filled) = 2 ->
            /\ ReturnRead([n |-> 2, bytes |-> Filled])
            /\ UNCHANGED clean
       [] OTHER ->
            /\ pc' = "body" /\ buf' = Filled
            /\ packet_len' = PacketLen(Filled)
            /\ UNCHANGED <<result, clean>>
  /\ UNCHANGED <<writing, peer>>

\* read() <= 0: end of file and errors are the same here.
HeaderFails ==
  /\ pc = "header"
  /\ arrived = << >> /\ line # "up"
  /\ ReturnRead(Nothing(-1))
  /\ UNCHANGED <<writing, peer, arrived, clean>>

ReadBody ==
  /\ pc = "body"
  /\ TakeBytes
  /\ IF Len(Filled) < packet_len
       THEN buf' = Filled /\ UNCHANGED <<pc, packet_len, result>>
       ELSE ReturnRead([n |-> Len(Filled), bytes |-> Filled])
  /\ UNCHANGED <<writing, peer, clean>>

\* Mutant: end of file is tried again.
BodyFailsNever ==
  /\ pc = "body"
  /\ arrived = << >> /\ line # "up"
  /\ UNCHANGED vars

\* End of file inside a packet: what there is of it is returned.
BodyFails ==
  /\ pc = "body"
  /\ arrived = << >> /\ line # "up"
  /\ ReturnRead(IF line = "eof" THEN [n |-> Len(buf), bytes |-> buf]
                                ELSE Nothing(-1))
  /\ UNCHANGED <<writing, peer, arrived, clean>>

-----------------------------------------------------------------------------
(***************************************************************************)
(* The brick and the line (external).                                      *)
(***************************************************************************)
Send ==
  /\ pc # "closed" /\ line = "up"
  /\ Len(arrived) + Len(coming) <= MaxUnread
  /\ \E b \in Replies : coming' = coming \o LenField(Len(b)) \o b
  /\ UNCHANGED <<pc, writing, reading, line, arrived, clean>>

Arrive ==
  /\ pc # "closed" /\ line = "up"
  /\ coming # << >>
  /\ arrived' = Append(arrived, Head(coming))
  /\ coming' = Tail(coming)
  /\ UNCHANGED <<pc, writing, reading, line, clean>>

HangUp ==
  /\ pc # "closed" /\ line = "up"
  /\ coming' = << >>
  /\ \/ line' = "eof" /\ UNCHANGED arrived
     \/ line' = "error" /\ arrived' = << >>
  /\ UNCHANGED <<pc, writing, reading, clean>>

-----------------------------------------------------------------------------
bt_write == WriteSome \/ WriteFails
bt_read ==
  \/ SelectReady \/ SelectTimeout
  \/ ReadHeader \/ HeaderFails \/ ReadBody \/ BodyFails

Next ==
  \/ bt_open \/ bt_close \/ CallWrite \/ bt_write \/ CallRead \/ bt_read
  \/ Send \/ Arrive \/ HangUp

Spec == Init /\ [][Next]_vars

\* The process is scheduled, select() returns after the timeout, and what the
\* brick has sent arrives.
FairSpec ==
  Spec /\ WF_vars(bt_write) /\ WF_vars(bt_read) /\ WF_vars(Arrive)

-----------------------------------------------------------------------------
(***************************************************************************)
(* Properties.                                                             *)
(***************************************************************************)

\* Every variable stays in its type; bt_read never reads more than twice the
\* size it was given, which is what its check allows.
TypeOK ==
  /\ pc \in {"closed", "idle", "write", "select", "header", "body"}
  /\ todo \in Seq(Byte) /\ sent \in Nat
  /\ buf \in Seq(Byte) /\ Len(buf) <= 2 * count
  /\ packet_len \in Nat
  /\ result.n \in -1 .. 2 * count /\ result.bytes \in Seq(Byte)
  /\ arrived \in Seq(Byte) /\ coming \in Seq(Byte)
  /\ line \in {"up", "eof", "error"}
  /\ wire \in Seq(Byte) /\ written \in Seq(Seq(Byte))
  /\ clean \in BOOLEAN /\ lost \in BOOLEAN

\* The bytes of the connection that bt_read has not returned, cut into
\* packets, are the queue of the abstract channel.
Channel == INSTANCE PacketChannel WITH
  Packets <- {LenField(Len(b)) \o b : b \in Replies},
  queue <- Frames(buf \o arrived \o coming),
  result <- result.bytes,
  line <- IF line = "up" THEN "up"
          ELSE IF buf \o arrived = << >> THEN "dry" ELSE "ended",
  broken <- ~clean \/ pc = "closed"

\* bt_read implements the packet channel the commands rely on: on a
\* connection that began in silence each call returns the oldest packet,
\* whole, or nothing, however the stream is fragmented; a packet cut by the
\* end of the line is the last thing returned.
ImplementsChannel == Channel!Spec

\* The packets up to the first CONTINUE_LIST_FILES; that one's own length
\* field is wrong, and so is every border after it.
BeforeList(packets) ==
  LET lists == {i \in DOMAIN packets : packets[i] = Tail(CONTINUE_LIST_FILES)}
  IN  IF lists = {} THEN packets ELSE SubSeq(packets, 1, Min(lists) - 1)

\* The brick finds in the stream exactly the packets given to bt_write, in
\* order and however write() cuts them, as long as no write() failed: all of
\* them, or those before ls asked for the rest of a listing.
FramedAsWritten ==
  clean /\ ~lost =>
    LET done == IF pc = "write" THEN Front(written) ELSE written
    IN  \/ Frames(wire) = done
        \/ /\ BeforeList(written) # written
           /\ IsPrefix(BeforeList(written), Frames(wire))

\* A read on a connection that began in silence returns, though only its
\* first byte is subject to the timeout, if what the brick sends arrives.
ReadsReturn ==
  pc \in {"select", "header", "body"} /\ clean ~> pc \in {"idle", "closed"}
=============================================================================
