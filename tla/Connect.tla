------------------------------- MODULE Connect -------------------------------
(***************************************************************************)
(* How the program gets its connection to the brick: the choice between    *)
(* USB, Bluetooth and WiFi (main.c), and for WiFi tcp_open (tcp.c): the    *)
(* search by UDP broadcasts, the wake-up datagram, the connection and the  *)
(* handshake, each of which may fail or wait.                              *)
(*                                                                         *)
(* A field of a beacon (serial number, port, protocol) is represented by   *)
(* the brick that it belongs to, `Junk' is what malloc left in it.         *)
(***************************************************************************)
EXTENDS Integers, Sequences, FiniteSets

CONSTANTS Bricks,     \* the bricks on the network, each with its serial number
          Spaced,     \* those whose name has a space in it
          Other,      \* another program that sends datagrams to UDP_PORT
          Selections, \* sets of the switches --usb, --serial, --tcp
          Silent,     \* bricks that accept a connection and never answer
          None, Junk

ASSUME ConnectAssumption ==
    /\ Spaced \subseteq Bricks /\ Silent \subseteq Bricks /\ Other \notin Bricks
    /\ None \notin Bricks /\ Junk \notin Bricks /\ Junk # None
    /\ \A s \in Selections : s \subseteq {"usb", "serial", "tcp"}

Senders == Bricks \cup {Other}

VARIABLES opts,     \* switches.select/hid/serial/tcp and params.tcp_id
          plugged,  \* the cables and paired ports there are
          on,       \* the senders that broadcast
          queue,    \* the datagrams in the UDP socket's buffer
          pc,       \* where main and tcp_open are
          fdp,      \* the fields of *fdp that are used afterwards
          cliaddr,  \* the sender of the last datagram
          link      \* the connection: its kind and its peer

connectVars == <<opts, plugged, on, queue, pc, fdp, cliaddr, link>>

NoLink == [kind |-> "none", peer |-> None]

\* "If the serial number contains a dot, a direct TCP connection is attempted."
Ids == {[kind |-> "any", brick |-> None]} \cup [kind : {"serial", "ip"}, brick : Bricks]
         \cup {[kind |-> "ip", brick |-> None]}      \* inet_pton refuses it

------------------------------------------------------------------------------
(* main: one transport after the other. *)

Tried(switch) == opts.select = {} \/ switch \in opts.select

OpenUsb ==
    /\ pc = "usb"
    /\ \/ /\ Tried("usb") /\ "usb" \in plugged
          /\ pc' = "connected" /\ link' = [kind |-> "usb", peer |-> None]
       \/ /\ ~(Tried("usb") /\ "usb" \in plugged)
          /\ pc' = "serial" /\ UNCHANGED link
    /\ UNCHANGED <<opts, plugged, on, queue, fdp, cliaddr>>

OpenSerial ==
    /\ pc = "serial"
    /\ \/ /\ Tried("serial") /\ "serial" \in plugged
          /\ pc' = "connected" /\ link' = [kind |-> "serial", peer |-> None]
       \/ /\ ~(Tried("serial") /\ "serial" \in plugged)
          /\ pc' = IF Tried("tcp") THEN "tcp_open" ELSE "failed"
          /\ UNCHANGED link
    /\ UNCHANGED <<opts, plugged, on, queue, fdp, cliaddr>>

------------------------------------------------------------------------------
(* tcp_open *)

Fail == pc' = "failed" /\ queue' = <<>> /\ link' = NoLink

\* malloc, then either the address is parsed or the broadcast socket is bound.
TcpOpen ==
    /\ pc = "tcp_open"
    /\ fdp' = [serial |-> Junk, port |-> Junk, protocol |-> Junk]
    /\ IF opts.id.kind = "ip"
       THEN IF opts.id.brick = None THEN Fail
            ELSE pc' = "connect" /\ link' = [kind |-> "tcp", peer |-> opts.id.brick]
                 /\ UNCHANGED queue
       ELSE pc' = "listen" /\ UNCHANGED <<queue, link>>
    /\ UNCHANGED <<opts, plugged, on, cliaddr>>

BindFails ==
    /\ pc = "tcp_open" /\ opts.id.kind # "ip" /\ Fail
    /\ UNCHANGED <<opts, plugged, on, fdp, cliaddr>>

\* sscanf stops at the first field that does not match and leaves the others.
\* %s ends a name at its first space, so that "Protocol:" does not match then.
Sscanf(f, from) ==
    IF from = Other THEN f
    ELSE [serial |-> from, port |-> from,
          protocol |-> IF from \in Spaced THEN f.protocol ELSE from]

\* Mutant: the serial number is compared before the datagram is read.
FoundMutant(before, after) == opts.id.kind = "any" \/ before.serial = opts.id.brick

\* The condition that ends the loop.
Found(before, after) == opts.id.kind = "any" \/ after.serial = opts.id.brick

RecvBeacon ==
    /\ pc = "listen" /\ queue # <<>>
    /\ LET f == Sscanf(fdp, Head(queue)) IN
       /\ fdp' = f
       /\ pc' = IF Found(fdp, f) THEN "wake" ELSE "listen"
    /\ cliaddr' = Head(queue) /\ queue' = Tail(queue)
    /\ UNCHANGED <<opts, plugged, on, link>>

\* Mutant: the broadcast socket has no timeout.
RecvTimeoutMutant == FALSE /\ UNCHANGED connectVars

\* SO_RCVTIMEO: nothing came for UDP_RECV_TIMEOUT seconds.
RecvTimeout ==
    /\ pc = "listen" /\ queue = <<>> /\ Fail
    /\ UNCHANGED <<opts, plugged, on, fdp, cliaddr>>

\* The datagram that makes the brick listen on its port; the UDP socket is closed.
Wake ==
    /\ pc = "wake"
    /\ pc' = "connect" /\ queue' = <<>>
    /\ link' = [kind |-> "tcp", peer |-> cliaddr]
    /\ UNCHANGED <<opts, plugged, on, fdp, cliaddr>>

WakeFails == pc = "wake" /\ Fail /\ UNCHANGED <<opts, plugged, on, fdp, cliaddr>>

\* A port that is not the peer's own refuses; an address given by the user
\* is tried on TCP_PORT.
PortOpen == link.peer \in Bricks /\ (opts.id.kind = "ip" \/ fdp.port = link.peer)

ConnectTcp ==
    /\ pc = "connect"
    /\ IF PortOpen THEN pc' = "confirm" /\ UNCHANGED <<queue, link>> ELSE Fail
    /\ UNCHANGED <<opts, plugged, on, fdp, cliaddr>>

\* select() runs into TCP_CONNECT_TIMEOUT though the port is open.
ConnectFails ==
    /\ pc = "connect" /\ Fail
    /\ UNCHANGED <<opts, plugged, on, fdp, cliaddr>>

\* The request has been sent; recvfrom blocks until the brick answers or closes, and what it
\* answers is not looked at.
Confirm ==
    /\ pc = "confirm" /\ link.peer \notin Silent
    /\ pc' = "connected"
    /\ UNCHANGED <<opts, plugged, on, queue, fdp, cliaddr, link>>

\* The peer closes the connection: 0 bytes, which is no SOCKET_ERROR.
ConfirmClosed ==
    /\ pc = "confirm" /\ pc' = "connected"
    /\ UNCHANGED <<opts, plugged, on, queue, fdp, cliaddr, link>>

ConfirmFails ==
    /\ pc = "confirm" /\ Fail
    /\ UNCHANGED <<opts, plugged, on, fdp, cliaddr>>

------------------------------------------------------------------------------
(* The network: while somebody listens, each sender has at most one datagram *)
(* in the socket's buffer, and may be switched on and off.                   *)

Beacon(s) ==
    /\ pc = "listen" /\ s \in on
    /\ \A i \in DOMAIN queue : queue[i] # s
    /\ queue' = Append(queue, s)
    /\ UNCHANGED <<opts, plugged, on, pc, fdp, cliaddr, link>>

Switch(s) ==
    /\ pc = "listen"
    /\ on' = IF s \in on THEN on \ {s} ELSE on \cup {s}
    /\ UNCHANGED <<opts, plugged, queue, pc, fdp, cliaddr, link>>

ConnectInit ==
    /\ opts \in [select : Selections, id : Ids]
    /\ plugged \in SUBSET {"usb", "serial"}
    /\ on \in SUBSET Senders
    /\ queue = <<>> /\ pc = "usb" /\ cliaddr = None /\ link = NoLink
    /\ fdp = [serial |-> Junk, port |-> Junk, protocol |-> Junk]

Open == OpenUsb \/ OpenSerial \/ TcpOpen \/ RecvBeacon \/ RecvTimeout \/ Wake \/ ConnectTcp
OpenFails == BindFails \/ WakeFails \/ ConnectFails \/ ConfirmClosed \/ ConfirmFails

\* Not fair are the failures, and the peer's answer if it is silent.
ConnectNext == Open \/ OpenFails \/ Confirm \/ \E s \in Senders : Beacon(s) \/ Switch(s)
==============================================================================
