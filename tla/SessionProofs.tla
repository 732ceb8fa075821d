---------------------------- MODULE SessionProofs ----------------------------
(***************************************************************************)
(* Proofs about Connect and Session, for any number of bricks, senders,    *)
(* invocations and limits: tcp_open reaches the brick that was named, and  *)
(* vmexec's verdict is the brick's.                                        *)
(***************************************************************************)
EXTENDS Session, TLAPS

------------------------------------------------------------------------------
(* The search for the brick. *)

Fields == [serial : Bricks \cup {Junk}, port : Bricks \cup {Junk},
           protocol : Bricks \cup {Junk}]

SearchType ==
    /\ opts \in [select : Selections, id : Ids]
    /\ queue \in Seq(Senders)
    /\ fdp \in Fields /\ fdp.port = fdp.serial

\* The serial number that is looked for has not been read as long as the loop
\* runs, and there is no connection before the loop has ended.
Searching ==
    /\ pc = "listen" /\ opts.id.kind = "serial" => fdp.serial # opts.id.brick
    /\ pc \in {"usb", "serial", "tcp_open", "listen", "wake", "failed", "done"} => link = NoLink

SearchInv == SearchType /\ Searching /\ RightBrick

\* What a datagram leaves in *fdp has its type, and the port and serial
\* number of one sender; if it changes the serial number, they are the sender's.
LEMMA SscanfFields ==
    ASSUME NEW f \in Fields, f.port = f.serial, NEW from \in Senders
    PROVE  /\ Sscanf(f, from) \in Fields
           /\ Sscanf(f, from).port = Sscanf(f, from).serial
           /\ Sscanf(f, from).serial # f.serial => Sscanf(f, from).serial = from
BY ConnectAssumption DEF Sscanf, Fields, Senders

\* The closed socket's buffer has the type of a queue of datagrams.
LEMMA NoDatagrams == <<>> \in Seq(Senders)
OBVIOUS

\* Wherever tcp_open gives up, the invariant holds: the socket is closed and
\* there is no connection.
LEMMA FailStep ==
    ASSUME SearchInv, Fail, UNCHANGED <<opts, fdp>>
    PROVE  SearchInv'
<1>1. SearchType'
  BY NoDatagrams DEF SearchInv, SearchType, Fail
<1> QED BY <1>1 DEF SearchInv, Searching, RightBrick, Fail

LEMMA SearchInit == Init => SearchInv
BY NoDatagrams DEF Init, ConnectInit, SearchInv, SearchType, Searching, RightBrick, Fields, NoLink

\* Every step of main's choice of a transport and of tcp_open keeps the
\* invariant of the search.
LEMMA ConnectStep == SearchInv /\ ConnectNext => SearchInv'
<1> SUFFICES ASSUME SearchInv, ConnectNext PROVE SearchInv'
  OBVIOUS
<1> USE DEF SearchInv
<1>1. CASE OpenUsb \/ OpenSerial
  BY <1>1 DEF OpenUsb, OpenSerial, SearchType, Searching, RightBrick
<1>2. CASE TcpOpen
  <2>1. SearchType'
    <3>1. fdp' \in Fields /\ fdp'.port = fdp'.serial
      BY <1>2 DEF TcpOpen, Fields
    <3>2. queue' \in Seq(Senders) /\ opts' = opts
      BY <1>2, NoDatagrams DEF TcpOpen, Fail, SearchInv, SearchType
    <3> QED BY <3>1, <3>2 DEF SearchType
  <2>2. Searching'
    BY <1>2, ConnectAssumption DEF TcpOpen, Fail, SearchType, Searching, Ids, NoLink
  <2>3. RightBrick'
    BY <1>2 DEF TcpOpen, Fail, SearchType, RightBrick
  <2> QED BY <2>1, <2>2, <2>3
<1>3. CASE BindFails \/ RecvTimeout \/ WakeFails \/ ConnectFails \/ ConfirmFails
  BY <1>3, FailStep DEF BindFails, RecvTimeout, WakeFails, ConnectFails, ConfirmFails
<1>4. CASE RecvBeacon
  <2> DEFINE f == Sscanf(fdp, Head(queue))
  <2>1. Head(queue) \in Senders /\ Tail(queue) \in Seq(Senders)
    BY <1>4 DEF RecvBeacon, SearchType
  <2>2. f \in Fields /\ f.port = f.serial /\ (f.serial # fdp.serial => f.serial = Head(queue))
    BY <2>1, SscanfFields DEF SearchType
  <2>3. /\ fdp' = f /\ cliaddr' = Head(queue) /\ queue' = Tail(queue)
        /\ pc' = IF Found(fdp, f) THEN "wake" ELSE "listen"
        /\ pc = "listen" /\ UNCHANGED <<opts, plugged, on, link>>
    BY <1>4 DEF RecvBeacon
  <2>4. SearchType'
    BY <2>1, <2>2, <2>3 DEF SearchType
  <2>5. Searching'
    BY <2>3 DEF Searching, Found
  <2>6. RightBrick'
    BY <2>2, <2>3 DEF Searching, RightBrick, Found, NoLink
  <2> QED BY <2>4, <2>5, <2>6
<1>5. CASE Wake
  BY <1>5, NoDatagrams DEF Wake, SearchType, Searching, RightBrick
<1>6. CASE ConnectTcp
  <2>1. CASE PortOpen
    BY <1>6, <2>1 DEF ConnectTcp, SearchType, Searching, RightBrick
  <2>2. CASE ~PortOpen
    BY <1>6, <2>2, FailStep DEF ConnectTcp
  <2> QED BY <2>1, <2>2
<1>8. CASE Confirm \/ ConfirmClosed
  BY <1>8 DEF Confirm, ConfirmClosed, SearchType, Searching, RightBrick
<1>7. CASE \E s \in Senders : Beacon(s) \/ Switch(s)
  <2> PICK s \in Senders : Beacon(s) \/ Switch(s)
    BY <1>7
  <2> QED BY DEF Beacon, Switch, SearchType, Searching, RightBrick
<1> QED BY <1>1, <1>2, <1>3, <1>4, <1>5, <1>6, <1>7, <1>8 DEF ConnectNext, Open, OpenFails

LEMMA CommandKinds ==
    ASSUME NEW c \in Commands
    PROVE  /\ c.kind \in {"run", "vmexec", "tunnel"}
           /\ c.kind = "vmexec" => c.size \in 0..MaxBytecodes + 1 /\ c.reply \in BOOLEAN
<1>1. CASE c \in [kind : {"run"}, size : {1}, reply : {TRUE}]
  BY <1>1
<1>2. CASE c \in [kind : {"vmexec"}, size : 0..MaxBytecodes + 1, reply : BOOLEAN]
  BY <1>2
<1>3. CASE c = [kind |-> "tunnel", size |-> 1, reply |-> FALSE]
  BY <1>3
<1> QED BY <1>1, <1>2, <1>3 DEF Commands

\* The commands leave the search's variables alone, but for the place, which
\* is outside tcp_open, and the connection, which Close ends.
LEMMA CommandStep ==
    ASSUME SearchInv,
           \/ \E c \in Commands : Start(c)
           \/ TunnelLine \/ Command \/ CommandFails \/ Invoke \/ Execute
    PROVE  SearchInv'
<1> USE DEF SearchInv
<1>1. CASE \E c \in Commands : Start(c)
  <2> PICK c \in Commands : Start(c)
    BY <1>1
  <2>1. c.kind \in {"run", "vmexec", "tunnel"}
    BY CommandKinds
  <2> QED BY <2>1 DEF Start, Goto, SearchType, Searching, RightBrick
<1>2. CASE TunnelLine \/ TunnelEof \/ Run \/ RunReply \/ RunOutput
  BY <1>2 DEF TunnelLine, TunnelEof, Run, RunReply, RunOutput, Goto, Return,
     SearchType, Searching, RightBrick
<1>3. CASE Vmexec \/ VmexecReply \/ CommandFails
  BY <1>3 DEF Vmexec, VmexecReply, CommandFails, VmexecRefused, WriteFails, ReadFails,
     Goto, Return, SearchType, Searching, RightBrick
<1>4. CASE Close \/ NotFound \/ Invoke
  BY <1>4 DEF Close, NotFound, Invoke, Goto, SearchType, Searching, RightBrick
<1>5. CASE Execute
  BY <1>5 DEF Execute, connectVars, SearchType, Searching, RightBrick
<1> QED BY <1>1, <1>2, <1>3, <1>4, <1>5 DEF Command

LEMMA SearchStep == SearchInv /\ [Next]_vars => SearchInv'
<1> SUFFICES ASSUME SearchInv, [Next]_vars PROVE SearchInv'
  OBVIOUS
<1>1. CASE Connecting(ConnectNext)
  BY <1>1, ConnectStep DEF Connecting
<1>2. CASE Finished \/ UNCHANGED vars
  BY <1>2 DEF Finished, vars, connectVars, SearchInv, SearchType, Searching, RightBrick
<1> QED BY <1>1, <1>2, CommandStep DEF Next

\* tcp_open, asked for a serial number, wakes up and connects to the brick with that
\* number, at that brick's port, whatever else is broadcast.
THEOREM NamedBrickFound == Spec => []RightBrick
<1>1. SearchInv => RightBrick
  BY DEF SearchInv
<1> QED BY <1>1, SearchInit, SearchStep, PTL DEF Spec

------------------------------------------------------------------------------
(* vmexec's verdict. *)

RequestType == [nr : Nat, kind : {"run", "vmexec", "raw"}, size : Nat, reply : BOOLEAN]
ReplyType == [nr : Nat, type : {"ok", "error", "text"}]

CommandType ==
    /\ nr \in Nat /\ cmd \in Commands \cup {NoCommand}
    /\ inbox \in Seq(RequestType) /\ outbox \in Seq(ReplyType)

\* A vmexec that began with nothing under way: before it writes there is no reply
\* to come; after that every reply to come or to be read is about this file.
Alone == clean /\ cmd.kind = "vmexec" /\ cmd.reply

Mine(req) == req.kind = "vmexec" /\ req.nr = nr /\ req.size = cmd.size

Reported(reply, done) ==
    /\ reply.type \in {"ok", "error"}
    /\ [nr |-> nr, size |-> cmd.size, type |-> reply.type] \in done

NothingToCome ==
    pc = "vmexec" /\ Alone =>
      outbox = <<>> /\ \A i \in DOMAIN inbox : ~inbox[i].reply

OwnRepliesOnly ==
    pc = "vmexec_reply" /\ Alone =>
      /\ \A i \in DOMAIN inbox : inbox[i].reply => Mine(inbox[i])
      /\ \A i \in DOMAIN outbox : Reported(outbox[i], executed)

\* The place is in the command that runs.
InCommand ==
    /\ pc \in {"vmexec", "vmexec_reply"} => cmd.kind = "vmexec"
    /\ pc \in {"run", "run_reply", "run_output"} => cmd.kind = "run"
    /\ pc = "tunnel" => cmd.kind = "tunnel"

VerdictInv ==
    CommandType /\ InCommand /\ NothingToCome /\ OwnRepliesOnly /\ VmexecVerdict

LEMMA VerdictInit == Init => VerdictInv
<1> SUFFICES ASSUME Init PROVE VerdictInv
  OBVIOUS
<1>1. CommandType
  BY DEF Init, CommandType
<1> QED BY <1>1 DEF Init, ConnectInit, VerdictInv, InCommand, NothingToCome,
     OwnRepliesOnly, VmexecVerdict

\* What a request that the brick executes adds to its replies.
LEMMA ExecuteReplies ==
    ASSUME CommandType, Execute
    PROVE  /\ inbox # <<>> /\ inbox' = Tail(inbox) /\ Head(inbox) \in RequestType
           /\ executed \subseteq executed'
           /\ outbox' \in Seq(ReplyType)
           /\ ~Head(inbox).reply => outbox' = outbox
           /\ Head(inbox).kind # "run" =>
                \/ outbox' = outbox
                \/ \E type \in {"ok", "error"} :
                     /\ outbox' = Append(outbox, [nr |-> Head(inbox).nr, type |-> type])
                     /\ [nr |-> Head(inbox).nr, size |-> Head(inbox).size, type |-> type] \in executed'
<1>1. inbox # <<>> /\ inbox' = Tail(inbox) /\ Head(inbox) \in RequestType
  BY DEF Execute, CommandType
<1>2. PICK type \in {"ok", "error"} \cup (IF Head(inbox).kind = "run" THEN {"text"} ELSE {}),
           more \in 0..MaxOutput :
         /\ type # "text" => more = 0
         /\ executed' = executed \cup
              {[nr |-> Head(inbox).nr, size |-> Head(inbox).size, type |-> type]}
         /\ outbox' = IF Head(inbox).reply
                      THEN outbox \o <<[nr |-> Head(inbox).nr, type |-> type]>>
                             \o [i \in 1..more |-> [nr |-> Head(inbox).nr, type |-> "text"]]
                      ELSE outbox
  BY DEF Execute
<1> DEFINE first == [nr |-> Head(inbox).nr, type |-> type]
           text == [nr |-> Head(inbox).nr, type |-> "text"]
           rest == [i \in 1..more |-> text]
<1>3. first \in ReplyType /\ text \in ReplyType
  BY <1>1, <1>2 DEF RequestType, ReplyType
<1>4. rest \in Seq(ReplyType)
  BY <1>3, SessionAssumption
<1>5. outbox \o <<first>> = Append(outbox, first) /\ outbox \o <<first>> \in Seq(ReplyType)
  BY <1>3 DEF CommandType
<1>6. outbox' \in Seq(ReplyType)
  BY <1>2, <1>4, <1>5 DEF CommandType
<1>7. ASSUME Head(inbox).kind # "run", Head(inbox).reply
      PROVE  type \in {"ok", "error"} /\ outbox' = Append(outbox, first)
  <2>1. type \in {"ok", "error"} /\ rest = <<>>
    BY <1>2, <1>7
  <2>2. (outbox \o <<first>>) \o <<>> = outbox \o <<first>>
    BY <1>5
  <2> QED BY <1>2, <1>5, <1>7, <2>1, <2>2
<1> QED BY <1>1, <1>2, <1>6, <1>7

\* The brick executes a request at any moment: the replies it adds are about
\* this invocation's file if the request was.
LEMMA ExecuteStep == VerdictInv /\ Execute => VerdictInv'
<1> SUFFICES ASSUME VerdictInv, Execute PROVE VerdictInv'
  OBVIOUS
<1> USE DEF VerdictInv
<1>1. UNCHANGED <<pc, nr, cmd, clean, ret>>
  BY DEF Execute, connectVars
<1>0. inbox # <<>> /\ inbox \in Seq(RequestType) /\ inbox' = Tail(inbox)
  BY ExecuteReplies DEF CommandType
<1>2. CommandType'
  <2>1. inbox' \in Seq(RequestType)
    BY <1>0
  <2>2. outbox' \in Seq(ReplyType)
    BY ExecuteReplies
  <2> QED BY <1>1, <2>1, <2>2 DEF CommandType
<1>3. /\ \A i \in DOMAIN inbox' : i + 1 \in DOMAIN inbox /\ inbox'[i] = inbox[i + 1]
      /\ 1 \in DOMAIN inbox /\ Head(inbox) = inbox[1]
  BY <1>0
<1>4. NothingToCome'
  BY <1>1, <1>3, ExecuteReplies DEF NothingToCome, Alone
<1>5. OwnRepliesOnly'
  <2> SUFFICES ASSUME pc = "vmexec_reply", Alone
               PROVE  /\ \A i \in DOMAIN inbox' : inbox'[i].reply => Mine(inbox'[i])
                      /\ \A i \in DOMAIN outbox' : Reported(outbox'[i], executed')
    BY <1>1 DEF OwnRepliesOnly, Alone, Mine, Reported
  <2>1. \A i \in DOMAIN inbox' : inbox'[i].reply => Mine(inbox'[i])
    BY <1>3 DEF OwnRepliesOnly
  <2>2. \A i \in DOMAIN outbox : Reported(outbox[i], executed')
    BY <1>1, ExecuteReplies DEF OwnRepliesOnly, Reported
  <2>3. CASE outbox' = outbox
    BY <2>1, <2>2, <2>3
  <2>4. CASE outbox' # outbox
    <3>1. Mine(Head(inbox))
      BY <1>3, <2>4, ExecuteReplies DEF OwnRepliesOnly
    <3>2. PICK type \in {"ok", "error"} :
            /\ outbox' = Append(outbox, [nr |-> Head(inbox).nr, type |-> type])
            /\ [nr |-> Head(inbox).nr, size |-> Head(inbox).size, type |-> type] \in executed'
      BY <2>4, <3>1, ExecuteReplies DEF Mine
    <3>3. \A i \in DOMAIN outbox' :
            \/ i \in DOMAIN outbox /\ outbox'[i] = outbox[i]
            \/ outbox'[i] = [nr |-> Head(inbox).nr, type |-> type]
      BY <3>2 DEF CommandType
    <3>4. Reported([nr |-> Head(inbox).nr, type |-> type], executed')
      BY <1>1, <3>1, <3>2 DEF Mine, Reported
    <3> QED BY <2>1, <2>2, <3>3, <3>4
  <2> QED BY <2>3, <2>4
<1>6. VmexecVerdict'
  BY <1>1, ExecuteReplies DEF VmexecVerdict
<1>7. InCommand'
  BY <1>1 DEF InCommand
<1> QED BY <1>2, <1>4, <1>5, <1>6, <1>7

\* Outside vmexec only the types are at stake.
Elsewhere == {"usb", "serial", "connected", "tcp_open", "failed", "listen", "wake", "connect",
              "confirm", "done"}

LEMMA ElsewhereStep ==
    ASSUME CommandType', pc' \in Elsewhere
    PROVE  VerdictInv'
BY DEF Elsewhere, VerdictInv, InCommand, NothingToCome, OwnRepliesOnly, VmexecVerdict

\* While the program connects no command runs.
LEMMA VerdictConnect == VerdictInv /\ Connecting(ConnectNext) => VerdictInv'
<1> SUFFICES ASSUME VerdictInv, Connecting(ConnectNext) PROVE VerdictInv'
  OBVIOUS
<1>1. pc' \in Elsewhere
  <2>1. CASE Open
    BY <2>1 DEF Open, OpenUsb, OpenSerial, TcpOpen, RecvBeacon, RecvTimeout, Wake, ConnectTcp,
       Fail, Elsewhere
  <2>2. CASE OpenFails \/ Confirm
    BY <2>2 DEF OpenFails, BindFails, WakeFails, ConnectFails, ConfirmClosed, ConfirmFails,
       Confirm, Fail, Elsewhere
  <2>3. CASE \E s \in Senders : Beacon(s) \/ Switch(s)
    BY <2>3 DEF Beacon, Switch, Elsewhere
  <2> QED BY <2>1, <2>2, <2>3 DEF Connecting, ConnectNext
<1>2. outbox' = outbox \/ outbox' = <<>>
  BY DEF Connecting
<1>3. CommandType'
  BY <1>2 DEF Connecting, VerdictInv, CommandType
<1> QED BY <1>1, <1>3, ElsewhereStep

LEMMA VerdictStart == VerdictInv /\ (\E c \in Commands : Start(c)) => VerdictInv'
<1> SUFFICES ASSUME VerdictInv, NEW c \in Commands, Start(c) PROVE VerdictInv'
  OBVIOUS
<1>1. c.kind \in {"run", "vmexec", "tunnel"}
  BY CommandKinds
<1>2. /\ pc' = c.kind /\ cmd' = c /\ UNCHANGED <<nr, inbox, outbox, executed>>
      /\ clean' = (outbox = <<>> /\ \A i \in DOMAIN inbox : ~inbox[i].reply)
  BY DEF Start, Goto
<1>3. CommandType' /\ InCommand'
  BY <1>1, <1>2 DEF VerdictInv, CommandType, InCommand
<1>4. NothingToCome' /\ OwnRepliesOnly' /\ VmexecVerdict'
  BY <1>1, <1>2 DEF NothingToCome, Alone, OwnRepliesOnly, VmexecVerdict
<1> QED BY <1>3, <1>4 DEF VerdictInv

\* vmexec's write: the only request with a reply to come is its own, and it
\* carries the whole file.
LEMMA VerdictVmexec == VerdictInv /\ Vmexec => VerdictInv'
<1> SUFFICES ASSUME VerdictInv, Vmexec PROVE VerdictInv'
  OBVIOUS
<1> USE DEF VerdictInv
<1>1. /\ pc = "vmexec" /\ cmd.kind = "vmexec" /\ cmd \in Commands
      /\ cmd.size \in Nat /\ cmd.reply \in BOOLEAN /\ nr \in Nat
  <2>1. pc = "vmexec" /\ cmd.kind = "vmexec" /\ cmd \in Commands
    BY DEF Vmexec, CommandType, InCommand, NoCommand
  <2> QED BY <2>1, CommandKinds, SessionAssumption DEF CommandType
<1> DEFINE own == [nr |-> nr, kind |-> "vmexec", size |-> cmd.size, reply |-> cmd.reply]
<1>2. own \in RequestType /\ Mine(own)
  BY <1>1 DEF RequestType, Mine
<1>3. UNCHANGED <<nr, cmd, outbox, executed, clean>>
  BY DEF Vmexec
<1>4. CASE Accepted(cmd.size)
  <2>1. cmd.size < MaxBytecodes
    BY <1>4 DEF Accepted
  <2>2. Request("vmexec", IF cmd.size > MaxBytecodes THEN MaxBytecodes ELSE cmd.size, cmd.reply) = own
    BY <1>1, <2>1, SessionAssumption DEF Request
  <2>3. inbox' = Append(inbox, own) \/ inbox' = inbox
    BY <1>4, <2>2 DEF Vmexec, Written, Unnoticed
  <2>4. pc' = IF cmd.reply THEN "vmexec_reply" ELSE "close"
    BY <1>1, <1>4 DEF Vmexec, Goto, Return
  <2> HIDE DEF own
  <2>5. inbox \in Seq(RequestType) /\ inbox' \in Seq(RequestType)
    BY <1>2, <2>3 DEF CommandType
  <2>9. CommandType'
    BY <1>3, <2>5 DEF CommandType
  <2>6. \A i \in DOMAIN inbox' : inbox'[i] = own \/ (i \in DOMAIN inbox /\ inbox'[i] = inbox[i])
    BY <1>2, <2>3, <2>5
  <2>7. OwnRepliesOnly'
    <3> SUFFICES ASSUME Alone, cmd.reply
                 PROVE  /\ \A i \in DOMAIN inbox' : inbox'[i].reply => Mine(inbox'[i])
                        /\ \A i \in DOMAIN outbox : Reported(outbox[i], executed)
      BY <1>3 DEF OwnRepliesOnly, Alone, Mine, Reported
    <3>1. outbox = <<>> /\ \A i \in DOMAIN inbox : ~inbox[i].reply
      BY <1>1 DEF NothingToCome
    <3>2. \A i \in DOMAIN inbox' : inbox'[i].reply => Mine(inbox'[i])
      BY <1>2, <2>6, <3>1
    <3> QED BY <3>1, <3>2
  <2>8. InCommand' /\ NothingToCome' /\ VmexecVerdict'
    BY <1>1, <1>3, <2>4 DEF InCommand, NothingToCome, VmexecVerdict
  <2> QED BY <2>7, <2>8, <2>9
<1>5. CASE ~Accepted(cmd.size)
  <2>1. pc' = "close" /\ ret' = "ERR_IO" /\ inbox' = inbox
    BY <1>5 DEF Vmexec, Return, Goto
  <2>2. CommandType'
    BY <1>3, <2>1 DEF CommandType
  <2> QED BY <1>3, <2>1, <2>2 DEF InCommand, NothingToCome, OwnRepliesOnly, VmexecVerdict
<1> QED BY <1>4, <1>5

\* vmexec's reply, if one comes, is the first of its own.
LEMMA VerdictReply == VerdictInv /\ VmexecReply => VerdictInv'
<1> SUFFICES ASSUME VerdictInv, VmexecReply PROVE VerdictInv'
  OBVIOUS
<1> USE DEF VerdictInv
<1>1. /\ pc = "vmexec_reply" /\ pc' = "close"
      /\ UNCHANGED <<nr, cmd, inbox, executed, clean>>
  BY DEF VmexecReply, Return, Goto
<1>2. \/ outbox' = outbox /\ ret' = "ERR_COMM"
      \/ /\ outbox # <<>> /\ outbox' = Tail(outbox)
         /\ ret' = IF Head(outbox).type = "ok" THEN "successful" ELSE "ERR_VM"
  BY DEF VmexecReply, Return
<1>3. CommandType'
  BY <1>1, <1>2, SMTT(30) DEF CommandType
<1>4. ASSUME outbox # <<>>, Alone PROVE Reported(Head(outbox), executed)
  <2>1. 1 \in DOMAIN outbox /\ Head(outbox) = outbox[1]
    BY <1>4 DEF CommandType
  <2> QED BY <1>1, <1>4, <2>1 DEF OwnRepliesOnly
<1>5. VmexecVerdict'
  BY <1>1, <1>2, <1>4 DEF VmexecVerdict, Alone, Reported
<1> QED BY <1>1, <1>3, <1>5 DEF InCommand, NothingToCome, OwnRepliesOnly

\* The failures return neither verdict.
LEMMA VerdictFails == VerdictInv /\ CommandFails => VerdictInv'
<1> SUFFICES ASSUME VerdictInv, CommandFails PROVE VerdictInv'
  OBVIOUS
<1>1. /\ pc' = "close" /\ ret' \in {"ERR_ARG", "ERR_COMM"}
      /\ UNCHANGED <<nr, cmd, inbox, outbox, executed, clean>>
  BY DEF CommandFails, VmexecRefused, WriteFails, ReadFails, Return, Goto
<1> QED BY <1>1 DEF VerdictInv, CommandType, InCommand, NothingToCome, OwnRepliesOnly, VmexecVerdict

\* The steps of run and of the tunnel.
LEMMA VerdictOthers ==
    VerdictInv /\ (Run \/ RunReply \/ RunOutput \/ TunnelLine \/ TunnelEof) => VerdictInv'
<1> SUFFICES ASSUME VerdictInv, Run \/ RunReply \/ RunOutput \/ TunnelLine \/ TunnelEof
             PROVE  VerdictInv'
  OBVIOUS
<1> USE DEF VerdictInv
<1>1. /\ cmd.kind # "vmexec" /\ UNCHANGED <<nr, cmd, executed, clean>>
      /\ pc' \in {"run_reply", "run_output", "tunnel", "close"}
      /\ pc' \in {"run_reply", "run_output"} => cmd.kind = "run"
      /\ pc' = "tunnel" => cmd.kind = "tunnel"
  BY DEF Run, RunReply, RunOutput, TunnelLine, TunnelEof, Goto, Return, InCommand
<1>2. CommandType'
  <2>1. outbox' = outbox \/ (outbox # <<>> /\ outbox' = Tail(outbox))
    BY DEF Run, RunReply, RunOutput, TunnelLine, TunnelEof
  <2>2. \A reply \in BOOLEAN : Request("run", 1, reply) \in RequestType /\ Request("raw", 1, reply) \in RequestType
    BY DEF CommandType, Request, RequestType
  <2>3. inbox' = inbox \/ \E r \in RequestType : inbox' = Append(inbox, r)
    BY <2>2 DEF Run, RunReply, RunOutput, TunnelLine, TunnelEof, Written, Unnoticed
  <2>4. inbox' \in Seq(RequestType)
    BY <2>3 DEF CommandType
  <2>5. outbox' \in Seq(ReplyType)
    BY <2>1, SMTT(30) DEF CommandType
  <2> QED BY <1>1, <2>4, <2>5 DEF CommandType
<1> QED BY <1>1, <1>2 DEF InCommand, NothingToCome, OwnRepliesOnly, VmexecVerdict, Alone

\* The end of an invocation and the start of the next.
LEMMA VerdictEnd == VerdictInv /\ (Close \/ NotFound \/ Invoke) => VerdictInv'
<1> SUFFICES ASSUME VerdictInv, Close \/ NotFound \/ Invoke PROVE VerdictInv'
  OBVIOUS
<1>1. pc' \in Elsewhere
  BY DEF Close, NotFound, Invoke, Goto, Elsewhere
<1>2. CommandType'
  <2> USE DEF VerdictInv, CommandType
  <2>1. CASE NotFound \/ Invoke
    BY <2>1 DEF NotFound, Invoke
  <2>2. CASE Close
    <3> DEFINE quiet == [i \in DOMAIN inbox |-> [inbox[i] EXCEPT !.reply = FALSE]]
    <3>1. \A i \in DOMAIN inbox : [inbox[i] EXCEPT !.reply = FALSE] \in RequestType
      <4>1. ASSUME NEW r \in RequestType PROVE [r EXCEPT !.reply = FALSE] \in RequestType
        BY DEF RequestType
      <4>2. \A i \in DOMAIN inbox : inbox[i] \in RequestType
        OBVIOUS
      <4> QED BY <4>1, <4>2
    <3>2. quiet \in Seq(RequestType)
      BY <3>1
    <3>3. (inbox' = inbox \/ inbox' = quiet) /\ (outbox' = outbox \/ outbox' = <<>>)
      BY <2>2 DEF Close
    <3> HIDE DEF quiet
    <3>4. inbox' \in Seq(RequestType)
      BY <3>2, <3>3
    <3>5. outbox' \in Seq(ReplyType)
      <4>1. <<>> \in Seq(ReplyType)
        OBVIOUS
      <4>2. outbox \in Seq(ReplyType)
        OBVIOUS
      <4> QED BY <3>3, <4>1, <4>2
    <3> QED BY <2>2, <3>4, <3>5 DEF Close
  <2> QED BY <2>1, <2>2
<1> QED BY <1>1, <1>2, ElsewhereStep

LEMMA VerdictStep == VerdictInv /\ [Next]_vars => VerdictInv'
<1> SUFFICES ASSUME VerdictInv, [Next]_vars PROVE VerdictInv'
  OBVIOUS
<1>1. CASE Finished \/ UNCHANGED vars
  BY <1>1 DEF Finished, vars, connectVars, commandVars, VerdictInv, CommandType, InCommand,
     NothingToCome, OwnRepliesOnly, VmexecVerdict, Alone, Mine, Reported
<1> QED BY <1>1, VerdictConnect, VerdictStart, VerdictVmexec, VerdictReply, VerdictFails,
     VerdictOthers, VerdictEnd, ExecuteStep DEF Next, Command

\* vmexec, started with nothing under way and asked to read the reply, says
\* "successful" only if the brick has executed its whole file without error, and
\* reports the VM's refusal only if the brick has refused it.
THEOREM VerdictIsTheBricks == Spec => []VmexecVerdict
<1>1. VerdictInv => VmexecVerdict
  BY DEF VerdictInv
<1> QED BY <1>1, VerdictInit, VerdictStep, PTL DEF Spec
==============================================================================
