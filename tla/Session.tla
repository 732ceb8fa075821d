------------------------------- MODULE Session -------------------------------
(***************************************************************************)
(* Invocations of the program one after the other, each of which connects  *)
(* (module Connect), gives the brick direct commands and closes: run       *)
(* (run.c), vmexec (vmexec.c) and the tunnel (tunnel.c).  None of them     *)
(* compares a reply's number with its request's, so that what an           *)
(* invocation leaves unread is read by the next one.  How much of a        *)
(* program's output run prints is left out.                                *)
(***************************************************************************)
EXTENDS Connect

CONSTANTS MaxBytecodes,    \* vmexec's max_bytecodes
          MaxInvocations, MaxLines, MaxOutput   \* bounds

ASSUME SessionAssumption ==
    MaxBytecodes \in Nat /\ MaxInvocations \in Nat /\ MaxLines \in Nat /\ MaxOutput \in Nat

VARIABLES nr,       \* the number of the invocation
          cmd,      \* its command
          inbox,    \* requests the brick has not executed yet
          outbox,   \* replies nobody has read yet
          executed, \* history: what the brick has executed, and how it ended
          clean,    \* history: nothing of an earlier invocation was under way
          lines,    \* lines the tunnel has sent
          ret       \* what the command returned, with the message printed

commandVars == <<nr, cmd, inbox, outbox, executed, clean, lines, ret>>
vars == <<connectVars, commandVars>>

NoCommand == [kind |-> "none", size |-> 0, reply |-> FALSE]
Commands == [kind : {"run"}, size : {1}, reply : {TRUE}]
              \cup [kind : {"vmexec"}, size : 0..MaxBytecodes + 1, reply : BOOLEAN]
              \cup {[kind |-> "tunnel", size |-> 1, reply |-> FALSE]}

Request(kind, size, reply) == [nr |-> nr, kind |-> kind, size |-> size, reply |-> reply]

Goto(label) == pc' = label /\ UNCHANGED <<opts, plugged, on, queue, fdp, cliaddr, link>>
Return(code) == ret' = code /\ Goto("close")

------------------------------------------------------------------------------
(* The commands. *)

Start(c) ==
    /\ pc = "connected" /\ Goto(c.kind)
    /\ cmd' = c /\ ret' = "running" /\ lines' = 0
    /\ clean' = (outbox = <<>> /\ \A i \in DOMAIN inbox : ~inbox[i].reply)
    /\ UNCHANGED <<nr, inbox, outbox, executed>>

\* ev3_write: hid_write reports a failure, bt_write does not, so that a packet
\* may be lost unnoticed.
Written(req) == inbox' = Append(inbox, req)
Unnoticed == link.kind # "usb" /\ UNCHANGED inbox

Run ==
    /\ pc = "run"
    /\ Written(Request("run", 1, TRUE)) \/ Unnoticed
    /\ Goto("run_reply")
    /\ UNCHANGED <<nr, cmd, outbox, executed, clean, lines, ret>>

\* Mutant: the input is not read to its end.
AcceptedMutant(size) == size # 0

\* fread takes max_bytecodes at most; feof is only set by reading past the end.
Accepted(size) == size # 0 /\ size < MaxBytecodes

Vmexec ==
    /\ pc = "vmexec"
    /\ IF Accepted(cmd.size)
       THEN /\ \/ Written(Request("vmexec", IF cmd.size > MaxBytecodes THEN MaxBytecodes ELSE cmd.size,
                                  cmd.reply))
               \/ Unnoticed
            /\ IF cmd.reply THEN Goto("vmexec_reply") /\ UNCHANGED ret
               ELSE Return("successful")
       ELSE Return("ERR_IO") /\ UNCHANGED inbox
    /\ UNCHANGED <<nr, cmd, outbox, executed, clean, lines>>

\* Too many locals or globals.
VmexecRefused ==
    /\ pc = "vmexec" /\ Return("ERR_ARG")
    /\ UNCHANGED <<nr, cmd, inbox, outbox, executed, clean, lines>>

WriteFails ==
    /\ link.kind = "usb" /\ Return("ERR_COMM")
    /\ pc = "run" \/ (pc = "vmexec" /\ Accepted(cmd.size))
    /\ UNCHANGED <<nr, cmd, inbox, outbox, executed, clean, lines>>

\* A timeout is reported as success.
RunReply ==
    /\ pc = "run_reply"
    /\ \/ outbox = <<>> /\ Return("successful") /\ UNCHANGED outbox
       \/ /\ outbox # <<>> /\ outbox' = Tail(outbox)
          /\ CASE Head(outbox).type = "ok" -> Return("successful")
               [] Head(outbox).type = "text" /\ link.kind = "usb" -> Goto("run_output") /\ UNCHANGED ret
               [] OTHER -> Return("status unknown")
    /\ UNCHANGED <<nr, cmd, inbox, executed, clean, lines>>

\* Everything that comes is printed, until nothing comes for 100 ms.
RunOutput ==
    /\ pc = "run_output"
    /\ \/ outbox = <<>> /\ Return("status unknown") /\ UNCHANGED outbox
       \/ outbox # <<>> /\ outbox' = Tail(outbox) /\ Goto("run_output") /\ UNCHANGED ret
    /\ UNCHANGED <<nr, cmd, inbox, executed, clean, lines>>

VmexecReply ==
    /\ pc = "vmexec_reply"
    /\ \/ outbox = <<>> /\ Return("ERR_COMM") /\ UNCHANGED outbox
       \/ /\ outbox # <<>> /\ outbox' = Tail(outbox)
          /\ Return(IF Head(outbox).type = "ok" THEN "successful" ELSE "ERR_VM")
    /\ UNCHANGED <<nr, cmd, inbox, executed, clean, lines>>

ReadFails ==
    /\ pc \in {"run_reply", "run_output", "vmexec_reply"} /\ Return("ERR_COMM")
    /\ UNCHANGED <<nr, cmd, inbox, outbox, executed, clean, lines>>

\* A line of stdin is sent as it is; no reply is ever read.
TunnelLine ==
    /\ pc = "tunnel" /\ lines < MaxLines /\ lines' = lines + 1
    /\ \/ \E reply \in BOOLEAN : Written(Request("raw", 1, reply))
       \/ UNCHANGED inbox
    /\ Goto("tunnel")
    /\ UNCHANGED <<nr, cmd, outbox, executed, clean, ret>>

TunnelEof ==
    /\ pc = "tunnel" /\ Return("ERR_UNK")
    /\ UNCHANGED <<nr, cmd, inbox, outbox, executed, clean, lines>>

------------------------------------------------------------------------------
(* The end of an invocation, and the next one. *)

\* ev3_close.  A TCP connection takes its unread replies with it.
Close ==
    /\ pc = "close" /\ pc' = "done" /\ link' = NoLink
    /\ IF link.kind = "tcp"
       THEN outbox' = <<>> /\ inbox' = [i \in DOMAIN inbox |-> [inbox[i] EXCEPT !.reply = FALSE]]
       ELSE UNCHANGED <<inbox, outbox>>
    /\ UNCHANGED <<opts, plugged, on, queue, fdp, cliaddr>>
    /\ UNCHANGED <<nr, cmd, executed, clean, lines, ret>>

\* "EV3 not found."
NotFound ==
    /\ pc = "failed" /\ Goto("done") /\ ret' = "ERR_COMM"
    /\ UNCHANGED <<nr, cmd, inbox, outbox, executed, clean, lines>>

Invoke ==
    /\ pc = "done" /\ nr < MaxInvocations
    /\ nr' = nr + 1 /\ cmd' = NoCommand /\ ret' = "running"
    /\ Goto("usb")
    /\ UNCHANGED <<inbox, outbox, executed, clean, lines>>

\* The last invocation has ended.
Finished == pc = "done" /\ nr = MaxInvocations /\ UNCHANGED vars

------------------------------------------------------------------------------
(* The brick: executes a request and answers it if an answer is asked for.  *)
(* A program started over USB may send its output first.                    *)

Execute ==
    /\ inbox # <<>> /\ inbox' = Tail(inbox)
    /\ \E type \in {"ok", "error"} \cup (IF Head(inbox).kind = "run" THEN {"text"} ELSE {}),
          more \in 0..MaxOutput :
         LET reply(t) == [nr |-> Head(inbox).nr, type |-> t] IN
         /\ type # "text" => more = 0
         /\ executed' = executed \cup {[nr |-> Head(inbox).nr, size |-> Head(inbox).size, type |-> type]}
         /\ outbox' = IF Head(inbox).reply
                      THEN outbox \o <<reply(type)>> \o [i \in 1..more |-> reply("text")]
                      ELSE outbox
    /\ UNCHANGED connectVars
    /\ UNCHANGED <<nr, cmd, clean, lines, ret>>

\* Opening a serial port discards the replies that have arrived there (set_termios).
Connecting(A) ==
    /\ A
    /\ outbox' = IF link.kind = "none" /\ link'.kind = "serial" THEN <<>> ELSE outbox
    /\ UNCHANGED <<nr, cmd, inbox, executed, clean, lines, ret>>

Init ==
    /\ ConnectInit
    /\ nr = 1 /\ cmd = NoCommand /\ inbox = <<>> /\ outbox = <<>>
    /\ executed = {} /\ clean = TRUE /\ lines = 0 /\ ret = "running"

Command == Run \/ Vmexec \/ RunReply \/ RunOutput \/ VmexecReply \/ TunnelEof \/ Close \/ NotFound
CommandFails == VmexecRefused \/ WriteFails \/ ReadFails

Next ==
    \/ Connecting(ConnectNext)
    \/ \E c \in Commands : Start(c)
    \/ TunnelLine \/ Command \/ CommandFails \/ Invoke \/ Finished
    \/ Execute

\* The program goes on as long as no call of it waits; the senders that are on
\* broadcast every few seconds, a peer that answers does so, and standard input ends.
Fairness ==
    /\ WF_vars(Connecting(Open)) /\ WF_vars(Connecting(Confirm))
    /\ WF_vars(\E c \in Commands : Start(c)) /\ WF_vars(Command)
    /\ \A s \in Senders : WF_vars(Connecting(Beacon(s)))

Spec == Init /\ [][Next]_vars /\ Fairness

------------------------------------------------------------------------------
(* What the program promises. *)

\* tcp_open, looking for a serial number among the beacons of several bricks and
\* other datagrams: the address it wakes up and connects to, the port and the
\* serial number it asks for are all those of the brick that was named.
RightBrick ==
    pc \in {"wake", "connect", "confirm"} /\ opts.id.kind = "serial" =>
      /\ cliaddr = opts.id.brick /\ fdp.serial = opts.id.brick /\ fdp.port = opts.id.brick
      /\ link.peer \in {None, opts.id.brick}

\* vmexec's verdict, given that no earlier invocation left anything under way: if it
\* reports success the brick has executed the whole of this invocation's file without
\* error, and if it reports the VM's refusal the brick has refused it.
VmexecVerdict ==
    LET ended(type) == \E e \in executed : e.nr = nr /\ e.type = type /\ e.size = cmd.size IN
    pc = "close" /\ cmd.kind = "vmexec" /\ cmd.reply /\ clean =>
      /\ ret = "successful" => ended("ok")
      /\ ret = "ERR_VM" => ended("error")

\* tcp.c:77: the search ends once the brick that is looked for keeps broadcasting, or
\* nobody does (any other sender restarts the timeout), the handshake once
\* the peer answers it, and with them every invocation.
InvocationsEnd ==
    /\ \/ \E b \in Bricks : <>[](b \in on /\ (opts.id.kind = "any" \/ opts.id.brick = b))
       \/ <>[](on = {})
    /\ [](pc = "confirm" => link.peer \notin Silent)
    => (pc = "usb" ~> pc = "done")
==============================================================================
