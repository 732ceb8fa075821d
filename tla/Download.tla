------------------------------ MODULE Download ------------------------------
(***************************************************************************)
(* The commands that read from the brick: dl (dl.c), which copies a file   *)
(* of the brick into a local one, and ls (ls.c), which prints a directory. *)
(* Both have one shape: a first request, whose reply tells the total size, *)
(* a handle and carries the first bytes, then requests under that handle   *)
(* until the bytes received add up to the total.  The commands run one     *)
(* after the other against one brick, over a transport that is silent when *)
(* an invocation begins (FileCommands has what happens otherwise).         *)
(*                                                                         *)
(* The brick is external: it sends at most the requested number of bytes,  *)
(* perhaps none, and frees the handle with the last of them.               *)
(***************************************************************************)
EXTENDS Ev3Protocol, FiniteSets

CONSTANTS
  Byte,           \* byte values
  Contents,       \* what the brick may hold: files and listings
  Header,         \* op -> bytes of BEGIN_UPLOAD_REPLY, LIST_FILES_REPLY (12)
  ContHeader,     \* op -> bytes of the CONTINUE_..._REPLY before its data (8)
  FirstMax,       \* op -> maxBytes of the first request
  UINT32_MAX,     \* read_so_far and total are unsigned
  NHandles,       \* size of the brick's handle table
  Continues       \* op -> does the firmware implement CONTINUE_...?

Ops == {"dl", "ls"}

ASSUME ContentsAssumption ==
  \A c \in Contents : c \in Seq(Byte) /\ Len(c) <= UINT32_MAX
ASSUME LayoutAssumption ==
  /\ Header \in [Ops -> Nat] /\ ContHeader \in [Ops -> Nat]
  /\ FirstMax \in [Ops -> Nat \ {0}]
  /\ \A o \in Ops : 2 <= ContHeader[o] /\ ContHeader[o] <= Header[o]
ASSUME LimitsAssumption ==
  /\ UINT32_MAX \in Nat /\ NHandles \in Nat \ {0}
  /\ Continues \in [Ops -> BOOLEAN]

VARIABLES
  op,            \* the command of this invocation
  pc,            \* "idle" before the first one, "write", "read", "exited"
  begun,         \* the first reply has been read
  read_so_far, total, hnd,   \* as in dl() and ls()
  out,           \* the local file, or what was printed
  ret,           \* what the invocation returned, or "running"
  request, reply,  \* the packet in flight in each direction, or None
  content,       \* brick: what is being read
  table          \* brick: handle -> bytes already sent, or Free

vars == <<op, pc, begun, read_so_far, total, hnd, out, ret, request, reply,
          content, table>>
brick == <<content, table>>

Handles == 0 .. NHandles - 1
Free == -1
None == [none |-> TRUE]

Init ==
  /\ op = "dl" /\ pc = "idle" /\ begun = FALSE
  /\ read_so_far = 0 /\ total = 0 /\ hnd = 0
  /\ out = << >> /\ ret = "running"
  /\ request = None /\ reply = None
  /\ content \in Contents
  /\ table = [h \in Handles |-> Free]

-----------------------------------------------------------------------------
\* main() truncates the local file before dl() is called; what an earlier
\* invocation left in the transport has been drained.
Invoke ==
  /\ pc \in {"idle", "exited"}
  /\ op' \in Ops
  /\ content' \in Contents
  /\ pc' = "write" /\ begun' = FALSE
  /\ read_so_far' = 0 /\ total' = 0 /\ hnd' = 0
  /\ out' = << >> /\ ret' = "running"
  /\ request' = None /\ reply' = None
  /\ UNCHANGED table

Exit(err) == pc' = "exited" /\ ret' = err

\* ev3_write succeeds, fails unnoticed (bt_write and tcp_write return the
\* bytes sent so far: the brick has no whole request, and the command reads in
\* vain), or returns a negative count and the command gives up.
Write(packet) ==
  /\ pc = "write"
  /\ \/ request' \in {packet, None} /\ pc' = "read" /\ UNCHANGED ret
     \/ Exit("ERR_COMM") /\ UNCHANGED request
  /\ UNCHANGED <<op, begun, read_so_far, total, hnd, out, reply, brick>>

\* ev3_read_timeout returns nothing within TIMEOUT, or fails.
ReadFails ==
  /\ pc = "read"
  /\ Exit("ERR_COMM")
  /\ UNCHANGED <<op, begun, read_so_far, total, hnd, out, request, reply,
                 brick>>

-----------------------------------------------------------------------------
\* BEGIN_UPLOAD or LIST_FILES.
Begin ==
  /\ ~begun
  /\ Write([cmd |-> "begin", hnd |-> 0, max |-> FirstMax[op]])

\* Mutant: the data of later replies may be as long as a whole first reply.
ContinueMaxWhole == FirstMax[op] + Header[op]

\* maxBytes of the requests that follow: what the buffer of the first reply
\* holds beside the smaller header.
ContinueMax == FirstMax[op] + Header[op] - ContHeader[op]

\* CONTINUE_UPLOAD or CONTINUE_LIST_FILES, under the handle last received.
Continue ==
  /\ begun
  /\ Write([cmd |-> "continue", hnd |-> hnd, max |-> ContinueMax])

\* Mutant: the two bytes of packetLen itself are forgotten.
ReceivedShort(header) == reply.packetLen - header

\* packetLen + 2 is the length of a reply, so this is what follows its header.
Received(header) == reply.packetLen + 2 - header

\* What a reply that is not a refusal changes, the loop going on while more.
TakeReply(n, size, sum, more) ==
  /\ pc = "read" /\ reply # None
  /\ reply.type # VM_ERROR
  /\ reply' = None
  /\ begun' = TRUE
  /\ out' = out \o SubSeq(reply.data, 1, n)
  /\ read_so_far' = sum
  /\ total' = size
  /\ hnd' = reply.hnd
  /\ IF more THEN pc' = "write" /\ UNCHANGED ret ELSE Exit("ERR_UNK")
  /\ UNCHANGED <<op, request, brick>>

\* Mutant: the loop stops one byte early.
ReadReplyEarly ==
  LET n == Received(IF begun THEN ContHeader[op] ELSE Header[op])
      size == IF begun THEN total ELSE reply.size
  IN  TakeReply(n, size, read_so_far + n, read_so_far + n + 1 < size)

\* The first reply sets read_so_far and total, later ones add to read_so_far.
ReadReply ==
  LET n == Received(IF begun THEN ContHeader[op] ELSE Header[op])
      size == IF begun THEN total ELSE reply.size
      sum == (read_so_far + n) % (UINT32_MAX + 1)
  IN  TakeReply(n, size, sum, sum < size)

\* Mutant: a refused request is made again.
ReplyDeniedRetried ==
  /\ pc = "read" /\ reply # None
  /\ reply.type = VM_ERROR
  /\ pc' = "write"
  /\ reply' = None
  /\ UNCHANGED <<op, begun, read_so_far, total, hnd, out, ret, request, brick>>

\* Every reply is checked for a refusal.
ReplyDenied ==
  /\ pc = "read" /\ reply # None
  /\ reply.type = VM_ERROR
  /\ Exit("ERR_VM")
  /\ reply' = None
  /\ UNCHANGED <<op, begun, read_so_far, total, hnd, out, request, brick>>

-----------------------------------------------------------------------------
(***************************************************************************)
(* The brick (external).                                                   *)
(***************************************************************************)
Say(type, size, h, data, header) ==
  /\ reply' = [type |-> type, size |-> size, hnd |-> h, data |-> data,
               packetLen |-> header + Len(data) - 2]
  /\ request' = None
  /\ UNCHANGED <<op, pc, begun, read_so_far, total, hnd, out, ret, content>>

Deny == Say(VM_ERROR, 0, 0, << >>, ContHeader[op]) /\ UNCHANGED table

\* Some of the bytes from `from' on; the handle is freed with the last one.
Chunk(h, from, header) ==
  \E n \in 0 .. request.max :
    LET end == from + n IN
    /\ end <= Len(content)
    /\ table' = [table EXCEPT ![h] = IF end = Len(content) THEN Free ELSE end]
    /\ Say(VM_OK, Len(content), h, SubSeq(content, from + 1, end), header)

BrickBegin ==
  /\ request # None /\ request.cmd = "begin"
  /\ \/ \E h \in Handles : table[h] = Free /\ Chunk(h, 0, Header[op])
     \/ Deny

BrickContinue ==
  /\ request # None /\ request.cmd = "continue"
  /\ LET h == request.hnd IN
     \/ /\ Continues[op] /\ table[h] # Free
        /\ Chunk(h, table[h], ContHeader[op])
     \/ Deny

-----------------------------------------------------------------------------
Command == Begin \/ Continue \/ ReadReply \/ ReplyDenied \/ ReadFails
Brick == BrickBegin \/ BrickContinue
Next == Invoke \/ Command \/ Brick

Spec == Init /\ [][Next]_vars

\* The process is scheduled and every read returns within TIMEOUT.
FairSpec == Spec /\ WF_vars(Command)

-----------------------------------------------------------------------------
(***************************************************************************)
(* Properties.                                                             *)
(***************************************************************************)
Requests == [cmd : {"begin", "continue"}, hnd : Handles, max : Nat]
Replies == [type : {VM_OK, VM_ERROR}, size : 0 .. UINT32_MAX, hnd : Handles,
            data : Seq(Byte), packetLen : Nat]

\* Every variable stays in its type; the number of bytes received is never
\* negative, whichever header the reply has.
TypeOK ==
  /\ op \in Ops
  /\ pc \in {"idle", "write", "read", "exited"}
  /\ begun \in BOOLEAN
  /\ read_so_far \in 0 .. UINT32_MAX /\ total \in 0 .. UINT32_MAX
  /\ hnd \in Handles
  /\ out \in Seq(Byte)
  /\ ret \in ERR \cup {"running"}
  /\ request \in Requests \cup {None}
  /\ reply \in Replies \cup {None}
  /\ content \in Seq(Byte)
  /\ table \in [Handles -> Nat \cup {Free}]

Succeeded == pc = "exited" /\ ret = "ERR_UNK"

\* "`BEGIN_UPLOAD` was successful.": the local file is the brick's, for every
\* way the brick cuts it into replies; "`LIST_FILES` was successful.": the
\* whole listing was printed.
Downloaded == Succeeded => out = content

\* A transfer that is cut short, wherever, leaves a prefix, and read_so_far
\* is its length: no byte of a reply's header is taken for data, none is
\* lost and no reply is counted twice.
OutIsPrefix ==
  /\ out = SubSeq(content, 1, Len(out))
  /\ pc # "idle" => read_so_far = Len(out)

\* Each reply fits the buffer that was allocated for the first one.
RepliesFit ==
  reply # None => reply.packetLen + 2 <= Header[op] + FirstMax[op]

\* A successful transfer has made the brick free its handle: neither command
\* sends CLOSE_HANDLE.
ReadLeavesNoHandle ==
  [][pc = "read" /\ pc' = "exited" /\ ret' = "ERR_UNK" =>
       table[reply.hnd] = Free]_vars

\* A reply to a CONTINUE request that brings the transfer no further.
EmptyReply ==
  begun /\ reply # None /\ reply.type # VM_ERROR /\ reply.data = << >>

\* Both commands end, whatever the brick does and also when it cannot be
\* asked, but for one case: nothing in the loop checks for progress, and a
\* brick that sends empty replies again and again keeps it going.
RunsEnd == (pc = "write" ~> pc = "exited") \/ []<>EmptyReply
=============================================================================
