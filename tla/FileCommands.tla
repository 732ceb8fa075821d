---------------------------- MODULE FileCommands ----------------------------
(***************************************************************************)
(* The commands that change files on the brick: up (up.c), rm (rm.c),      *)
(* mkdir (mkdir.c) and closehnd (closehnd.c).  ev3duder is one process per *)
(* command: it opens the transport, sends a request, waits at most TIMEOUT *)
(* for the reply, sends the next, and exits.  The user runs it again and   *)
(* again against the same brick, so what one invocation leaves behind (an  *)
(* open handle, a request the brick has not answered yet) is met by the    *)
(* next.  The brick is external: a handle table, a file store, and one     *)
(* step per request, in the order the requests arrive.                     *)
(***************************************************************************)
EXTENDS Ev3Protocol, FiniteSets

CONSTANTS
  Names,        \* paths on the brick
  Byte,         \* byte values
  Commands,     \* the commands the user gives
  LocalFiles,   \* contents of the local files the user may upload
  CHUNK_SIZE,   \* file bytes per CONTINUE_DOWNLOAD (1000 in up.c)
  UINT32_MAX,   \* largest size BEGIN_DOWNLOAD can announce
  NHandles,     \* size of the brick's handle table (256 in closehnd.c)
  Refusals,     \* may the brick refuse a request it could serve?
  MaxLate       \* packets that can outlive the invocation they belong to

ASSUME CommandsAssumption ==
  Commands \subseteq {"up", "rm", "mkdir", "closehnd"}
ASSUME FilesAssumption == LocalFiles \subseteq Seq(Byte)
ASSUME SizesAssumption ==
  /\ CHUNK_SIZE \in Nat \ {0}
  /\ UINT32_MAX \in Nat
  /\ NHandles \in Nat \ {0}
ASSUME FaultsAssumption == Refusals \in BOOLEAN /\ MaxLate \in Nat

VARIABLES
  run,        \* the invocation: its command and arguments
  pc,         \* "idle" before the first one, "write", "read", "exited"
  k,          \* number of the request being made (0 is the first)
  pos,        \* up: position of fp, the local file
  rep,        \* the reply buffer (bdrep in up.c)
  ret,        \* what the invocation returned, or "running"
  requests,   \* packets on their way to the brick
  replies,    \* packets on their way to the program
  store,      \* brick: path -> contents, Dir or Absent
  table,      \* brick: handle -> the download it serves, or Free
  clean,      \* history: nothing was in flight when this invocation began
  refused     \* history: the brick refused a request of this invocation

vars == <<run, pc, k, pos, rep, ret, requests, replies, store, table, clean,
          refused>>
program == <<run, pc, k, pos, rep, ret>>

Handles == 0 .. NHandles - 1

Dir == [kind |-> "dir", bytes |-> << >>]
Absent == [kind |-> "absent", bytes |-> << >>]
File(bytes) == [kind |-> "file", bytes |-> bytes]

\* A handle serves a download of `size' bytes into `name', `got' of them
\* written; once `name' is deleted the bytes go nowhere (linked is FALSE).
Free == [open |-> FALSE, name |-> "", size |-> 0, got |-> 0, linked |-> FALSE,
         own |-> FALSE]
Receiving(name, size, got, own) ==
  [open |-> TRUE, name |-> name, size |-> size, got |-> got, linked |-> TRUE,
   own |-> own]

\* No command reads its reply buffer before a reply is in it.
Blank == Reply(VM_OK, 0, FALSE)

Run(op, name, file, from, to) ==
  [op |-> op, name |-> name, file |-> file, from |-> from, to |-> to]

Init ==
  /\ run = Run("none", "", << >>, 0, 0)
  /\ pc = "idle"
  /\ k = 0
  /\ pos = 0
  /\ rep = Blank
  /\ ret = "running"
  /\ requests = << >>
  /\ replies = << >>
  /\ store = [n \in Names |-> Absent]
  /\ table = [h \in Handles |-> Free]
  /\ clean = TRUE
  /\ refused = FALSE

-----------------------------------------------------------------------------
(***************************************************************************)
(* Starting an invocation.                                                 *)
(***************************************************************************)

\* History only: x belongs to an invocation that has ended.
Disown(x) == [x EXCEPT !.own = FALSE]

\* What the transport still holds when the next invocation opens it: nothing,
\* or the unanswered requests and unread replies of earlier ones (at most
\* MaxLate packets in all).
Leftover(packets) ==
  {<< >>} \cup
  (IF Len(requests) + Len(replies) <= MaxLate
     THEN {[j \in 1 .. Len(packets) |-> Disown(packets[j])]}
     ELSE {})

Invoke(op, name, file, from, to) ==
  /\ pc \in {"idle", "exited"}
  /\ op \in Commands
  /\ run' = Run(op, name, file, from, to)
  /\ pc' = "write"
  /\ k' = 0
  /\ pos' = 0
  /\ ret' = "running"
  /\ requests' \in Leftover(requests)
  /\ replies' \in Leftover(replies)
  /\ clean' = (requests' = << >> /\ replies' = << >>)
  /\ refused' = FALSE
  /\ table' = [h \in Handles |-> Disown(table[h])]
  /\ rep' = Blank
  /\ UNCHANGED store

RunUp == \E n \in Names, f \in LocalFiles : Invoke("up", n, f, 0, 0)

RunRm == \E n \in Names : Invoke("rm", n, << >>, 0, 0)

RunMkdir == \E n \in Names : Invoke("mkdir", n, << >>, 0, 0)

\* `closehnd' and `closehnd all' ask for 0..256, `closehnd <h>' for one
\* handle; main() accepts no other range.
RunClosehnd ==
  \/ Invoke("closehnd", "", << >>, 0, NHandles)
  \/ \E h \in Handles : Invoke("closehnd", "", << >>, h, h + 1)

-----------------------------------------------------------------------------
(***************************************************************************)
(* ev3_write and ev3_read_timeout as the commands use them.                *)
(***************************************************************************)

Exit(err) == pc' = "exited" /\ ret' = err

\* Mutant: a request is sent again although the first one got through.
WriteTwice(request) ==
  /\ requests' = requests \o <<request, request>>
  /\ pc' = "read"
  /\ UNCHANGED ret

\* The bytes of a request that reached the brick before the write failed.
Torn == Request("TORN", "", 0, 0, << >>)

\* ev3_write: hid_write returns a negative count when it fails, and the
\* command gives up.  bt_write and tcp_write return the bytes sent so far,
\* never a negative count: the command goes on to read the reply to a request
\* of which the brick has a part, or nothing.
Write(request) ==
  \/ /\ requests' \in {Append(requests, request), Append(requests, Torn),
                       requests}
     /\ pc' = "read"
     /\ UNCHANGED ret
  \/ /\ Exit("ERR_COMM")
     /\ UNCHANGED requests

\* ev3_read_timeout delivers the oldest packet there is, whatever it answers.
Read ==
  /\ pc = "read"
  /\ replies # << >>
  /\ rep' = Head(replies)
  /\ replies' = Tail(replies)

\* ... or returns 0 after TIMEOUT, or a negative count: the command gives up.
ReadFails ==
  /\ pc = "read"
  /\ Exit("ERR_COMM")
  /\ UNCHANGED <<run, k, pos, rep, requests, replies, store, table, clean,
                 refused>>

-----------------------------------------------------------------------------
(***************************************************************************)
(* up                                                                      *)
(***************************************************************************)

\* Mutant: the rest of the file is forgotten.
ChunksNoRest(fsize) == fsize \div CHUNK_SIZE

\* Number of CONTINUE_DOWNLOAD packets for a file of fsize bytes.
Chunks(fsize) ==
  IF fsize % CHUNK_SIZE = 0 THEN fsize \div CHUNK_SIZE
                            ELSE fsize \div CHUNK_SIZE + 1

\* Mutant: the last chunk of a file that is a multiple of CHUNK_SIZE is empty.
FinalChunkMayBeEmpty(fsize) == fsize % CHUNK_SIZE

FinalChunkSize(fsize) ==
  IF fsize % CHUNK_SIZE = 0 THEN CHUNK_SIZE ELSE fsize % CHUNK_SIZE

\* Bytes that the loop reads for its packet number i (1 .. chunks).
ChunkLen(fsize, i) ==
  IF i = Chunks(fsize) THEN FinalChunkSize(fsize) ELSE CHUNK_SIZE

UpTooBig ==
  /\ run.op = "up" /\ pc = "write" /\ k = 0
  /\ Len(run.file) > UINT32_MAX
  /\ Exit("ERR_FTOOBIG")
  /\ UNCHANGED <<run, k, pos, rep, requests, replies, store, table, clean,
                 refused>>

UpBegin ==
  /\ run.op = "up" /\ pc = "write" /\ k = 0
  /\ Len(run.file) <= UINT32_MAX
  /\ Write(BEGIN_DOWNLOAD(run.name, Len(run.file)))
  /\ UNCHANGED <<run, k, pos, rep, replies, store, table, clean, refused>>

\* Mutant: the chunk is sent from the start of the file each time.
UpChunkRereads ==
  /\ run.op = "up" /\ pc = "write" /\ k > 0
  /\ Write(CONTINUE_DOWNLOAD(rep.hnd,
             SubSeq(run.file, 1, ChunkLen(Len(run.file), k))))
  /\ UNCHANGED <<run, k, pos, rep, replies, store, table, clean, refused>>

\* Mutant: the handle of CONTINUE_DOWNLOAD_INIT is not overwritten.
UpChunkNoHandle ==
  /\ run.op = "up" /\ pc = "write" /\ k > 0
  /\ LET end == pos + ChunkLen(Len(run.file), k)
     IN  /\ pos' = end
         /\ Write(CONTINUE_DOWNLOAD(0, SubSeq(run.file, pos + 1, end)))
  /\ UNCHANGED <<run, k, rep, replies, store, table, clean, refused>>

\* Loop iteration k: fread the chunk, send it under the handle of the last
\* reply.
UpChunk ==
  /\ run.op = "up" /\ pc = "write" /\ k > 0
  /\ LET end == pos + ChunkLen(Len(run.file), k)
     IN  /\ pos' = end
         /\ Write(CONTINUE_DOWNLOAD(rep.hnd, SubSeq(run.file, pos + 1, end)))
  /\ UNCHANGED <<run, k, rep, replies, store, table, clean, refused>>

\* What up does once reply number k is in bdrep: the type is looked at after
\* BEGIN_DOWNLOAD and after the last chunk, not in between.
UpNext(reply) ==
  IF k < Chunks(Len(run.file)) /\ (k > 0 \/ reply.type # VM_ERROR)
    THEN pc' = "write" /\ k' = k + 1 /\ UNCHANGED ret
    ELSE /\ Exit(IF reply.type = VM_ERROR THEN "ERR_VM" ELSE "ERR_UNK")
         /\ UNCHANGED k

UpReply ==
  /\ run.op = "up"
  /\ Read
  /\ UpNext(rep')
  /\ UNCHANGED <<run, pos, requests, store, table, clean, refused>>

-----------------------------------------------------------------------------
(***************************************************************************)
(* rm and mkdir: one request, one reply.                                   *)
(***************************************************************************)

Rm ==
  /\ run.op = "rm" /\ pc = "write"
  /\ Write(DELETE_FILE(run.name))
  /\ UNCHANGED <<run, k, pos, rep, replies, store, table, clean, refused>>

\* Mutant: the type of the reply is not looked at.
RmReplyUnchecked ==
  /\ run.op = "rm"
  /\ Read
  /\ Exit("ERR_UNK")
  /\ UNCHANGED <<run, k, pos, requests, store, table, clean, refused>>

RmReply ==
  /\ run.op = "rm"
  /\ Read
  /\ Exit(IF rep'.type = VM_ERROR THEN "ERR_VM" ELSE "ERR_UNK")
  /\ UNCHANGED <<run, k, pos, requests, store, table, clean, refused>>

Mkdir ==
  /\ run.op = "mkdir" /\ pc = "write"
  /\ Write(CREATE_DIR(run.name))
  /\ UNCHANGED <<run, k, pos, rep, replies, store, table, clean, refused>>

MkdirReply ==
  /\ run.op = "mkdir"
  /\ Read
  /\ Exit(IF rep'.type = VM_ERROR THEN "ERR_VM" ELSE "ERR_UNK")
  /\ UNCHANGED <<run, k, pos, requests, store, table, clean, refused>>

-----------------------------------------------------------------------------
(***************************************************************************)
(* closehnd: one request per handle of the range; the reply's type decides *)
(* only which character is printed.                                        *)
(***************************************************************************)

Closehnd ==
  /\ run.op = "closehnd" /\ pc = "write"
  /\ Write(CLOSE_HANDLE(run.from + k))
  /\ UNCHANGED <<run, k, pos, rep, replies, store, table, clean, refused>>

\* Mutants of the loop over the range: one too many, one too few, no i++.
ClosehndLoop(step, more) ==
  /\ run.op = "closehnd"
  /\ Read
  /\ k' = k + step
  /\ IF more THEN pc' = "write" /\ UNCHANGED ret ELSE Exit("ERR_UNK")
  /\ UNCHANGED <<run, pos, requests, store, table, clean, refused>>
ClosehndOneMore == ClosehndLoop(1, run.from + k < run.to)
ClosehndOneLess == ClosehndLoop(1, run.from + k + 2 < run.to)
ClosehndStuck == ClosehndLoop(0, run.from + k + 1 < run.to)

ClosehndReply ==
  /\ run.op = "closehnd"
  /\ Read
  /\ k' = k + 1
  /\ IF run.from + k + 1 < run.to THEN pc' = "write" /\ UNCHANGED ret
                                  ELSE Exit("ERR_UNK")
  /\ UNCHANGED <<run, pos, requests, store, table, clean, refused>>

-----------------------------------------------------------------------------
(***************************************************************************)
(* The brick (external): serves the oldest request and replies to it.      *)
(***************************************************************************)

Serve(cmd) ==
  /\ requests # << >>
  /\ Head(requests).cmd = cmd
  /\ requests' = Tail(requests)
  /\ UNCHANGED <<program, clean>>

Answer(type, hnd) ==
  replies' = Append(replies, Reply(type, hnd, Head(requests).own))

Deny(hnd) ==
  /\ Answer(VM_ERROR, hnd)
  /\ refused' = (refused \/ Head(requests).own)
  /\ UNCHANGED <<store, table>>

BrickBegin ==
  LET q == Head(requests) IN
  /\ Serve("BEGIN_DOWNLOAD")
  /\ \/ /\ store[q.name] # Dir
        /\ \E h \in Handles :
             /\ ~table[h].open
             /\ store' = [store EXCEPT ![q.name] = File(<< >>)]
             /\ table' = [table EXCEPT ![h] =
                            IF q.size = 0
                              THEN Free
                              ELSE Receiving(q.name, q.size, 0, q.own)]
             /\ Answer(VM_OK, h)
             /\ UNCHANGED refused
     \/ /\ \/ Refusals
           \/ store[q.name] = Dir
           \/ \A h \in Handles : table[h].open
        /\ Deny(0)

\* The handle is closed by the brick once all announced bytes are there.
BrickContinue ==
  LET q == Head(requests)
      t == table[q.hnd]
      got == t.got + Len(q.data)
  IN
  /\ Serve("CONTINUE_DOWNLOAD")
  /\ \/ /\ t.open
        /\ store' = IF t.linked
                      THEN [store EXCEPT ![t.name] = File(@.bytes \o q.data)]
                      ELSE store
        /\ table' = [table EXCEPT ![q.hnd] =
                       IF got >= t.size THEN Free ELSE [t EXCEPT !.got = got]]
        /\ Answer(VM_OK, q.hnd)
        /\ UNCHANGED refused
     \/ /\ Refusals \/ ~t.open
        /\ Deny(q.hnd)

BrickClose ==
  LET q == Head(requests) IN
  /\ Serve("CLOSE_HANDLE")
  /\ \/ /\ table[q.hnd].open
        /\ table' = [table EXCEPT ![q.hnd] = Free]
        /\ Answer(VM_OK, q.hnd)
        /\ UNCHANGED <<store, refused>>
     \/ /\ ~table[q.hnd].open
        /\ Deny(q.hnd)

\* Deleting a file leaves the handles that write to it open.
BrickDelete ==
  LET q == Head(requests) IN
  /\ Serve("DELETE_FILE")
  /\ \/ /\ store[q.name] # Absent
        /\ store' = [store EXCEPT ![q.name] = Absent]
        /\ table' = [h \in Handles |->
                       IF table[h].open /\ table[h].name = q.name
                         THEN [table[h] EXCEPT !.linked = FALSE]
                         ELSE table[h]]
        /\ Answer(VM_OK, 0)
        /\ UNCHANGED refused
     \/ /\ Refusals \/ store[q.name] = Absent
        /\ Deny(0)

BrickCreateDir ==
  LET q == Head(requests) IN
  /\ Serve("CREATE_DIR")
  /\ \/ /\ store[q.name] = Absent
        /\ store' = [store EXCEPT ![q.name] = Dir]
        /\ Answer(VM_OK, 0)
        /\ UNCHANGED <<table, refused>>
     \/ /\ Refusals \/ store[q.name] # Absent
        /\ Deny(0)

\* The brick waits for the rest of a half packet, and takes the start of the
\* next one for it.  Both are spent: it drops them or answers something.
\* What the mixture asks the brick to do is left out: it can only come from
\* two invocations, and nothing is claimed of the second.
BrickTorn ==
  /\ Len(requests) >= 2
  /\ Head(requests).cmd = "TORN"
  /\ requests' = Tail(Tail(requests))
  /\ UNCHANGED <<program, store, table, clean, refused>>
  /\ \/ \E type \in {VM_OK, VM_ERROR} : Answer(type, 0)
     \/ UNCHANGED replies

-----------------------------------------------------------------------------
User == RunUp \/ RunRm \/ RunMkdir \/ RunClosehnd

Command ==
  \/ UpTooBig \/ UpBegin \/ UpChunk \/ UpReply
  \/ Rm \/ RmReply
  \/ Mkdir \/ MkdirReply
  \/ Closehnd \/ ClosehndReply
  \/ ReadFails

Brick ==
  \/ BrickBegin \/ BrickContinue \/ BrickClose \/ BrickDelete
  \/ BrickCreateDir \/ BrickTorn

Next == User \/ Command \/ Brick

Spec == Init /\ [][Next]_vars

(***************************************************************************)
(* The process is scheduled, and a read returns within TIMEOUT: a command  *)
(* that can take a step takes one.  Nothing is assumed of the brick.       *)
(***************************************************************************)
FairSpec == Spec /\ WF_vars(Command)

-----------------------------------------------------------------------------
(***************************************************************************)
(* Properties.  Most are conditional on `clean': packets.h says that       *)
(* checking msgCount would be pointless, so a command takes the oldest     *)
(* reply for its own, and what it reports is only meaningful when nothing  *)
(* of an earlier invocation was in flight.                                 *)
(***************************************************************************)
Paths == Names \cup {""}
Runs == [op : {"none", "up", "rm", "mkdir", "closehnd"}, name : Paths,
         file : Seq(Byte), from : 0 .. NHandles, to : 0 .. NHandles]
Requests == [cmd : {"BEGIN_DOWNLOAD", "CONTINUE_DOWNLOAD", "CLOSE_HANDLE",
                    "CREATE_DIR", "DELETE_FILE", "TORN"},
             name : Paths, size : Nat, hnd : Handles, data : Seq(Byte),
             own : BOOLEAN]
Replies == [type : {VM_OK, VM_ERROR}, hnd : Handles, own : BOOLEAN]
Entries == [kind : {"file", "dir", "absent"}, bytes : Seq(Byte)]
Downloads == [open : BOOLEAN, name : Paths, size : Nat, got : Nat,
              linked : BOOLEAN, own : BOOLEAN]

\* Every variable stays in its type: in particular a file handle, taken from
\* whatever reply came last, always indexes the brick's handle table.
TypeOK ==
  /\ run \in Runs
  /\ pc \in {"idle", "write", "read", "exited"}
  /\ k \in Nat
  /\ pos \in Nat
  /\ rep \in Replies
  /\ ret \in ERR \cup {"running"}
  /\ requests \in Seq(Requests)
  /\ replies \in Seq(Replies)
  /\ store \in [Names -> Entries]
  /\ table \in [Handles -> Downloads]
  /\ clean \in BOOLEAN
  /\ refused \in BOOLEAN

Succeeded(op) == run.op = op /\ pc = "exited" /\ ret = "ERR_UNK"

\* The commands are stop-and-wait: an invocation that began with a silent
\* transport has at most one packet in flight (none when its write went
\* unnoticed into a dead link), and none at all when it prepares the next
\* request or reports success: a reply it reads answers its own last request,
\* and no reply is left over for the next invocation to take for its own.
StopAndWait ==
  clean => /\ Len(requests) + Len(replies) <= 1
           /\ pc = "write" \/ ret = "ERR_UNK" =>
                requests = << >> /\ replies = << >>

\* "`upload` was successful.": the brick holds exactly the local file, for
\* every file size (empty, a multiple of CHUNK_SIZE, a rest), provided no
\* request was refused and the transport was silent.
UpStored ==
  Succeeded("up") /\ clean /\ ~refused => store[run.name] = File(run.file)

\* An upload that is cut short, at whatever point and even when the brick
\* serves its last request after the program has gone, leaves a prefix of
\* the local file: chunks are never swapped, repeated or skipped.
UpPrefix ==
  run.op = "up" /\ clean /\ ~refused /\ k > 0 =>
    \E n \in 0 .. Len(run.file) :
      store[run.name] = File(SubSeq(run.file, 1, n))

\* A successful upload has made the brick close the handle it opened (up.c
\* sends no CLOSE_HANDLE): the bytes sent add up to the size announced.
UpLeavesNoHandle ==
  Succeeded("up") /\ clean /\ ~refused => \A h \in Handles : ~table[h].own

\* "`closehnd` was successful.": the handles of the range are closed, those
\* that earlier, interrupted uploads left open included.
CloseAllFrees ==
  Succeeded("closehnd") /\ clean =>
    \A h \in Handles : run.from <= h /\ h < run.to => ~table[h].open

\* rm and mkdir report success only if the brick has done it, and a refusal
\* only if the brick has refused.  ERR_COMM says neither: the brick may have
\* done it and the reply been late.
RmMkdirDone ==
  clean =>
    /\ Succeeded("rm") => store[run.name] = Absent
    /\ Succeeded("mkdir") => store[run.name] = Dir
    /\ run.op \in {"rm", "mkdir"} /\ ret = "ERR_VM" => refused

\* An upload over a silent transport changes no other file, whichever handles
\* earlier invocations left open: the handle in the replies is its own.
UpTouchesOnlyItsFile ==
  [][clean' /\ run'.op = "up" =>
       \A n \in Names \ {run'.name} : store'[n] = store[n]]_vars

\* Every invocation ends, whatever the brick and the transport do: each read
\* is bounded by TIMEOUT and each loop by the file size or the handle range.
RunsEnd == pc = "write" ~> pc = "exited"

\* What "`upload` was successful." (up.c) tells the user, unconditionally.
UploadWasSuccessful == Succeeded("up") => store[run.name] = File(run.file)

\* What "`DELETE_FILE` was successful." (rm.c) tells the user, without the
\* premise that nothing of an earlier invocation was still in flight: packets.h
\* calls a check of msgCount pointless.
RmWasSuccessful == Succeeded("rm") => store[run.name] = Absent
=============================================================================
