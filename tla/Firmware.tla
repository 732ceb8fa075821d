------------------------------ MODULE Firmware ------------------------------
(***************************************************************************)
(* The `flash' commands: enter (bl_enter.c), info (bl_info.c), install     *)
(* (bl_install.c) and exit (bl_exit.c), in successive invocations over     *)
(* USB.  install erases the flash, announces FLASH_SIZE bytes, sends them  *)
(* in blocks padded with zeroes, compares checksums and reboots the brick. *)
(*                                                                         *)
(* The brick and its boot loader are external: a flash whose cells are     *)
(* erased or hold a byte, programmed in order; at most MaxFlips bytes are  *)
(* programmed wrongly (what the checksum is for).  On a USB 3.0 port the   *)
(* program may read its own packet, of type VM_SYS_RQ, instead of the      *)
(* reply ("usb 3.0 bug").  install waits for its replies without a         *)
(* timeout; only a device that goes away ends such a read.                 *)
(***************************************************************************)
EXTENDS Ev3Protocol

CONSTANTS
  Byte,           \* byte values; 0 is the padding
  Erased,         \* a cell after FW_ERASEFLASH
  Firmwares,      \* contents of the local firmware files
  FLASH_SIZE,     \* 16 * 1000 * 1024 in bl_install.c
  max_payload,    \* file bytes per FW_DOWNLOAD_DATA (1018 in bl_install.c)
  Crcs,           \* checksum values
  CrcStep(_, _),  \* crc32.c: one byte through the table
  Complement(_),  \* crc32.c: crc ^ ~0U
  MaxFlips,       \* bytes the flash takes wrongly between two erasures
  MaxLate         \* packets that can outlive the invocation they belong to

ASSUME BytesAssumption == 0 \in Byte /\ Firmwares \subseteq Seq(Byte)
ASSUME GeometryAssumption ==
  /\ FLASH_SIZE \in Nat
  /\ max_payload \in Nat \ {0}
  /\ MaxFlips \in {0, 1} /\ MaxLate \in Nat
ASSUME CrcAssumption ==
  /\ 0 \in Crcs
  /\ \A c \in Crcs : Complement(c) \in Crcs /\ Complement(Complement(c)) = c
  /\ \A c \in Crcs, b \in Byte \cup {Erased} : CrcStep(c, b) \in Crcs
\* The table's step tells apart what it is given: no two of the 256 entries
\* have the same leading byte.
ASSUME CrcInjective ==
  /\ \A c, d \in Crcs, b \in Byte : CrcStep(c, b) = CrcStep(d, b) => c = d
  /\ \A c \in Crcs, a, b \in Byte : CrcStep(c, a) = CrcStep(c, b) => a = b

VARIABLES
  op, file,       \* the invocation: the flash command and its file
  stage,          \* the request it is at, by the packet's name
  pc,             \* "idle" before the first one, "write", "read", "exited"
  sent,           \* sent_so_far of bootloader_send
  crc,            \* crc of bootloader_send, then *pCrc32
  ret,            \* what the invocation returned, or "running"
  requests,       \* packets on their way to the brick
  replies,        \* packets on their way to the program
  plugged,        \* the USB device is there
  port,           \* "usb2" or "usb3"
  mode,           \* brick: "linux" or "bootloader"
  flash,          \* brick: the cells
  next,           \* brick: cells programmed since FW_START_DOWNLOAD, or -1
  flips,          \* brick: bytes taken wrongly since the last erasure
  clean,          \* history: nothing was in flight when this invocation began
  refused,        \* history: the brick refused a request of this invocation
  looped          \* history: a packet of this invocation was looped back

program == <<op, file, stage, pc, sent, crc, ret>>
brick == <<mode, flash, next, flips>>
history == <<clean, refused, looped>>
vars == <<program, requests, replies, plugged, port, brick, history>>

Cells == 1 .. FLASH_SIZE
Blank == [i \in Cells |-> Erased]

Init ==
  /\ op = "none" /\ file = << >> /\ stage = "none"
  /\ pc = "idle"
  /\ sent = 0 /\ crc = 0
  /\ ret = "running"
  /\ requests = << >> /\ replies = << >>
  /\ plugged = TRUE
  /\ port \in {"usb2", "usb3"}
  /\ mode \in {"linux", "bootloader"}
  /\ flash \in {[i \in Cells |-> 0], Blank}
  /\ next = -1
  /\ flips = 0
  /\ clean = TRUE /\ refused = FALSE /\ looped = FALSE

-----------------------------------------------------------------------------
(***************************************************************************)
(* crc32.c, called once per block with the previous result.                *)
(***************************************************************************)
crc32(c, buf) ==
  LET reg[n \in 0 .. Len(buf)] ==  \* crc, once the loop has taken n bytes
        IF n = 0 THEN Complement(c) ELSE CrcStep(reg[n - 1], buf[n])
  IN  Complement(reg[Len(buf)])

-----------------------------------------------------------------------------
(***************************************************************************)
(* Starting an invocation: enter needs a brick that runs Linux, the others *)
(* one in firmware update mode; otherwise main() finds no EV3.             *)
(***************************************************************************)
Leftover(packets) ==
  {<< >>} \cup
  (IF Len(requests) + Len(replies) <= MaxLate
     THEN {[j \in 1 .. Len(packets) |-> [packets[j] EXCEPT !.own = FALSE]]}
     ELSE {})

Invoke(cmd, fw, first, needs) ==
  /\ pc \in {"idle", "exited"}
  /\ op' = cmd /\ file' = fw /\ stage' = first
  /\ sent' = 0 /\ crc' = 0
  /\ plugged' = TRUE
  /\ port' \in {"usb2", "usb3"}
  /\ IF mode = needs
       THEN pc' = "write" /\ ret' = "running"
       ELSE pc' = "exited" /\ ret' = "ERR_COMM"
  /\ requests' \in Leftover(requests)
  /\ replies' \in Leftover(replies)
  /\ clean' = (requests' = << >> /\ replies' = << >>)
  /\ refused' = FALSE /\ looped' = FALSE
  /\ UNCHANGED brick

RunEnter == Invoke("enter", << >>, "ENTERFWUPDATE", "linux")

RunInfo == Invoke("info", << >>, "FW_GETVERSION", "bootloader")

RunExit == Invoke("exit", << >>, "FW_STARTAPP", "bootloader")

\* Mutant: the flash is not erased first.
RunInstallNoErase ==
  \E fw \in Firmwares :
    Invoke("install", fw, "FW_START_DOWNLOAD", "bootloader")

RunInstall ==
  \E fw \in Firmwares : Invoke("install", fw, "FW_ERASEFLASH", "bootloader")

\* The cable is pulled: nothing in flight survives.
Unplug ==
  /\ pc \in {"write", "read"}
  /\ plugged
  /\ plugged' = FALSE
  /\ requests' = << >> /\ replies' = << >>
  /\ UNCHANGED <<program, port, brick, history>>

-----------------------------------------------------------------------------
(***************************************************************************)
(* ev3_write and ev3_read_timeout as these commands use them.              *)
(***************************************************************************)
Exit(err) == pc' = "exited" /\ ret' = err

Packet(cmd, data) == [cmd |-> cmd, data |-> data, own |-> TRUE]

Write(cmd, data) ==
  /\ pc = "write" /\ stage = cmd
  /\ \/ /\ plugged
        /\ requests' = Append(requests, Packet(cmd, data))
        /\ pc' = "read"
        /\ UNCHANGED ret
     \/ /\ Exit("ERR_COMM")
        /\ UNCHANGED requests
  /\ UNCHANGED <<op, file, stage, replies, plugged, port, brick, history>>

Read(cmd) ==
  /\ pc = "read" /\ stage = cmd
  /\ replies # << >>
  /\ replies' = Tail(replies)
  /\ UNCHANGED <<op, file, requests, plugged, port, brick, history>>

\* Mutant: no read has a TIMEOUT.
ReadFailsUnplugged ==
  /\ pc = "read"
  /\ ~plugged
  /\ Exit("ERR_COMM")
  /\ UNCHANGED <<op, file, stage, sent, crc, requests, replies, plugged, port,
                 brick, history>>

\* Only FW_STARTAPP and FW_GETVERSION are read with a TIMEOUT.
ReadFails ==
  /\ pc = "read"
  /\ ~plugged \/ stage \in {"FW_STARTAPP", "FW_GETVERSION"}
  /\ Exit("ERR_COMM")
  /\ UNCHANGED <<op, file, stage, sent, crc, requests, replies, plugged, port,
                 brick, history>>

\* A looped-back packet is as good as VM_OK where the reply tells no more.
Accepted(reply) == reply.type \in {VM_OK, VM_SYS_RQ}

Goto(s) == pc' = "write" /\ stage' = s /\ UNCHANGED ret

Deny == Exit("ERR_VM") /\ UNCHANGED stage

-----------------------------------------------------------------------------
(***************************************************************************)
(* install                                                                 *)
(***************************************************************************)

bootloader_erase == Write("FW_ERASEFLASH", << >>) /\ UNCHANGED <<sent, crc>>

EraseReply ==
  /\ Read("FW_ERASEFLASH")
  /\ IF Accepted(Head(replies)) THEN Goto("FW_START_DOWNLOAD") ELSE Deny
  /\ UNCHANGED <<sent, crc>>

bootloader_start ==
  Write("FW_START_DOWNLOAD", << >>) /\ UNCHANGED <<sent, crc>>

\* bootloader_send begins: nothing is sent if there is nothing to send.
AfterBlock(n) ==
  Goto(IF n < FLASH_SIZE THEN "FW_DOWNLOAD_DATA" ELSE "FW_GETCRC32")

StartReply ==
  /\ Read("FW_START_DOWNLOAD")
  /\ IF Accepted(Head(replies)) THEN AfterBlock(0) ELSE Deny
  /\ UNCHANGED <<sent, crc>>

this_block ==
  IF FLASH_SIZE - sent <= max_payload THEN FLASH_SIZE - sent ELSE max_payload

\* Mutant: every block is read from the start of the file.
PayloadRereads ==
  [j \in 1 .. this_block |-> IF j <= Len(file) THEN file[j] ELSE 0]

\* What fread delivers, and zeroes where the file has ended.
Payload ==
  [j \in 1 .. this_block |->
     IF sent + j <= Len(file) THEN file[sent + j] ELSE 0]

bootloader_send ==
  /\ Write("FW_DOWNLOAD_DATA", Payload)
  /\ crc' = crc32(crc, Payload)
  /\ UNCHANGED sent

\* Mutant: the type of the reply is not looked at.
SendReplyUnchecked ==
  /\ Read("FW_DOWNLOAD_DATA")
  /\ sent' = sent + this_block
  /\ AfterBlock(sent')
  /\ UNCHANGED crc

SendReply ==
  /\ Read("FW_DOWNLOAD_DATA")
  /\ IF Accepted(Head(replies))
       THEN sent' = sent + this_block /\ AfterBlock(sent')
       ELSE Deny /\ UNCHANGED sent
  /\ UNCHANGED crc

bootloader_checksum == Write("FW_GETCRC32", << >>) /\ UNCHANGED <<sent, crc>>

\* The crc32 field of a reply that is too short to have one was never
\* written: it holds whatever malloc returned.
RemoteCrc(reply) == IF reply.cmd = "FW_GETCRC32" THEN {reply.crc} ELSE Crcs

\* Mutant: the remote checksum is fetched but not compared.
ChecksumReplyUncompared ==
  /\ Read("FW_GETCRC32")
  /\ IF Accepted(Head(replies)) THEN Goto("FW_STARTAPP") ELSE Deny
  /\ UNCHANGED <<sent, crc>>

ChecksumReply ==
  /\ Read("FW_GETCRC32")
  /\ LET reply == Head(replies) IN
     CASE reply.type = VM_SYS_RQ -> Goto("FW_STARTAPP")
       [] reply.type = VM_OK ->
            \E remote \in RemoteCrc(reply) :
              IF remote = crc THEN Goto("FW_STARTAPP")
                              ELSE Exit("ERR_IO") /\ UNCHANGED stage
       [] OTHER -> Deny
  /\ UNCHANGED <<sent, crc>>

-----------------------------------------------------------------------------
(***************************************************************************)
(* exit (also the end of install), info and enter.                         *)
(***************************************************************************)

bootloader_exit == Write("FW_STARTAPP", << >>) /\ UNCHANGED <<sent, crc>>

ExitReply ==
  /\ Read("FW_STARTAPP")
  /\ IF Accepted(Head(replies)) THEN Exit("ERR_UNK") /\ UNCHANGED stage
                                ELSE Deny
  /\ UNCHANGED <<sent, crc>>

bootloader_info == Write("FW_GETVERSION", << >>) /\ UNCHANGED <<sent, crc>>

InfoReply ==
  /\ Read("FW_GETVERSION")
  /\ Exit(CASE Head(replies).type = VM_SYS_RQ -> "ERR_USBLOOP"
            [] Head(replies).type = VM_OK -> "ERR_UNK"
            [] OTHER -> "ERR_VM")
  /\ UNCHANGED <<stage, sent, crc>>

\* No reply is asked for: the connection is gone with Linux.
bootloader_enter ==
  /\ pc = "write" /\ stage = "ENTERFWUPDATE"
  /\ \/ /\ plugged
        /\ requests' = Append(requests, Packet("ENTERFWUPDATE", << >>))
        /\ Exit("ERR_UNK")
     \/ Exit("ERR_COMM") /\ UNCHANGED requests
  /\ UNCHANGED <<op, file, stage, sent, crc, replies, plugged, port, brick,
                 history>>

-----------------------------------------------------------------------------
(***************************************************************************)
(* The brick (external).                                                   *)
(***************************************************************************)
Serve(cmd) ==
  /\ requests # << >>
  /\ Head(requests).cmd = cmd
  /\ mode = (IF cmd = "ENTERFWUPDATE" THEN "linux" ELSE "bootloader")
  /\ UNCHANGED <<program, plugged, port, clean>>

\* The reply, or on a USB 3.0 port perhaps the request itself.
Answer(type, c) ==
  LET q == Head(requests)
      Say(t, echo) ==
        /\ replies' = Append(replies, [type |-> t, cmd |-> q.cmd, crc |-> c,
                                       own |-> q.own])
        /\ looped' = (looped \/ (echo /\ q.own))
  IN  Say(type, FALSE) \/ (port = "usb3" /\ Say(VM_SYS_RQ, TRUE))

Done == requests' = Tail(requests) /\ UNCHANGED refused

Refuse ==
  /\ Answer(VM_ERROR, 0)
  /\ requests' = Tail(requests)
  /\ refused' = (refused \/ Head(requests).own)
  /\ UNCHANGED brick

BrickErase ==
  /\ Serve("FW_ERASEFLASH")
  /\ \/ /\ flash' = Blank /\ flips' = 0 /\ next' = -1
        /\ Answer(VM_OK, 0) /\ Done
        /\ UNCHANGED mode
     \/ Refuse

BrickStart ==
  /\ Serve("FW_START_DOWNLOAD")
  /\ \/ /\ next' = 0
        /\ Answer(VM_OK, 0) /\ Done
        /\ UNCHANGED <<mode, flash, flips>>
     \/ Refuse

\* Cells next+1 .. next+Len(data) take the data, one of them perhaps wrongly.
Programmed(data) ==
  [i \in Cells |->
     IF i \in next + 1 .. next + Len(data) THEN data[i - next] ELSE flash[i]]

BrickData ==
  LET data == Head(requests).data IN
  /\ Serve("FW_DOWNLOAD_DATA")
  /\ \/ /\ next >= 0 /\ next + Len(data) <= FLASH_SIZE
        /\ next' = next + Len(data)
        /\ \/ flash' = Programmed(data) /\ UNCHANGED flips
           \/ /\ flips < MaxFlips
              /\ flips' = flips + 1
              /\ \E i \in next + 1 .. next + Len(data) :
                   \E b \in Byte \ {data[i - next]} :
                     flash' = [Programmed(data) EXCEPT ![i] = b]
        /\ Answer(VM_OK, 0) /\ Done
        /\ UNCHANGED mode
     \/ Refuse

BrickCrc ==
  /\ Serve("FW_GETCRC32")
  /\ \/ Answer(VM_OK, crc32(0, flash)) /\ Done /\ UNCHANGED brick
     \/ Refuse

BrickVersion ==
  /\ Serve("FW_GETVERSION")
  /\ \/ Answer(VM_OK, 0) /\ Done /\ UNCHANGED brick
     \/ Refuse

\* The brick leaves update mode; its reply may be lost with the connection.
BrickStartApp ==
  /\ Serve("FW_STARTAPP")
  /\ \/ /\ mode' = "linux" /\ next' = -1
        /\ Answer(VM_OK, 0) \/ UNCHANGED <<replies, looped>>
        /\ requests' = << >>
        /\ UNCHANGED <<flash, flips, refused>>
     \/ Refuse

BrickEnter ==
  /\ Serve("ENTERFWUPDATE")
  /\ mode' = "bootloader"
  /\ requests' = << >> /\ replies' = << >>
  /\ UNCHANGED <<flash, next, flips, refused, looped>>

-----------------------------------------------------------------------------
User == RunEnter \/ RunInfo \/ RunExit \/ RunInstall \/ Unplug

Command ==
  \/ bootloader_erase \/ EraseReply
  \/ bootloader_start \/ StartReply
  \/ bootloader_send \/ SendReply
  \/ bootloader_checksum \/ ChecksumReply
  \/ bootloader_exit \/ ExitReply
  \/ bootloader_info \/ InfoReply
  \/ bootloader_enter
  \/ ReadFails

Brick ==
  \/ BrickErase \/ BrickStart \/ BrickData \/ BrickCrc \/ BrickVersion
  \/ BrickStartApp \/ BrickEnter

Next == User \/ Command \/ Brick

Spec == Init /\ [][Next]_vars

(***************************************************************************)
(* The process is scheduled and a read with a TIMEOUT returns; install     *)
(* waits for ever, so here the brick has to serve what it receives.        *)
(***************************************************************************)
FairSpec == Spec /\ WF_vars(Command) /\ WF_vars(Brick)

-----------------------------------------------------------------------------
(***************************************************************************)
(* Properties.                                                             *)
(***************************************************************************)
Stages == {"none", "ENTERFWUPDATE", "FW_GETVERSION", "FW_ERASEFLASH",
           "FW_START_DOWNLOAD", "FW_DOWNLOAD_DATA", "FW_GETCRC32",
           "FW_STARTAPP"}

\* Every variable stays in its type; the program never sends, and the brick
\* never programs, beyond the end of the flash.
TypeOK ==
  /\ op \in {"none", "enter", "info", "exit", "install"}
  /\ file \in Seq(Byte)
  /\ stage \in Stages
  /\ pc \in {"idle", "write", "read", "exited"}
  /\ sent \in 0 .. FLASH_SIZE
  /\ crc \in Crcs
  /\ ret \in ERR \cup {"running"}
  /\ requests \in Seq([cmd : Stages, data : Seq(Byte), own : BOOLEAN])
  /\ replies \in Seq([type : {VM_OK, VM_ERROR, VM_SYS_RQ}, cmd : Stages,
                      crc : Crcs, own : BOOLEAN])
  /\ plugged \in BOOLEAN
  /\ port \in {"usb2", "usb3"}
  /\ mode \in {"linux", "bootloader"}
  /\ flash \in [Cells -> Byte \cup {Erased}]
  /\ next \in -1 .. FLASH_SIZE
  /\ flips \in 0 .. MaxFlips
  /\ clean \in BOOLEAN /\ refused \in BOOLEAN /\ looped \in BOOLEAN

\* The image install is to leave in the flash: the file, cut or padded.
Image ==
  [i \in Cells |-> IF i <= Len(file) THEN file[i] ELSE 0]

Succeeded(cmd) == op = cmd /\ pc = "exited" /\ ret = "ERR_UNK"

\* "Success! Local and remote checksums match.": the flash holds the image,
\* although one byte may have been programmed wrongly, whichever it was and
\* whatever earlier, interrupted installations had written.
InstalledImage ==
  Succeeded("install") /\ clean /\ ~looped => flash = Image

\* The brick is not rebooted into a flash that is not the image: FW_STARTAPP
\* is not sent before every block was accepted and the checksums agree.
RebootsOnlyVerified ==
  [][op = "install" /\ clean /\ ~looped /\ mode = "bootloader"
       /\ mode' = "linux" => flash = Image]_vars

\* A refusal is never read and passed over: until an installation has failed,
\* one that the brick has sent is still to be read.  When a late reply puts
\* the replies one behind the requests, that may be after the reboot request:
\* a refused checksum is then only noticed as the reply to FW_STARTAPP.  An
\* installation that begins in silence does not ask for the reboot at all.
RefusalStopsInstall ==
  op = "install" /\ plugged /\ ~looped /\ refused =>
    /\ pc # "exited" \/ ret = "ERR_UNK" =>
         \E j \in 1 .. Len(replies) : replies[j].type = VM_ERROR
    /\ clean => ~(stage = "FW_STARTAPP" /\ pc = "write")

\* A cell is only programmed while it is erased, also when installations
\* are interrupted and started again.
ProgramsErasedCells ==
  [][clean /\ ~looped =>
       \A i \in Cells : flash'[i] \in {flash[i], Erased} \/ flash[i] = Erased
    ]_vars

\* Every flash command that begins in silence ends, provided the brick answers
\* or is unplugged.  (A late FW_STARTAPP reboots the brick under an install,
\* which then waits for ever.)
RunsEnd == pc = "write" /\ clean ~> pc = "exited"
=============================================================================
