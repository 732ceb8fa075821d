----------------------------- MODULE Ev3Protocol -----------------------------
(***************************************************************************)
(* What every command of ev3duder shares: the exit codes of error.h, the   *)
(* status byte of a reply, and the packets of packets.h and packets.c that *)
(* the file commands exchange with the brick.  A packet is a record of     *)
(* the fields the commands read or write.  `own' is a history field that   *)
(* no code reads: TRUE while the packet belongs to the invocation of the   *)
(* program that is running, FALSE once that invocation has ended.          *)
(***************************************************************************)
EXTENDS Integers, Sequences

\* enum ERR: what main() returns; ERR_UNK (0) is the shell's success.
ERR == {"ERR_UNK", "ERR_ARG", "ERR_IO", "ERR_FTOOBIG", "ERR_NOMEM",
        "ERR_COMM", "ERR_VM", "ERR_SYS", "ERR_USBLOOP"}

\* The status byte of a reply (or, for VM_SYS_RQ, of a request).
VM_SYS_RQ == 1
VM_DIRECT_OK == 2
VM_OK == 3
VM_DIRECT_ERROR == 4
VM_ERROR == 5

(***************************************************************************)
(* Requests of the file commands.  One record shape serves all of them; a  *)
(* field that a packet does not carry is empty.                            *)
(***************************************************************************)
Request(cmd, name, size, hnd, data) ==
  [cmd |-> cmd, name |-> name, size |-> size, hnd |-> hnd, data |-> data,
   own |-> TRUE]

BEGIN_DOWNLOAD(name, size) == Request("BEGIN_DOWNLOAD", name, size, 0, << >>)

CONTINUE_DOWNLOAD(hnd, chunk) ==
  Request("CONTINUE_DOWNLOAD", "", 0, hnd, chunk)

CLOSE_HANDLE(hnd) == Request("CLOSE_HANDLE", "", 0, hnd, << >>)

CREATE_DIR(name) == Request("CREATE_DIR", name, 0, 0, << >>)

DELETE_FILE(name) == Request("DELETE_FILE", name, 0, 0, << >>)

(***************************************************************************)
(* The reply to each of them.  BEGIN_DOWNLOAD_REPLY, CONTINUE_DOWNLOAD_    *)
(* REPLY and CLOSE_HANDLE_REPLY have one layout, and SYSTEM_REPLY is its   *)
(* prefix: a reply read for another one is read without complaint, which   *)
(* is why `msgCount' and `cmd', that no command checks, are left out.      *)
(***************************************************************************)
Reply(type, hnd, own) == [type |-> type, hnd |-> hnd, own |-> own]
=============================================================================
