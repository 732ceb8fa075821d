# Verification of ev3duder

ev3duder is a command-line program that talks to a LEGO EV3 brick over USB
(HID), Bluetooth (a serial port) or WiFi (TCP).  It copies files to and from the
brick, manages them, starts programs, installs firmware, and can offer a brick
that is on USB to the network (bridge mode).  This directory holds TLA+ models of
its parts and of the library its demonstration on the brick uses, configurations that check them with TLC, and proofs that TLAPS checks.

Line references are to `src/src/`, those to `ev3_*.c` to `src/util/cat/`.  `PROJECT.json` maps every definition that
models code to its lines, and lists the runs, mutants, hazards, findings and
theorems.

## 1. Inventory

### Parts, their state and operations

| Part | Source | State | Operations |
|---|---|---|---|
| Wire format | `packets.h`, `packets.c`, `error.h` | none | request and reply layouts, `packet_alloc`, status bytes, exit codes |
| File commands | `up.c`, `rm.c`, `mkdir.c`, `closehnd.c` | per process: position in the file, chunk number, reply buffer; on the brick: file store and handle table | one request or a loop of requests, each followed by a bounded read |
| Reading commands | `dl.c`, `ls.c` | `read_so_far`, `total`, handle, output | a first request, then requests until the bytes add up |
| Firmware update | `bl_enter.c`, `bl_info.c`, `bl_install.c`, `bl_exit.c` | `sent_so_far`, running CRC; on the brick: mode, flash, programming position | enter, info, install (erase, start, blocks, checksum, reboot), exit |
| CRC-32 | `crc32.c` | none | table-driven, called block by block |
| Bridge mode | `bridge.c` | connection state, framing state, packet buffer, pending reply, two sockets | beacon, accept, handshake, read a fragment, forward, poll the brick, write a fragment, close |
| Serial transport | `bt-unix.c` (`bt-win.c`) | file descriptors, terminal modes | open, write, read with timeout, close |
| TCP transport | `tcp.c` | socket, what the beacon said | search by beacon, connect, handshake, read, write, close |
| Running programs | `run.c`, `mkrbf.c`, `exec` in `main.c` | none beyond the reply | upload a launcher, start it, print its output |
| Direct commands | `vmexec.c`, `tunnel.c` | none | send bytecode and read globals; send typed hex packets |
| Motor library | `util/cat/ev3_output.c` | descriptors, shared memory, types and owners of the outputs; in the driver: what each motor does | open, close, and calls that each write a few commands to the PWM device |
| Display library | `util/cat/ev3_lcd.c` | `displayBuf`, `hwBuffer`, dirty mark, frame buffer mapping, text cursor | open, close, draw, refresh, read back, print |
| Callback timer | `util/cat/ev3_timer.c` | tick counter, tables of callbacks | `SIGALRM` handler, registration |
| Information, mailboxes | `info.c`, `listen.c`, `send.c`, `cat.c` | none | one write, one read, printing |
| UF2 containers | `uf2_*.c` | block number, offset | pack a directory into blocks, unpack blocks into files |
| Command line | `main.c` | selected transport, arguments | parse, choose HID, serial or TCP, dispatch, report |

### How the parts interact

A process runs **one** command.  `main` opens a transport, stores its functions in
`ev3_write`, `ev3_read_timeout` and `ev3_close`, calls the command and exits.  A
command is a client in a request/reply protocol: write a packet, wait at most
`TIMEOUT` (2 s; for ever while installing firmware) for a packet, look at its
status byte, go on or return.  No reply is matched to its request: `msgCount` is
never set or compared.  The brick and the transport's queues outlive the
process, so the state one invocation leaves there (an open handle, a half
written file, a reply nobody waited for) is what the next one starts from.
The library under `util/cat` runs on the brick, in a program of its own; its only
concurrency is the signal handler of its timer, and the drivers it talks to.
Bridge mode is the exception: a loop that serves TCP clients (other instances of
ev3duder, or LEGO's software) one at a time and forwards to a brick on USB.

### What is hard

* **Timeouts and late replies.** A reply that arrives after the timeout is read
  by the next invocation as the answer to its own request.
* **One step of several failing.** Uploads, downloads and installations are long
  exchanges that may be refused, time out or be unplugged at each step; nothing
  is rolled back.
* **Boundaries.** Chunk and block counts, the last chunk, header sizes, the
  exclusive end of handle ranges, unsigned arithmetic.
* **Fragmentation.** The bridge and the byte-stream transports must find packet
  borders in a stream cut anywhere.
* **State that survives a connection** in the bridge: its buffers, and replies
  the brick has not delivered yet.
* **Signals.** The display is refreshed from a signal handler that interrupts
  drawing, refreshing, opening and closing anywhere.
* **Devices that go on.** Motors turn between the commands of one call.
* **Leftovers of a search.** `tcp_open` reads all beacons into the same fields, and
  its timeouts start again with each.
* **Ends.** Which loops and reads end, and under which assumptions.

### What makes each part correct

* File commands: success means the brick holds exactly the file; a failure leaves
  a prefix; no handle stays open after success; nothing but the named file
  changes.
* Reading commands: success means the whole file; a failure leaves a prefix;
  replies fit the buffer; the brick's handle is freed.
* Firmware: success, and the reboot, only with the image in the flash; cells are
  programmed only when erased; a refusal stops the installation.
* Bridge: requests reach the brick whole, in order and once; replies reach the
  client that asked; a request is answered, and a waiting client served.
* Transports: a packet channel, implemented over a byte stream.
* Connecting: the brick that was named is the one that is reached, and the
  search ends.
* Direct commands: the verdict is the brick's.
* Motors: no device is leaked or used after it was closed, motors stop at exit,
  calls do what they say and return.
* Display: the handler finds its memory mapped, what is drawn is shown; shapes are
  painted inside the buffer and nowhere else.
* UF2: unpacking what was packed gives the files back, whatever the block order.

## 2. Modules

| Module | Models | Role |
|---|---|---|
| `Ev3Protocol` | `packets.h`, `packets.c`, `error.h` | exit codes, status bytes, packets of the file commands |
| `FileCommands` | `up.c`, `rm.c`, `mkdir.c`, `closehnd.c` and their cases in `main.c` | successive invocations against one brick |
| `FileCommandsProofs` | | invariants of `FileCommands` for all constants |
| `Download` | `dl.c`, `ls.c` | successive invocations against one brick |
| `DownloadProofs` | | invariants of `Download` for all constants |
| `Firmware` | `bl_*.c`, the chaining of `crc32.c` | successive invocations over USB |
| `FirmwareProofs` | | the checksum and the invariants of `Firmware` for all constants |
| `Bridge` | `bridge.c` | the loop, its clients, TCP and the brick |
| `BridgeProofs` | | invariants of `Bridge` for all constants |
| `PacketChannel` | | abstract specification: what the commands take `ev3_read_timeout` for |
| `Serial` | `bt-unix.c`, which `tcp.c` uses too; `packet_alloc` | the transport over a byte stream; implements `PacketChannel` |
| `SerialProofs` | | that refinement and the invariants of `Serial` for all constants |
| `Connect` | `main.c` (choice of the transport), `tcp.c` (`tcp_open`) | USB, serial, TCP fallback; beacons, wake-up, connection, handshake |
| `Session` | `run.c`, `vmexec.c`, `tunnel.c`, opening and closing in `main.c` | composes `Connect` with the direct commands: successive invocations against bricks |
| `SessionProofs` | | invariants of `Connect` and `Session` for all constants |
| `Motors` | `ev3_output.c` | a program's calls, the driver and its motors |
| `MotorsProofs` | | invariants of `Motors` for all constants |
| `Lcd` | `ev3_lcd.c` (devices, refresh), `ev3_timer.c` | a program interrupted by the timer's signal at every step |
| `LcdProofs` | | invariants of `Lcd` and `Drawing` for all constants |
| `Drawing` | `ev3_lcd.c` (drawing, printing) | what each drawing call paints |
| `MC*` | | small instances for TLC |

### Correspondence to the code

*Commands.* Between two calls of `ev3_write` or `ev3_read_timeout` a process
touches nothing shared, so each action is the code from one call to the next:
`UpBegin` is everything up to the first write, `UpReply` the read and all checks
that follow it, `UpChunk` one `fread` and the write after it.  `pc` says whether
the process is about to write or to read, `k`, `stage` or `begun` which request it
is at; other variables carry the names of the C variables.  Each write can
fail, and be noticed (`hid_write` returns -1) or not: `bt_write` and `tcp_write` return the
bytes sent so far (`bt-unix.c:99`), so that the command goes on to read although the brick
has nothing, or half a packet (`Torn`), of its request.  Each read can deliver the oldest packet, or fail (`ReadFails`; a timeout
and an error lead to the same return).  `Invoke` starts the next process; it
resets what is local to a process and keeps what belongs to the brick and,
up to `MaxLate` packets, to the transport.

*The brick* is not in the repository.  Its actions (`Brick...`, marked external)
are what the commands rely on: requests are served in order; `BEGIN_DOWNLOAD`
truncates the file and opens a handle; the handle is closed with the last
announced byte; the boot loader programs blocks in sequence; an open handle can be
closed (`closehnd.c` looks at the reply's length only); half a packet swallows the next one.
Where
the real brick may do different things (refuse, choose any free handle, cut a
file into replies of any size, lose the reply to the reboot) the model does any of
them.

*History variables.* `own`, `clean`, `refused`, `looped` and `forwarded` are read by
no action of the program.  `clean` says that nothing of an earlier invocation was
in flight when this one began; the commands have no means to tell, so what they
report is only meaningful then, and most properties are conditional on it (what
happens otherwise is under "Findings" and "What the premises leave open").

*Bridge.* One iteration of `bridge_mode` is split where it touches a socket or the
brick: beacon, accept, poll of the brick, read of one fragment (one action per
`TcpRead` state; the cases of `cNetReadTcp` that fall through do so in one
action), write of one fragment.  A stream is a sequence of units naming client,
request and byte, so a byte that ends up in the wrong packet or at the wrong
client is seen as such.  The bytes of a request arrive one at a time at any
moment.  A length read from bytes that are no length field is any
member of `Misread`.  If a read brings one byte of the length field, `cNetReadTcp` closes the
connection and still returns 1, and `bridge_mode` hands the brick a packet that begins with
that byte (`HalfLength`; `bridge.c:288-295`, `350`, `458`); the brick does not answer what is
no whole packet, or answers it.  If that write fails the connection is closed once more, with
descriptor 0, and `cNetTcpClose` reads standard input until it ends (`StdinEnds`).  `cNetTcpClose` shuts a socket down and keeps its descriptor, so the
process has `MaxAccepted` connections in its life (`DescriptorLeft`).

*Serial.* `bt_write` and `bt_read` are split at each `write()`, `read()` and
`select()`.  `CallWrite` and `CallRead` stand for the commands.  A byte has `Base` values
and the length field is two such bytes, so a misplaced byte is read as a length, as in
the code.  The refinement maps the unread bytes of the connection (those in the buffer
of a running call, those that have arrived, those under way), cut into packets by
`Frames` (the brick's recursive cutting of a stream, `Cut`), to the queue of `PacketChannel`.  `clean` is lost when a connection
begins with bytes of an older one, or when a packet is too long for the caller's
buffer and `bt_read` returns between its length field and its body; the abstract
channel is then `broken` until it is opened anew.  `CONTINUE_LIST_FILES` is written as
`packets.c` lays it out, with a length two less than what follows.

*Connect, Session.* `tcp_open` is split at each system call that can fail or wait.
A beacon's fields are represented by the brick they belong to, so fields of
different senders in one `struct` are seen as such; `Sscanf` leaves the fields
it does not reach, as `sscanf` does, and a brick with a space in its name does not
get as far as its protocol.  Senders come and go while somebody listens.  A silent
brick accepts and never answers, as the bridge does while it serves another client.  The
commands are split at each write and read; requests and replies that nobody reads stay
where they are until the port is opened anew (serial) or the connection ends (TCP).

*Motors.* A call is the sequence of commands it writes (`script`); between any two
of them, and while `RotateMotorEx` polls, the driver's motors turn, coast and finish.
Every open, write and busy test may fail.  The driver is external and idealised in one point:
a brake stops a motor at once.

*Lcd.* A call is the sequence of stores the signal may come between; the compiler may
order the two stores of `callBack[count++] = callback` either way, so both orders are
modelled.  The handler runs as one step, as the signal is blocked in it.

*Drawing.* Sequential: one action is one call, which computes the bits it touches in the
order of the code's loops, with C's truncating division, casts to bytes and shorts
that wrap.  `Exactly` compares with the area the arguments name.  The aligned paths of bitmaps
and characters compute their index as a `short` and compare it with the upper end only
(`ev3_lcd.c:471`, `669`): `IndexUnchecked` names the calls for which that is not enough, those
that begin above the screen, those so far below it that the index wraps, and texts that begin
left of the screen (`dLcdDrawText` looks at the right border only, `ev3_lcd.c:532`), and `InBuffer` and
`ShapesExact` except them: the code writes before `displayBuf` there.  The centre of an ellipse is an `int` for the caller and
a `short` for `CmdDrawEllipse`.  The products of the clipping (`Along`) are taken to fit an
`int`, which they do for ends within some ten thousand pixels.  No name of `Drawing` is one of `Lcd`'s (`DrawingInit`, `DrawingSpec`,
`canvas`), so that one proof module can extend both halves of `ev3_lcd.c`.

*Abstractions.* Bytes are members of a small set; paths are model values; texts,
progress output and hex dumps are left out.  CRC-32 in `Firmware` is an arbitrary
step function with an involutive complement: chaining over blocks is the code's,
the table is not.  Of the table only this is assumed (`CrcInjective`): the step tells
apart two registers given the same byte, and two bytes given the same register, which
holds because the 256 constants have 256 different leading bytes.  `Download` starts every invocation on a silent transport
(the effect of late packets is the same as in `FileCommands`).

## 3. Runs

States are the distinct states TLC found, up to the symmetry of the names in `upload_late`.

| Run | Instance | Shows |
|---|---|---|
| `upload_sizes` (53,429) | 1 path, 2 handles, chunk size 2, files of 0 to 5 bytes with the size limit at 4, all four commands, refusals, writes that fail unnoticed, no late packets, `FairSpec` | `TypeOK`, `UpStored`, `UpLeavesNoHandle`, `CloseAllFrees`, `RmMkdirDone`; every invocation ends (`RunsEnd`) |
| `upload_late` (2,258,320) | 2 paths, 2 handles, chunk size 1, one late packet or half a packet | for invocations that begin in silence after ones that did not: `StopAndWait` (at most one packet in flight), `UpPrefix`, `UpTouchesOnlyItsFile` |
| `upload_refused` (violation) | 1 path, refusals, no late packets | `UploadWasSuccessful` is violated: finding 1 |
| `rm_late` (violation) | `mkdir` and `rm` of one path, no refusals, one late packet | `RmWasSuccessful` is violated: finding 2 |
| `download_chunks` (13,318) | both commands, contents of 0 to 7 bytes, headers of 3 and 2 bytes, first replies of up to 2 (`dl`) and 3 (`ls`) bytes, every cut into replies, empty ones included, `FairSpec` | `Downloaded`, `OutIsPrefix`, `RepliesFit`, `ReadLeavesNoHandle`; `RunsEnd`: only empty replies for ever keep the loop going |
| `flash_install` (366,501) | flash of 3 cells, blocks of 2, four files, USB 2.0 and 3.0, one wrongly programmed byte, unplugging, one late packet, `FairSpec` | `InstalledImage`, `RebootsOnlyVerified`, `ProgramsErasedCells`; `RefusalStopsInstall`, also when every reply is read one request late; `RunsEnd` |
| `bridge_stream` (480,343) | 2 clients with 2 requests each, every fragmentation, split length fields, failing beacons and forwards, clients that leave, `FairSpec` | `WholePackets`, `RepliesToAsker`, `RequestsAnswered`, `ClientsServed` |
| `serial_stream` (1,592,982) | bytes of two values, two requests, one kind of which is `CONTINUE_LIST_FILES`, replies with 2 and 3 bytes after the length field and a buffer of 2, every fragmentation, failing writes, lines that end or fail, reopening, `FairSpec` | `ImplementsChannel`: `bt_read` implements `PacketChannel`; `FramedAsWritten`; `ReadsReturn` |
| `sessions` (559,288) | 2 invocations, 2 bricks of which one is silent and has a space in its name, another sender of datagrams, all transports and ways to name a brick, `run`, `vmexec` with files of 0 to one byte over the limit, one line of `tunnel` | `RightBrick`: address, port and serial number are those of the brick named; `VmexecVerdict`; `InvocationsEnd` |
| `motor_calls` (752,334) | 2 motors alone and as a pair, a chained layer, any 2 calls and any number of openings and closings | `NoStaleDevice`, `StoppedAfterExit`, `CallsTakeEffect`, `CallsReturn` |
| `lcd_signal` (165,444) | 2 cells, 2 pictures, a callback table of 2, any number of calls, the signal at every step | `CrashesOnlyThere`, `ResourcesKept`, `ShownUnlessDirty`, `DrawnIsShown` |
| `shapes` (49,187) | a screen of 20 by 6, 12,100 lines, rectangles, ellipses (centres beyond a `short` too), bitmaps and texts inside, across and beyond every border, an empty and a patterned background; anything `LcdPrintf` can print | `InBuffer`, `LinesClose`, `ShapesExact` |

For every property of a passing run there is a mutant in the module (an operator
before the definition it replaces, with a comment that begins "Mutant") under
which TLC finds the property violated.  Of the type invariants only that of
`FileCommands` is checked by a run; those of `FileCommands`, `Download`, `Firmware`,
`Bridge`, `Motors`, `Lcd` and `Serial` are proved (those of `Motors` and `Lcd` are stated in
the proof modules).

### Bounds, and why they are enough

* *Files and chunks.* `up` treats the first request, inner chunks and the last
  chunk differently, and sizes by their remainder.  Chunk size 2 and sizes 0, 1,
  2, 3, 4 give no chunk, a rest only, one full chunk, one and a rest, two full
  chunks; 5 exceeds the limit.  The theorems below remove this bound.
* *Handles.* Two: one that an interrupted upload left open and one for the
  current; with both open the brick must refuse.
* *Late packets.* One already shifts all replies of an invocation by one.
* *Firmware.* The flash of 3 cells and blocks of 2 gives a full and a short
  block; the files end inside the first block, at its border, at the end of the
  flash and after it.  The checksum (a remainder by 5) detects every single wrong
  byte, as CRC-32 does; two wrong bytes can cancel in any checksum, so `MaxFlips` is at
  most 1.
* *Download.* A `CONTINUE` reply holds one byte more than the first, so a
  confusion of the two headers is visible; 7 bytes take several replies.
* *Bridge.* Two clients are one and its successor; two requests of different
  length are needed to see a stale length.  Bodies of two bytes can be split.  Both have a
  descriptor: with fewer the second would never be accepted, and `ClientsServed` excepts that.
  Since the clients are alike, only the behaviours in which `c1` connects first are explored
  (`ACTION_CONSTRAINT`); the others are the same with the names exchanged, and connecting is
  subject to no fairness.
* *Serial.* The reader distinguishes the length field, the body and the next packet.
  A new reply may be sent while one byte of the previous one is unread, so two
  packets share the descriptor; a reply of two bytes makes a packet of four, exactly
  twice the buffer, one of three bytes a packet that is refused.  Two writes are one
  that may fail and one that follows.
* *Sessions.* Two bricks, of which one is named, and a third sender are what a
  search can confuse; a datagram of each may be in the socket's buffer.  Two invocations
  are one that leaves something and one that finds it.  The theorems below remove these
  bounds for the two invariants.
* *Motors.* Two calls are a movement and one that disturbs it; what a third could
  find (the state of the motors, of the library and of the driver) a second finds.
* *Lcd.* Two cells are the least that can be copied in part; the counter's range is no
  multiple of the interval, as 2^32 is none of 25 ticks.
* *Drawing.* The screen's width is no multiple of 8, as 178 is none; coordinates
  lie before, on and behind each border and byte border.  `ShortMax` is scaled with the
  screen, so that the cursor passes it.

### Fairness

* `FileCommands`, `Download`: weak fairness of the program only.  The process is
  scheduled, and every read returns within `TIMEOUT`.  Nothing is assumed of the
  brick.  `RunsEnd` of `Download` names the one way not to end: a brick that goes on answering
  `CONTINUE_UPLOAD` with no bytes (`EmptyReply`), which the loop of `dl.c` does not look at.
* `Firmware`: also weak fairness of the brick, because `bl_install.c` reads
  without a timeout: a brick that stays silent and plugged in holds the command.
  `RunsEnd` is about invocations that begin in silence: a `FW_STARTAPP` that a
  timed-out `exit` left in the queue reboots the brick under an installation, which
  then waits for a reply for ever.
* `Bridge`: weak fairness of the loop (its accept and reads are bounded or
  non-blocking), of the brick and of TCP's delivery.  Clients need not do
  anything.  `CHECK_DEADLOCK FALSE`: `bridge_mode` may return, and it may be
  aborted by its assertion.

* `Session`: weak fairness of the program where no call of it waits, of the answer
  of a peer that is not silent, of the beacons of the senders that are on, and of the
  end of standard input.  `InvocationsEnd` assumes what `tcp.c` needs to end: the brick that is
  looked for stays on, or nobody broadcasts (any other sender restarts the
  timeout, `tcp.c:171`), and the peer of the handshake is not silent (`tcp.c:229`
  has no timeout).  The failures of system calls are not fair.
* `Motors`: weak fairness of the call in progress and of each motor's coming to rest or
  finishing its steps.
* `Lcd`: weak fairness of the timer's signal and of the call in progress; the program may
  stop calling at any time (`CHECK_DEADLOCK FALSE`, also in `shapes`: a program
  that draws may end).
* `Serial`: weak fairness of the two functions, and of the arrival of bytes already
  sent, because only the first byte of a packet is subject to the timeout (a line that falls silent
  inside a packet holds `bt_read` for ever).

### Findings

1. `upload_refused`: `up` overwrites the reply to an inner chunk before its status is looked at
   (`up.c:99`, `up.c:126`): a refused chunk goes unnoticed and the upload is
   reported as successful.
2. `rm_late`: `packets.h:28` calls checking `msgCount` pointless, but a reply that comes after the
   timeout is taken by the next invocation for its own: `rm` reports success and the directory is
   still there.

### Known disagreements

Disagreements between the code and its comments or texts that were met on the way, are part of the
behaviours of the modules, and have no run of their own:

* A failing read from the brick (-1) is taken for a packet and trips the assertion on its length
  (`bridge.c:436`, `439`): the bridge is aborted instead of closing the connection.
* "Signal NO data yet" (`bridge.c:302`): the length field of a request may arrive in two pieces; the
  first one closes the connection and is handed to the brick as a packet (`bridge.c:294`, `350`,
  `458`).  `WholePackets` excepts this byte.
* The bridge delivers a reply that its client did not wait for to the next
  client, before that one's handshake (`bridge.c:434`, comment at 273): `RepliesToAsker`
  without its condition `clean`.
* A failing beacon sets the state to `CLOSED` (`bridge.c:55`: "UDP/TCP closed"), but the same
  iteration still accepts a client and the bridge goes on without its UDP socket
  (`bridge.c:377`, `426`).
* `bt_read` is declared to wait for a given time at most (`btserial.h:34`), but only its first byte
  does (`bt-unix.c:133`; a remark at line 109 admits it).
* `bt_write` is documented to return -1 on an error (`bt-unix.c:80`) and returns the bytes sent so
  far (`bt-unix.c:99`), so no command notices a failing write over serial or TCP.
* `CONTINUE_LIST_FILES_INIT` has a `packetLen` of 7, set by hand (`packets.c:29`; see
  the comment at `packets.h:26`), and `ls` writes 9 bytes after it: on a byte stream the
  last two are taken for the next packet's length.  `FramedAsWritten` therefore stops at the
  first such packet.
* `tcp.c:77` promises an answer after 7 seconds, but the timeout starts again with every datagram.
* `run` reports a timeout as "`exec` has been successful." (`run.c:58`).
* A file of exactly `max_bytecodes` bytes is rejected as too long (`vmexec.c:48`).
* `flash install` cuts a file that is longer than the flash without a word
  (`bl_install.c:186`) and reports success, where the usage text promises to
  install the given file (`main.c:154`).
* With `--serial=i,o` (`main.c:125`) both descriptors are opened on `i` (`bt-unix.c:63`).
* `OutputInit` returns false with the library half open, and true the next time
  (`ev3_output.c:136`).
* `LineOutEx` (`ev3_lcd.h:159`: "draw a line on the screen from x1, y1 to x2, y2") clips
  in y and then in x with a truncated slope, which can move an end beyond the one the
  first clipping found (`ev3_lcd.c:1382`): `LineOut(-1, -3, 0, 2)` draws rows the line never
  reaches.  `LinesClose` therefore says nothing of lines that leave the screen on both
  axes.
* x and y of `RectOutEx` are documented as the top left corner of a rectangle of the given width
  and height (`ev3_lcd.h:193`, `200`); the code takes y for the lower edge and draws one column and
  one row more (`ev3_lcd.c:1459-1461`).  `ShapesExact` is about what the code does: a filled
  rectangle of width and height 1 at (0, 3) is the columns 0 and 1 of the rows 3 and 4, counted
  upwards.
* The macro `RectOut` passes y for the height (`ev3_lcd.h:208`), so the height it is given is never
  used.

### What the premises leave open

`clean` (nothing of an earlier invocation under way) and the other premises exclude behaviours
that really occur and that no property claims anything about: what a connection delivers that
begins with stale bytes (`bt-unix.c:72`), a line that falls silent inside a packet
(`bt-unix.c:133`), a search that other senders keep going (`tcp.c:171`), a peer that accepts and
stays silent (`tcp.c:229`), whether a motor stands after an `OutputExit` whose write failed
(`ev3_output.c:192`), that `RotateMotorEx` returns after a failed write or while motors run
without end (`ev3_output.c:1439`), that a download that stops halfway frees its handle
(`dl.c:84`), a bridge that has used up its descriptors (`bridge.c:119`), and bitmaps or texts
that begin outside the screen (`IndexUnchecked`).

## 4. Proofs

`FileCommandsProofs` proves, for **every** set of paths, set of local files, chunk
size, handle table, size limit, with or without refusals and for any number of
late packets:

| Theorem | States |
|---|---|
| `TypeCorrect` | `Spec => []TypeOK`: among others, a handle taken from whatever reply came last indexes the brick's table |
| `RepliesMatch` | `Spec => []StopAndWait`: an invocation that begins in silence has at most one packet in flight (none if its write went unnoticed into a dead link), and none when it prepares the next request or reports success |
| `UploadCorrect` | `Spec => []UpStored` |
| `UploadClosesHandle` | `Spec => []UpLeavesNoHandle` |
| `UploadLeavesPrefix` | `Spec => []UpPrefix` |
| `ClosehndCorrect` | `Spec => []CloseAllFrees` |
| `RmMkdirCorrect` | `Spec => []RmMkdirDone` |
| `UploadTouchesOnlyItsFile` | `Spec => UpTouchesOnlyItsFile` |

*Assumptions*, all named in `FileCommands`: `CHUNK_SIZE` and `NHandles` are
positive (1000 and 256 in the code), `UINT32_MAX` and `MaxLate` are naturals,
local files are sequences of bytes, the commands are the four modelled.

*Argument.* None of the four about `up` is inductive: that the last chunk completes the
file depends on what was sent before, which handle it went to, and on the reply
being the right one.  The inductive invariant is
`IInv == TypeOK /\ LoopInv /\ FlightInv /\ UpInv`:

* `LoopInv` ties the position in the file to the chunk number
  (`Sent(L, n)`: `n` chunks, or all `L` bytes) and keeps `closehnd` in its range;
* `FlightInv` says that the transport of a clean invocation is empty, holds half a packet
  (`Torn`) or one packet of its own, which the program waits for or has given up on;
* `UpInv` says that a clean upload that was refused nothing is in one of six
  stages (`Start`, `BeginAsked`, `ChunkReady`, `ChunkAsked`, `Replied`,
  `Complete`), each of which fixes the packet in flight, the bytes on the brick
  (`Stored(n, h)`: the first `n`, under handle `h`, which is the only one of this
  invocation and is closed when `n` is the length of the file).  In all but the last
  the program may have gone (`Gone`), and the brick still serves what it was
  asked.

The arithmetic is in `DivMod`, `ChunksCover` (the number of chunks is the least that
covers the file, and the last one has `FinalChunkSize` bytes) and `ChunkStep` (chunk
`n` leads from `Sent(L, n - 1)` to `Sent(L, n)`, and only the last reaches the
end).  There is one lemma per part of the invariant and, for `UpInv`, one per action
that moves between stages; `Inductive` combines them.

`SessionProofs` proves, for **every** set of bricks, silent or with spaces in their
names, other senders, selection of transports, limit and number of invocations:

| Theorem | States |
|---|---|
| `NamedBrickFound` | `Spec => []RightBrick` |
| `VerdictIsTheBricks` | `Spec => []VmexecVerdict` |

*Assumptions*: `ConnectAssumption` (the other sender, `None` and `Junk` are no bricks) and
`SessionAssumption` (the bounds are naturals).

*Argument.* `RightBrick` needs to know why the loop of `tcp_open` went on:
`SearchInv` adds that, as long as it runs, the serial number looked for has not been
read, and that port and serial number are always of one sender (`SscanfFields`).  So
the datagram that ends the loop is the one that brought the serial number, and its
sender is the brick.  `VmexecVerdict` needs to know whose replies are under way:
`VerdictInv` adds that a clean `vmexec` finds none before it writes
(`NothingToCome`), and that afterwards every request that will be answered is its own, with
the whole file, and every reply tells what the brick did with it (`OwnRepliesOnly`).  There is
one lemma per command; `ExecuteStep` is the brick's.

`DownloadProofs` proves, for **every** content, header sizes, buffer sizes, handle table
and every way the brick cuts a content into replies:

| Theorem | States |
|---|---|
| `TypeCorrect` | `Spec => []TypeOK` |
| `DownloadCorrect` | `Spec => []Downloaded` |
| `OutputIsPrefix` | `Spec => []OutIsPrefix` |
| `BufferSuffices` | `Spec => []RepliesFit` |
| `TransferFreesHandle` | `Spec => ReadLeavesNoHandle` |

*Assumptions*: contents are shorter than `UINT32_MAX`; the headers contain the two bytes
of the length, and that of the `CONTINUE` reply is no longer than the first
(`LayoutAssumption`: 8 and 12 bytes for `dl`, 8 and 12 for `ls`), which is what the buffer's
size relies on.  *Argument*: the output is the first `read_so_far` bytes (`Progress`), the
brick's handle stands exactly there (`Ready`, `Asked`), and the reply in flight carries the
bytes that follow, with a `packetLen` from which `Received` computes their number without
wrapping (`Answered`).

`FirmwareProofs` proves, for **every** flash and block size, firmware file, checksum whose
step is injective, and any number of late packets:

| Theorem | States |
|---|---|
| `TypeCorrect` | `Spec => []TypeOK` |
| `InstallCorrect` | `Spec => []InstalledImage` |
| `RefusalNoticed` | `Spec => []RefusalStopsInstall` |
| `RebootCorrect` | `Spec => RebootsOnlyVerified` |
| `ProgramsOnce` | `Spec => ProgramsErasedCells` |

*Assumptions*: `BytesAssumption`, `GeometryAssumption` (blocks are not empty; at most one byte is
programmed wrongly between two erasures), `CrcAssumption` and `CrcInjective` (above).
*Argument*: a clean installation has one packet in flight, of the request it is at
(`OneInFlight`); `Progress` says for each request what the flash holds (`Written(n)`: the
first `n` cells the image, all but perhaps one of them correctly, the others erased) and that
`crc` is the checksum of what was sent.  `CrcChains` shows that calling `crc32` block by block
gives the checksum of the whole, `CrcDetects` that two images that differ in one byte have
different checksums; so equal checksums mean the image.  Both are inductions over the bytes.
The library's induction theorems cannot be used, but `Induction` states the same for a
*set* of numbers and follows from `Least` (a set of naturals has a least element).  For
`RefusalNoticed` no silence is assumed: `RefusalInFlight` says that a refusal is still unread
among the replies or has made the installation fail (`Unfailed`); that a clean one does not get to
the reboot follows from `OneInFlight`; and `NoEnter` says that a rebooted brick
is not sent back behind the installation's back.

`SerialProofs` proves, for **every** base of the bytes, request, reply, length of the listing
request, buffer size, number of writes and of unread bytes, every fragmentation in both
directions and every failure of the line:

| Theorem | States |
|---|---|
| `TypeCorrect` | `Spec => []TypeOK`: among others, `bt_read` stays within the bytes its check allows |
| `FramingCorrect` | `Spec => []FramedAsWritten` |
| `Refinement` | `Spec => ImplementsChannel`: `Serial` implements `PacketChannel` |

*Assumptions*: `BytesAssumption` (a byte has at least two values; what follows the length
field is a sequence of bytes whose length two bytes can tell; the listing request has two or
more) and `BoundsAssumption` (the buffer is not empty).

*Argument.* `Cut` is a recursive function; that its definition has exactly one solution is
proved, not assumed (`SolutionExists`, from approximations on the streams of up to `n` bytes,
and `SolutionUnique`), and `CutIs` is what everything else uses of it.  The notion that makes
the rest work is `Whole(s)`: whatever follows `s` is cut as if it stood alone.  The empty
stream is whole, a packet may be added at its end (`WholeAppend`) or taken off its front
(`WholeRest`), and part of a packet is cut into nothing (`FramesOfPart`).  The invariant says
that the unread bytes of a clean connection are whole while the line is up (`BorderInv`), that
`bt_read`'s buffer holds less than the packet it has read the length of (`BufInv`), and that
the brick has received a whole stream of the packets written before, and a part of the current
one, of which `todo` is the rest (`WireInv`, `OnTheWire`); from the first
`CONTINUE_LIST_FILES` on it keeps only the packets before that.  `Simulation` maps each step:
a `read()` that completes a packet is `Take`, one that does not is a stutter, as is every step
of `bt_write`; a timeout and the end of the line between two packets are `Nothing`, inside a
packet `Remnant`; opening a silent connection is `Open`, and any step that leaves the
connection closed or its borders lost is `Break`.  `End` needs that fewer bytes give fewer
packets and no others (`FramesPrefix`).

`BridgeProofs` proves, for **every** set of clients, number and lengths of requests, length of
replies, lengths a misread header may spell, with or without failures of the brick and the
beacons, and however TCP cuts the streams:

| Theorem | States |
|---|---|
| `TypeCorrect` | `Spec => []TypeOK`: among others, there is a connection exactly in `TCP_CONNECTED` |
| `PacketsCorrect` | `Spec => []WholePackets` |
| `RepliesCorrect` | `Spec => []RepliesToAsker` |

*Assumptions*: `BodiesAssumption` (a request has a body), `ReplyAssumption` (a reply has its
length field), `ClientsAssumption` (no client is `None`), `ErrorsAssumption`, `AcceptedAssumption`
(the process can hold a connection).  `PacketsCorrect` includes the byte of a split length field:
the connection is gone with it (`HalfRead`), and a client connects once, so nothing more of it
follows.  *Argument*: a
clean connection is in one of seven stages (`Awaiting` the handshake, all requests `Done`,
`ReadingLength`, `ReadingBody`, `Asked`, `Answered`, `Writing`), each of which fixes what is
in every buffer between client and brick: the bytes of the current request that were read and
those still in the stream are its first `part[c]` bytes (`Reading`), the brick was handed all
earlier requests and the last one last (`Handed`), the client was sent the confirmation, the
earlier replies and the first `q` bytes of the current one (`Told`), and at most one packet,
reply or rest of a reply is on its way (`Outstanding`).  A client asks only when it has all its
replies, so `Ask` leads from `Done` alone.  Connections that are not clean can be in no known
stage; of them the invariant says only what keeps them from disturbing the next one: what they
forward are bytes of requests (`BytesInv`), a waiting client has sent nothing but its handshake
(`FreshInv`) and nothing of it has been handed to the brick (`NothingOfFresh`).  `ReadCases` lists
the outcomes of `cNetReadTcp`, there is one lemma per move between stages, and `DueIs` is the
arithmetic that finds a byte's reply and place from its position in the stream.

`MotorsProofs` proves, for **every** set of outputs, targets, powers, types and number of
calls:

| Theorem | States |
|---|---|
| `DevicesInStep` | `Spec => []NoStaleDevice` |
| `ExitStopsMotors` | `Spec => []StoppedAfterExit` |
| `CallsDoWhatTheySay` | `Spec => []CallsTakeEffect` |

*Assumption*: `MotorsAssumption`, the types of the constants.  *Argument*: what a call
has still to write is a suffix of its script (`ShapeInv`); `DeviceInv` relates the three
records of the devices in the half-open states failed openings leave; `ExitInv` says that the
motors were stopped before the descriptors are closed; `EffectInv` says of each call which
part of its effect is established and which is pending, as long as its commands succeed, and
that no turn of a motor undoes an established part.

`LcdProofs` proves, for **every** set of pictures, intervals, table size, range of the tick
counter and any sequence of calls:

| Theorem | States |
|---|---|
| `TypeCorrect` | `Spec => []TypeOK` |
| `SignalSafe` | `Spec => []CrashesOnlyThere` |
| `ResourcesCorrect` | `Spec => []ResourcesKept` |
| `ScreenCorrect` | `Spec => []ShownUnlessDirty` |

*Assumption*: `LcdAssumption`, the types of the constants.  *Argument*: a signal may come
between any two stores, so the invariant says what each remaining script looks like
(`Linked`: which step follows which, `PendingInv`: what is still to come) and, for the step that
is next, what holds of the devices (`DeviceInv`), of the callback tables (`TablesInv`: used
slots hold a callback, but for the one being filled), of the handler's registration
(`HandlerInv`) and of the three copies of the picture (`ScreenInv`: how far a refresh or
read-back has come is true of the shared `hwBuffer` even if the handler used it in between).
There is one lemma per step and call; the shape of a script is read backwards (`Before`) to
know that the step before the current one has been done.

Its second half proves of `Drawing`, for **every** size of the screen (up to 250 by 250) and of
the font, every argument and every text:

| Theorem | States |
|---|---|
| `DrawingStaysInBuffer` | `DrawingSpec => []InBuffer` |
| `LinesFollowSegment` | `DrawingSpec => []LinesClose` |

*Assumption*: `DrawingAssumption`.  Coordinates that are cast to a byte fit one and the buffer's
size fits a `short` (178 by 128, 2944 and 32767 in the build); arguments are integers, radii and
sizes naturals, a bitmap's and a text's column a `short`.

*Argument for `InBuffer`*: a call depends on no earlier one but for `LcdPrintf`'s cursor, so the
invariant is `InBuffer` with the cursor's type; the work is in the calls.  Every primitive touches
pixels of the screen only (`Pixels`), whatever bytes it is given, except a horizontal line: its
row is compared with `Height` off by one.  So what has to be shown of a clipped line is that it is
not horizontal in a row outside the screen (`SegmentIn`).  An end may well be moved off the
screen (see the known disagreements), but both ends of a line are moved away from each other or both
towards each other, as the signs of the slope decide (`CutLowSigns`, `CutHighSigns`), and a line
whose ends fall into one row had that row inside (`DrawLineIn`).  A rectangle is lines or one fill, an ellipse a
sequence of rectangles or points (`TurnsIn`, over the recursive function of its loop).  Aligned
bitmaps and characters need that the index does not wrap (`RowIndexIs`) and, for characters, where
only the first byte of a row is compared with the end, that `LcdPrintf` puts no character across
the right border (`WrappedIn`).

*Argument for `LinesClose`*: the loop's error term keeps the points within half a pixel of the segment it
draws (`MinorClose`, `SlantPoint`).  Cutting one axis moves an end along the line with less than a
pixel of error (`CutBoth`).  A point of the new segment is off the old line by a mean of the errors
of the two ends, weighted by where it lies between them, and by half a pixel at most
(`WithinCut`, `Blend`): one and a half in all.  Different pixels are different bits
(`PixelsDiffer`), so what is set is what was drawn.

`ClosehndCorrect`, `RmMkdirCorrect` and `UploadTouchesOnlyItsFile` use a second invariant beside `UpInv`,
`DoneInv`, which also holds after a refusal: the request in flight is the one this
command asks for (`RequestInv`), a granted request has been done, the handles below the
current one are closed, and the handle an upload writes under, if it is open at all, leads to the
file it names (`EffectInv`).

Every inductive invariant was checked with TLC on the instance of the component's run before
it was proved.

*Only model-checked:*

* liveness (`RunsEnd`, `RequestsAnswered`, `ClientsServed`, `ReadsReturn`, `InvocationsEnd`,
  `CallsReturn`, `DrawnIsShown`), since fairness and ENABLED are beyond the prover;
* `ShapesExact` of `Drawing`: it compares sets of pixels drawn once or twice, for ellipses over
  the states of a loop with quadratic error terms.

## 5. Not modelled

* `exec`: `up`, `run` and closing in a row, with names put together in `main`.
* UF2: a sequential conversion from files to files (see the plan).
* The 256 constants of the CRC table.
* How much of a program's output `run` prints (`run.c:66-77`: an unsigned length from which 1000
  is subtracted per packet) and the tunnel's parsing of hexadecimal digits.
* Option parsing and the usage texts.
* Windows variants (`bt-win.c`, `_WIN32` branches): the POSIX build is modelled.
* `info`, `listen`, `send`, `cat`: single calls and printing.
* `mkrbf`: fills a fixed template.
* Connection resets and a handshake text cut in two, in the bridge.
* Sound, buttons and direct commands of `util/cat`, icons and pictures of the display, the
  millisecond timers of `ev3_timer.c`; helper scripts, and the
  submodules (hidapi, EV3 API), whose contents are not in the repository.

## 6. Plan

In this order:

1. The composition of `Connect` with `Bridge`, replacing the abstract clients.
2. `Uf2`: pack and unpack as a round trip, for every order of the blocks.
3. An abstract file store with atomic outcomes (stored, prefix, unchanged) that
   `FileCommands` implements for clean invocations.

Theorem: the refinement of 3.

## 7. Running

    tlc -workers 2 -config UploadSizes.cfg MCFileCommands
    tlapm FileCommandsProofs.tla

Each run of `PROJECT.json` names its module and configuration; a run takes between
a second and some three minutes.  The proofs are checked module by module
(`*Proofs.tla`), each in one to ten minutes.
