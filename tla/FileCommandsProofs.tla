------------------------- MODULE FileCommandsProofs -------------------------
(***************************************************************************)
(* Invariants of FileCommands, proved for every set of paths, every set of *)
(* local files, every chunk size, every handle table and every number of   *)
(* packets that outlive their invocation.                                  *)
(***************************************************************************)
EXTENDS FileCommands, SequenceTheorems, TLAPS

\* Bytes sent once request number k of an upload of L bytes is out: k full
\* chunks, or everything.
Sent(L, n) == IF n = Chunks(L) THEN L ELSE n * CHUNK_SIZE

-----------------------------------------------------------------------------
(***************************************************************************)
(* The chunk arithmetic of up.c.                                           *)
(***************************************************************************)

\* Division with rest.
LEMMA DivMod ==
  ASSUME NEW L \in Nat
  PROVE  /\ L \div CHUNK_SIZE \in Nat
         /\ L % CHUNK_SIZE \in 0 .. CHUNK_SIZE - 1
         /\ L = (L \div CHUNK_SIZE) * CHUNK_SIZE + (L % CHUNK_SIZE)
  BY SizesAssumption

\* The number of chunks is the least one that covers the file.
LEMMA ChunksCover ==
  ASSUME NEW L \in Nat
  PROVE  /\ Chunks(L) \in Nat
         /\ L <= Chunks(L) * CHUNK_SIZE
         /\ L > (Chunks(L) - 1) * CHUNK_SIZE
         /\ L = (Chunks(L) - 1) * CHUNK_SIZE + FinalChunkSize(L)
  <1> DEFINE d == L \div CHUNK_SIZE
             r == L % CHUNK_SIZE
  <1>1. /\ d \in Nat /\ r \in Nat /\ r < CHUNK_SIZE
        /\ L = d * CHUNK_SIZE + r
    BY DivMod, SizesAssumption
  <1>2. CHUNK_SIZE \in Nat /\ CHUNK_SIZE > 0
    BY SizesAssumption
  <1>3. Chunks(L) = IF r = 0 THEN d ELSE d + 1
    BY DEF Chunks
  <1>4. FinalChunkSize(L) = IF r = 0 THEN CHUNK_SIZE ELSE r
    BY DEF FinalChunkSize
  <1> HIDE DEF d, r
  <1>5. /\ d * CHUNK_SIZE \in Nat
        /\ (d + 1) * CHUNK_SIZE = d * CHUNK_SIZE + CHUNK_SIZE
        /\ (d - 1) * CHUNK_SIZE = d * CHUNK_SIZE - CHUNK_SIZE
    BY <1>1, <1>2
  <1>6. (d + 1) - 1 = d
    BY <1>1
  <1>7. CASE r = 0
    BY <1>1, <1>2, <1>3, <1>4, <1>5, <1>7
  <1>8. CASE r # 0
    <2>1. Chunks(L) = d + 1 /\ FinalChunkSize(L) = r
      BY <1>3, <1>4, <1>8
    <2>2. /\ Chunks(L) * CHUNK_SIZE = d * CHUNK_SIZE + CHUNK_SIZE
          /\ (Chunks(L) - 1) * CHUNK_SIZE = d * CHUNK_SIZE
      BY <2>1, <1>5, <1>6
    <2>3. Chunks(L) \in Nat
      BY <2>1, <1>1
    <2> QED
      BY <2>1, <2>2, <2>3, <1>1, <1>2, <1>5, <1>8
  <1> QED
    BY <1>7, <1>8

\* Chunk n takes the upload from Sent(L, n - 1) to Sent(L, n), and only the
\* last one reaches the end of the file.
LEMMA ChunkStep ==
  ASSUME NEW L \in Nat, NEW n \in Nat, n <= Chunks(L)
  PROVE  /\ Sent(L, n) \in 0 .. L
         /\ n < Chunks(L) => Sent(L, n) < L
         /\ n = 0 => Sent(L, n) = 0
         /\ n > 0 => Sent(L, n - 1) + ChunkLen(L, n) = Sent(L, n)
         /\ n > 0 => Sent(L, n - 1) < L
  <1> DEFINE c == Chunks(L)
             C == CHUNK_SIZE
  <1>1. /\ c \in Nat /\ L <= c * C /\ L > (c - 1) * C
        /\ L = (c - 1) * C + FinalChunkSize(L)
    BY ChunksCover
  <1>2. C \in Nat /\ C > 0
    BY SizesAssumption
  <1>3. /\ Sent(L, n) = IF n = c THEN L ELSE n * C
        /\ Sent(L, n - 1) = IF n - 1 = c THEN L ELSE (n - 1) * C
        /\ ChunkLen(L, n) = IF n = c THEN FinalChunkSize(L) ELSE C
    BY DEF Sent, ChunkLen
  <1>4. n <= c
    OBVIOUS
  <1> HIDE DEF c, C
  <1>5. ASSUME n < c
        PROVE  n * C < L /\ n * C \in Nat
    <2>1. n <= c - 1
      BY <1>1, <1>5
    <2>2. n * C <= (c - 1) * C
      BY <2>1, <1>1, <1>2
    <2> QED
      BY <2>2, <1>1, <1>2
  <1>6. n > 0 => (n - 1) * C < L
    <2> SUFFICES ASSUME n > 0 PROVE (n - 1) * C < L
      OBVIOUS
    <2>1. n - 1 <= c - 1
      BY <1>1, <1>4
    <2>2. (n - 1) * C <= (c - 1) * C
      BY <2>1, <1>1, <1>2
    <2> QED
      BY <2>2, <1>1, <1>2
  <1>7. (n - 1) * C + C = n * C
    BY <1>2
  <1>8. c = 0 => L = 0
    BY <1>1, <1>2
  <1>9. Sent(L, n) \in 0 .. L /\ (n < c => Sent(L, n) < L)
    BY <1>1, <1>3, <1>4, <1>5
  <1>10. n = 0 => Sent(L, n) = 0
    BY <1>2, <1>3, <1>8
  <1>11. n > 0 => Sent(L, n - 1) < L /\ Sent(L, n - 1) = (n - 1) * C
    BY <1>3, <1>4, <1>6, <1>1
  <1>12. n > 0 => Sent(L, n - 1) + ChunkLen(L, n) = Sent(L, n)
    BY <1>1, <1>3, <1>4, <1>7, <1>11
  <1> QED
    BY <1>9, <1>10, <1>11, <1>12 DEF c

-----------------------------------------------------------------------------
(***************************************************************************)
(* The inductive invariant.                                                *)
(***************************************************************************)

\* Where the loops are: the file position follows from the chunk number, and
\* closehnd has not left its range.
LoopInv ==
  /\ run.op = "up" =>
       LET L == Len(run.file) IN
       /\ run.name \in Names
       /\ k <= Chunks(L)
       /\ pc = "write" /\ k = 0 => pos = 0
       /\ pc = "write" /\ k > 0 => pos = Sent(L, k - 1)
       /\ pc = "read" => pos = Sent(L, k)
  /\ run.op = "closehnd" /\ pc \in {"write", "read"} => run.from + k < run.to

\* The transport of an invocation that began in silence: empty, or one packet
\* that the program waits for or has given up on.  What it has asked may have
\* reached the brick whole, in part or not at all.
Silent == requests = << >> /\ replies = << >>
Asked(q) == requests \in {<<q>>, <<Torn>>, << >>} /\ replies = << >>
Answered(p) == requests = << >> /\ replies = <<p>>

FlightInv ==
  /\ pc = "write" => ret = "running"
  /\ pc = "read" => ret = "running"
  /\ clean =>
       \/ Silent
       \/ /\ pc = "read" \/ (pc = "exited" /\ ret = "ERR_COMM")
          /\ \/ Len(requests) = 1 /\ Head(requests).own /\ replies = << >>
             \/ requests = << >> /\ Len(replies) = 1 /\ Head(replies).own

NoHandle == \A h \in Handles : ~table[h].own

\* n bytes of the upload are on the brick, under handle h unless complete.
Stored(n, h) ==
  /\ n \in 0 .. Len(run.file)
  /\ store[run.name] = File(SubSeq(run.file, 1, n))
  /\ IF n = Len(run.file)
       THEN NoHandle
       ELSE /\ h \in Handles
            /\ table[h] = Receiving(run.name, Len(run.file), n, TRUE)
            /\ \A g \in Handles \ {h} : ~table[g].own

(***************************************************************************)
(* The stages of an upload that began in silence and was refused nothing.  *)
(* The program may give up in each of them but the last; the brick goes on *)
(* with what it has been asked.                                            *)
(***************************************************************************)
Gone == pc = "exited" /\ ret # "ERR_UNK"
Before == IF k = 0 THEN 0 ELSE Sent(Len(run.file), k - 1)

Start == k = 0 /\ NoHandle /\ (pc = "write" \/ Gone) /\ Silent
BeginAsked ==
  /\ k = 0 /\ NoHandle
  /\ pc = "read" \/ Gone
  /\ Asked(BEGIN_DOWNLOAD(run.name, Len(run.file)))
ChunkReady ==
  k > 0 /\ Stored(Before, rep.hnd) /\ (pc = "write" \/ Gone) /\ Silent
ChunkAsked ==
  /\ k > 0 /\ Stored(Before, rep.hnd)
  /\ pc = "read" \/ Gone
  /\ Asked(CONTINUE_DOWNLOAD(rep.hnd, SubSeq(run.file, Before + 1,
                                             Sent(Len(run.file), k))))
Replied ==
  /\ pc = "read" \/ Gone
  /\ \E h \in Handles :
       /\ Answered(Reply(VM_OK, h, TRUE))
       /\ Stored(Sent(Len(run.file), k), h)
Complete ==
  /\ pc = "exited" /\ ret = "ERR_UNK" /\ k = Chunks(Len(run.file))
  /\ Stored(Len(run.file), 0)
  /\ Silent

UpInv ==
  run.op = "up" /\ clean /\ ~refused =>
    Start \/ BeginAsked \/ ChunkReady \/ ChunkAsked \/ Replied \/ Complete

IInv == TypeOK /\ LoopInv /\ FlightInv /\ UpInv

-----------------------------------------------------------------------------
(***************************************************************************)
(* Types.                                                                  *)
(***************************************************************************)

LEMMA RequestFields ==
  /\ \A n, s : LET q == BEGIN_DOWNLOAD(n, s) IN
       q.cmd = "BEGIN_DOWNLOAD" /\ q.name = n /\ q.size = s /\ q.own = TRUE
  /\ \A h, d : LET q == CONTINUE_DOWNLOAD(h, d) IN
       q.cmd = "CONTINUE_DOWNLOAD" /\ q.hnd = h /\ q.data = d /\ q.own = TRUE
  BY DEF Request, BEGIN_DOWNLOAD, CONTINUE_DOWNLOAD

LEMMA TornFields == Torn.cmd = "TORN" /\ Torn.own = TRUE
  BY DEF Request, Torn

LEMMA FreeNotOwn == ~Free.own
  BY DEF Free

LEMMA RequestTypes ==
  /\ \A n \in Paths, s \in Nat : BEGIN_DOWNLOAD(n, s) \in Requests
  /\ \A h \in Handles, d \in Seq(Byte) : CONTINUE_DOWNLOAD(h, d) \in Requests
  /\ \A h \in Handles : CLOSE_HANDLE(h) \in Requests
  /\ \A n \in Paths : CREATE_DIR(n) \in Requests
  /\ \A n \in Paths : DELETE_FILE(n) \in Requests
  /\ Torn \in Requests
  <1>0. << >> \in Seq(Byte) /\ 0 \in Handles /\ "" \in Paths /\ 0 \in Nat
    BY EmptySeq, SizesAssumption DEF Handles, Paths
  <1>1. \A n \in Paths, s \in Nat : BEGIN_DOWNLOAD(n, s) \in Requests
    BY <1>0 DEF Requests, Request, BEGIN_DOWNLOAD
  <1>2. \A h \in Handles, d \in Seq(Byte) :
          CONTINUE_DOWNLOAD(h, d) \in Requests
    BY <1>0 DEF Requests, Request, CONTINUE_DOWNLOAD
  <1>3. \A h \in Handles : CLOSE_HANDLE(h) \in Requests
    BY <1>0 DEF Requests, Request, CLOSE_HANDLE
  <1>4. \A n \in Paths : CREATE_DIR(n) \in Requests
    BY <1>0 DEF Requests, Request, CREATE_DIR
  <1>5. \A n \in Paths : DELETE_FILE(n) \in Requests
    BY <1>0 DEF Requests, Request, DELETE_FILE
  <1>6. Torn \in Requests
    BY <1>0 DEF Requests, Request, Torn
  <1> QED
    BY <1>1, <1>2, <1>3, <1>4, <1>5, <1>6

\* Part of a file between two positions in it.
LEMMA ChunkType ==
  ASSUME NEW f \in Seq(Byte), NEW m \in Nat, NEW n \in 0 .. Len(f)
  PROVE  SubSeq(f, m + 1, n) \in Seq(Byte)
  <1>1. \A i \in m + 1 .. n : f[i] \in Byte
    BY ElementOfSeq
  <1> QED
    BY <1>1, SubSeqProperties

\* The values that Init and the brick put into the variables.
LEMMA ValueTypes ==
  /\ Run("none", "", << >>, 0, 0) \in Runs
  /\ Blank \in Replies
  /\ Absent \in Entries /\ Dir \in Entries
  /\ Free \in Downloads
  /\ \A b \in Seq(Byte) : File(b) \in Entries
  /\ \A n \in Paths, s, g \in Nat, o \in BOOLEAN :
       Receiving(n, s, g, o) \in Downloads
  <1>0. << >> \in Seq(Byte) /\ 0 \in Handles
    BY EmptySeq, SizesAssumption DEF Handles
  <1>1. Run("none", "", << >>, 0, 0) \in Runs
    BY <1>0, SizesAssumption DEF Run, Runs, Paths
  <1>2. Blank \in Replies
    BY <1>0 DEF Blank, Reply, Replies
  <1>3. Absent \in Entries /\ Dir \in Entries
    BY <1>0 DEF Absent, Dir, Entries
  <1>4. Free \in Downloads
    BY DEF Free, Downloads, Paths
  <1>5. \A b \in Seq(Byte) : File(b) \in Entries
    BY DEF File, Entries
  <1>6. \A n \in Paths, s, g \in Nat, o \in BOOLEAN :
       Receiving(n, s, g, o) \in Downloads
    BY DEF Receiving, Downloads
  <1> QED
    BY <1>1, <1>2, <1>3, <1>4, <1>5, <1>6

LEMMA InitType == Init => TypeOK
  <1> SUFFICES ASSUME Init PROVE TypeOK
    OBVIOUS
  <1>1. requests \in Seq(Requests) /\ replies \in Seq(Replies)
    BY EmptySeq DEF Init
  <1>2. run \in Runs /\ rep \in Replies
    BY ValueTypes DEF Init
  <1>3. store \in [Names -> Entries] /\ table \in [Handles -> Downloads]
    BY ValueTypes DEF Init
  <1>4. clean \in BOOLEAN /\ refused \in BOOLEAN
    BY Zenon DEF Init
  <1>5. k \in Nat /\ pos \in Nat /\ ret \in ERR \cup {"running"}
    BY DEF Init
  <1> QED
    BY <1>1, <1>2, <1>3, <1>4, <1>5 DEF Init, TypeOK

LEMMA DisownType ==
  /\ \A x \in Requests : Disown(x) \in Requests
  /\ \A x \in Replies : Disown(x) \in Replies
  /\ \A x \in Downloads : Disown(x) \in Downloads /\ ~Disown(x).own
  <1>1. ASSUME NEW x \in Requests PROVE Disown(x) \in Requests
    BY DEF Disown, Requests
  <1>2. ASSUME NEW x \in Replies PROVE Disown(x) \in Replies
    BY DEF Disown, Replies
  <1>3. ASSUME NEW x \in Downloads
        PROVE  Disown(x) \in Downloads /\ ~Disown(x).own
    BY DEF Disown, Downloads
  <1> QED
    BY <1>1, <1>2, <1>3

\* Marking the packets of an ended invocation keeps their types.
LEMMA LeftoverType ==
  ASSUME TypeOK
  PROVE  /\ \A s \in Leftover(requests) : s \in Seq(Requests)
         /\ \A s \in Leftover(replies) : s \in Seq(Replies)
  <1>1. ASSUME NEW P, NEW s \in Seq(P), \A x \in P : Disown(x) \in P,
               NEW t \in Leftover(s)
        PROVE  t \in Seq(P)
    <2>1. CASE t = << >>
      BY <2>1, EmptySeq
    <2>2. CASE t = [j \in 1 .. Len(s) |-> Disown(s[j])]
      <3>1. \A j \in 1 .. Len(s) : Disown(s[j]) \in P
        BY <1>1, ElementOfSeq
      <3>2. Len(s) \in Nat
        BY LenProperties
      <3> QED
        BY <2>2, <3>1, <3>2, IsASeq
    <2> QED
      BY <1>1, <2>1, <2>2 DEF Leftover
  <1> QED
    BY <1>1, DisownType DEF TypeOK

LEMMA InvokeType ==
  ASSUME TypeOK, NEW op, NEW n, NEW f, NEW a, NEW b,
         Invoke(op, n, f, a, b), Run(op, n, f, a, b) \in Runs
  PROVE  TypeOK'
  <1>1. requests' \in Seq(Requests) /\ replies' \in Seq(Replies)
    BY LeftoverType DEF Invoke
  <1>2. table' \in [Handles -> Downloads]
    BY DisownType DEF TypeOK, Invoke
  <1>3. rep' \in Replies
    BY ValueTypes DEF Invoke
  <1> QED
    BY <1>1, <1>2, <1>3 DEF TypeOK, Invoke

LEMMA WriteType ==
  ASSUME TypeOK, NEW q \in Requests, Write(q)
  PROVE  /\ requests' \in Seq(Requests)
         /\ pc' \in {"idle", "write", "read", "exited"}
         /\ ret' \in ERR \cup {"running"}
  <1>1. /\ Append(requests, q) \in Seq(Requests)
        /\ Append(requests, Torn) \in Seq(Requests)
    BY AppendProperties, RequestTypes DEF TypeOK
  <1> QED
    BY <1>1 DEF TypeOK, Write, Exit, ERR

LEMMA ReadType ==
  ASSUME TypeOK, Read
  PROVE  rep' \in Replies /\ replies' \in Seq(Replies)
  BY HeadTailProperties DEF TypeOK, Read

\* Packets the brick takes and sends.
LEMMA ServeType ==
  ASSUME TypeOK, NEW c, Serve(c)
  PROVE  /\ Head(requests) \in Requests
         /\ requests' \in Seq(Requests)
         /\ \A t \in {VM_OK, VM_ERROR}, h \in Handles :
              Answer(t, h) => replies' \in Seq(Replies)
  <1>1. Head(requests) \in Requests /\ requests' \in Seq(Requests)
    BY HeadTailProperties DEF TypeOK, Serve
  <1>2. \A t \in {VM_OK, VM_ERROR}, h \in Handles :
          Reply(t, h, Head(requests).own) \in Replies
    BY <1>1 DEF Reply, Replies, Requests
  <1>3. \A p \in Replies : Append(replies, p) \in Seq(Replies)
    BY AppendProperties DEF TypeOK
  <1> QED
    BY <1>1, <1>2, <1>3 DEF Answer

LEMMA DenyType ==
  ASSUME TypeOK, NEW c, Serve(c), NEW h \in Handles, Deny(h)
  PROVE  TypeOK'
  <1>1. replies' \in Seq(Replies) /\ requests' \in Seq(Requests)
    BY ServeType DEF Deny
  <1>2. refused' \in BOOLEAN
    BY Zenon DEF Deny
  <1>3. UNCHANGED <<run, pc, k, pos, rep, ret, clean, store, table>>
    BY DEF Serve, Deny, program
  <1> QED
    BY <1>1, <1>2, <1>3 DEF TypeOK

\* A brick step that serves a request, with the types of what it changes.
LEMMA ServedType ==
  ASSUME TypeOK, NEW c, Serve(c), NEW h \in Handles, Answer(VM_OK, h),
         store' \in [Names -> Entries], table' \in [Handles -> Downloads],
         refused' = refused
  PROVE  TypeOK'
  <1>1. replies' \in Seq(Replies) /\ requests' \in Seq(Requests)
    BY ServeType
  <1>2. UNCHANGED <<run, pc, k, pos, rep, ret, clean>>
    BY DEF Serve, program
  <1> QED
    BY <1>1, <1>2 DEF TypeOK

LEMMA BrickType ==
  ASSUME TypeOK, Brick
  PROVE  TypeOK'
  <1> DEFINE q == Head(requests)
  <1>0. 0 \in Handles
    BY SizesAssumption DEF Handles
  <1>1. ASSUME BrickBegin PROVE TypeOK'
    <2>1. Serve("BEGIN_DOWNLOAD")
      BY <1>1 DEF BrickBegin
    <2>2. q \in Requests
      BY <2>1, ServeType
    <2>3. q.name \in Paths /\ q.size \in Nat /\ q.own \in BOOLEAN
      BY <2>2 DEF Requests
    <2>4. CASE Deny(0)
      BY <2>1, <2>4, <1>0, DenyType
    <2>5. ASSUME NEW h \in Handles,
                 store' = [store EXCEPT ![q.name] = File(<< >>)],
                 table' = [table EXCEPT ![h] =
                             IF q.size = 0 THEN Free
                             ELSE Receiving(q.name, q.size, 0, q.own)],
                 Answer(VM_OK, h), refused' = refused
          PROVE  TypeOK'
      <3>1. File(<< >>) \in Entries
        BY ValueTypes, EmptySeq
      <3>2. store' \in [Names -> Entries]
        BY <2>5, <3>1 DEF TypeOK
      <3>3. Free \in Downloads /\ Receiving(q.name, q.size, 0, q.own) \in Downloads
        BY <2>3, ValueTypes
      <3>4. table' \in [Handles -> Downloads]
        BY <2>5, <3>3 DEF TypeOK
      <3> QED
        BY <2>1, <2>5, <3>2, <3>4, ServedType
    <2> QED
      BY <1>1, <2>4, <2>5 DEF BrickBegin
  <1>2. ASSUME BrickContinue PROVE TypeOK'
    <2> DEFINE t == table[q.hnd]
               got == t.got + Len(q.data)
    <2>1. Serve("CONTINUE_DOWNLOAD")
      BY <1>2 DEF BrickContinue
    <2>2. q \in Requests
      BY <2>1, ServeType
    <2>3. q.hnd \in Handles /\ q.data \in Seq(Byte)
      BY <2>2 DEF Requests
    <2>4. CASE Deny(q.hnd)
      BY <2>1, <2>3, <2>4, DenyType
    <2>5. ASSUME store' = IF t.linked
                    THEN [store EXCEPT ![t.name] = File(@.bytes \o q.data)]
                    ELSE store,
                 table' = [table EXCEPT ![q.hnd] =
                             IF got >= t.size THEN Free
                             ELSE [t EXCEPT !.got = got]],
                 Answer(VM_OK, q.hnd), refused' = refused
          PROVE  TypeOK'
      <3>1. t \in Downloads /\ Len(q.data) \in Nat
        BY <2>3, LenProperties DEF TypeOK
      <3>2. [t EXCEPT !.got = got] \in Downloads
        BY <3>1 DEF Downloads
      <3>3. table' \in [Handles -> Downloads]
        BY <2>3, <2>5, <3>2, ValueTypes DEF TypeOK
      <3>4. \A n \in Names : File(store[n].bytes \o q.data) \in Entries
        <4> SUFFICES ASSUME NEW n \in Names
                     PROVE  File(store[n].bytes \o q.data) \in Entries
          OBVIOUS
        <4>1. store[n].bytes \in Seq(Byte)
          BY DEF TypeOK, Entries
        <4>2. store[n].bytes \o q.data \in Seq(Byte)
          BY <4>1, <2>3, ConcatProperties
        <4> QED
          BY <4>2, ValueTypes
      <3>5. store' \in [Names -> Entries]
        BY <2>5, <3>4 DEF TypeOK
      <3> QED
        BY <2>1, <2>3, <2>5, <3>3, <3>5, ServedType
    <2> QED
      BY <1>2, <2>4, <2>5 DEF BrickContinue
  <1>3. ASSUME BrickClose PROVE TypeOK'
    <2>1. Serve("CLOSE_HANDLE")
      BY <1>3 DEF BrickClose
    <2>2. q \in Requests
      BY <2>1, ServeType
    <2>3. q.hnd \in Handles
      BY <2>2 DEF Requests
    <2>4. CASE Deny(q.hnd)
      BY <2>1, <2>3, <2>4, DenyType
    <2>5. ASSUME table' = [table EXCEPT ![q.hnd] = Free], store' = store,
                 Answer(VM_OK, q.hnd), refused' = refused
          PROVE  TypeOK'
      <3>1. table' \in [Handles -> Downloads] /\ store' \in [Names -> Entries]
        BY <2>5, ValueTypes DEF TypeOK
      <3> QED
        BY <2>1, <2>3, <2>5, <3>1, ServedType
    <2> QED
      BY <1>3, <2>4, <2>5 DEF BrickClose
  <1>4. ASSUME BrickDelete PROVE TypeOK'
    <2>1. Serve("DELETE_FILE")
      BY <1>4 DEF BrickDelete
    <2>4. CASE Deny(0)
      BY <2>1, <1>0, <2>4, DenyType
    <2>5. ASSUME store' = [store EXCEPT ![q.name] = Absent],
                 table' = [h \in Handles |->
                             IF table[h].open /\ table[h].name = q.name
                               THEN [table[h] EXCEPT !.linked = FALSE]
                               ELSE table[h]],
                 Answer(VM_OK, 0), refused' = refused
          PROVE  TypeOK'
      <3>1. store' \in [Names -> Entries]
        BY <2>5, ValueTypes DEF TypeOK
      <3>2. ASSUME NEW d \in Downloads
            PROVE  [d EXCEPT !.linked = FALSE] \in Downloads
        BY DEF Downloads
      <3>3. \A h \in Handles : table[h] \in Downloads
        BY DEF TypeOK
      <3>4. table' \in [Handles -> Downloads]
        BY <2>5, <3>2, <3>3
      <3> QED
        BY <2>1, <1>0, <2>5, <3>1, <3>4, ServedType
    <2> QED
      BY <1>4, <2>4, <2>5 DEF BrickDelete
  <1>5. ASSUME BrickCreateDir PROVE TypeOK'
    <2>1. Serve("CREATE_DIR")
      BY <1>5 DEF BrickCreateDir
    <2>4. CASE Deny(0)
      BY <2>1, <1>0, <2>4, DenyType
    <2>5. ASSUME store' = [store EXCEPT ![q.name] = Dir], table' = table,
                 Answer(VM_OK, 0), refused' = refused
          PROVE  TypeOK'
      <3>1. table' \in [Handles -> Downloads] /\ store' \in [Names -> Entries]
        BY <2>5, ValueTypes DEF TypeOK
      <3> QED
        BY <2>1, <1>0, <2>5, <3>1, ServedType
    <2> QED
      BY <1>5, <2>4, <2>5 DEF BrickCreateDir
  <1>6. ASSUME BrickTorn PROVE TypeOK'
    <2>1. /\ requests \in Seq(Requests) /\ Len(requests) >= 2
          /\ requests' = Tail(Tail(requests))
      BY <1>6 DEF BrickTorn, TypeOK
    <2>2. /\ q \in Requests /\ Tail(requests) \in Seq(Requests)
          /\ Len(Tail(requests)) = Len(requests) - 1
      BY <2>1, HeadTailProperties, EmptySeq
    <2>3. requests' \in Seq(Requests)
      <3>1. PICK s \in Seq(Requests) : s = Tail(requests)
        BY <2>2
      <3>2. Len(s) # 0 /\ Len(<< >>) = 0
        BY <2>1, <2>2, <3>1, LenProperties
      <3>3. Tail(s) \in Seq(Requests)
        BY <3>2, HeadTailProperties
      <3> QED
        BY <2>1, <3>1, <3>3
    <2>4. \A t \in {VM_OK, VM_ERROR} : Reply(t, 0, q.own) \in Replies
      BY <1>0, <2>2 DEF Reply, Replies, Requests
    <2>5. \A t \in {VM_OK, VM_ERROR} :
            Append(replies, Reply(t, 0, q.own)) \in Seq(Replies)
      BY <2>4, AppendProperties DEF TypeOK
    <2>6. replies' \in Seq(Replies)
      BY <1>6, <2>5 DEF BrickTorn, Answer, TypeOK
    <2>7. UNCHANGED <<run, pc, k, pos, rep, ret, store, table, clean, refused>>
      BY <1>6 DEF BrickTorn, program
    <2> QED
      BY <2>3, <2>6, <2>7 DEF TypeOK
  <1> QED
    BY <1>1, <1>2, <1>3, <1>4, <1>5, <1>6 DEF Brick

\* The arguments of every invocation are well typed.
LEMMA UserRuns ==
  ASSUME User
  PROVE  \E op \in Commands, n \in Paths, f \in Seq(Byte),
            a, b \in 0 .. NHandles :
           /\ Invoke(op, n, f, a, b)
           /\ Run(op, n, f, a, b) \in Runs
           /\ op # "closehnd" => n \in Names
           /\ op = "closehnd" => a < b
  <1>1. NHandles \in Nat /\ 0 \in 0 .. NHandles /\ NHandles \in 0 .. NHandles
        /\ 0 < NHandles
    BY SizesAssumption
  <1>2. << >> \in Seq(Byte)
    BY EmptySeq
  <1>3. \A op \in Commands, n \in Paths, f \in Seq(Byte),
           a, b \in 0 .. NHandles : Run(op, n, f, a, b) \in Runs
    BY CommandsAssumption DEF Run, Runs
  <1>4. Names \subseteq Paths /\ "" \in Paths
    BY DEF Paths
  <1>5. \A op, n, f, a, b : Invoke(op, n, f, a, b) => op \in Commands
    BY DEF Invoke
  <1>6. \A h \in Handles : h \in 0 .. NHandles /\ h + 1 \in 0 .. NHandles
                           /\ h < h + 1
    BY <1>1 DEF Handles
  <1>7. CASE RunUp
    <2>1. PICK n \in Names, f \in LocalFiles : Invoke("up", n, f, 0, 0)
      BY <1>7 DEF RunUp
    <2>2. "up" \in Commands /\ n \in Paths /\ f \in Seq(Byte)
      BY <1>4, <1>5, <2>1, FilesAssumption
    <2>3. Run("up", n, f, 0, 0) \in Runs
      BY <1>1, <1>3, <2>2
    <2> USE <1>1, <1>2, <1>4, <2>2
    <2> WITNESS "up" \in Commands, n \in Paths, f \in Seq(Byte),
                0 \in 0 .. NHandles, 0 \in 0 .. NHandles
    <2> QED
      BY <2>1, <2>3
  <1>8. CASE RunRm
    <2>1. PICK n \in Names : Invoke("rm", n, << >>, 0, 0)
      BY <1>8 DEF RunRm
    <2>2. "rm" \in Commands /\ n \in Paths
      BY <1>4, <1>5, <2>1
    <2>3. Run("rm", n, << >>, 0, 0) \in Runs
      BY <1>1, <1>2, <1>3, <2>2
    <2> USE <1>1, <1>2, <1>4, <2>2
    <2> WITNESS "rm" \in Commands, n \in Paths, << >> \in Seq(Byte),
                0 \in 0 .. NHandles, 0 \in 0 .. NHandles
    <2> QED
      BY <2>1, <2>3
  <1>9. CASE RunMkdir
    <2>1. PICK n \in Names : Invoke("mkdir", n, << >>, 0, 0)
      BY <1>9 DEF RunMkdir
    <2>2. "mkdir" \in Commands /\ n \in Paths
      BY <1>4, <1>5, <2>1
    <2>3. Run("mkdir", n, << >>, 0, 0) \in Runs
      BY <1>1, <1>2, <1>3, <2>2
    <2> USE <1>1, <1>2, <1>4, <2>2
    <2> WITNESS "mkdir" \in Commands, n \in Paths, << >> \in Seq(Byte),
                0 \in 0 .. NHandles, 0 \in 0 .. NHandles
    <2> QED
      BY <2>1, <2>3
  <1>10. CASE RunClosehnd
    <2>1. PICK a \in 0 .. NHandles, b \in 0 .. NHandles :
            a < b /\ Invoke("closehnd", "", << >>, a, b)
      BY <1>1, <1>6, <1>10 DEF RunClosehnd
    <2>2. "closehnd" \in Commands
      BY <1>5, <2>1
    <2>3. Run("closehnd", "", << >>, a, b) \in Runs
      BY <1>2, <1>3, <1>4, <2>2
    <2> USE <1>1, <1>2, <1>4, <2>2
    <2> WITNESS "closehnd" \in Commands, "" \in Paths, << >> \in Seq(Byte),
                a \in 0 .. NHandles, b \in 0 .. NHandles
    <2> QED
      BY <2>1, <2>3
  <1> QED
    BY <1>7, <1>8, <1>9, <1>10 DEF User

\* In an upload loop the chunk about to be sent lies within the file.
LEMMA UpChunkFacts ==
  ASSUME TypeOK, LoopInv, run.op = "up", pc = "write", k > 0
  PROVE  LET L == Len(run.file) IN
         /\ L \in Nat /\ k \in 1 .. Chunks(L)
         /\ pos = Sent(L, k - 1)
         /\ pos + ChunkLen(L, k) = Sent(L, k)
         /\ pos \in 0 .. L /\ pos < L /\ Sent(L, k) \in 0 .. L
         /\ SubSeq(run.file, pos + 1, Sent(L, k)) \in Seq(Byte)
  <1> DEFINE L == Len(run.file)
  <1>1. run.file \in Seq(Byte) /\ k \in Nat /\ pos \in Nat
    BY DEF TypeOK, Runs
  <1>2. L \in Nat
    BY <1>1, LenProperties
  <1>3. Chunks(L) \in Nat
    BY <1>2, ChunksCover
  <1>4. k <= Chunks(L) /\ pos = Sent(L, k - 1)
    BY DEF LoopInv
  <1> HIDE DEF L
  <1>5. /\ Sent(L, k) \in 0 .. L
        /\ Sent(L, k - 1) + ChunkLen(L, k) = Sent(L, k)
        /\ Sent(L, k - 1) < L
    BY <1>1, <1>2, <1>4, ChunkStep
  <1>6. SubSeq(run.file, pos + 1, Sent(L, k)) \in Seq(Byte)
    BY <1>1, <1>5, ChunkType DEF L
  <1> QED
    BY <1>1, <1>2, <1>3, <1>4, <1>5, <1>6 DEF L

LEMMA TypeStep ==
  ASSUME TypeOK, LoopInv, [Next]_vars
  PROVE  TypeOK'
  <1>0. run.name \in Paths /\ run.file \in Seq(Byte) /\ Len(run.file) \in Nat
        /\ rep.hnd \in Handles
    BY LenProperties DEF TypeOK, Runs, Replies
  <1>1. CASE User
    BY <1>1, UserRuns, InvokeType
  <1>2. CASE Brick
    BY <1>2, BrickType
  <1>3. CASE UpTooBig
    BY <1>3 DEF TypeOK, UpTooBig, Exit, ERR
  <1>4. CASE UpBegin
    <2>1. BEGIN_DOWNLOAD(run.name, Len(run.file)) \in Requests
      BY <1>0, RequestTypes
    <2> QED
      BY <1>4, <2>1, WriteType DEF TypeOK, UpBegin
  <1>5. CASE UpChunk
    <2>1. run.op = "up" /\ pc = "write" /\ k > 0
      BY <1>5 DEF UpChunk
    <2> DEFINE end == Sent(Len(run.file), k)
               q == CONTINUE_DOWNLOAD(rep.hnd, SubSeq(run.file, pos + 1, end))
    <2>2. /\ pos + ChunkLen(Len(run.file), k) = end
          /\ end \in 0 .. Len(run.file)
          /\ SubSeq(run.file, pos + 1, end) \in Seq(Byte)
      BY <2>1, UpChunkFacts
    <2>3. q \in Requests
      BY <1>0, <2>2, RequestTypes
    <2>4. pos' = end /\ Write(q)
      BY <1>5, <2>2 DEF UpChunk
    <2>5. pos' \in Nat
      BY <1>0, <2>2, <2>4
    <2>6. UNCHANGED <<run, k, rep, replies, store, table, clean, refused>>
      BY <1>5 DEF UpChunk
    <2> QED
      BY <2>3, <2>4, <2>5, <2>6, WriteType DEF TypeOK
  <1>6. CASE UpReply
    <2>1. rep' \in Replies /\ replies' \in Seq(Replies)
      BY <1>6, ReadType DEF UpReply
    <2>2. k' \in Nat /\ pc' \in {"idle", "write", "read", "exited"}
          /\ ret' \in ERR \cup {"running"}
      BY <1>6 DEF UpReply, UpNext, Exit, ERR, TypeOK
    <2> QED
      BY <1>6, <2>1, <2>2 DEF TypeOK, UpReply
  <1>7. CASE Rm
    <2>1. DELETE_FILE(run.name) \in Requests
      BY <1>0, RequestTypes
    <2> QED
      BY <1>7, <2>1, WriteType DEF TypeOK, Rm
  <1>8. CASE RmReply
    <2>1. rep' \in Replies /\ replies' \in Seq(Replies)
      BY <1>8, ReadType DEF RmReply
    <2> QED
      BY <1>8, <2>1 DEF TypeOK, RmReply, Exit, ERR
  <1>9. CASE Mkdir
    <2>1. CREATE_DIR(run.name) \in Requests
      BY <1>0, RequestTypes
    <2> QED
      BY <1>9, <2>1, WriteType DEF TypeOK, Mkdir
  <1>10. CASE MkdirReply
    <2>1. rep' \in Replies /\ replies' \in Seq(Replies)
      BY <1>10, ReadType DEF MkdirReply
    <2> QED
      BY <1>10, <2>1 DEF TypeOK, MkdirReply, Exit, ERR
  <1>11. CASE Closehnd
    <2>1. run.from + k \in Handles
      BY <1>11, SizesAssumption
         DEF Closehnd, LoopInv, TypeOK, Runs, Handles
    <2>2. CLOSE_HANDLE(run.from + k) \in Requests
      BY <2>1, RequestTypes
    <2> QED
      BY <1>11, <2>2, WriteType DEF TypeOK, Closehnd
  <1>12. CASE ClosehndReply
    <2>1. rep' \in Replies /\ replies' \in Seq(Replies)
      BY <1>12, ReadType DEF ClosehndReply
    <2>2. k' \in Nat /\ pc' \in {"idle", "write", "read", "exited"}
          /\ ret' \in ERR \cup {"running"}
      BY <1>12 DEF ClosehndReply, Exit, ERR, TypeOK
    <2> QED
      BY <1>12, <2>1, <2>2 DEF TypeOK, ClosehndReply
  <1>13. CASE ReadFails
    BY <1>13 DEF TypeOK, ReadFails, Exit, ERR
  <1>14. CASE UNCHANGED vars
    BY <1>14 DEF TypeOK, vars
  <1> QED
    BY <1>1, <1>2, <1>3, <1>4, <1>5, <1>6, <1>7, <1>8, <1>9, <1>10, <1>11,
       <1>12, <1>13, <1>14 DEF Next, Command

LEMMA InitLoop == Init => LoopInv
  <1> SUFFICES ASSUME Init PROVE LoopInv
    OBVIOUS
  <1>1. run.op = "none"
    BY DEF Init, Run
  <1> QED
    BY <1>1 DEF LoopInv

LEMMA LoopStep ==
  ASSUME TypeOK, LoopInv, [Next]_vars
  PROVE  LoopInv'
  <1>1. CASE User
    <2>1. PICK op \in Commands, n \in Paths, f \in Seq(Byte),
               a \in 0 .. NHandles, b \in 0 .. NHandles :
            /\ Invoke(op, n, f, a, b)
            /\ op = "up" => n \in Names
            /\ op = "closehnd" => a < b
      BY <1>1, UserRuns
    <2>2. Len(f) \in Nat /\ Chunks(Len(f)) \in Nat
      BY LenProperties, ChunksCover
    <2>3. /\ run'.op = op /\ run'.file = f /\ run'.from = a /\ run'.to = b
          /\ run'.name = n
          /\ pc' = "write" /\ k' = 0 /\ pos' = 0
      BY <2>1 DEF Invoke, Run
    <2> QED
      BY <2>1, <2>2, <2>3 DEF LoopInv
  <1>2. CASE Brick
    BY <1>2 DEF Brick, BrickBegin, BrickContinue, BrickClose, BrickDelete,
                BrickCreateDir, BrickTorn, Serve, program, LoopInv
  <1>3. CASE UpTooBig
    BY <1>3 DEF UpTooBig, Exit, LoopInv
  <1>4. CASE UpBegin
    <2>1. Len(run.file) \in Nat
      BY LenProperties DEF TypeOK, Runs
    <2>2. Chunks(Len(run.file)) \in Nat
      BY <2>1, ChunksCover
    <2>3. Sent(Len(run.file), 0) = 0
      BY <2>1, <2>2, ChunkStep
    <2> QED
      BY <1>4, <2>2, <2>3 DEF UpBegin, Write, Exit, LoopInv
  <1>5. CASE UpChunk
    <2>1. run.op = "up" /\ pc = "write" /\ k > 0
      BY <1>5 DEF UpChunk
    <2>2. pos + ChunkLen(Len(run.file), k) = Sent(Len(run.file), k)
      BY <2>1, UpChunkFacts
    <2> QED
      BY <1>5, <2>1, <2>2 DEF UpChunk, Write, Exit, LoopInv
  <1>6. CASE UpReply
    <2>1. Len(run.file) \in Nat
      BY LenProperties DEF TypeOK, Runs
    <2>2. Chunks(Len(run.file)) \in Nat
      BY <2>1, ChunksCover
    <2>3. k \in Nat /\ (k + 1) - 1 = k
      BY DEF TypeOK
    <2> QED
      BY <1>6, <2>2, <2>3 DEF UpReply, UpNext, Read, Exit, LoopInv
  <1>7. CASE Rm \/ Mkdir \/ Closehnd
    BY <1>7 DEF Rm, Mkdir, Closehnd, Write, Exit, LoopInv
  <1>8. CASE RmReply \/ MkdirReply \/ ReadFails
    BY <1>8 DEF RmReply, MkdirReply, ReadFails, Exit, LoopInv
  <1>9. CASE ClosehndReply
    <2>1. k \in Nat /\ run.from \in Nat
      BY SizesAssumption DEF TypeOK, Runs
    <2> QED
      BY <1>9, <2>1 DEF ClosehndReply, Exit, LoopInv
  <1>10. CASE UNCHANGED vars
    BY <1>10 DEF vars, LoopInv
  <1> QED
    BY <1>1, <1>2, <1>3, <1>4, <1>5, <1>6, <1>7, <1>8, <1>9, <1>10
       DEF Next, Command

-----------------------------------------------------------------------------
(***************************************************************************)
(* Stop and wait.                                                          *)
(***************************************************************************)

LEMMA OnePacket ==
  /\ \A S : \A s \in Seq(S) : Len(s) = 1 => s # << >> /\ Tail(s) = << >>
  /\ \A x : Append(<< >>, x) = <<x>> /\ Len(<<x>>) = 1 /\ Head(<<x>>) = x
           /\ Tail(<<x>>) = << >>
  <1>1. ASSUME NEW S, NEW s \in Seq(S), Len(s) = 1
        PROVE  s # << >> /\ Tail(s) = << >>
    <2>1. s # << >>
      BY <1>1
    <2>2. Tail(s) \in Seq(S) /\ Len(Tail(s)) = 0
      BY <1>1, <2>1, HeadTailProperties
    <2> QED
      BY <2>1, <2>2, EmptySeq
  <1>2. ASSUME NEW x
        PROVE  Append(<< >>, x) = <<x>> /\ Len(<<x>>) = 1 /\ Head(<<x>>) = x
               /\ Tail(<<x>>) = << >>
    <2>1. Len(<<x>>) = 1 /\ <<x>> \in Seq({x})
      OBVIOUS
    <2> QED
      BY <1>1, <2>1
  <1> QED
    BY <1>1, <1>2

\* Every request goes out as the program's own.
LEMMA RequestsOwn ==
  /\ \A n, s : BEGIN_DOWNLOAD(n, s).own
  /\ \A h, d : CONTINUE_DOWNLOAD(h, d).own
  /\ \A h : CLOSE_HANDLE(h).own
  /\ \A n : CREATE_DIR(n).own
  /\ \A n : DELETE_FILE(n).own
  BY DEF Request, BEGIN_DOWNLOAD, CONTINUE_DOWNLOAD, CLOSE_HANDLE, CREATE_DIR,
         DELETE_FILE

LEMMA WriteFlight ==
  ASSUME TypeOK, FlightInv, pc = "write", NEW q, q.own, Write(q),
         UNCHANGED <<replies, clean>>
  PROVE  FlightInv'
  <1>1. CASE /\ requests' \in {Append(requests, q), Append(requests, Torn),
                               requests}
             /\ pc' = "read" /\ UNCHANGED ret
    BY <1>1, OnePacket, TornFields DEF FlightInv, Silent
  <1>2. CASE Exit("ERR_COMM") /\ UNCHANGED requests
    BY <1>2 DEF FlightInv, Silent, Exit
  <1> QED
    BY <1>1, <1>2 DEF Write

LEMMA ReadFlight ==
  ASSUME TypeOK, FlightInv, Read, UNCHANGED <<requests, clean>>,
         \/ pc' = "write" /\ UNCHANGED ret
         \/ pc' = "exited"
  PROVE  FlightInv'
  <1>1. ret = "running" /\ pc = "read"
    BY DEF Read, FlightInv
  <1>2. clean => requests = << >> /\ replies' = << >>
    <2> SUFFICES ASSUME clean PROVE requests = << >> /\ replies' = << >>
      OBVIOUS
    <2>1. requests = << >> /\ Len(replies) = 1
      BY <1>1 DEF FlightInv, Read, Silent
    <2> QED
      BY <2>1, OnePacket DEF Read, TypeOK
  <1> QED
    BY <1>1, <1>2 DEF FlightInv, Silent

LEMMA BrickFlight ==
  ASSUME TypeOK, FlightInv, NEW c, Serve(c), NEW t, NEW h, Answer(t, h)
  PROVE  FlightInv'
  <1>1. UNCHANGED <<pc, ret, clean>>
    BY DEF Serve, program
  <1>2. CASE ~clean
    BY <1>1, <1>2 DEF FlightInv
  <1>3. CASE clean
    <2>1. Len(requests) = 1 /\ Head(requests).own /\ replies = << >>
      BY <1>3 DEF FlightInv, Serve, Silent
    <2>2. requests' = << >>
      BY <2>1, OnePacket DEF Serve, TypeOK
    <2>3. Len(replies') = 1 /\ Head(replies') = Reply(t, h, Head(requests).own)
      BY <2>1, OnePacket DEF Answer
    <2>4. Head(replies').own
      BY <2>1, <2>3 DEF Reply
    <2>5. pc = "read" \/ (pc = "exited" /\ ret = "ERR_COMM")
      BY <1>3, <2>1, OnePacket DEF FlightInv, Silent, TypeOK
    <2> QED
      BY <1>1, <2>2, <2>3, <2>4, <2>5 DEF FlightInv
  <1> QED
    BY <1>2, <1>3

\* In silence a half packet is never followed by another.
LEMMA TornAlone ==
  ASSUME FlightInv, clean
  PROVE  ~BrickTorn
  <1>1. Len(<< >>) = 0
    OBVIOUS
  <1>2. Len(requests) \in {0, 1}
    BY <1>1, Zenon DEF FlightInv, Silent
  <1>3. \A n \in {0, 1} : ~(n >= 2)
    OBVIOUS
  <1> QED
    BY <1>2, <1>3, Zenon DEF BrickTorn

LEMMA FlightStep ==
  ASSUME TypeOK, FlightInv, [Next]_vars
  PROVE  FlightInv'
  <1>1. CASE User
    BY <1>1 DEF User, RunUp, RunRm, RunMkdir, RunClosehnd, Invoke, FlightInv,
                Silent
  <1>2. CASE Brick
    <2>1. CASE BrickTorn
      <3>1. ~clean
        BY <2>1, TornAlone
      <3> QED
        BY <2>1, <3>1 DEF BrickTorn, program, FlightInv
    <2>2. CASE ~BrickTorn
      <3>1. \E c, t, h : Serve(c) /\ Answer(t, h)
        <4>1. CASE BrickBegin
          BY <4>1 DEF BrickBegin, Deny
        <4>2. CASE BrickContinue
          BY <4>2 DEF BrickContinue, Deny
        <4>3. CASE BrickClose
          BY <4>3 DEF BrickClose, Deny
        <4>4. CASE BrickDelete
          BY <4>4 DEF BrickDelete, Deny
        <4>5. CASE BrickCreateDir
          BY <4>5 DEF BrickCreateDir, Deny
        <4> QED
          BY <1>2, <2>2, <4>1, <4>2, <4>3, <4>4, <4>5 DEF Brick
      <3> QED
        BY <3>1, BrickFlight
    <2> QED
      BY <2>1, <2>2
  <1>3. CASE UpTooBig
    BY <1>3 DEF UpTooBig, Exit, FlightInv, Silent
  <1>4. CASE UpBegin
    BY <1>4, RequestsOwn, WriteFlight DEF UpBegin
  <1>5. CASE UpChunk
    BY <1>5, RequestsOwn, WriteFlight DEF UpChunk
  <1>6. CASE Rm
    BY <1>6, RequestsOwn, WriteFlight DEF Rm
  <1>7. CASE Mkdir
    BY <1>7, RequestsOwn, WriteFlight DEF Mkdir
  <1>8. CASE Closehnd
    BY <1>8, RequestsOwn, WriteFlight DEF Closehnd
  <1>9. CASE UpReply
    BY <1>9, ReadFlight DEF UpReply, UpNext, Exit
  <1>10. CASE RmReply
    BY <1>10, ReadFlight DEF RmReply, Exit
  <1>11. CASE MkdirReply
    BY <1>11, ReadFlight DEF MkdirReply, Exit
  <1>12. CASE ClosehndReply
    BY <1>12, ReadFlight DEF ClosehndReply, Exit
  <1>13. CASE ReadFails
    BY <1>13 DEF ReadFails, Exit, FlightInv, Silent
  <1>14. CASE UNCHANGED vars
    BY <1>14 DEF vars, FlightInv, Silent
  <1> QED
    BY <1>1, <1>2, <1>3, <1>4, <1>5, <1>6, <1>7, <1>8, <1>9, <1>10, <1>11,
       <1>12, <1>13, <1>14 DEF Next, Command

-----------------------------------------------------------------------------
(***************************************************************************)
(* The stages of an upload.                                                *)
(***************************************************************************)

\* The stage an upload is in, told from what is in flight.
LEMMA StageOf ==
  ASSUME UpInv, run.op = "up", clean, ~refused
  PROVE  /\ pc = "write" /\ k = 0 => Start
         /\ pc = "write" /\ k > 0 => ChunkReady
         /\ replies # << >> => Replied
         /\ requests # << >> => BeginAsked \/ ChunkAsked
         /\ pc = "read" => BeginAsked \/ ChunkAsked \/ Replied
  <1>1. Start \/ BeginAsked \/ ChunkReady \/ ChunkAsked \/ Replied \/ Complete
    BY DEF UpInv
  <1>2. Start => k = 0 /\ pc # "read" /\ requests = << >> /\ replies = << >>
    BY DEF Start, Gone, Silent
  <1>3. BeginAsked => pc # "write" /\ replies = << >>
    BY DEF BeginAsked, Gone, Asked
  <1>4. ChunkReady => k > 0 /\ pc # "read" /\ requests = << >> /\ replies = << >>
    BY DEF ChunkReady, Gone, Silent
  <1>5. ChunkAsked => pc # "write" /\ replies = << >>
    BY DEF ChunkAsked, Gone, Asked
  <1>6. Replied => pc # "write" /\ requests = << >>
    BY DEF Replied, Gone, Answered
  <1>7. Complete => pc = "exited" /\ requests = << >> /\ replies = << >>
    BY DEF Complete, Silent
  <1>8. ~(k = 0 /\ k > 0)
    OBVIOUS
  <1> QED
    BY <1>1, <1>2, <1>3, <1>4, <1>5, <1>6, <1>7, <1>8

LEMMA UserUp ==
  ASSUME TypeOK, User
  PROVE  UpInv'
  <1>1. PICK op, n, f, a, b : Invoke(op, n, f, a, b)
    BY UserRuns
  <1>2. NoHandle'
    BY <1>1, DisownType DEF Invoke, NoHandle, TypeOK
  <1>3. clean' => Silent'
    BY <1>1 DEF Invoke, Silent
  <1>4. k' = 0 /\ pc' = "write"
    BY <1>1 DEF Invoke
  <1> SUFFICES ASSUME clean' PROVE Start'
    BY DEF UpInv
  <1> QED
    BY <1>2, <1>3, <1>4 DEF Start

LEMMA UpBeginUp ==
  ASSUME UpInv, UpBegin \/ UpTooBig
  PROVE  UpInv'
  <1>0. clean' = clean /\ refused' = refused
    BY DEF UpBegin, UpTooBig
  <1> SUFFICES ASSUME clean, ~refused PROVE UpInv'
    BY <1>0 DEF UpInv
  <1>1. Start /\ run.op = "up" /\ pc = "write" /\ k = 0
    BY StageOf DEF UpBegin, UpTooBig
  <1>2. UNCHANGED <<run, k, replies, store, table>>
    BY DEF UpBegin, UpTooBig
  <1>3. NoHandle'
    BY <1>1, <1>2 DEF Start, NoHandle
  <1>4. CASE pc' = "exited" /\ ret' # "ERR_UNK" /\ UNCHANGED requests
    BY <1>1, <1>2, <1>3, <1>4 DEF Start, Gone, Silent, UpInv
  <1>5. CASE /\ pc' = "read"
             /\ requests' \in
                  {Append(requests, BEGIN_DOWNLOAD(run.name, Len(run.file))),
                   Append(requests, Torn), requests}
    <2>1. Asked(BEGIN_DOWNLOAD(run.name, Len(run.file)))'
      BY <1>1, <1>2, <1>5, OnePacket DEF Start, Silent, Asked
    <2> QED
      BY <1>1, <1>2, <1>3, <1>5, <2>1 DEF BeginAsked, UpInv
  <1> QED
    BY <1>4, <1>5 DEF UpBegin, UpTooBig, Write, Exit

LEMMA UpChunkUp ==
  ASSUME TypeOK, LoopInv, UpInv, UpChunk
  PROVE  UpInv'
  <1> SUFFICES ASSUME clean, ~refused PROVE UpInv'
    BY DEF UpInv, UpChunk
  <1> DEFINE L == Len(run.file)
             q == CONTINUE_DOWNLOAD(rep.hnd,
                                    SubSeq(run.file, Before + 1, Sent(L, k)))
  <1>1. ChunkReady /\ run.op = "up" /\ pc = "write" /\ k > 0
    BY StageOf DEF UpChunk
  <1>2. UNCHANGED <<run, k, rep, replies, store, table>>
    BY DEF UpChunk
  <1>3. pos = Before /\ pos + ChunkLen(L, k) = Sent(L, k)
    BY <1>1, UpChunkFacts DEF Before
  <1>4. Write(q)
    BY <1>3 DEF UpChunk
  <1>5. Stored(Before, rep.hnd)' /\ Before' = Before
    BY <1>1, <1>2 DEF ChunkReady, Stored, NoHandle, Before
  <1>6. CASE pc' = "exited" /\ ret' = "ERR_COMM" /\ UNCHANGED requests
    BY <1>1, <1>2, <1>5, <1>6 DEF ChunkReady, Gone, Silent, UpInv
  <1>7. CASE /\ pc' = "read"
             /\ requests' \in {Append(requests, q), Append(requests, Torn),
                               requests}
    <2>1. Asked(q)'
      BY <1>1, <1>2, <1>5, <1>7, OnePacket DEF ChunkReady, Silent, Asked
    <2> QED
      BY <1>1, <1>2, <1>5, <1>7, <2>1 DEF ChunkAsked, UpInv
  <1> QED
    BY <1>4, <1>6, <1>7 DEF Write, Exit

LEMMA UpReplyUp ==
  ASSUME TypeOK, LoopInv, UpInv, UpReply
  PROVE  UpInv'
  <1> SUFFICES ASSUME clean, ~refused PROVE UpInv'
    BY DEF UpInv, UpReply
  <1> DEFINE L == Len(run.file)
  <1>1. Replied /\ run.op = "up" /\ pc = "read"
    BY StageOf DEF UpReply, Read
  <1>2. PICK h \in Handles : /\ Answered(Reply(VM_OK, h, TRUE))
                             /\ Stored(Sent(L, k), h)
    BY <1>1 DEF Replied
  <1>9. PICK n : n = Sent(L, k)
    OBVIOUS
  <1>3. /\ UNCHANGED <<run, requests, store, table>>
        /\ rep' = Head(replies) /\ replies' = Tail(replies)
    BY DEF UpReply, Read
  <1>4. rep' = Reply(VM_OK, h, TRUE) /\ Silent'
    BY <1>2, <1>3, OnePacket DEF Answered, Silent
  <1>5. rep'.hnd = h /\ rep'.type # VM_ERROR
    BY <1>4 DEF Reply, VM_OK, VM_ERROR
  <1>6. k \in Nat /\ k <= Chunks(L)
    BY <1>1 DEF TypeOK, LoopInv
  <1>7. CASE k < Chunks(L)
    <2>1. pc' = "write" /\ k' = k + 1
      BY <1>5, <1>7, <1>6 DEF UpReply, UpNext
    <2>2. k' > 0 /\ k' # 0 /\ k' - 1 = k
      BY <1>6, <2>1
    <2>3. Before' = Sent(L, k)
      BY <1>3, <2>2 DEF Before
    <2>4. Stored(n, h)'
      BY <1>2, <1>3, <1>9 DEF Stored, NoHandle
    <2>5. Stored(Before, rep.hnd)'
      BY <1>5, <1>9, <2>3, <2>4
    <2> QED
      BY <1>4, <2>1, <2>2, <2>5 DEF ChunkReady, UpInv
  <1>8. CASE ~(k < Chunks(L))
    <2>0. Len(run.file) \in Nat
      BY LenProperties DEF TypeOK, Runs
    <2>9. Chunks(L) \in Nat
      BY <2>0, ChunksCover
    <2>1. k = Chunks(L)
      BY <1>6, <1>8, <2>9
    <2>2. pc' = "exited" /\ ret' = "ERR_UNK" /\ k' = k
      BY <1>5, <1>8 DEF UpReply, UpNext, Exit
    <2>3. Sent(L, k) = L
      BY <2>1 DEF Sent
    <2>4. Stored(L, 0)'
      BY <1>2, <1>3, <2>3 DEF Stored, NoHandle
    <2> QED
      BY <1>3, <1>4, <2>1, <2>2, <2>4 DEF Complete, UpInv
  <1> QED
    BY <1>7, <1>8

LEMMA ReadFailsUp ==
  ASSUME UpInv, ReadFails
  PROVE  UpInv'
  <1> SUFFICES ASSUME run.op = "up", clean, ~refused PROVE UpInv'
    BY DEF UpInv, ReadFails
  <1>1. BeginAsked \/ ChunkAsked \/ Replied
    BY StageOf DEF ReadFails
  <1>2. /\ UNCHANGED <<run, k, rep, requests, replies, store, table>>
        /\ pc' = "exited" /\ ret' = "ERR_COMM"
    BY DEF ReadFails, Exit
  <1>3. Gone'
    BY <1>2 DEF Gone
  <1>4. CASE BeginAsked
    BY <1>2, <1>3, <1>4 DEF BeginAsked, NoHandle, Asked, UpInv
  <1>5. CASE ChunkAsked
    BY <1>2, <1>3, <1>5 DEF ChunkAsked, Stored, NoHandle, Asked, Before, UpInv
  <1>6. CASE Replied
    BY <1>2, <1>3, <1>6 DEF Replied, Stored, NoHandle, Answered, UpInv
  <1> QED
    BY <1>1, <1>4, <1>5, <1>6

\* A refusal ends what UpInv says about the invocation.
LEMMA DenyUp ==
  ASSUME UpInv, NEW c, Serve(c), NEW h, Deny(h)
  PROVE  UpInv'
  <1>0. UNCHANGED <<run, clean>>
    BY DEF Serve, program
  <1> SUFFICES ASSUME run.op = "up", clean, ~refused, ~refused' PROVE FALSE
    BY <1>0 DEF UpInv, Deny
  <1>1. BeginAsked \/ ChunkAsked
    BY StageOf DEF Serve
  <1>2. Head(requests).own
    BY <1>1, OnePacket, RequestsOwn, TornFields
       DEF BeginAsked, ChunkAsked, Asked, Serve
  <1> QED
    BY <1>2 DEF Deny

LEMMA BrickBeginUp ==
  ASSUME TypeOK, LoopInv, UpInv, BrickBegin
  PROVE  UpInv'
  <1> DEFINE q == Head(requests)
             L == Len(run.file)
  <1>1. Serve("BEGIN_DOWNLOAD")
    BY DEF BrickBegin
  <1>2. UNCHANGED <<run, pc, k, rep, ret, clean>>
    BY <1>1 DEF Serve, program
  <1>3. CASE Deny(0)
    BY <1>1, <1>3, DenyUp
  <1>4. ASSUME NEW h \in Handles,
               store' = [store EXCEPT ![q.name] = File(<< >>)],
               table' = [table EXCEPT ![h] =
                           IF q.size = 0 THEN Free
                           ELSE Receiving(q.name, q.size, 0, q.own)],
               Answer(VM_OK, h), UNCHANGED refused
        PROVE  UpInv'
    <2> SUFFICES ASSUME run.op = "up", clean, ~refused PROVE Replied'
      BY <1>2, <1>4 DEF UpInv
    <2>1. BeginAsked \/ ChunkAsked
      BY <1>1, StageOf DEF Serve
    <2>2. BeginAsked
      <3> SUFFICES ASSUME ChunkAsked PROVE FALSE
        BY <2>1
      <3>1. q.cmd \in {"CONTINUE_DOWNLOAD", "TORN"}
        BY <1>1, OnePacket, RequestFields, TornFields
           DEF ChunkAsked, Asked, Serve
      <3> QED
        BY <1>1, <3>1 DEF Serve
    <2>3. q = BEGIN_DOWNLOAD(run.name, L) /\ requests' = << >>
          /\ replies = << >> /\ k = 0 /\ NoHandle
      <3>1. requests # << >> /\ requests # <<Torn>>
        BY <1>1, OnePacket, TornFields DEF Serve
      <3> QED
        BY <1>1, <2>2, <3>1, OnePacket DEF BeginAsked, Asked, Serve
    <2>4. q.name = run.name /\ q.size = L /\ q.own = TRUE
      BY <2>3, RequestFields
    <2>5. Answered(Reply(VM_OK, h, TRUE))'
      BY <1>4, <2>3, <2>4, OnePacket DEF Answered, Answer
    <2>6. run.name \in Names /\ L \in Nat /\ k \in Nat /\ k <= Chunks(L)
          /\ run.file \in Seq(Byte)
      BY LenProperties DEF LoopInv, TypeOK, Runs
    <2>7. Sent(L, k) = 0
      BY <2>3, <2>6, ChunkStep
    <2>8. store'[run.name] = File(SubSeq(run.file, 1, 0))
      <3>1. SubSeq(run.file, 1, 0) = << >>
        BY SubSeqEmpty
      <3> QED
        BY <1>4, <2>4, <2>6, <3>1 DEF TypeOK
    <2>9. \A g \in Handles \ {h} : ~table'[g].own
      BY <1>4, <2>3 DEF NoHandle, TypeOK
    <2>10. table'[h] = IF L = 0 THEN Free
                              ELSE Receiving(run.name, L, 0, TRUE)
      BY <1>4, <2>4 DEF TypeOK
    <2>11. Stored(0, h)'
      <3>1. CASE L = 0
        <4>1. table'[h] = Free
          BY <2>10, <3>1
        <4> QED
          BY <1>2, <2>6, <2>8, <2>9, <3>1, <4>1, FreeNotOwn DEF Stored, NoHandle
      <3>2. CASE L # 0
        <4>1. table'[h] = Receiving(run.name, L, 0, TRUE)
          BY <2>10, <3>2
        <4> QED
          BY <1>2, <2>6, <2>8, <2>9, <3>2, <4>1 DEF Stored
      <3> QED
        BY <3>1, <3>2
    <2>12. pc = "read" \/ Gone
      BY <2>2 DEF BeginAsked
    <2>13. Sent(L, k)' = 0
      BY <1>2, <2>7
    <2> QED
      BY <1>2, <2>5, <2>11, <2>12, <2>13 DEF Replied, Gone
  <1> QED
    BY <1>3, <1>4 DEF BrickBegin

LEMMA BrickContinueUp ==
  ASSUME TypeOK, LoopInv, UpInv, BrickContinue
  PROVE  UpInv'
  <1> DEFINE q == Head(requests)
             t == table[q.hnd]
             got == t.got + Len(q.data)
             L == Len(run.file)
  <1>1. Serve("CONTINUE_DOWNLOAD")
    BY DEF BrickContinue
  <1>2. UNCHANGED <<run, pc, k, rep, ret, clean>>
    BY <1>1 DEF Serve, program
  <1>3. CASE Deny(q.hnd)
    BY <1>1, <1>3, DenyUp
  <1>4. ASSUME store' = IF t.linked
                   THEN [store EXCEPT ![t.name] = File(@.bytes \o q.data)]
                   ELSE store,
               table' = [table EXCEPT ![q.hnd] =
                           IF got >= t.size THEN Free
                           ELSE [t EXCEPT !.got = got]],
               Answer(VM_OK, q.hnd), UNCHANGED refused
        PROVE  UpInv'
    <2> SUFFICES ASSUME run.op = "up", clean, ~refused PROVE Replied'
      BY <1>2, <1>4 DEF UpInv
    <2>1. BeginAsked \/ ChunkAsked
      BY <1>1, StageOf DEF Serve
    <2>2. ChunkAsked
      <3> SUFFICES ASSUME BeginAsked PROVE FALSE
        BY <2>1
      <3>1. q.cmd \in {"BEGIN_DOWNLOAD", "TORN"}
        BY <1>1, OnePacket, RequestFields, TornFields
           DEF BeginAsked, Asked, Serve
      <3> QED
        BY <1>1, <3>1 DEF Serve
    <2>3. PICK n, m, h : n = Before /\ m = Sent(L, k) /\ h = rep.hnd
      OBVIOUS
    <2>4. /\ q = CONTINUE_DOWNLOAD(h, SubSeq(run.file, n + 1, m))
          /\ requests' = << >> /\ replies = << >>
      <3>1. requests # << >> /\ requests # <<Torn>>
        BY <1>1, OnePacket, TornFields DEF Serve
      <3> QED
        BY <1>1, <2>2, <2>3, <3>1, OnePacket DEF ChunkAsked, Asked, Serve
    <2>5. q.hnd = h /\ q.data = SubSeq(run.file, n + 1, m) /\ q.own = TRUE
      <3>1. PICK d : d = SubSeq(run.file, n + 1, m)
        OBVIOUS
      <3>2. q = CONTINUE_DOWNLOAD(h, d)
        BY <2>4, <3>1
      <3> HIDE DEF q
      <3>3. q.hnd = h /\ q.data = d /\ q.own = TRUE
        BY <3>2, RequestFields
      <3> QED
        BY <3>1, <3>3
    <2>6. run.name \in Names /\ L \in Nat /\ k \in Nat /\ k <= Chunks(L)
          /\ run.file \in Seq(Byte) /\ k > 0
      BY <2>2, LenProperties DEF LoopInv, TypeOK, Runs, ChunkAsked
    <2>7. n = Sent(L, k - 1)
      BY <2>3, <2>6 DEF Before
    <2>8. /\ m \in 0 .. L /\ n < L
          /\ n + ChunkLen(L, k) = m
      BY <2>3, <2>6, <2>7, ChunkStep
    <2>9. Stored(n, h)
      BY <2>2, <2>3 DEF ChunkAsked
    <2>10. /\ n \in 0 .. L /\ h \in Handles
           /\ store[run.name] = File(SubSeq(run.file, 1, n))
           /\ table[h] = Receiving(run.name, L, n, TRUE)
           /\ \A g \in Handles \ {h} : ~table[g].own
      <3>1. n \in 0 .. L /\ store[run.name] = File(SubSeq(run.file, 1, n))
        BY <2>9 DEF Stored
      <3>2. n # L
        BY <2>6, <2>8, <3>1
      <3> QED
        BY <2>9, <3>1, <3>2 DEF Stored
    <2>11. n <= m
      <3>1. ChunkLen(L, k) \in Nat
        <4>0. L \in Nat
          BY <2>6
        <4> HIDE DEF L
        <4>1. L % CHUNK_SIZE \in Nat /\ CHUNK_SIZE \in Nat
          BY <4>0, DivMod, SizesAssumption
        <4> QED
          BY <4>1 DEF ChunkLen, FinalChunkSize
      <3> QED
        BY <2>8, <2>10, <3>1
    <2>12. /\ t.name = run.name /\ t.size = L /\ t.got = n /\ t.linked
      BY <2>5, <2>10 DEF Receiving
    <2>13. Len(q.data) = m - n
      <3>1. \A i \in n + 1 .. m : run.file[i] \in Byte
        BY <2>6, <2>8, <2>10, ElementOfSeq
      <3>2. Len(SubSeq(run.file, n + 1, m)) =
              IF n + 1 <= m THEN m - (n + 1) + 1 ELSE 0
        BY <2>8, <2>10, <3>1, SubSeqProperties
      <3> QED
        BY <2>5, <2>8, <2>10, <2>11, <3>2
    <2>14. got = m
      BY <2>8, <2>10, <2>12, <2>13
    <2>15. store'[run.name] = File(SubSeq(run.file, 1, m))
      <3>1. SubSeq(run.file, 1, n) \o SubSeq(run.file, n + 1, m)
              = SubSeq(run.file, 1, m)
        <4>1. 1 \in 1 .. L + 1 /\ n \in 1 - 1 .. L /\ m \in n .. L
          BY <2>6, <2>8, <2>10, <2>11
        <4> QED
          BY <2>6, <4>1, ConcatAdjacentSubSeq
      <3>2. store[run.name].bytes = SubSeq(run.file, 1, n)
        BY <2>10 DEF File
      <3>3. store'[run.name] = File(store[run.name].bytes \o q.data)
        BY <1>4, <2>6, <2>12 DEF TypeOK
      <3> QED
        BY <2>5, <3>1, <3>2, <3>3
    <2>16. \A g \in Handles \ {h} : ~table'[g].own
      BY <1>4, <2>5, <2>10 DEF TypeOK
    <2>17. table'[h] = IF m >= L THEN Free ELSE [t EXCEPT !.got = m]
      BY <1>4, <2>5, <2>10, <2>12, <2>14 DEF TypeOK
    <2>18. Stored(m, h)'
      <3>1. CASE m = L
        <4>1. table'[h] = Free
          BY <2>17, <2>6, <3>1
        <4> QED
          BY <1>2, <2>8, <2>15, <2>16, <3>1, <4>1, FreeNotOwn
             DEF Stored, NoHandle
      <3>2. CASE m # L
        <4>1. table'[h] = [t EXCEPT !.got = m]
          BY <2>6, <2>8, <2>17, <3>2
        <4>2. table'[h] = Receiving(run.name, L, m, TRUE)
          <5>1. t = Receiving(run.name, L, n, TRUE)
            BY <2>5, <2>10
          <5> HIDE DEF t
          <5> QED
            BY <4>1, <5>1 DEF Receiving
        <4> QED
          BY <1>2, <2>8, <2>10, <2>15, <2>16, <3>2, <4>2 DEF Stored
      <3> QED
        BY <3>1, <3>2
    <2>19. Answered(Reply(VM_OK, h, TRUE))'
      BY <1>4, <2>4, <2>5, OnePacket DEF Answered, Answer
    <2>20. Sent(L, k)' = m
      BY <1>2, <2>3
    <2>21. pc = "read" \/ Gone
      BY <2>2 DEF ChunkAsked
    <2> QED
      BY <1>2, <2>10, <2>18, <2>19, <2>20, <2>21 DEF Replied, Gone
  <1> QED
    BY <1>3, <1>4 DEF BrickContinue

\* The other requests are never those of an upload.
LEMMA BrickOtherUp ==
  ASSUME UpInv, NEW c \in {"CLOSE_HANDLE", "DELETE_FILE", "CREATE_DIR"},
         Serve(c), refused => refused'
  PROVE  UpInv'
  <1>0. run' = run /\ clean' = clean
    BY DEF Serve, program
  <1> SUFFICES ASSUME run.op = "up", clean, ~refused PROVE FALSE
    BY <1>0 DEF UpInv
  <1>1. BeginAsked \/ ChunkAsked
    BY StageOf DEF Serve
  <1>2. Head(requests).cmd \in {"BEGIN_DOWNLOAD", "CONTINUE_DOWNLOAD", "TORN"}
    BY <1>1, OnePacket, RequestFields, TornFields
       DEF BeginAsked, ChunkAsked, Asked, Serve
  <1> QED
    BY <1>2 DEF Serve

LEMMA UpStep ==
  ASSUME TypeOK, LoopInv, UpInv, [Next]_vars
  PROVE  UpInv'
  <1>1. CASE User
    BY <1>1, UserUp
  <1>2. CASE UpBegin \/ UpTooBig
    BY <1>2, UpBeginUp
  <1>3. CASE UpChunk
    BY <1>3, UpChunkUp
  <1>4. CASE UpReply
    BY <1>4, UpReplyUp
  <1>5. CASE ReadFails
    BY <1>5, ReadFailsUp
  <1>6. CASE Rm \/ RmReply \/ Mkdir \/ MkdirReply \/ Closehnd \/ ClosehndReply
    <2>1. run' = run /\ run.op # "up"
      BY <1>6 DEF Rm, RmReply, Mkdir, MkdirReply, Closehnd, ClosehndReply
    <2> QED
      BY <2>1 DEF UpInv
  <1>7. CASE BrickBegin
    BY <1>7, BrickBeginUp
  <1>8. CASE BrickContinue
    BY <1>8, BrickContinueUp
  <1>9. CASE BrickClose
    <2>1. Serve("CLOSE_HANDLE")
      BY <1>9 DEF BrickClose
    <2>2. refused => refused'
      BY <1>9, Zenon DEF BrickClose, Deny
    <2> QED
      BY <2>1, <2>2, BrickOtherUp
  <1>10. CASE BrickDelete
    <2>1. Serve("DELETE_FILE")
      BY <1>10 DEF BrickDelete
    <2>2. refused => refused'
      BY <1>10, Zenon DEF BrickDelete, Deny
    <2> QED
      BY <2>1, <2>2, BrickOtherUp
  <1>11. CASE BrickCreateDir
    <2>1. Serve("CREATE_DIR")
      BY <1>11 DEF BrickCreateDir
    <2>2. refused => refused'
      BY <1>11, Zenon DEF BrickCreateDir, Deny
    <2> QED
      BY <2>1, <2>2, BrickOtherUp
  <1>13. CASE BrickTorn
    <2>1. UNCHANGED <<run, clean, refused>>
      BY <1>13 DEF BrickTorn, program
    <2>2. ~(run.op = "up" /\ clean /\ ~refused)
      <3> SUFFICES ASSUME run.op = "up", clean, ~refused PROVE FALSE
        OBVIOUS
      <3>1. Len(requests) >= 2
        BY <1>13 DEF BrickTorn
      <3>2. requests # << >>
        BY <3>1
      <3>3. BeginAsked \/ ChunkAsked
        BY <3>2, StageOf
      <3>4. \E x : requests = <<x>>
        BY <3>2, <3>3 DEF BeginAsked, ChunkAsked, Asked
      <3> QED
        BY <3>1, <3>4, OnePacket
    <2> QED
      BY <2>1, <2>2 DEF UpInv
  <1>12. CASE UNCHANGED vars
    BY <1>12 DEF vars, UpInv, Start, BeginAsked, ChunkReady, ChunkAsked,
                 Replied, Complete, Gone, Before, Silent, Asked, Answered,
                 Stored, NoHandle
  <1> QED
    BY <1>1, <1>2, <1>3, <1>4, <1>5, <1>6, <1>7, <1>8, <1>9, <1>10, <1>11,
       <1>12, <1>13 DEF Next, Command, Brick

-----------------------------------------------------------------------------
(***************************************************************************)
(* Theorems.                                                               *)
(***************************************************************************)

\* Every variable keeps its type: the handle of each reply that up.c puts
\* into its next packet, and each handle that closehnd.c counts up to, index
\* the brick's table, and no chunk reaches beyond the end of the local file.
THEOREM TypeCorrect == Spec => []TypeOK
  <1>1. Init => TypeOK /\ LoopInv
    BY InitType, InitLoop
  <1>2. TypeOK /\ LoopInv /\ [Next]_vars => TypeOK' /\ LoopInv'
    BY TypeStep, LoopStep
  <1> QED
    BY <1>1, <1>2, PTL DEF Spec

\* The commands are stop-and-wait, also when a write fails unnoticed: an
\* invocation that began in silence never has two packets in flight, and has
\* none when it sends the next request, so what it reads is the answer to the
\* request it has just sent (no command compares msgCount or cmd).
THEOREM RepliesMatch == Spec => []StopAndWait
  <1>1. Init => TypeOK /\ LoopInv /\ FlightInv
    BY InitType, InitLoop DEF Init, FlightInv, Silent
  <1>2. TypeOK /\ LoopInv /\ FlightInv /\ [Next]_vars
          => TypeOK' /\ LoopInv' /\ FlightInv'
    BY TypeStep, LoopStep, FlightStep
  <1>3. TypeOK /\ FlightInv => StopAndWait
    <2> SUFFICES ASSUME TypeOK, FlightInv PROVE StopAndWait
      OBVIOUS
    <2>1. ASSUME clean PROVE Len(requests) + Len(replies) <= 1
      <3>1. Len(<< >>) = 0
        OBVIOUS
      <3>2. \/ requests = << >> /\ replies = << >>
            \/ Len(requests) = 1 /\ replies = << >>
            \/ requests = << >> /\ Len(replies) = 1
        BY <2>1 DEF FlightInv, Silent
      <3>3. \/ Len(requests) = 0 /\ Len(replies) = 0
            \/ Len(requests) = 1 /\ Len(replies) = 0
            \/ Len(requests) = 0 /\ Len(replies) = 1
        BY <3>1, <3>2, Zenon
      <3>4. \A m, n \in {0, 1} : m = 0 \/ n = 0 => m + n <= 1
        OBVIOUS
      <3> QED
        BY <3>3, <3>4, Zenon
    <2>2. ASSUME clean, pc = "write" \/ ret = "ERR_UNK"
          PROVE  requests = << >> /\ replies = << >>
      BY <2>2 DEF FlightInv, Silent, TypeOK
    <2> QED
      BY <2>1, <2>2 DEF StopAndWait
  <1> QED
    BY <1>1, <1>2, <1>3, PTL DEF Spec

\* IInv is an invariant: the strengthening the upload theorems rest on.
LEMMA Inductive == Spec => []IInv
  <1>1. Init => IInv
    <2> SUFFICES ASSUME Init PROVE IInv
      OBVIOUS
    <2>1. run.op = "none"
      BY DEF Init, Run
    <2>2. FlightInv /\ UpInv
      BY <2>1 DEF Init, FlightInv, Silent, UpInv
    <2> QED
      BY <2>2, InitType, InitLoop DEF IInv
  <1>2. IInv /\ [Next]_vars => IInv'
    BY TypeStep, LoopStep, FlightStep, UpStep DEF IInv
  <1> QED
    BY <1>1, <1>2, PTL DEF Spec

\* An upload that reports success has stored the whole file, for every file
\* and every chunk size, whatever handles earlier invocations left open.
THEOREM UploadCorrect == Spec => []UpStored
  <1>1. IInv => UpStored
    <2> SUFFICES ASSUME IInv, Succeeded("up"), clean, ~refused
                 PROVE  store[run.name] = File(run.file)
      BY DEF UpStored
    <2>1. Complete
      BY DEF IInv, UpInv, Succeeded, Start, BeginAsked, ChunkReady, ChunkAsked,
             Replied, Gone
    <2>2. store[run.name] = File(SubSeq(run.file, 1, Len(run.file)))
      BY <2>1 DEF Complete, Stored
    <2>3. run.file \in Seq(Byte)
      BY DEF IInv, TypeOK, Runs
    <2> QED
      BY <2>2, <2>3, SubSeqFull
  <1> QED
    BY <1>1, Inductive, PTL

\* ... and has left no handle open on the brick.
THEOREM UploadClosesHandle == Spec => []UpLeavesNoHandle
  <1>1. IInv => UpLeavesNoHandle
    <2> SUFFICES ASSUME IInv, Succeeded("up"), clean, ~refused
                 PROVE  NoHandle
      BY DEF UpLeavesNoHandle, NoHandle
    <2>1. Complete
      BY DEF IInv, UpInv, Succeeded, Start, BeginAsked, ChunkReady, ChunkAsked,
             Replied, Gone
    <2> QED
      BY <2>1 DEF Complete, Stored
  <1> QED
    BY <1>1, Inductive, PTL

\* An upload that is cut short anywhere leaves a prefix of the file.
THEOREM UploadLeavesPrefix == Spec => []UpPrefix
  <1>1. IInv => UpPrefix
    <2> SUFFICES ASSUME IInv, run.op = "up", clean, ~refused, k > 0
                 PROVE  \E n \in 0 .. Len(run.file) :
                          store[run.name] = File(SubSeq(run.file, 1, n))
      BY DEF UpPrefix
    <2>1. ChunkReady \/ ChunkAsked \/ Replied \/ Complete
      BY DEF IInv, UpInv, Start, BeginAsked
    <2>2. \E n, h : Stored(n, h)
      BY <2>1 DEF ChunkReady, ChunkAsked, Replied, Complete
    <2> QED
      BY <2>2 DEF Stored
  <1> QED
    BY <1>1, Inductive, PTL

-----------------------------------------------------------------------------
(***************************************************************************)
(* What the request in flight asks for, and what has been done once it is  *)
(* answered.  Unlike UpInv this also holds after a refusal.                *)
(***************************************************************************)
AskedFor(q) ==
  /\ run.op = "up" /\ k = 0 => q.cmd = "BEGIN_DOWNLOAD" /\ q.name = run.name
  /\ run.op = "up" /\ k > 0 => q.cmd = "CONTINUE_DOWNLOAD" /\ q.hnd = rep.hnd
  /\ run.op = "rm" => q.cmd = "DELETE_FILE" /\ q.name = run.name
  /\ run.op = "mkdir" => q.cmd = "CREATE_DIR" /\ q.name = run.name
  /\ run.op = "closehnd" => q.cmd = "CLOSE_HANDLE" /\ q.hnd = run.from + k

RequestInv ==
  clean /\ requests # << >> =>
    Head(requests).own /\ (Head(requests) = Torn \/ AskedFor(Head(requests)))

\* The last request of rm or mkdir was refused.
Rejected ==
  \/ replies # << >> /\ Head(replies).type = VM_ERROR
  \/ ret = "ERR_VM"

\* A handle that, if it is open, writes to the file of this upload.
Safe(h) == table[h].open => table[h].name = run.name

\* The last request was granted, whether or not the reply has been read.
Granted ==
  \/ replies # << >> /\ Head(replies).type # VM_ERROR
  \/ pc = "exited" /\ ret = "ERR_UNK"

ClosedBelow(n) == \A h \in Handles : run.from <= h /\ h < n => ~table[h].open

EffectInv ==
  clean =>
    /\ run.op = "rm" /\ Granted => store[run.name] = Absent
    /\ run.op = "mkdir" /\ Granted => store[run.name] = Dir
    /\ run.op \in {"rm", "mkdir"} /\ Rejected => refused
    /\ run.op = "up" /\ k > 0 => Safe(rep.hnd)
    /\ run.op = "up" /\ replies # << >> =>
         (k > 0 \/ Head(replies).type # VM_ERROR => Safe(Head(replies).hnd))
    /\ run.op = "closehnd" =>
         /\ ClosedBelow(run.from + k)
         /\ replies # << >> => ClosedBelow(run.from + k + 1)
         /\ ret = "ERR_UNK" => run.from + k >= run.to

NameInv == run.op \in {"rm", "mkdir"} => run.name \in Names

DoneInv == NameInv /\ RequestInv /\ EffectInv

\* Whatever is in flight of an invocation that began in silence is alone.
LEMMA FlightAlone ==
  ASSUME TypeOK, FlightInv, clean
  PROVE  /\ pc = "write" => requests = << >> /\ replies = << >>
         /\ ret = "ERR_UNK" => requests = << >> /\ replies = << >>
         /\ requests # << >> => replies = << >> /\ Tail(requests) = << >>
         /\ replies # << >> => requests = << >> /\ Tail(replies) = << >>
         /\ requests # << >> \/ replies # << >> => ret # "ERR_UNK"
  <1>1. requests \in Seq(Requests) /\ replies \in Seq(Replies)
    BY DEF TypeOK
  <1> QED
    BY <1>1, OnePacket DEF FlightInv, Silent

LEMMA ServeAlone ==
  ASSUME TypeOK, FlightInv, clean, NEW c, Serve(c), NEW t, NEW h, Answer(t, h)
  PROVE  /\ requests' = << >> /\ replies' # << >>
         /\ Head(replies').type = t /\ Head(replies').hnd = h
         /\ UNCHANGED <<run, pc, k, pos, rep, ret, clean>> /\ ret # "ERR_UNK"
         /\ replies = << >> /\ Head(requests).cmd = c /\ requests # << >>
         /\ Head(requests) \in Requests
  <1>1. requests # << >> /\ replies = << >> /\ requests' = << >> /\ ret # "ERR_UNK"
    BY FlightAlone DEF Serve
  <1>2. replies' = <<Reply(t, h, Head(requests).own)>>
    BY <1>1, OnePacket DEF Answer
  <1>3. Head(replies') = Reply(t, h, Head(requests).own) /\ replies' # << >>
    BY <1>2
  <1>4. Head(replies').type = t /\ Head(replies').hnd = h
    BY <1>3 DEF Reply
  <1>5. Head(requests) \in Requests
    BY ServeType
  <1> QED
    BY <1>1, <1>3, <1>4, <1>5 DEF Serve, program

LEMMA WriteDone ==
  ASSUME TypeOK, FlightInv, DoneInv, pc = "write", NEW q, Write(q), AskedFor(q),
         q.own, UNCHANGED <<run, k, rep, replies, store, table, clean, refused>>
  PROVE  DoneInv'
  <1> SUFFICES ASSUME clean PROVE DoneInv'
    BY DEF DoneInv, NameInv, RequestInv, EffectInv
  <1>1. requests = << >> /\ replies = << >> /\ ret = "running"
    BY FlightAlone DEF FlightInv
  <1>2. requests' = << >> \/ Head(requests') \in {q, Torn}
    BY <1>1, OnePacket DEF Write
  <1>3. RequestInv' /\ NameInv'
    BY <1>2, TornFields DEF DoneInv, NameInv, RequestInv, AskedFor
  <1>4. ret' \notin {"ERR_UNK", "ERR_VM"}
    BY <1>1 DEF Write, Exit
  <1> QED
    BY <1>1, <1>3, <1>4
       DEF DoneInv, EffectInv, Granted, Rejected, Safe, ClosedBelow

\* Reading the reply makes its grant the command's verdict.
LEMMA ReadAlone ==
  ASSUME TypeOK, FlightInv, clean, Read, UNCHANGED requests
  PROVE  /\ requests' = << >> /\ replies' = << >> /\ replies # << >>
         /\ rep' = Head(replies) /\ rep' \in Replies /\ ret = "running"
  BY FlightAlone, ReadType DEF Read, FlightInv

LEMMA UpReplyDone ==
  ASSUME TypeOK, FlightInv, DoneInv, UpReply
  PROVE  DoneInv'
  <1>1. /\ run.op = "up" /\ Read /\ UpNext(rep')
        /\ UNCHANGED <<run, pos, requests, store, table, clean, refused>>
    BY DEF UpReply
  <1> SUFFICES ASSUME clean PROVE DoneInv'
    BY <1>1 DEF DoneInv, NameInv, RequestInv, EffectInv
  <1>2. /\ requests' = << >> /\ replies' = << >> /\ replies # << >>
        /\ rep' = Head(replies)
    BY <1>1, ReadAlone
  <1>3. k \in Nat /\ (k > 0 \/ rep'.type # VM_ERROR => Safe(rep'.hnd))
    BY <1>1, <1>2 DEF DoneInv, EffectInv, TypeOK
  <1>4. k' > 0 => k > 0 \/ rep'.type # VM_ERROR
    BY <1>1, <1>3 DEF UpNext
  <1>5. k' > 0 => Safe(rep.hnd)'
    BY <1>1, <1>3, <1>4 DEF Safe
  <1> QED
    BY <1>1, <1>2, <1>5 DEF DoneInv, NameInv, RequestInv, EffectInv

LEMMA OneReplyDone ==
  ASSUME TypeOK, FlightInv, DoneInv, RmReply \/ MkdirReply
  PROVE  DoneInv'
  <1>1. /\ run.op \in {"rm", "mkdir"} /\ Read
        /\ UNCHANGED <<run, k, pos, requests, store, table, clean, refused>>
        /\ Exit(IF rep'.type = VM_ERROR THEN "ERR_VM" ELSE "ERR_UNK")
    BY DEF RmReply, MkdirReply
  <1> SUFFICES ASSUME clean PROVE DoneInv'
    BY <1>1 DEF DoneInv, NameInv, RequestInv, EffectInv
  <1>2. /\ requests' = << >> /\ replies' = << >> /\ replies # << >>
        /\ rep' = Head(replies)
    BY <1>1, ReadAlone
  <1>3. (Granted' => Granted) /\ (Rejected' => Rejected)
    BY <1>1, <1>2 DEF Granted, Rejected, Exit
  <1> QED
    BY <1>1, <1>2, <1>3 DEF DoneInv, NameInv, RequestInv, EffectInv

LEMMA ClosehndReplyDone ==
  ASSUME TypeOK, LoopInv, FlightInv, DoneInv, ClosehndReply
  PROVE  DoneInv'
  <1>1. /\ run.op = "closehnd" /\ Read /\ k' = k + 1
        /\ UNCHANGED <<run, pos, requests, store, table, clean, refused>>
        /\ IF run.from + k + 1 < run.to THEN pc' = "write" /\ UNCHANGED ret
                                        ELSE Exit("ERR_UNK")
    BY DEF ClosehndReply
  <1> SUFFICES ASSUME clean PROVE DoneInv'
    BY <1>1 DEF DoneInv, NameInv, RequestInv, EffectInv
  <1>2. /\ requests' = << >> /\ replies' = << >> /\ replies # << >>
        /\ ret = "running"
    BY <1>1, ReadAlone
  <1>3. run.from \in Nat /\ run.to \in Nat /\ k \in Nat
    BY SizesAssumption DEF TypeOK, Runs
  <1>4. ClosedBelow(run.from + k + 1)
    BY <1>1, <1>2 DEF DoneInv, EffectInv
  <1>5. run.from + k + 1 = run.from + (k + 1)
    BY <1>3
  <1>6. ClosedBelow(run.from + k)'
    BY <1>1, <1>4, <1>5 DEF ClosedBelow
  <1>7. (ret = "ERR_UNK" => run.from + k >= run.to)'
    BY <1>1, <1>2, <1>3, <1>5 DEF Exit
  <1> QED
    BY <1>1, <1>2, <1>6, <1>7 DEF DoneInv, NameInv, RequestInv, EffectInv

\* A refusal changes nothing on the brick.
LEMMA DenyDone ==
  ASSUME TypeOK, FlightInv, DoneInv, clean, NEW c, Serve(c), NEW h, Deny(h),
         run.op = "up" => k = 0 \/ h = rep.hnd,
         run.op = "closehnd" => h = run.from + k /\ ~table[h].open
  PROVE  DoneInv'
  <1>1. /\ requests' = << >> /\ replies' # << >>
        /\ Head(replies').type = VM_ERROR /\ Head(replies').hnd = h
        /\ UNCHANGED <<run, pc, k, rep, ret, clean, store, table>>
        /\ ret # "ERR_UNK"
    BY ServeAlone DEF Deny
  <1>2. run.op = "closehnd" => ClosedBelow(run.from + k + 1)
    <2>1. run.from \in Nat /\ k \in Nat
      BY SizesAssumption DEF TypeOK, Runs
    <2> QED
      BY <2>1 DEF DoneInv, EffectInv, ClosedBelow, Handles
  <1>3. ~(k = 0 /\ k > 0)
    OBVIOUS
  <1>4. refused'
    BY DEF Deny, Serve, DoneInv, RequestInv
  <1> QED
    BY <1>1, <1>2, <1>3, <1>4
       DEF DoneInv, NameInv, RequestInv, EffectInv, Granted, Safe, ClosedBelow

LEMMA BrickBeginDone ==
  ASSUME TypeOK, FlightInv, DoneInv, clean, BrickBegin
  PROVE  DoneInv' /\ (run.op = "up" =>
                        \A n \in Names \ {run.name} : store'[n] = store[n])
  <1> DEFINE q == Head(requests)
  <1>1. Serve("BEGIN_DOWNLOAD") /\ q.cmd = "BEGIN_DOWNLOAD" /\ requests # << >>
    BY DEF BrickBegin, Serve
  <1>2. AskedFor(q)
    BY <1>1, TornFields DEF DoneInv, RequestInv
  <1>3. run.op \in {"none", "up"} /\ (run.op = "up" => k = 0 /\ q.name = run.name)
    BY <1>1, <1>2 DEF AskedFor, TypeOK, Runs
  <1>4. CASE Deny(0)
    BY <1>1, <1>3, <1>4, DenyDone DEF Deny
  <1>5. ASSUME NEW h \in Handles,
               store' = [store EXCEPT ![q.name] = File(<< >>)],
               table' = [table EXCEPT ![h] = IF q.size = 0 THEN Free
                                    ELSE Receiving(q.name, q.size, 0, q.own)],
               Answer(VM_OK, h)
        PROVE  DoneInv' /\ (run.op = "up" =>
                              \A n \in Names \ {run.name} : store'[n] = store[n])
    <2>1. /\ requests' = << >> /\ replies' # << >>
          /\ Head(replies').type = VM_OK /\ Head(replies').hnd = h
          /\ UNCHANGED <<run, pc, k, rep, ret, clean>>
      BY <1>1, <1>5, ServeAlone
    <2>2. run.op = "up" => Safe(h)'
      BY <1>3, <1>5, <2>1 DEF Safe, Free, Receiving, TypeOK
    <2>3. ~(k = 0 /\ k > 0)
      OBVIOUS
    <2>4. DoneInv'
      BY <1>3, <2>1, <2>2, <2>3 DEF DoneInv, NameInv, RequestInv, EffectInv
    <2>5. \A n \in Names \ {q.name} : store'[n] = store[n]
      BY <1>5 DEF TypeOK
    <2> QED
      BY <1>3, <2>4, <2>5
  <1> QED
    BY <1>4, <1>5 DEF BrickBegin

LEMMA BrickContinueDone ==
  ASSUME TypeOK, FlightInv, DoneInv, clean, BrickContinue
  PROVE  DoneInv' /\ (run.op = "up" =>
                        \A n \in Names \ {run.name} : store'[n] = store[n])
  <1> DEFINE q == Head(requests)
             t == table[q.hnd]
             got == t.got + Len(q.data)
  <1>1. Serve("CONTINUE_DOWNLOAD") /\ q.cmd = "CONTINUE_DOWNLOAD" /\ requests # << >>
    BY DEF BrickContinue, Serve
  <1>2. AskedFor(q)
    BY <1>1, TornFields DEF DoneInv, RequestInv
  <1>3. /\ run.op \in {"none", "up"} /\ k \in Nat
        /\ run.op = "up" => k > 0 /\ q.hnd = rep.hnd
    BY <1>1, <1>2 DEF AskedFor, TypeOK, Runs
  <1>4. run.op = "up" => Safe(q.hnd)
    BY <1>3 DEF DoneInv, EffectInv
  <1>5. CASE Deny(q.hnd)
    BY <1>1, <1>3, <1>5, DenyDone DEF Deny
  <1>6. ASSUME t.open,
               store' = IF t.linked
                          THEN [store EXCEPT ![t.name] = File(@.bytes \o q.data)]
                          ELSE store,
               table' = [table EXCEPT ![q.hnd] =
                          IF got >= t.size THEN Free ELSE [t EXCEPT !.got = got]],
               Answer(VM_OK, q.hnd)
        PROVE  DoneInv' /\ (run.op = "up" =>
                              \A n \in Names \ {run.name} : store'[n] = store[n])
    <2>1. /\ requests' = << >> /\ replies' # << >>
          /\ Head(replies').type = VM_OK /\ Head(replies').hnd = q.hnd
          /\ UNCHANGED <<run, pc, k, rep, ret, clean>>
          /\ q \in Requests
      BY <1>1, <1>6, ServeAlone
    <2>2. t \in Downloads /\ q.hnd \in Handles
      BY <2>1 DEF TypeOK, Requests
    <2>3. run.op = "up" => Safe(rep.hnd)' /\ Safe(Head(replies).hnd)'
      <3> SUFFICES ASSUME run.op = "up"
                   PROVE  Safe(rep.hnd)' /\ Safe(Head(replies).hnd)'
        OBVIOUS
      <3>1. t.name = run.name
        BY <1>4, <1>6 DEF Safe
      <3>2. table'[q.hnd] \in {Free, [t EXCEPT !.got = got]}
        BY <1>6, <2>2 DEF TypeOK
      <3>3. [t EXCEPT !.got = got].name = t.name /\ ~Free.open
        BY <2>2 DEF Downloads, Free
      <3> HIDE DEF t, got
      <3>4. table'[q.hnd].open => table'[q.hnd].name = run.name
        BY <3>1, <3>2, <3>3
      <3>5. Head(replies').hnd = q.hnd /\ rep'.hnd = q.hnd
        BY <1>3, <2>1
      <3> QED
        BY <2>1, <3>4, <3>5 DEF Safe
    <2>4. DoneInv'
      BY <1>3, <2>1, <2>3 DEF DoneInv, NameInv, RequestInv, EffectInv
    <2>5. \A n \in Names \ {t.name} : store'[n] = store[n]
      BY <1>6 DEF TypeOK
    <2>6. run.op = "up" => t.name = run.name
      BY <1>4, <1>6 DEF Safe
    <2> QED
      BY <2>4, <2>5, <2>6
  <1> QED
    BY <1>5, <1>6 DEF BrickContinue

LEMMA BrickCloseDone ==
  ASSUME TypeOK, FlightInv, DoneInv, clean, BrickClose
  PROVE  DoneInv' /\ store' = store
  <1> DEFINE q == Head(requests)
  <1>1. Serve("CLOSE_HANDLE") /\ q.cmd = "CLOSE_HANDLE" /\ requests # << >>
    BY DEF BrickClose, Serve
  <1>2. AskedFor(q)
    BY <1>1, TornFields DEF DoneInv, RequestInv
  <1>3. /\ run.op \in {"none", "closehnd"}
        /\ run.op = "closehnd" => q.hnd = run.from + k
    BY <1>1, <1>2, SMT DEF AskedFor, TypeOK, Runs
  <1>4. CASE Deny(q.hnd) /\ ~table[q.hnd].open
    BY <1>1, <1>3, <1>4, DenyDone DEF Deny
  <1>5. CASE table' = [table EXCEPT ![q.hnd] = Free] /\ Answer(VM_OK, q.hnd) /\ store' = store
    <2>1. /\ requests' = << >> /\ replies' # << >> /\ ret # "ERR_UNK"
          /\ UNCHANGED <<run, pc, k, rep, ret, clean>>
          /\ q \in Requests
      BY <1>1, <1>5, ServeAlone
    <2>2. q.hnd \in Handles /\ table'[q.hnd] = Free
      BY <1>5, <2>1 DEF TypeOK, Requests
    <2>3. \A h \in Handles : table'[h].open => table[h].open /\ h # q.hnd
      BY <1>5, <2>2 DEF TypeOK, Free
    <2>4. run.from \in Nat /\ k \in Nat
      BY SizesAssumption DEF TypeOK, Runs
    <2>5. run.op = "closehnd" => ClosedBelow(run.from + k)' /\ ClosedBelow(run.from + k + 1)'
      <3> SUFFICES ASSUME run.op = "closehnd", NEW h \in Handles, run.from <= h,
                          h < run.from + k + 1
                   PROVE  ~table'[h].open
        BY <2>1, <2>4 DEF ClosedBelow, Handles
      <3>1. ClosedBelow(run.from + k)
        BY DEF DoneInv, EffectInv
      <3>2. h < run.from + k \/ h = q.hnd
        BY <1>3, <2>4 DEF Handles
      <3> QED
        BY <2>3, <3>1, <3>2 DEF ClosedBelow
    <2> QED
      BY <1>3, <1>5, <2>1, <2>5 DEF DoneInv, NameInv, RequestInv, EffectInv
  <1> QED
    BY <1>4, <1>5 DEF BrickClose, Deny

LEMMA BrickNameDone ==
  ASSUME TypeOK, FlightInv, DoneInv, clean, BrickDelete \/ BrickCreateDir
  PROVE  DoneInv' /\ run.op # "up"
  <1> DEFINE q == Head(requests)
  <1>1. PICK c \in {"DELETE_FILE", "CREATE_DIR"} : Serve(c) /\ q.cmd = c /\ requests # << >>
    BY DEF BrickDelete, BrickCreateDir, Serve
  <1>2. AskedFor(q)
    BY <1>1, TornFields DEF DoneInv, RequestInv
  <1>3. /\ run.op \in {"none", "rm", "mkdir"}
        /\ run.op = "rm" => c = "DELETE_FILE" /\ q.name = run.name
        /\ run.op = "mkdir" => c = "CREATE_DIR" /\ q.name = run.name
    BY <1>1, <1>2, SMT DEF AskedFor, TypeOK, Runs
  <1>4. CASE Deny(0)
    BY <1>1, <1>3, <1>4, DenyDone
  <1>5. CASE /\ Answer(VM_OK, 0) /\ refused' = refused
             /\ store' = [store EXCEPT ![q.name] = IF c = "DELETE_FILE" THEN Absent ELSE Dir]
    <2>1. /\ requests' = << >> /\ replies' # << >>
          /\ Head(replies').type = VM_OK
          /\ UNCHANGED <<run, pc, k, rep, ret, clean>>
      BY <1>1, <1>5, ServeAlone
    <2>2. run.op \in {"rm", "mkdir"} => run.name \in Names
      BY DEF DoneInv, NameInv
    <2>3. Rejected' => ret = "ERR_VM"
      BY <2>1 DEF Rejected, VM_OK, VM_ERROR
    <2>4. ret = "ERR_VM" => Rejected
      BY DEF Rejected
    <2> QED
      BY <1>3, <1>5, <2>1, <2>2, <2>3, <2>4
         DEF DoneInv, NameInv, RequestInv, EffectInv, TypeOK
  <1>6. c = "DELETE_FILE" => BrickDelete
    BY <1>1 DEF BrickDelete, BrickCreateDir, Serve
  <1>7. c = "CREATE_DIR" => BrickCreateDir
    BY <1>1 DEF BrickDelete, BrickCreateDir, Serve
  <1> QED
    BY <1>1, <1>3, <1>4, <1>5, <1>6, <1>7 DEF BrickDelete, BrickCreateDir

LEMMA DoneStep ==
  ASSUME TypeOK, LoopInv, FlightInv, DoneInv, [Next]_vars
  PROVE  DoneInv'
  <1>1. CASE User
    <2>1. PICK op \in Commands, n \in Paths, f \in Seq(Byte),
               a \in 0 .. NHandles, b \in 0 .. NHandles :
            Invoke(op, n, f, a, b) /\ (op # "closehnd" => n \in Names)
      BY <1>1, UserRuns
    <2>2. /\ run'.op = op /\ run'.name = n /\ run'.from = a
          /\ pc' = "write" /\ k' = 0 /\ ret' = "running"
      BY <2>1 DEF Invoke, Run
    <2>3. clean' => requests' = << >> /\ replies' = << >>
      BY <2>1 DEF Invoke
    <2>4. ClosedBelow(run.from + k)'
      BY <2>2, SizesAssumption DEF ClosedBelow, Handles
    <2> QED
      BY <2>1, <2>2, <2>3, <2>4
         DEF DoneInv, NameInv, RequestInv, EffectInv, Granted, Rejected
  <1>2. CASE UpTooBig \/ ReadFails
    <2>1. /\ UNCHANGED <<run, k, rep, requests, replies, store, table, clean,
                         refused>>
          /\ ret' \notin {"ERR_UNK", "ERR_VM"}
      BY <1>2 DEF UpTooBig, ReadFails, Exit
    <2> QED
      BY <2>1 DEF DoneInv, NameInv, RequestInv, EffectInv, AskedFor, Granted,
                  Rejected, Safe, ClosedBelow
  <1>3. CASE UpBegin \/ UpChunk \/ Rm \/ Mkdir \/ Closehnd
    <2>1. PICK q : /\ Write(q) /\ AskedFor(q) /\ q.own /\ pc = "write"
                   /\ UNCHANGED <<run, k, rep, replies, store, table, clean,
                                  refused>>
      <3>0. ~(k = 0 /\ k > 0)
        OBVIOUS
      <3>1. CASE UpBegin
        BY <3>0, <3>1, RequestFields DEF UpBegin, AskedFor
      <3>2. CASE UpChunk
        BY <3>0, <3>2, RequestFields DEF UpChunk, AskedFor
      <3>3. CASE Rm
        BY <3>3, RequestsOwn DEF Rm, AskedFor, DELETE_FILE, Request
      <3>4. CASE Mkdir
        BY <3>4, RequestsOwn DEF Mkdir, AskedFor, CREATE_DIR, Request
      <3>5. CASE Closehnd
        BY <3>5, RequestsOwn DEF Closehnd, AskedFor, CLOSE_HANDLE, Request
      <3> QED
        BY <1>3, <3>1, <3>2, <3>3, <3>4, <3>5
    <2> QED
      BY <2>1, WriteDone
  <1>4. CASE UpReply
    BY <1>4, UpReplyDone
  <1>5. CASE RmReply \/ MkdirReply
    BY <1>5, OneReplyDone
  <1>6. CASE ClosehndReply
    BY <1>6, ClosehndReplyDone
  <1>7. CASE Brick
    <2>1. CASE clean
      BY <1>7, <2>1, TornAlone, BrickBeginDone, BrickContinueDone, BrickCloseDone, BrickNameDone DEF Brick
    <2>2. CASE ~clean
      <3>1. UNCHANGED <<run, clean>>
        BY <1>7 DEF Brick, BrickBegin, BrickContinue, BrickClose, BrickDelete,
                    BrickCreateDir, BrickTorn, Serve, program
      <3> QED
        BY <2>2, <3>1 DEF DoneInv, NameInv, RequestInv, EffectInv
    <2> QED
      BY <2>1, <2>2
  <1>8. CASE UNCHANGED vars
    BY <1>8 DEF vars, DoneInv, NameInv, RequestInv, EffectInv, AskedFor, Granted,
                Rejected, Safe, ClosedBelow
  <1> QED
    BY <1>1, <1>2, <1>3, <1>4, <1>5, <1>6, <1>7, <1>8 DEF Next, Command

\* The state of the brick an invocation that began in silence has brought
\* about follows from its place and its last reply.
LEMMA DoneInductive == Spec => [](TypeOK /\ LoopInv /\ FlightInv /\ DoneInv)
  <1>1. Init => TypeOK /\ LoopInv /\ FlightInv /\ DoneInv
    <2> SUFFICES ASSUME Init PROVE FlightInv /\ DoneInv
      BY InitType, InitLoop
    <2>1. run.op = "none"
      BY DEF Init, Run
    <2> QED
      BY <2>1 DEF Init, FlightInv, Silent, DoneInv, NameInv, RequestInv, EffectInv
  <1>2. TypeOK /\ LoopInv /\ FlightInv /\ DoneInv /\ [Next]_vars
          => TypeOK' /\ LoopInv' /\ FlightInv' /\ DoneInv'
    BY TypeStep, LoopStep, FlightStep, DoneStep
  <1> QED
    BY <1>1, <1>2, PTL DEF Spec

\* closehnd, having asked for every handle of its range, leaves none of them
\* open, for every range and size of the table: those that were open and those
\* the brick refused to close because they were not.
THEOREM ClosehndCorrect == Spec => []CloseAllFrees
  <1>1. TypeOK /\ DoneInv => CloseAllFrees
    <2> SUFFICES ASSUME TypeOK, DoneInv, Succeeded("closehnd"), clean,
                        NEW h \in Handles, run.from <= h, h < run.to
                 PROVE  ~table[h].open
      BY DEF CloseAllFrees
    <2>1. ClosedBelow(run.from + k) /\ run.from + k >= run.to
      BY DEF DoneInv, EffectInv, Succeeded
    <2>2. h < run.from + k
      BY <2>1, SizesAssumption DEF TypeOK, Runs, Handles
    <2> QED
      BY <2>1, <2>2 DEF ClosedBelow
  <1> QED
    BY <1>1, DoneInductive, PTL

\* rm and mkdir, whose only evidence is the type of one reply, report success
\* only when the brick has deleted the file, or created the directory, and a
\* refusal only when it has refused.
THEOREM RmMkdirCorrect == Spec => []RmMkdirDone
  <1>1. DoneInv => RmMkdirDone
    BY DEF DoneInv, EffectInv, Granted, Rejected, Succeeded, RmMkdirDone
  <1> QED
    BY <1>1, DoneInductive, PTL

\* No step while an upload over a silent transport is the last invocation, be
\* it the program's or the brick's, changes another file: each chunk goes out
\* under a handle that, if it is open at all, writes to the file's name, also
\* after a chunk was refused.
THEOREM UploadTouchesOnlyItsFile == Spec => UpTouchesOnlyItsFile
  <1> DEFINE P == clean' /\ run'.op = "up" =>
                    \A n \in Names \ {run'.name} : store'[n] = store[n]
  <1>1. TypeOK /\ FlightInv /\ DoneInv /\ [Next]_vars => [P]_vars
    <2> SUFFICES ASSUME TypeOK, FlightInv, DoneInv, Next, clean', run'.op = "up",
                        NEW n \in Names \ {run'.name}
                 PROVE  store'[n] = store[n]
      OBVIOUS
    <2>1. CASE store' = store
      BY <2>1
    <2>2. CASE Brick
      <3>1. UNCHANGED <<run, clean>>
        BY <2>2 DEF Brick, BrickBegin, BrickContinue, BrickClose, BrickDelete,
                    BrickCreateDir, BrickTorn, Serve, program
      <3> QED
        BY <2>2, <3>1, TornAlone, BrickBeginDone, BrickContinueDone, BrickCloseDone,
           BrickNameDone DEF Brick
    <2>3. CASE User
      BY <2>1, <2>3, UserRuns DEF Invoke
    <2>4. CASE Command
      BY <2>1, <2>4 DEF Command, UpTooBig, UpBegin, UpChunk, UpReply, Rm, RmReply,
         Mkdir, MkdirReply, Closehnd, ClosehndReply, ReadFails
    <2> QED
      BY <2>2, <2>3, <2>4 DEF Next
  <1>2. Spec => [][P]_vars
    BY <1>1, DoneInductive, PTL DEF Spec
  <1> QED
    BY <1>2 DEF UpTouchesOnlyItsFile
=============================================================================
