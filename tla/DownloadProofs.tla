--------------------------- MODULE DownloadProofs ---------------------------
(***************************************************************************)
(* Proofs about Download, for any contents, header sizes, buffer sizes and *)
(* number of handles, and every way the brick cuts a content into replies. *)
(***************************************************************************)
EXTENDS Download, SequenceTheorems, TLAPS

-----------------------------------------------------------------------------
(***************************************************************************)
(* The inductive invariant.                                                *)
(***************************************************************************)

\* At most one packet is in flight while the program waits, none before it
\* writes.
StopAndWait ==
  /\ request = None \/ reply = None
  /\ pc \in {"idle", "write"} => request = None /\ reply = None
  /\ pc \in {"write", "read"} => ret = "running"

\* What has been received so far, and what is known of the whole.
Progress ==
  /\ Len(out) <= Len(content)
  /\ out = SubSeq(content, 1, Len(out))
  /\ read_so_far = Len(out)
  /\ IF begun THEN total = Len(content) ELSE out = << >>

\* The brick's handle stands where the output ends, before the end.
Open == table[hnd] = Len(out) /\ Len(out) < Len(content)

Ready == pc = "write" /\ begun => Open

Asked ==
  request # None =>
    IF begun
      THEN /\ request.cmd = "continue" /\ request.hnd = hnd
           /\ request.max = ContinueMax /\ Open
      ELSE request.cmd = "begin" /\ request.max = FirstMax[op]

HeaderNow == IF begun THEN ContHeader[op] ELSE Header[op]

\* A reply in flight carries the bytes that follow the output; the handle
\* stands after them, or is free if they are the last.
Carries(r) ==
  LET end == Len(out) + Len(r.data) IN
  /\ r.size = Len(content)
  /\ r.packetLen = HeaderNow + Len(r.data) - 2
  /\ end <= Len(content)
  /\ r.data = SubSeq(content, Len(out) + 1, end)
  /\ table[r.hnd] = IF end = Len(content) THEN Free ELSE end

Answered == reply # None /\ reply.type # VM_ERROR => Carries(reply)

\* The announced size is an unsigned int.
ContentFits == Len(content) <= UINT32_MAX

IInv ==
  /\ ContentFits
  /\ TypeOK /\ StopAndWait /\ Progress /\ Ready /\ Asked /\ Answered
  /\ Downloaded /\ RepliesFit

-----------------------------------------------------------------------------
\* No packet is mistaken for none.
LEMMA PacketsAreSome ==
  /\ \A c, h, m : [cmd |-> c, hnd |-> h, max |-> m] # None
  /\ \A t, s, h, d, p : [type |-> t, size |-> s, hnd |-> h, data |-> d,
                         packetLen |-> p] # None
  /\ None \notin Requests /\ None \notin Replies
  BY DEF None, Requests, Replies

\* The bytes of a content that follow its first m, appended to these.
LEMMA PrefixGrows ==
  ASSUME NEW c \in Seq(Byte), NEW m \in 0 .. Len(c), NEW n \in m .. Len(c)
  PROVE  /\ SubSeq(c, m + 1, n) \in Seq(Byte)
         /\ Len(SubSeq(c, m + 1, n)) = n - m
         /\ SubSeq(c, 1, m) \o SubSeq(c, m + 1, n) = SubSeq(c, 1, n)
         /\ SubSeq(c, 1, n) \in Seq(Byte) /\ Len(SubSeq(c, 1, n)) = n
  <1>1. Len(c) \in Nat /\ m \in Nat /\ n \in Nat
    BY LenProperties
  <1>2. \A i \in m + 1 .. n : c[i] \in Byte
    BY <1>1, ElementOfSeq
  <1>3. \A i \in 1 .. n : c[i] \in Byte
    BY <1>1, ElementOfSeq
  <1>4. /\ SubSeq(c, m + 1, n) \in Seq(Byte)
        /\ Len(SubSeq(c, m + 1, n)) = n - m
    BY <1>1, <1>2, SubSeqProperties
  <1>5. SubSeq(c, 1, n) \in Seq(Byte) /\ Len(SubSeq(c, 1, n)) = n
    BY <1>1, <1>3, SubSeqProperties
  <1>6. SubSeq(c, 1, m) \o SubSeq(c, m + 1, n) = SubSeq(c, 1, n)
    BY <1>1, ConcatAdjacentSubSeq
  <1> QED
    BY <1>4, <1>5, <1>6

LEMMA InitInv == Init => IInv
  <1> SUFFICES ASSUME Init PROVE IInv
    OBVIOUS
  <1>1. content \in Seq(Byte) /\ Len(content) \in Nat
    BY ContentsAssumption, LenProperties DEF Init
  <1>2. out = << >> /\ Len(out) = 0 /\ out \in Seq(Byte)
    BY EmptySeq DEF Init
  <1>3. SubSeq(content, 1, 0) = << >>
    BY <1>1, SubSeqEmpty
  <1>4. 0 \in Handles /\ 0 \in 0 .. UINT32_MAX
    BY LimitsAssumption DEF Handles
  <1>5. table \in [Handles -> Nat \cup {Free}]
    BY DEF Init, Free
  <1>6. TypeOK
    BY <1>1, <1>2, <1>4, <1>5 DEF Init, TypeOK, Ops
  <1>7. StopAndWait /\ Ready /\ Asked /\ Answered /\ RepliesFit /\ Downloaded
    BY DEF Init, StopAndWait, Ready, Asked, Answered, RepliesFit, Downloaded, Succeeded
  <1>8. Progress
    BY <1>1, <1>2, <1>3 DEF Init, Progress
  <1> QED
    BY <1>6, <1>7, <1>8, ContentsAssumption DEF IInv, ContentFits, Init

LEMMA InvokeInv ==
  ASSUME IInv, Invoke
  PROVE  IInv'
  <1>1. content' \in Seq(Byte) /\ Len(content') \in Nat
    BY ContentsAssumption, LenProperties DEF Invoke
  <1>2. out' = << >> /\ Len(out') = 0 /\ out' \in Seq(Byte)
    BY EmptySeq DEF Invoke
  <1>3. SubSeq(content', 1, 0) = << >>
    BY <1>1, SubSeqEmpty
  <1>4. 0 \in Handles /\ 0 \in 0 .. UINT32_MAX
    BY LimitsAssumption DEF Handles
  <1>6. TypeOK'
    BY <1>1, <1>2, <1>4 DEF Invoke, IInv, TypeOK, Ops
  <1>7. (StopAndWait /\ Ready /\ Asked /\ Answered /\ RepliesFit /\ Downloaded)'
    BY DEF Invoke, StopAndWait, Ready, Asked, Answered, RepliesFit, Downloaded, Succeeded
  <1>8. Progress'
    BY <1>1, <1>2, <1>3 DEF Invoke, Progress
  <1> QED
    BY <1>6, <1>7, <1>8, ContentsAssumption DEF IInv, ContentFits, Invoke

\* The sizes that packets and buffers are made of.
LEMMA Sizes ==
  ASSUME NEW o \in Ops
  PROVE  /\ Header[o] \in Nat /\ ContHeader[o] \in Nat /\ FirstMax[o] \in Nat
         /\ 2 <= ContHeader[o] /\ ContHeader[o] <= Header[o]
         /\ FirstMax[o] + Header[o] - ContHeader[o] \in Nat
  BY LayoutAssumption

\* A command that gives up keeps what it has, whatever is in flight.
LEMMA GivesUp ==
  ASSUME IInv, pc \in {"write", "read"}, Exit("ERR_COMM"),
         UNCHANGED <<op, begun, read_so_far, total, hnd, out, request, reply, brick>>
  PROVE  IInv'
  <1>1. pc' = "exited" /\ ret' = "ERR_COMM"
    BY DEF Exit
  <1>2. UNCHANGED <<content, table>>
    BY DEF brick
  <1>3. TypeOK'
    BY <1>1, <1>2 DEF IInv, TypeOK, ERR
  <1>4. (StopAndWait /\ Progress /\ Ready /\ Asked /\ Answered /\ RepliesFit)'
    BY <1>1, <1>2 DEF IInv, StopAndWait, Progress, Ready, Asked, Answered, Carries,
       HeaderNow, ContinueMax, Open, RepliesFit
  <1>5. Downloaded'
    BY <1>1 DEF Downloaded, Succeeded
  <1> QED
    BY <1>2, <1>3, <1>4, <1>5 DEF IInv, ContentFits

LEMMA WriteInv ==
  ASSUME IInv, Begin \/ Continue
  PROVE  IInv'
  <1> DEFINE q == IF begun THEN [cmd |-> "continue", hnd |-> hnd, max |-> ContinueMax]
                  ELSE [cmd |-> "begin", hnd |-> 0, max |-> FirstMax[op]]
  <1>1. Write(q) /\ pc = "write" /\ request = None /\ reply = None
    BY DEF Begin, Continue, Write, IInv, StopAndWait
  <1>2. CASE request' \in {q, None} /\ pc' = "read" /\ UNCHANGED ret
    <2>1. UNCHANGED <<op, begun, read_so_far, total, hnd, out, reply, content, table>>
      BY <1>1 DEF Write, brick
    <2>2. q \in Requests /\ q # None
      <3>1. 0 \in Handles /\ hnd \in Handles /\ op \in Ops
        BY LimitsAssumption DEF Handles, IInv, TypeOK
      <3>2. FirstMax[op] \in Nat /\ ContinueMax \in Nat
        BY <3>1, Sizes DEF ContinueMax
      <3>3. [cmd |-> "continue", hnd |-> hnd, max |-> ContinueMax] \in Requests
        BY <3>1, <3>2 DEF Requests
      <3>4. [cmd |-> "begin", hnd |-> 0, max |-> FirstMax[op]] \in Requests
        BY <3>1, <3>2 DEF Requests
      <3> QED
        BY <3>3, <3>4, PacketsAreSome
    <2>3. /\ begun => q.cmd = "continue" /\ q.hnd = hnd /\ q.max = ContinueMax
          /\ ~begun => q.cmd = "begin" /\ q.max = FirstMax[op]
      OBVIOUS
    <2> HIDE DEF q
    <2>4. TypeOK'
      BY <1>2, <2>1, <2>2 DEF IInv, TypeOK
    <2>5. StopAndWait' /\ Ready' /\ Answered' /\ RepliesFit' /\ Downloaded'
      BY <1>1, <1>2, <2>1 DEF IInv, StopAndWait, Ready, Answered, RepliesFit, Downloaded,
         Succeeded
    <2>6. Progress'
      BY <2>1 DEF IInv, Progress
    <2>7. begun => Open
      BY <1>1 DEF IInv, Ready
    <2>8. Asked'
      BY <1>2, <2>1, <2>3, <2>7 DEF Asked, Open, ContinueMax
    <2> QED
      BY <2>1, <2>4, <2>5, <2>6, <2>8 DEF IInv, ContentFits
  <1>3. CASE Exit("ERR_COMM") /\ UNCHANGED request
    BY <1>1, <1>3, GivesUp DEF Write
  <1> QED
    BY <1>1, <1>2, <1>3 DEF Write

LEMMA ReplyDeniedInv ==
  ASSUME IInv, ReplyDenied
  PROVE  IInv'
  <1>1. /\ pc' = "exited" /\ ret' = "ERR_VM" /\ reply' = None
        /\ UNCHANGED <<op, begun, read_so_far, total, hnd, out, request, content, table>>
    BY DEF ReplyDenied, Exit, brick
  <1>2. TypeOK'
    BY <1>1 DEF IInv, TypeOK, ERR
  <1>3. (StopAndWait /\ Progress /\ Ready /\ Asked /\ Answered /\ RepliesFit /\ Downloaded)'
    BY <1>1 DEF IInv, StopAndWait, Progress, Ready, Asked, Answered, ContinueMax, Open,
       RepliesFit, Downloaded, Succeeded
  <1> QED
    BY <1>1, <1>2, <1>3 DEF IInv, ContentFits

\* The reply of a step of ReadReply extends the output by its data, whose
\* length the code computes from packetLen; no sum wraps round.
LEMMA ReplyExtends ==
  ASSUME IInv, reply # None, reply.type # VM_ERROR
  PROVE  LET n == Received(HeaderNow)
             end == Len(out) + n
         IN  /\ n \in Nat /\ n = Len(reply.data)
             /\ end \in 0 .. Len(content) /\ end = Len(out) + Len(reply.data)
             /\ SubSeq(reply.data, 1, n) = reply.data
             /\ out \o reply.data = SubSeq(content, 1, end)
             /\ SubSeq(content, 1, end) \in Seq(Byte)
             /\ Len(SubSeq(content, 1, end)) = end
             /\ (read_so_far + n) % (UINT32_MAX + 1) = end
             /\ (IF begun THEN total ELSE reply.size) = Len(content)
             /\ reply.hnd \in Handles
  <1> DEFINE n == Received(HeaderNow)
             d == reply.data
             end == Len(out) + n
  <1>1. /\ op \in Ops /\ out \in Seq(Byte) /\ content \in Seq(Byte)
        /\ reply \in Replies
    BY DEF IInv, TypeOK
  <1>2. d \in Seq(Byte) /\ reply.hnd \in Handles /\ reply.size \in 0 .. UINT32_MAX
    BY <1>1 DEF Replies
  <1>3. Len(d) \in Nat /\ Len(out) \in Nat /\ Len(content) \in Nat
    BY <1>1, <1>2, LenProperties
  <1>4. Carries(reply) /\ Progress
    BY DEF IInv, Answered
  <1>5. HeaderNow \in Nat
    BY <1>1, Sizes DEF HeaderNow
  <1>15. reply.packetLen = HeaderNow + Len(d) - 2
    BY <1>4 DEF Carries
  <1>6. n = Len(d)
    BY <1>3, <1>5, <1>15 DEF Received
  <1>7. end \in Len(out) .. Len(content) /\ end \in 0 .. Len(content)
    BY <1>3, <1>4, <1>6 DEF Carries
  <1>8. SubSeq(d, 1, n) = d
    BY <1>2, <1>6, SubSeqFull
  <1>9. Len(content) <= UINT32_MAX /\ UINT32_MAX \in Nat
    BY LimitsAssumption DEF IInv, ContentFits
  <1>10. out = SubSeq(content, 1, Len(out)) /\ d = SubSeq(content, Len(out) + 1, end)
    BY <1>4, <1>6 DEF Progress, Carries
  <1>11. /\ out \o d = SubSeq(content, 1, end)
         /\ SubSeq(content, 1, end) \in Seq(Byte) /\ Len(SubSeq(content, 1, end)) = end
    <2>1. Len(out) \in 0 .. Len(content)
      BY <1>3, <1>4 DEF Progress
    <2> QED
      BY <1>1, <1>7, <1>10, <2>1, PrefixGrows, ZenonT(30)
  <1>12. read_so_far + n = end
    BY <1>4 DEF Progress
  <1>13. end % (UINT32_MAX + 1) = end
    BY <1>3, <1>7, <1>9
  <1>14. (IF begun THEN total ELSE reply.size) = Len(content)
    BY <1>4 DEF Progress, Carries
  <1> HIDE DEF n, end
  <1> QED
    BY <1>2, <1>3, <1>6, <1>7, <1>8, <1>11, <1>12, <1>13, <1>14 DEF n, end

LEMMA ReadReplyInv ==
  ASSUME IInv, ReadReply
  PROVE  IInv' /\ (pc' = "exited" => table[reply.hnd] = Free)
  <1> DEFINE n == Received(HeaderNow)
             end == Len(out) + n
  <1>0. reply # None /\ reply.type # VM_ERROR
    BY DEF ReadReply, TakeReply
  <1>1. /\ n \in Nat /\ n = Len(reply.data)
        /\ end \in 0 .. Len(content)
        /\ out \o reply.data = SubSeq(content, 1, end)
        /\ SubSeq(reply.data, 1, n) = reply.data
        /\ SubSeq(content, 1, end) \in Seq(Byte)
        /\ Len(SubSeq(content, 1, end)) = end
        /\ (read_so_far + n) % (UINT32_MAX + 1) = end
        /\ (IF begun THEN total ELSE reply.size) = Len(content)
        /\ reply.hnd \in Handles
    BY <1>0, ReplyExtends
  <1>2. /\ out' = SubSeq(content, 1, end) /\ read_so_far' = end
        /\ total' = Len(content) /\ hnd' = reply.hnd /\ begun' = TRUE
        /\ reply' = None /\ UNCHANGED <<op, request, content, table>>
        /\ pc = "read"
        /\ IF end < Len(content) THEN pc' = "write" /\ ret' = ret
           ELSE pc' = "exited" /\ ret' = "ERR_UNK"
    BY <1>1 DEF ReadReply, TakeReply, HeaderNow, Exit, brick
  <1>3. table[reply.hnd] = IF end = Len(content) THEN Free ELSE end
    BY <1>0, <1>1 DEF IInv, Answered, Carries
  <1>4. Len(content) \in 0 .. UINT32_MAX /\ content \in Seq(Byte) /\ request = None
    <2>1. reply.size \in 0 .. UINT32_MAX /\ reply.size = Len(content)
      BY <1>0 DEF IInv, TypeOK, Answered, Carries, Replies
    <2> QED
      BY <1>0, <2>1 DEF IInv, TypeOK, StopAndWait
  <1> HIDE DEF n, end
  <1>5. end \in 0 .. UINT32_MAX /\ end <= Len(content) /\ end \in Nat
    BY <1>1, <1>4, LimitsAssumption
  <1>6. TypeOK'
    BY <1>1, <1>2, <1>4, <1>5 DEF IInv, TypeOK, ERR
  <1>7. Progress' /\ Asked' /\ Answered' /\ RepliesFit'
    BY <1>1, <1>2, <1>4, <1>5 DEF Progress, Asked, Answered, RepliesFit
  <1>8. StopAndWait'
    BY <1>2, <1>4 DEF IInv, StopAndWait
  <1>9. Ready'
    BY <1>1, <1>2, <1>3, <1>5 DEF Ready, Open
  <1>10. end < Len(content) \/ end = Len(content)
    BY <1>1, <1>4
  <1>11. Downloaded'
    <2>1. end = Len(content) => SubSeq(content, 1, end) = content
      BY <1>4, SubSeqFull
    <2> QED
      BY <1>2, <1>10, <2>1 DEF Downloaded, Succeeded
  <1> QED
    BY <1>2, <1>3, <1>6, <1>7, <1>8, <1>9, <1>10, <1>11 DEF IInv, ContentFits

\* What a reply the brick has just sent must be for the invariant to hold.
LEMMA SayInv ==
  ASSUME IInv, request # None, NEW t \in {VM_OK, VM_ERROR}, NEW size \in 0 .. UINT32_MAX,
         NEW h \in Handles, NEW data \in Seq(Byte), NEW header \in Nat,
         Say(t, size, h, data, header), table' \in [Handles -> Nat \cup {Free}],
         2 <= header, header + Len(data) <= Header[op] + FirstMax[op],
         LET end == Len(out) + Len(data) IN
         t # VM_ERROR => /\ size = Len(content) /\ header = HeaderNow
                         /\ end <= Len(content)
                         /\ data = SubSeq(content, Len(out) + 1, end)
                         /\ table'[h] = IF end = Len(content) THEN Free ELSE end
  PROVE  IInv'
  <1> DEFINE r == [type |-> t, size |-> size, hnd |-> h, data |-> data,
                   packetLen |-> header + Len(data) - 2]
  <1>1. /\ reply' = r /\ request' = None
        /\ UNCHANGED <<op, pc, begun, read_so_far, total, hnd, out, ret, content>>
    BY DEF Say
  <1>2. Len(data) \in Nat
    BY LenProperties
  <1>3. r \in Replies /\ r # None
    BY <1>2, PacketsAreSome DEF Replies
  <1>4. r.packetLen + 2 = header + Len(data)
    BY <1>2
  <1>5. /\ r.type = t /\ r.size = size /\ r.hnd = h /\ r.data = data
        /\ r.packetLen = header + Len(data) - 2
    OBVIOUS
  <1> HIDE DEF r
  <1>6. TypeOK'
    BY <1>1, <1>3 DEF IInv, TypeOK
  <1>7. StopAndWait' /\ Asked' /\ Downloaded' /\ Ready'
    BY <1>1 DEF IInv, StopAndWait, Asked, Downloaded, Succeeded, Ready
  <1>8. Progress'
    BY <1>1 DEF IInv, Progress
  <1>9. RepliesFit'
    BY <1>1, <1>4 DEF RepliesFit
  <1>10. Answered'
    BY <1>1, <1>5 DEF Answered, Carries, HeaderNow
  <1> QED
    BY <1>1, <1>6, <1>7, <1>8, <1>9, <1>10 DEF IInv, ContentFits

LEMMA DenyInv ==
  ASSUME IInv, request # None, Deny
  PROVE  IInv'
  <1>1. << >> \in Seq(Byte) /\ Len(<< >>) = 0
    BY EmptySeq
  <1>2. 0 \in Handles /\ 0 \in 0 .. UINT32_MAX
    BY LimitsAssumption DEF Handles
  <1>3. op \in Ops /\ table' \in [Handles -> Nat \cup {Free}]
    BY DEF IInv, TypeOK, Deny
  <1>4. /\ ContHeader[op] \in Nat /\ 2 <= ContHeader[op]
        /\ ContHeader[op] + 0 <= Header[op] + FirstMax[op]
    BY <1>3, Sizes
  <1>5. Say(VM_ERROR, 0, 0, << >>, ContHeader[op])
    BY DEF Deny
  <1> QED
    BY <1>1, <1>2, <1>3, <1>4, <1>5, SayInv

LEMMA ChunkInv ==
  ASSUME IInv, request # None, NEW h \in Handles, Chunk(h, Len(out), HeaderNow),
         HeaderNow + request.max <= Header[op] + FirstMax[op], request.max \in Nat
  PROVE  IInv'
  <1>1. op \in Ops /\ out \in Seq(Byte) /\ content \in Seq(Byte)
        /\ table \in [Handles -> Nat \cup {Free}]
    BY DEF IInv, TypeOK
  <1>2. Len(content) \in Nat /\ Len(out) \in Nat /\ Len(content) <= UINT32_MAX
    BY <1>1, LenProperties DEF IInv, ContentFits
  <1>3. PICK n \in 0 .. request.max :
          LET end == Len(out) + n IN
          /\ end <= Len(content)
          /\ table' = [table EXCEPT ![h] = IF end = Len(content) THEN Free ELSE end]
          /\ Say(VM_OK, Len(content), h, SubSeq(content, Len(out) + 1, end), HeaderNow)
    BY DEF Chunk
  <1> DEFINE end == Len(out) + n
             data == SubSeq(content, Len(out) + 1, end)
  <1>4. Len(out) \in 0 .. Len(content) /\ end \in Len(out) .. Len(content) /\ end \in Nat
    BY <1>2, <1>3 DEF IInv, Progress
  <1>5. data \in Seq(Byte) /\ Len(data) = end - Len(out)
    BY <1>1, <1>4, PrefixGrows
  <1>6. Len(data) = n /\ Len(out) + Len(data) = end
    BY <1>2, <1>5
  <1>7. HeaderNow \in Nat /\ 2 <= HeaderNow
    BY <1>1, Sizes DEF HeaderNow
  <1>8. HeaderNow + Len(data) <= Header[op] + FirstMax[op]
    BY <1>1, <1>6, <1>7, Sizes, SMTT(30)
  <1>9. table' \in [Handles -> Nat \cup {Free}]
    BY <1>1, <1>3, <1>4
  <1>10. table'[h] = IF end = Len(content) THEN Free ELSE end
    BY <1>1, <1>3
  <1>11. Len(content) \in 0 .. UINT32_MAX
    BY <1>2, LimitsAssumption
  <1>12. Say(VM_OK, Len(content), h, data, HeaderNow)
    BY <1>3
  <1>13. end <= Len(content) /\ data = SubSeq(content, Len(out) + 1, Len(out) + Len(data))
    BY <1>4, <1>6
  <1> HIDE DEF end, data
  <1> QED
    BY <1>5, <1>6, <1>7, <1>8, <1>9, <1>10, <1>11, <1>12, <1>13, SayInv

LEMMA BrickInv ==
  ASSUME IInv, Brick
  PROVE  IInv'
  <1>1. request # None /\ request \in Requests /\ op \in Ops
    BY DEF Brick, BrickBegin, BrickContinue, IInv, TypeOK
  <1>2. request.max \in Nat /\ request.hnd \in Handles
    BY <1>1 DEF Requests
  <1>3. CASE Deny
    BY <1>1, <1>3, DenyInv
  <1>4. ASSUME NEW h \in Handles, request.cmd = "begin", Chunk(h, 0, Header[op])
        PROVE  IInv'
    <2>1. ~begun /\ request.max = FirstMax[op]
      BY <1>1, <1>4 DEF IInv, Asked
    <2>2. Len(out) = 0 /\ HeaderNow = Header[op]
      BY <2>1 DEF IInv, Progress, HeaderNow
    <2> QED
      BY <1>1, <1>2, <1>4, <2>1, <2>2, Sizes, ChunkInv
  <1>5. ASSUME request.cmd = "continue",
               Chunk(request.hnd, table[request.hnd], ContHeader[op])
        PROVE  IInv'
    <2>1. begun /\ request.hnd = hnd /\ request.max = ContinueMax /\ Open
      BY <1>1, <1>5 DEF IInv, Asked
    <2>2. table[request.hnd] = Len(out) /\ HeaderNow = ContHeader[op]
      BY <2>1 DEF Open, HeaderNow
    <2>3. ContHeader[op] + ContinueMax <= Header[op] + FirstMax[op]
      BY <1>1, Sizes DEF ContinueMax
    <2> QED
      BY <1>1, <1>2, <1>5, <2>1, <2>2, <2>3, ChunkInv
  <1> QED
    BY <1>2, <1>3, <1>4, <1>5 DEF Brick, BrickBegin, BrickContinue

LEMMA StepInv == IInv /\ [Next]_vars => IInv'
  <1> SUFFICES ASSUME IInv, [Next]_vars PROVE IInv'
    OBVIOUS
  <1>1. CASE ReadFails
    BY <1>1, GivesUp DEF ReadFails
  <1>2. CASE UNCHANGED vars
    <2>1. (TypeOK /\ StopAndWait /\ Progress /\ Ready)'
      BY <1>2 DEF vars, IInv, TypeOK, StopAndWait, Progress, Ready, Open
    <2>2. (Asked /\ Answered /\ Downloaded /\ RepliesFit)'
      BY <1>2 DEF vars, IInv, Asked, Answered, Carries, HeaderNow, ContinueMax, Open,
         Downloaded, Succeeded, RepliesFit
    <2> QED
      BY <1>2, <2>1, <2>2 DEF IInv, ContentFits, vars
  <1> QED
    BY <1>1, <1>2, InvokeInv, WriteInv, ReadReplyInv, ReplyDeniedInv, BrickInv
       DEF Next, Command

LEMMA Inductive == Spec => []IInv
  BY InitInv, StepInv, PTL DEF Spec

-----------------------------------------------------------------------------
(***************************************************************************)
(* Theorems.                                                               *)
(***************************************************************************)

\* Every variable keeps its type: the number of bytes a reply is taken to
\* carry is never negative, the sums stay within an unsigned int and the
\* handle received is one of the brick's.
THEOREM TypeCorrect == Spec => []TypeOK
  <1>1. IInv => TypeOK
    BY DEF IInv
  <1> QED
    BY <1>1, Inductive, PTL

\* A download, or a listing, that reports success has received the whole content,
\* for every content, buffer size and cut into replies.
THEOREM DownloadCorrect == Spec => []Downloaded
  <1>1. IInv => Downloaded
    BY DEF IInv
  <1> QED
    BY <1>1, Inductive, PTL

\* At any time the output is a prefix of the content, and read_so_far its
\* length: a transfer that is cut short has neither lost nor repeated a byte.
THEOREM OutputIsPrefix == Spec => []OutIsPrefix
  <1>1. IInv => OutIsPrefix
    BY DEF IInv, Progress, OutIsPrefix
  <1> QED
    BY <1>1, Inductive, PTL

\* No reply is longer than the buffer, sized for the first one, that the
\* CONTINUE replies are read into with their smaller header.
THEOREM BufferSuffices == Spec => []RepliesFit
  <1>1. IInv => RepliesFit
    BY DEF IInv
  <1> QED
    BY <1>1, Inductive, PTL

\* When a transfer reports success the brick has freed the handle it read
\* from, although neither command closes it.
THEOREM TransferFreesHandle == Spec => ReadLeavesNoHandle
  <1> DEFINE P == pc = "read" /\ pc' = "exited" /\ ret' = "ERR_UNK"
                    => table[reply.hnd] = Free
  <1>1. IInv /\ [Next]_vars => [P]_vars
    <2> SUFFICES ASSUME IInv, Next, pc = "read", pc' = "exited", ret' = "ERR_UNK"
                 PROVE  table[reply.hnd] = Free
      OBVIOUS
    <2>1. ReadReply
      BY DEF Next, Invoke, Command, Begin, Continue, Write, ReplyDenied, ReadFails, Exit,
         Brick, BrickBegin, BrickContinue, Chunk, Deny, Say
    <2> QED
      BY <2>1, ReadReplyInv
  <1>2. Spec => [][P]_vars
    BY <1>1, Inductive, PTL DEF Spec
  <1> QED
    BY <1>2 DEF ReadLeavesNoHandle
=============================================================================
