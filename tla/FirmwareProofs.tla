--------------------------- MODULE FirmwareProofs ---------------------------
(***************************************************************************)
(* Proofs about Firmware, for any flash size, block size, firmware files,  *)
(* number of late packets and any checksum whose table step is injective:  *)
(* what the checksum detects, and what a `flash install' leaves in the     *)
(* flash whatever was interrupted, refused or left over before it.         *)
(***************************************************************************)
EXTENDS Firmware, SequenceTheorems, WellFoundedInduction, TLAPS

-----------------------------------------------------------------------------
(***************************************************************************)
(* The inductive invariant.                                                *)
(***************************************************************************)

\* Which requests belong to which command.
StageInv ==
  IF op = "install"
    THEN stage \in {"FW_ERASEFLASH", "FW_START_DOWNLOAD", "FW_DOWNLOAD_DATA",
                    "FW_GETCRC32", "FW_STARTAPP"}
    ELSE stage \in {"none", "ENTERFWUPDATE", "FW_GETVERSION", "FW_STARTAPP"}

\* A command returns once; install returns 0 from its last request only.
ReturnInv ==
  /\ pc \in {"write", "read"} => ret = "running"
  /\ op = "install" /\ ret = "ERR_UNK" => stage = "FW_STARTAPP"

\* Nothing is in flight to or from a brick that is not there.
UnpluggedInv == ~plugged => requests = << >> /\ replies = << >>

\* An invocation that began in silence has one packet in flight, of the
\* request it is at; once it has given up on a reply, that packet does not
\* touch the flash.
OneInFlight ==
  clean =>
    /\ requests = << >> \/ (Len(requests) = 1 /\ requests[1].own /\ requests[1].cmd = stage)
    /\ replies = << >> \/ /\ Len(replies) = 1 /\ replies[1].own
                          /\ replies[1].cmd = stage
                          /\ replies[1].type = VM_SYS_RQ => looped
    /\ requests = << >> \/ replies = << >>
    /\ pc \in {"idle", "write"} => requests = << >> /\ replies = << >>
    /\ pc = "exited" /\ requests # << >> =>
         stage \in {"ENTERFWUPDATE", "FW_GETVERSION", "FW_STARTAPP"}

\* The first n cells hold the image, one of them perhaps wrongly if any was
\* programmed wrongly; the others are erased.
Holds(cells, image, wrong, n) ==
  /\ \A i \in 1 .. n : cells[i] \in Byte
  /\ \A i \in n + 1 .. FLASH_SIZE : cells[i] = Erased
  /\ \A i, j \in 1 .. n : cells[i] # image[i] /\ cells[j] # image[j] => i = j
  /\ wrong = 0 => \A i \in 1 .. n : cells[i] = image[i]

Written(n) == Holds(flash, Image, flips, n)

First(n) == SubSeq(Image, 1, n)

Confirmed == replies # << >> /\ replies[1].type = VM_OK

\* What each stage of an installation knows of the flash and the checksum.
AtErase ==
  stage = "FW_ERASEFLASH" => sent = 0 /\ crc = 0 /\ (Confirmed => Written(0))

AtStart ==
  stage = "FW_START_DOWNLOAD" =>
    sent = 0 /\ crc = 0 /\ Written(0) /\ (Confirmed => next = 0)

AtData ==
  stage = "FW_DOWNLOAD_DATA" =>
    /\ sent < FLASH_SIZE
    /\ pc = "write" => crc = crc32(0, First(sent))
    /\ pc = "read" => crc = crc32(0, First(sent + this_block))
    /\ pc = "write" \/ requests # << >> => next = sent /\ Written(sent)
    /\ requests # << >> => requests[1].data = Payload
    /\ Confirmed => next = sent + this_block /\ Written(sent + this_block)

AtCrc ==
  stage = "FW_GETCRC32" =>
    /\ Written(FLASH_SIZE) /\ crc = crc32(0, Image)
    /\ Confirmed => replies[1].crc = crc32(0, flash)

AtApp == stage = "FW_STARTAPP" => flash = Image

Progress ==
  op = "install" /\ clean /\ ~looped => AtErase /\ AtStart /\ AtData /\ AtCrc /\ AtApp

\* The command has not failed.
Unfailed == pc # "exited" \/ ret = "ERR_UNK"

\* A brick that was rebooted under an installation is not sent back.
NoEnter ==
  op = "install" /\ Unfailed /\ mode = "linux" =>
    \A j \in 1 .. Len(requests) : requests[j].cmd # "ENTERFWUPDATE"

\* A refusal is on its way, or has been read and has ended the installation.
RefusalInFlight ==
  /\ op = "install" /\ Unfailed
  /\ plugged /\ ~looped /\ refused
  => \E j \in 1 .. Len(replies) : replies[j].type = VM_ERROR

IInv ==
  /\ TypeOK /\ StageInv /\ ReturnInv /\ UnpluggedInv
  /\ OneInFlight /\ Progress /\ NoEnter /\ RefusalInFlight

-----------------------------------------------------------------------------
(***************************************************************************)
(* Induction, from the well-foundedness of < on the natural numbers: the   *)
(* induced property is given as the set of the numbers that have it.       *)
(***************************************************************************)

LEMMA Least ==
  ASSUME NEW T \in SUBSET Nat, T # {}
  PROVE  \E x \in T : \A y \in T : x <= y
  <1>. DEFINE R == OpToRel(<, Nat)
  <1>1. IsWellFoundedOn(R, Nat)
    BY NatLessThanWellFounded
  <1>2. \A x, y \in Nat : y < x => <<y, x>> \in R
    BY DEF OpToRel
  <1>. HIDE DEF R
  <1>3. PICK x \in T : \A y \in T : ~(<<y, x>> \in R)
    BY <1>1, WFMin
  <1>4. ASSUME NEW y \in T PROVE x <= y
    <2>1. ~(y < x)
      BY <1>2, <1>3
    <2>. QED
      BY <2>1
  <1>. QED
    BY <1>4

LEMMA Induction ==
  ASSUME NEW L \in Nat, NEW G, 0 \in G, \A n \in 0 .. L - 1 : n \in G => n + 1 \in G
  PROVE  \A n \in 0 .. L : n \in G
  <1>. DEFINE B == {n \in 0 .. L : n \notin G}
  <1>1. SUFFICES ASSUME B # {} PROVE FALSE
    OBVIOUS
  <1>2. PICK x \in B : \A y \in B : x <= y
    <2>1. B \in SUBSET Nat
      OBVIOUS
    <2>. HIDE DEF B
    <2>. QED
      BY <1>1, <2>1, Least
  <1>3. x - 1 \in 0 .. L - 1 /\ x - 1 \notin B
    BY <1>2
  <1>. QED
    BY <1>2, <1>3

-----------------------------------------------------------------------------
(***************************************************************************)
(* The checksum.                                                           *)
(***************************************************************************)

Data == Byte \cup {Erased}

\* g[n] is the register of crc32.c after n bytes of s, started at c.
Register(g, c, s) ==
  /\ g \in [0 .. Len(s) -> Crcs]
  /\ g[0] = c
  /\ \A n \in 1 .. Len(s) : g[n] = CrcStep(g[n - 1], s[n])

LEMMA RegisterExists ==
  ASSUME NEW c \in Crcs, NEW s \in Seq(Data)
  PROVE  \E g : Register(g, c, s)
  <1>. DEFINE L == Len(s)
              P(g, k) == /\ g \in [0 .. k -> Crcs] /\ g[0] = c
                         /\ \A n \in 1 .. k : g[n] = CrcStep(g[n - 1], s[n])
              G == {k \in 0 .. L : \E g \in [0 .. k -> Crcs] : P(g, k)}
  <1>0. L \in Nat /\ \A n \in 1 .. L : s[n] \in Data
    OBVIOUS
  <1>. HIDE DEF L
  <1>1. 0 \in G
    <2>. DEFINE g == [n \in 0 .. 0 |-> c]
    <2>1. P(g, 0)
      OBVIOUS
    <2>2. g \in [0 .. 0 -> Crcs] /\ 0 \in 0 .. L
      BY <1>0
    <2>. HIDE DEF g, P
    <2>. QED
      BY <2>1, <2>2
  <1>2. ASSUME NEW k \in 0 .. L - 1, k \in G PROVE k + 1 \in G
    <2>1. PICK g \in [0 .. k -> Crcs] : P(g, k)
      BY <1>2
    <2>. DEFINE h == [n \in 0 .. k + 1 |-> IF n <= k THEN g[n] ELSE CrcStep(g[k], s[k + 1])]
    <2>2. CrcStep(g[k], s[k + 1]) \in Crcs
      BY <1>0, CrcAssumption DEF CrcAssumption, Data
    <2>3. h \in [0 .. k + 1 -> Crcs]
      BY <2>2, <1>0
    <2>4. P(h, k + 1)
      <3>1. h[0] = c
        BY <2>1
      <3>2. ASSUME NEW n \in 1 .. k + 1 PROVE h[n] = CrcStep(h[n - 1], s[n])
        <4>1. CASE n <= k
          <5>1. h[n] = g[n] /\ h[n - 1] = g[n - 1] /\ n \in 1 .. k
            BY <4>1
          <5>. QED
            BY <2>1, <5>1
        <4>2. CASE n = k + 1
          <5>1. h[n] = CrcStep(g[k], s[k + 1]) /\ h[n - 1] = g[k]
            BY <4>2
          <5>. QED
            BY <4>2, <5>1
        <4>. QED
          BY <4>1, <4>2
      <3>. QED
        BY <2>3, <3>1, <3>2
    <2>5. k + 1 \in 0 .. L
      BY <1>0
    <2>. HIDE DEF h, P
    <2>. QED
      BY <2>3, <2>4, <2>5
  <1>3. L \in G
    <2>. HIDE DEF G
    <2>1. \A n \in 0 .. L : n \in G
      BY <1>0, <1>1, <1>2, Induction
    <2>. QED
      BY <1>0, <2>1
  <1>. QED
    BY <1>3 DEF L, Register

\* The registers g take the first k bytes of s; s and t agree in them.
Takes(g, s, k) == \A n \in 1 .. k : g[n] = CrcStep(g[n - 1], s[n])
Agree(s, t, k) == \A n \in 1 .. k : s[n] = t[n]

\* Registers that start alike and are fed alike stay alike.
LEMMA RegistersAgree ==
  ASSUME NEW k \in Nat, NEW g, NEW h, NEW s, NEW t, g[0] = h[0],
         Takes(g, s, k), Takes(h, t, k), Agree(s, t, k)
  PROVE  \A n \in 0 .. k : g[n] = h[n]
  <1>. DEFINE G == {n \in 0 .. k : g[n] = h[n]}
  <1>1. 0 \in G
    OBVIOUS
  <1>2. ASSUME NEW n \in 0 .. k - 1, n \in G PROVE n + 1 \in G
    <2>1. n + 1 \in 1 .. k /\ (n + 1) - 1 = n
      OBVIOUS
    <2>2. g[n + 1] = CrcStep(g[n], s[n + 1]) /\ h[n + 1] = CrcStep(h[n], t[n + 1])
      BY <2>1 DEF Takes
    <2>3. s[n + 1] = t[n + 1]
      BY <2>1 DEF Agree
    <2>. QED
      BY <1>2, <2>1, <2>2, <2>3
  <1>3. \A n \in 0 .. k : n \in G
    <2>. HIDE DEF G
    <2>. QED
      BY <1>1, <1>2, Induction
  <1>. QED
    BY <1>3

\* What crc32 computes: its recursive definition, unfolded.
LEMMA CrcRegister ==
  ASSUME NEW c \in Crcs, NEW s \in Seq(Data)
  PROVE  \E g : Register(g, Complement(c), s) /\ crc32(c, s) = Complement(g[Len(s)])
  <1>. DEFINE L == Len(s)
              d == Complement(c)
              F(g) == [n \in 0 .. L |-> IF n = 0 THEN d ELSE CrcStep(g[n - 1], s[n])]
              reg == CHOOSE g : g = F(g)
  <1>0. L \in Nat /\ d \in Crcs
    BY CrcAssumption DEF CrcAssumption
  <1>1. PICK g : Register(g, d, s)
    BY <1>0, RegisterExists
  <1>2. g \in [0 .. L -> Crcs] /\ g[0] = d /\ \A n \in 1 .. L : g[n] = CrcStep(g[n - 1], s[n])
    BY <1>1 DEF Register
  <1>3. crc32(c, s) = Complement(reg[L])
    BY DEF crc32, L
  <1>. HIDE DEF L, d
  <1>4. g = F(g)
    BY <1>0, <1>2
  <1>5. reg = F(reg)
    <2>. HIDE DEF F
    <2>. QED
      BY <1>4
  <1>. HIDE DEF reg
  <1>6. reg[0] = d /\ \A n \in 1 .. L : reg[n] = CrcStep(reg[n - 1], s[n])
    BY <1>0, <1>5
  <1>7. \A n \in 0 .. L : reg[n] = g[n]
    <2>1. Takes(g, s, L) /\ Takes(reg, s, L) /\ Agree(s, s, L) /\ reg[0] = g[0]
      BY <1>2, <1>6 DEF Takes, Agree
    <2>. QED
      BY <1>0, <2>1, RegistersAgree
  <1>8. crc32(c, s) = Complement(g[L])
    BY <1>0, <1>3, <1>7
  <1>. QED
    BY <1>1, <1>8 DEF L, d

LEMMA CrcType ==
  ASSUME NEW c \in Crcs, NEW s \in Seq(Data)
  PROVE  crc32(c, s) \in Crcs
  <1>1. PICK g : Register(g, Complement(c), s) /\ crc32(c, s) = Complement(g[Len(s)])
    BY CrcRegister
  <1>2. Len(s) \in 0 .. Len(s)
    BY LenProperties
  <1>3. g[Len(s)] \in Crcs
    BY <1>1, <1>2 DEF Register
  <1>. QED
    BY <1>1, <1>3, CrcAssumption DEF CrcAssumption

LEMMA CrcEmpty ==
  ASSUME NEW c \in Crcs
  PROVE  crc32(c, << >>) = c
  <1>1. << >> \in Seq(Data) /\ Len(<< >>) = 0
    BY EmptySeq
  <1>2. PICK g : Register(g, Complement(c), << >>) /\ crc32(c, << >>) = Complement(g[0])
    BY <1>1, CrcRegister
  <1>. QED
    BY <1>2, CrcAssumption DEF CrcAssumption, Register

\* Feeding crc32 its own result continues where it stopped.
LEMMA CrcChains ==
  ASSUME NEW c \in Crcs, NEW a \in Seq(Data), NEW b \in Seq(Data)
  PROVE  crc32(crc32(c, a), b) = crc32(c, a \o b)
  <1>. DEFINE u == a \o b
  <1>1. /\ u \in Seq(Data) /\ Len(a) \in Nat /\ Len(b) \in Nat /\ Len(u) = Len(a) + Len(b)
        /\ \A n \in 1 .. Len(a) : u[n] = a[n]
        /\ \A n \in 1 .. Len(b) : u[Len(a) + n] = b[n]
    <2>1. \A n \in 1 .. Len(a) + Len(b) : u[n] = IF n <= Len(a) THEN a[n] ELSE b[n - Len(a)]
      BY ConcatProperties
    <2>2. Len(a) \in Nat /\ Len(b) \in Nat /\ u \in Seq(Data) /\ Len(u) = Len(a) + Len(b)
      BY ConcatProperties, LenProperties
    <2>. HIDE DEF u
    <2>3. ASSUME NEW n \in 1 .. Len(a) PROVE u[n] = a[n]
      BY <2>1, <2>2
    <2>4. ASSUME NEW n \in 1 .. Len(b) PROVE u[Len(a) + n] = b[n]
      <3>1. Len(a) + n \in 1 .. Len(a) + Len(b) /\ ~(Len(a) + n <= Len(a)) /\ (Len(a) + n) - Len(a) = n
        BY <2>2
      <3>. QED
        BY <2>1, <3>1
    <2>. QED
      BY <2>2, <2>3, <2>4
  <1>2. PICK g : Register(g, Complement(c), a) /\ crc32(c, a) = Complement(g[Len(a)])
    BY CrcRegister
  <1>3. crc32(c, a) \in Crcs
    BY CrcType
  <1>4. PICK h : Register(h, Complement(crc32(c, a)), b)
                 /\ crc32(crc32(c, a), b) = Complement(h[Len(b)])
    BY <1>3, CrcRegister
  <1>5. PICK r : Register(r, Complement(c), u) /\ crc32(c, u) = Complement(r[Len(u)])
    BY <1>1, CrcRegister
  <1>. HIDE DEF u
  <1>6. \A n \in 0 .. Len(a) : g[n] = r[n]
    <2>1. g[0] = r[0]
      BY <1>2, <1>5 DEF Register
    <2>2. Takes(g, a, Len(a))
      BY <1>2 DEF Register, Takes
    <2>3. \A n \in 1 .. Len(a) : n \in 1 .. Len(u)
      BY <1>1
    <2>4. Takes(r, u, Len(a))
      BY <1>5, <2>3 DEF Register, Takes
    <2>5. Agree(a, u, Len(a))
      BY <1>1 DEF Agree
    <2>6. Len(a) \in Nat
      BY <1>1
    <2>. QED
      BY <2>1, <2>2, <2>4, <2>5, <2>6, RegistersAgree
  <1>. DEFINE q == [n \in 0 .. Len(b) |-> r[Len(a) + n]]
  <1>7. \A n \in 0 .. Len(b) : h[n] = q[n]
    <2>1. h[0] = q[0]
      <3>1. h[0] = Complement(Complement(g[Len(a)]))
        BY <1>2, <1>4 DEF Register
      <3>2. g[Len(a)] \in Crcs /\ g[Len(a)] = r[Len(a)]
        BY <1>1, <1>2, <1>6 DEF Register
      <3>3. q[0] = r[Len(a)]
        BY <1>1
      <3>. QED
        BY <3>1, <3>2, <3>3, CrcAssumption DEF CrcAssumption
    <2>2. ASSUME NEW n \in 1 .. Len(b)
          PROVE  /\ h[n] = CrcStep(h[n - 1], b[n])
                 /\ q[n] = CrcStep(q[n - 1], b[n])
      <3>1. h[n] = CrcStep(h[n - 1], b[n])
        BY <1>4 DEF Register
      <3>2. /\ Len(a) + n \in 1 .. Len(u) /\ u[Len(a) + n] = b[n]
            /\ (Len(a) + n) - 1 = Len(a) + (n - 1)
        BY <1>1
      <3>3. r[Len(a) + n] = CrcStep(r[(Len(a) + n) - 1], u[Len(a) + n])
        BY <1>5, <3>2 DEF Register
      <3>4. q[n] = r[Len(a) + n] /\ q[n - 1] = r[Len(a) + (n - 1)]
        BY <1>1
      <3>. HIDE DEF q
      <3>. QED
        BY <3>1, <3>2, <3>3, <3>4
    <2>. HIDE DEF q
    <2>3. Takes(h, b, Len(b)) /\ Takes(q, b, Len(b)) /\ Agree(b, b, Len(b))
      BY <2>2 DEF Takes, Agree
    <2>4. Len(b) \in Nat
      BY <1>1
    <2>. QED
      BY <2>1, <2>3, <2>4, RegistersAgree
  <1>8. h[Len(b)] = r[Len(u)]
    BY <1>1, <1>7
  <1>. QED
    BY <1>4, <1>5, <1>8 DEF u

\* One wrong byte, wherever it is, changes the checksum.
LEMMA CrcDetects ==
  ASSUME NEW c \in Crcs, NEW s \in Seq(Byte), NEW t \in Seq(Byte), Len(s) = Len(t),
         \A i, j \in 1 .. Len(s) : s[i] # t[i] /\ s[j] # t[j] => i = j,
         crc32(c, s) = crc32(c, t)
  PROVE  s = t
  <1>. DEFINE L == Len(s)
  <1>1. L \in Nat /\ s \in Seq(Data) /\ t \in Seq(Data)
        /\ (\A n \in 1 .. L : s[n] \in Byte /\ t[n] \in Byte)
    <2>1. Seq(Byte) \subseteq Seq(Data)
      BY DEF Data
    <2>. QED
      BY <2>1, LenProperties, ElementOfSeq
  <1>2. PICK g : Register(g, Complement(c), s) /\ crc32(c, s) = Complement(g[L])
    BY <1>1, CrcRegister
  <1>3. PICK h : Register(h, Complement(c), t) /\ crc32(c, t) = Complement(h[L])
    BY <1>1, CrcRegister
  <1>4. /\ g \in [0 .. L -> Crcs] /\ h \in [0 .. L -> Crcs] /\ g[0] = h[0]
        /\ \A n \in 1 .. L : /\ g[n] = CrcStep(g[n - 1], s[n])
                             /\ h[n] = CrcStep(h[n - 1], t[n])
    BY <1>2, <1>3 DEF Register
  <1>. HIDE DEF L
  <1>5. g[L] = h[L]
    <2>1. g[L] \in Crcs /\ h[L] \in Crcs
      BY <1>1, <1>4
    <2>. QED
      BY <1>2, <1>3, <2>1, CrcAssumption DEF CrcAssumption
  <1>6. ASSUME NEW k \in 1 .. L, s[k] # t[k] PROVE FALSE
    <2>1. \A n \in 1 .. L : n # k => s[n] = t[n]
      BY <1>6 DEF L
    <2>2. k - 1 \in Nat /\ Takes(g, s, k - 1) /\ Takes(h, t, k - 1) /\ Agree(s, t, k - 1)
      BY <1>1, <1>4, <2>1 DEF Takes, Agree
    <2>3. g[k - 1] = h[k - 1]
      <3>. DEFINE m == k - 1
      <3>1. m \in Nat /\ Takes(g, s, m) /\ Takes(h, t, m) /\ Agree(s, t, m) /\ g[0] = h[0]
        BY <1>4, <2>2
      <3>. HIDE DEF m
      <3>2. \A n \in 0 .. m : g[n] = h[n]
        BY <3>1, RegistersAgree
      <3>3. g[m] = h[m]
        BY <3>1, <3>2
      <3>. QED
        BY <3>3 DEF m
    <2>4. g[k] # h[k]
      <3>1. g[k] = CrcStep(g[k - 1], s[k]) /\ h[k] = CrcStep(h[k - 1], t[k])
        BY <1>4
      <3>2. g[k - 1] \in Crcs /\ s[k] \in Byte /\ t[k] \in Byte
        BY <1>1, <1>4
      <3>. QED
        BY <1>6, <2>3, <3>1, <3>2, CrcInjective DEF CrcInjective
    <2>. DEFINE G == {n \in 0 .. L - k : g[k + n] # h[k + n]}
    <2>5. 0 \in G
      BY <1>1, <2>4
    <2>6. ASSUME NEW n \in 0 .. (L - k) - 1, n \in G PROVE n + 1 \in G
      <3>1. k + n + 1 \in 1 .. L /\ (k + n + 1) - 1 = k + n /\ k + n \in 0 .. L
        BY <1>1
      <3>2. /\ g[k + n + 1] = CrcStep(g[k + n], s[k + n + 1])
            /\ h[k + n + 1] = CrcStep(h[k + n], t[k + n + 1])
        BY <1>4, <3>1
      <3>3. /\ g[k + n] \in Crcs /\ h[k + n] \in Crcs /\ s[k + n + 1] \in Byte
            /\ s[k + n + 1] = t[k + n + 1]
        BY <1>1, <1>4, <2>1, <3>1
      <3>4. g[k + n + 1] # h[k + n + 1]
        BY <2>6, <3>2, <3>3, CrcInjective DEF CrcInjective
      <3>. QED
        BY <1>1, <3>4
    <2>7. \A n \in 0 .. L - k : n \in G
      <3>1. L - k \in Nat
        BY <1>1
      <3>. HIDE DEF G
      <3>. QED
        BY <2>5, <2>6, <3>1, Induction
    <2>8. L - k \in G
      BY <1>1, <2>7
    <2>. QED
      BY <1>1, <1>5, <2>8
  <1>7. \A n \in 1 .. L : s[n] = t[n]
    BY <1>6
  <1>. QED
    BY <1>1, <1>7 DEF L


-----------------------------------------------------------------------------
(***************************************************************************)
(* The image and its blocks.                                               *)
(***************************************************************************)

LEMMA ImageType ==
  ASSUME file \in Seq(Byte)
  PROVE  /\ Image \in Seq(Byte) /\ Len(Image) = FLASH_SIZE
         /\ \A i \in Cells : Image[i] \in Byte
  <1>1. ASSUME NEW i \in Cells PROVE Image[i] \in Byte
    <2>1. i \in 1 .. Len(file) => file[i] \in Byte
      BY ElementOfSeq
    <2>. QED
      BY <2>1, LenProperties, GeometryAssumption, BytesAssumption
         DEF Image, Cells, GeometryAssumption, BytesAssumption
  <1>2. Image \in [Cells -> Byte]
    <2>1. Image = [i \in Cells |-> Image[i]]
      BY DEF Image
    <2>. QED
      BY <1>1, <2>1
  <1>3. FLASH_SIZE \in Nat
    BY GeometryAssumption DEF GeometryAssumption
  <1>4. Image \in Seq(Byte)
    BY <1>2, <1>3, IsASeq DEF Cells
  <1>5. DOMAIN Image = 1 .. FLASH_SIZE
    BY <1>2 DEF Cells
  <1>6. Len(Image) = FLASH_SIZE
    BY <1>3, <1>4, <1>5, LenProperties
  <1>. QED
    BY <1>1, <1>4, <1>6

LEMMA BlockSize ==
  ASSUME sent \in 0 .. FLASH_SIZE
  PROVE  /\ this_block \in Nat /\ sent + this_block \in 0 .. FLASH_SIZE
         /\ sent < FLASH_SIZE => this_block >= 1
  BY GeometryAssumption DEF GeometryAssumption, this_block

LEMMA PayloadType ==
  ASSUME sent \in 0 .. FLASH_SIZE, file \in Seq(Byte)
  PROVE  /\ Payload \in Seq(Byte) /\ Len(Payload) = this_block
         /\ \A j \in 1 .. this_block : Payload[j] = Image[sent + j]
  <1>1. this_block \in Nat /\ sent + this_block \in 0 .. FLASH_SIZE /\ FLASH_SIZE \in Nat
    BY BlockSize, GeometryAssumption DEF GeometryAssumption
  <1>2. ASSUME NEW j \in 1 .. this_block
        PROVE  Payload[j] = Image[sent + j] /\ Image[sent + j] \in Byte
    <2>1. sent + j \in Cells
      BY <1>1 DEF Cells
    <2>2. Payload[j] = IF sent + j <= Len(file) THEN file[sent + j] ELSE 0
      BY DEF Payload
    <2>3. Image[sent + j] = IF sent + j <= Len(file) THEN file[sent + j] ELSE 0
      BY <2>1 DEF Image
    <2>. QED
      BY <2>1, <2>2, <2>3, ImageType
  <1>3. Payload = [j \in 1 .. this_block |-> Payload[j]]
    BY DEF Payload
  <1>4. Payload \in [1 .. this_block -> Byte]
    <2>1. \A j \in 1 .. this_block : Payload[j] \in Byte
      BY <1>2
    <2>. QED
      BY <1>3, <2>1
  <1>. HIDE DEF Payload
  <1>5. Payload \in Seq(Byte)
    BY <1>1, <1>4, IsASeq
  <1>6. DOMAIN Payload = 1 .. this_block
    BY <1>4
  <1>7. Len(Payload) = this_block
    BY <1>1, <1>5, <1>6, LenProperties
  <1>. QED
    BY <1>2, <1>5, <1>7

\* The block after the first `sent' bytes continues the image.
LEMMA FirstStep ==
  ASSUME sent \in 0 .. FLASH_SIZE, file \in Seq(Byte)
  PROVE  /\ First(sent) \in Seq(Byte) /\ First(sent + this_block) \in Seq(Byte)
         /\ First(sent) \o Payload = First(sent + this_block)
  <1>1. this_block \in Nat /\ sent + this_block \in 0 .. FLASH_SIZE /\ FLASH_SIZE \in Nat
    BY BlockSize, GeometryAssumption DEF GeometryAssumption
  <1>2. Image \in Seq(Byte) /\ Len(Image) = FLASH_SIZE
    BY ImageType
  <1>3. Payload \in Seq(Byte) /\ Len(Payload) = this_block
        /\ \A j \in 1 .. this_block : Payload[j] = Image[sent + j]
    BY PayloadType
  <1>. DEFINE P == Payload
              b == this_block
              q == SubSeq(Image, sent + 1, sent + b)
  <1>4. q \in Seq(Byte) /\ Len(q) = b /\ \A j \in 1 .. b : q[j] = Image[sent + j]
    <2>1. b \in Nat
      BY <1>1
    <2>. HIDE DEF b
    <2>. QED
      BY <1>1, <1>2, <2>1 DEF b
  <1>5. P = q
    <2>. HIDE DEF P, q, b
    <2>1. P \in Seq(Byte) /\ Len(P) = b /\ \A j \in 1 .. b : P[j] = q[j]
      BY <1>3, <1>4 DEF P, b
    <2>. QED
      BY <1>4, <2>1
  <1>6. First(sent) \o q = First(sent + b)
    <2>. HIDE DEF b
    <2>1. b \in Nat /\ sent + b <= Len(Image) /\ sent \in Nat
      BY <1>1, <1>2 DEF b
    <2>. HIDE DEF Image
    <2>. QED
      BY <1>2, <2>1, ConcatAdjacentSubSeq DEF First
  <1>7. First(sent) \in Seq(Byte) /\ First(sent + b) \in Seq(Byte)
    <2>1. 1 \in 1 .. FLASH_SIZE + 1 /\ sent \in 0 .. FLASH_SIZE
      BY <1>1
    <2>. HIDE DEF Image, this_block
    <2>. QED
      BY <1>1, <1>2, <2>1 DEF First
  <1>. QED
    BY <1>5, <1>6, <1>7


-----------------------------------------------------------------------------
(***************************************************************************)
(* Type correctness.                                                       *)
(***************************************************************************)

Req == [cmd : Stages, data : Seq(Byte), own : BOOLEAN]
Rep == [type : {VM_OK, VM_ERROR, VM_SYS_RQ}, cmd : Stages, crc : Crcs, own : BOOLEAN]

LEMMA ProtocolCodes == VM_OK = 3 /\ VM_ERROR = 5 /\ VM_SYS_RQ = 1
  BY DEF VM_OK, VM_ERROR, VM_SYS_RQ

LEMMA InitType == Init => TypeOK
  <1>. SUFFICES ASSUME Init PROVE TypeOK
    OBVIOUS
  <1>1. << >> \in Seq(Byte) /\ << >> \in Seq(Req) /\ << >> \in Seq(Rep)
    BY EmptySeq
  <1>2. flash \in [Cells -> Byte \cup {Erased}]
    BY BytesAssumption DEF Init, Blank, BytesAssumption
  <1>3. 0 \in Crcs /\ FLASH_SIZE \in Nat /\ MaxFlips \in Nat
    BY CrcAssumption, GeometryAssumption DEF CrcAssumption, GeometryAssumption
  <1>4. next \in -1 .. FLASH_SIZE /\ flips \in 0 .. MaxFlips /\ sent \in 0 .. FLASH_SIZE
    BY <1>3 DEF Init
  <1>5. /\ clean \in BOOLEAN /\ refused \in BOOLEAN /\ looped \in BOOLEAN
        /\ plugged \in BOOLEAN
    BY DEF Init
  <1>. QED
    BY <1>1, <1>2, <1>3, <1>4, <1>5 DEF Init, TypeOK, Stages, Req, Rep

\* What is left of the packets in flight when an invocation begins.
LEMMA LeftoverType ==
  ASSUME NEW S, NEW packets \in Seq(S), NEW rest \in Leftover(packets),
         \A p \in S : [p EXCEPT !.own = FALSE] \in S
  PROVE  rest \in Seq(S)
  <1>. DEFINE late == [j \in 1 .. Len(packets) |-> [packets[j] EXCEPT !.own = FALSE]]
  <1>1. rest = << >> \/ rest = late
    BY DEF Leftover
  <1>2. late \in Seq(S)
    <2>1. Len(packets) \in Nat /\ \A j \in 1 .. Len(packets) : packets[j] \in S
      BY LenProperties, ElementOfSeq
    <2>2. late \in [1 .. Len(packets) -> S]
      BY <2>1
    <2>. HIDE DEF late
    <2>. QED
      BY <2>1, <2>2, IsASeq
  <1>. HIDE DEF late
  <1>. QED
    BY <1>1, <1>2, EmptySeq

LEMMA InvokeType ==
  ASSUME TypeOK, NEW cmd \in {"enter", "info", "exit", "install"}, NEW fw \in Seq(Byte),
         NEW first \in Stages, NEW needs, Invoke(cmd, fw, first, needs)
  PROVE  TypeOK'
  <1>1. requests' \in Seq(Req)
    <2>1. requests \in Seq(Req) /\ requests' \in Leftover(requests)
      BY DEF TypeOK, Req, Invoke
    <2>2. \A p \in Req : [p EXCEPT !.own = FALSE] \in Req
      BY DEF Req
    <2>. QED
      BY <2>1, <2>2, LeftoverType
  <1>2. replies' \in Seq(Rep)
    <2>1. replies \in Seq(Rep) /\ replies' \in Leftover(replies)
      BY DEF TypeOK, Rep, Invoke
    <2>2. \A p \in Rep : [p EXCEPT !.own = FALSE] \in Rep
      BY DEF Rep
    <2>. QED
      BY <2>1, <2>2, LeftoverType
  <1>3. 0 \in Crcs /\ FLASH_SIZE \in Nat
    BY CrcAssumption, GeometryAssumption DEF CrcAssumption, GeometryAssumption
  <1>4. /\ flash' \in [Cells -> Byte \cup {Erased}] /\ mode' \in {"linux", "bootloader"}
        /\ next' \in -1 .. FLASH_SIZE /\ flips' \in 0 .. MaxFlips
    BY DEF TypeOK, Invoke, brick
  <1>5. clean' \in BOOLEAN /\ refused' \in BOOLEAN /\ looped' \in BOOLEAN
    BY DEF Invoke
  <1>6. /\ pc' \in {"idle", "write", "read", "exited"} /\ ret' \in ERR \cup {"running"}
        /\ op' \in {"none", "enter", "info", "exit", "install"} /\ file' \in Seq(Byte)
        /\ stage' \in Stages /\ sent' \in 0 .. FLASH_SIZE /\ crc' \in Crcs
        /\ plugged' \in BOOLEAN /\ port' \in {"usb2", "usb3"}
    BY <1>3 DEF Invoke, ERR
  <1>. QED
    BY <1>1, <1>2, <1>4, <1>5, <1>6 DEF TypeOK, Req, Rep

\* The parts of the state that Write and Read share with no other step.
LEMMA WriteType ==
  ASSUME TypeOK, NEW cmd \in Stages, NEW data \in Seq(Byte), Write(cmd, data),
         sent' \in 0 .. FLASH_SIZE, crc' \in Crcs
  PROVE  TypeOK'
  <1>1. requests' \in Seq(Req)
    <2>1. requests \in Seq(Req) /\ Packet(cmd, data) \in Req
      BY DEF TypeOK, Req, Packet
    <2>2. Append(requests, Packet(cmd, data)) \in Seq(Req)
      BY <2>1, AppendProperties
    <2>. QED
      BY <2>1, <2>2 DEF Write
  <1>2. pc' \in {"idle", "write", "read", "exited"} /\ ret' \in ERR \cup {"running"}
    BY DEF Write, Exit, ERR, TypeOK
  <1>3. /\ UNCHANGED <<op, file, stage, replies, plugged, port>>
        /\ UNCHANGED <<mode, flash, next, flips, clean, refused, looped>>
    BY DEF Write, brick, history
  <1>. QED
    BY <1>1, <1>2, <1>3 DEF TypeOK, Req

LEMMA ReadType ==
  ASSUME TypeOK, NEW cmd, Read(cmd), sent' \in 0 .. FLASH_SIZE, crc' \in Crcs,
         stage' \in Stages, pc' \in {"write", "exited"}, ret' \in ERR \cup {"running"}
  PROVE  TypeOK'
  <1>1. replies' \in Seq(Rep)
    <2>1. replies \in Seq(Rep) /\ replies # << >>
      BY DEF TypeOK, Rep, Read
    <2>. QED
      BY <2>1, HeadTailProperties DEF Read
  <1>2. /\ UNCHANGED <<op, file, requests, plugged, port>>
        /\ UNCHANGED <<mode, flash, next, flips, clean, refused, looped>>
    BY DEF Read, brick, history
  <1>. QED
    BY <1>1, <1>2 DEF TypeOK, Rep

\* What the brick answers: the reply, or the looped-back request.
LEMMA AnswerIs ==
  ASSUME TypeOK, requests # << >>, NEW type \in {VM_OK, VM_ERROR}, NEW c \in Crcs,
         Answer(type, c)
  PROVE  \E t \in {type, VM_SYS_RQ} :
           /\ replies' = Append(replies, [type |-> t, cmd |-> requests[1].cmd, crc |-> c,
                                          own |-> requests[1].own])
           /\ t = VM_SYS_RQ /\ requests[1].own => looped'
           /\ looped => looped'
           /\ looped' \in BOOLEAN
           /\ replies' \in Seq(Rep)
  <1>1. requests \in Seq(Req) /\ replies \in Seq(Rep)
    BY DEF TypeOK, Req, Rep
  <1>2. Head(requests) = requests[1] /\ requests[1] \in Req
    <2>1. Len(requests) >= 1
      BY <1>1, EmptySeq, LenProperties
    <2>. QED
      BY <1>1, <2>1, ElementOfSeq, LenProperties
  <1>3. ASSUME NEW t \in {VM_OK, VM_ERROR, VM_SYS_RQ}
        PROVE  Append(replies, [type |-> t, cmd |-> requests[1].cmd, crc |-> c,
                                own |-> requests[1].own]) \in Seq(Rep)
    <2>1. [type |-> t, cmd |-> requests[1].cmd, crc |-> c, own |-> requests[1].own] \in Rep
      BY <1>2 DEF Req, Rep
    <2>. QED
      BY <1>1, <2>1, AppendProperties
  <1>4. looped \in BOOLEAN /\ requests[1].own \in BOOLEAN
    BY <1>2 DEF TypeOK, Req
  <1>5. CASE /\ replies' = Append(replies, [type |-> type, cmd |-> requests[1].cmd, crc |-> c,
                                            own |-> requests[1].own])
             /\ looped' = (looped \/ (FALSE /\ requests[1].own))
    <2>1. looped' = looped
      BY <1>4, <1>5
    <2>2. type # VM_SYS_RQ
      BY ProtocolCodes
    <2>. QED
      BY <1>3, <1>4, <1>5, <2>1, <2>2
  <1>6. CASE /\ replies' = Append(replies, [type |-> VM_SYS_RQ, cmd |-> requests[1].cmd, crc |-> c,
                                            own |-> requests[1].own])
             /\ looped' = (looped \/ (TRUE /\ requests[1].own))
    <2>1. looped' = (looped \/ requests[1].own)
      BY <1>4, <1>6
    <2>. QED
      BY <1>3, <1>4, <1>6, <2>1
  <1>. QED
    BY <1>2, <1>5, <1>6 DEF Answer

LEMMA RequestsTail ==
  ASSUME TypeOK, requests # << >>
  PROVE  /\ Tail(requests) \in Seq(Req) /\ Head(requests) = requests[1]
         /\ requests[1] \in Req
         /\ Len(requests) \in Nat /\ Len(requests) >= 1
         /\ Len(Tail(requests)) = Len(requests) - 1
         /\ \A j \in 1 .. Len(requests) - 1 : Tail(requests)[j] = requests[j + 1]
  <1>1. requests \in Seq(Req)
    BY DEF TypeOK, Req
  <1>2. Len(requests) \in Nat /\ Len(requests) >= 1
    BY <1>1, EmptySeq, LenProperties
  <1>. QED
    BY <1>1, <1>2, HeadTailProperties, ElementOfSeq

LEMMA RepliesTail ==
  ASSUME TypeOK, replies # << >>
  PROVE  /\ Tail(replies) \in Seq(Rep) /\ Head(replies) = replies[1]
         /\ replies[1] \in Rep
         /\ Len(replies) \in Nat /\ Len(replies) >= 1
         /\ Len(Tail(replies)) = Len(replies) - 1
         /\ \A j \in 1 .. Len(replies) - 1 : Tail(replies)[j] = replies[j + 1]
  <1>1. replies \in Seq(Rep)
    BY DEF TypeOK, Rep
  <1>2. Len(replies) \in Nat /\ Len(replies) >= 1
    BY <1>1, EmptySeq, LenProperties
  <1>. QED
    BY <1>1, <1>2, HeadTailProperties, ElementOfSeq


LEMMA RefuseType ==
  ASSUME TypeOK, NEW cmd, Serve(cmd), Refuse
  PROVE  TypeOK'
  <1>1. requests # << >> /\ requests' = Tail(requests)
    BY DEF Serve, Refuse
  <1>2. requests' \in Seq(Req) /\ Head(requests).own \in BOOLEAN
    BY <1>1, RequestsTail DEF Req
  <1>3. replies' \in Seq(Rep) /\ looped' \in BOOLEAN
    <2>1. 0 \in Crcs /\ Answer(VM_ERROR, 0)
      BY CrcAssumption DEF CrcAssumption, Refuse
    <2>. QED
      BY <1>1, <2>1, AnswerIs
  <1>4. refused' \in BOOLEAN
    BY <1>2 DEF Refuse, TypeOK
  <1>5. /\ UNCHANGED <<op, file, stage, pc, sent, crc, ret, plugged, port, clean>>
        /\ UNCHANGED <<mode, flash, next, flips>>
    BY DEF Serve, Refuse, program, brick
  <1>. QED
    BY <1>2, <1>3, <1>4, <1>5 DEF TypeOK, Req, Rep

LEMMA ServeType ==
  ASSUME TypeOK, NEW cmd, Serve(cmd), NEW c \in Crcs, Answer(VM_OK, c), Done,
         flash' \in [Cells -> Byte \cup {Erased}], next' \in -1 .. FLASH_SIZE,
         flips' \in 0 .. MaxFlips, UNCHANGED mode
  PROVE  TypeOK'
  <1>1. requests # << >> /\ requests' = Tail(requests) /\ UNCHANGED refused
    BY DEF Serve, Done
  <1>2. requests' \in Seq(Req)
    BY <1>1, RequestsTail
  <1>3. replies' \in Seq(Rep) /\ looped' \in BOOLEAN
    BY <1>1, AnswerIs
  <1>4. UNCHANGED <<op, file, stage, pc, sent, crc, ret, plugged, port, clean>>
    BY DEF Serve, program
  <1>. QED
    BY <1>1, <1>2, <1>3, <1>4 DEF TypeOK, Req, Rep

\* What a programmed block makes of the flash.
LEMMA ProgrammedIs ==
  ASSUME TypeOK, NEW data \in Seq(Byte), next >= 0, next + Len(data) <= FLASH_SIZE
  PROVE  /\ Programmed(data) \in [Cells -> Byte \cup {Erased}]
         /\ \A i \in Cells : i \in next + 1 .. next + Len(data) =>
              Programmed(data)[i] = data[i - next] /\ data[i - next] \in Byte
         /\ \A i \in Cells : i \notin next + 1 .. next + Len(data) =>
              Programmed(data)[i] = flash[i]
  <1>1. Len(data) \in Nat /\ next \in Nat /\ FLASH_SIZE \in Nat
    BY LenProperties, GeometryAssumption DEF TypeOK, GeometryAssumption
  <1>2. ASSUME NEW i \in Cells, i \in next + 1 .. next + Len(data)
        PROVE  Programmed(data)[i] = data[i - next] /\ data[i - next] \in Byte
    <2>1. i - next \in 1 .. Len(data)
      BY <1>1, <1>2
    <2>. QED
      BY <1>2, <2>1, ElementOfSeq DEF Programmed
  <1>3. ASSUME NEW i \in Cells, i \notin next + 1 .. next + Len(data)
        PROVE  Programmed(data)[i] = flash[i]
    BY <1>3 DEF Programmed
  <1>4. \A i \in Cells : flash[i] \in Byte \cup {Erased}
    BY DEF TypeOK
  <1>5. \A i \in Cells : Programmed(data)[i] \in Byte \cup {Erased}
    BY <1>2, <1>3, <1>4
  <1>6. Programmed(data) = [i \in Cells |-> Programmed(data)[i]]
    BY DEF Programmed
  <1>7. Programmed(data) \in [Cells -> Byte \cup {Erased}]
    BY <1>5, <1>6
  <1>. QED
    BY <1>2, <1>3, <1>7

\* The two ways a block is programmed.
Programs(data) ==
  \/ flash' = Programmed(data) /\ UNCHANGED flips
  \/ /\ flips < MaxFlips
     /\ flips' = flips + 1
     /\ \E i \in next + 1 .. next + Len(data) :
          \E b \in Byte \ {data[i - next]} :
            flash' = [Programmed(data) EXCEPT ![i] = b]

LEMMA ProgramsType ==
  ASSUME TypeOK, NEW data \in Seq(Byte), next >= 0, next + Len(data) <= FLASH_SIZE,
         Programs(data)
  PROVE  flash' \in [Cells -> Byte \cup {Erased}] /\ flips' \in 0 .. MaxFlips
  <1>1. Programmed(data) \in [Cells -> Byte \cup {Erased}]
    BY ProgrammedIs
  <1>2. flips \in 0 .. MaxFlips /\ MaxFlips \in Nat
    BY GeometryAssumption DEF TypeOK, GeometryAssumption
  <1>3. CASE flash' = Programmed(data) /\ UNCHANGED flips
    BY <1>1, <1>2, <1>3
  <1>4. ASSUME flips < MaxFlips, flips' = flips + 1, NEW i, NEW b \in Byte,
               flash' = [Programmed(data) EXCEPT ![i] = b]
        PROVE  flash' \in [Cells -> Byte \cup {Erased}] /\ flips' \in 0 .. MaxFlips
    <2>. DEFINE P == Programmed(data)
    <2>1. P \in [Cells -> Byte \cup {Erased}] /\ flash' = [P EXCEPT ![i] = b]
      BY <1>1, <1>4
    <2>. HIDE DEF P
    <2>2. flash' \in [Cells -> Byte \cup {Erased}]
      BY <2>1
    <2>. QED
      BY <1>2, <1>4, <2>2
  <1>. QED
    BY <1>3, <1>4 DEF Programs

LEMMA TypeStep ==
  ASSUME TypeOK, [Next]_vars
  PROVE  TypeOK'
  <1>0. << >> \in Seq(Byte) /\ 0 \in Crcs
    BY EmptySeq, CrcAssumption DEF CrcAssumption
  <1>t. sent \in 0 .. FLASH_SIZE /\ crc \in Crcs /\ ret \in ERR \cup {"running"} /\ stage \in Stages
        /\ file \in Seq(Byte) /\ FLASH_SIZE \in Nat
    BY GeometryAssumption DEF TypeOK, GeometryAssumption
  <1>e. {"ERR_COMM", "ERR_VM", "ERR_IO", "ERR_UNK", "ERR_USBLOOP"} \subseteq ERR
    BY DEF ERR
  <1>1. ASSUME RunEnter \/ RunInfo \/ RunExit PROVE TypeOK'
    BY <1>0, <1>1, InvokeType DEF RunEnter, RunInfo, RunExit, Stages
  <1>2. ASSUME RunInstall PROVE TypeOK'
    <2>1. PICK fw \in Firmwares : Invoke("install", fw, "FW_ERASEFLASH", "bootloader")
      BY <1>2 DEF RunInstall
    <2>2. fw \in Seq(Byte)
      BY BytesAssumption DEF BytesAssumption
    <2>. QED
      BY <2>1, <2>2, InvokeType DEF Stages
  <1>3. ASSUME Unplug PROVE TypeOK'
    <2>1. /\ UNCHANGED <<op, file, stage, pc, sent, crc, ret, port>>
          /\ UNCHANGED <<mode, flash, next, flips, clean, refused, looped>>
          /\ requests' = << >> /\ replies' = << >> /\ plugged' = FALSE
      BY <1>3 DEF Unplug, program, brick, history
    <2>2. requests' \in Seq(Req) /\ replies' \in Seq(Rep) /\ plugged' \in BOOLEAN
      BY <2>1, EmptySeq
    <2>. QED
      BY <2>1, <2>2 DEF TypeOK, Req, Rep
  <1>4. ASSUME bootloader_erase \/ bootloader_start \/ bootloader_checksum \/ bootloader_exit
               \/ bootloader_info
        PROVE  TypeOK'
    BY <1>0, <1>t, <1>4, WriteType DEF bootloader_erase, bootloader_start, bootloader_checksum,
         bootloader_exit, bootloader_info, Stages
  <1>5. ASSUME bootloader_send PROVE TypeOK'
    <2>1. Payload \in Seq(Byte)
      BY <1>t, PayloadType
    <2>2. Payload \in Seq(Data)
      <3>1. Seq(Byte) \subseteq Seq(Data)
        BY DEF Data
      <3>. QED
        BY <2>1, <3>1
    <2>3. crc' \in Crcs
      BY <1>t, <1>5, <2>2, CrcType DEF bootloader_send
    <2>. HIDE DEF Payload
    <2>. QED
      BY <1>5, <1>t, <2>1, <2>3, WriteType DEF bootloader_send, Stages
  <1>6. ASSUME EraseReply PROVE TypeOK'
    <2>1. Read("FW_ERASEFLASH") /\ sent' = sent /\ crc' = crc
      BY <1>6 DEF EraseReply
    <2>2. stage' \in Stages /\ pc' \in {"write", "exited"} /\ ret' \in ERR \cup {"running"}
      BY <1>6, <1>t, <1>e DEF EraseReply, Goto, Deny, Exit, Stages
    <2>. QED
      BY <1>t, <2>1, <2>2, ReadType
  <1>7. ASSUME StartReply PROVE TypeOK'
    <2>1. Read("FW_START_DOWNLOAD") /\ sent' = sent /\ crc' = crc
      BY <1>7 DEF StartReply
    <2>2. stage' \in Stages /\ pc' \in {"write", "exited"} /\ ret' \in ERR \cup {"running"}
      BY <1>7, <1>t, <1>e DEF StartReply, AfterBlock, Goto, Deny, Exit, Stages
    <2>. QED
      BY <1>t, <2>1, <2>2, ReadType
  <1>8. ASSUME SendReply PROVE TypeOK'
    <2>1. Read("FW_DOWNLOAD_DATA") /\ (sent' = sent \/ sent' = sent + this_block) /\ crc' = crc
      BY <1>8 DEF SendReply
    <2>2. stage' \in Stages /\ pc' \in {"write", "exited"} /\ ret' \in ERR \cup {"running"}
      BY <1>8, <1>t, <1>e DEF SendReply, AfterBlock, Goto, Deny, Exit, Stages
    <2>3. sent' \in 0 .. FLASH_SIZE
      BY <1>t, <2>1, BlockSize
    <2>. QED
      BY <1>t, <2>1, <2>2, <2>3, ReadType
  <1>9. ASSUME ChecksumReply PROVE TypeOK'
    <2>1. Read("FW_GETCRC32") /\ sent' = sent /\ crc' = crc
      BY <1>9 DEF ChecksumReply
    <2>2. \/ pc' = "write" /\ stage' = "FW_STARTAPP" /\ ret' = ret
          \/ pc' = "exited" /\ stage' = stage /\ ret' \in {"ERR_IO", "ERR_VM"}
      BY <1>9 DEF ChecksumReply, Goto, Deny, Exit
    <2>3. stage' \in Stages /\ pc' \in {"write", "exited"} /\ ret' \in ERR \cup {"running"}
      BY <1>t, <1>e, <2>2 DEF Stages
    <2>. QED
      BY <1>t, <2>1, <2>3, ReadType
  <1>10. ASSUME ExitReply PROVE TypeOK'
    <2>1. Read("FW_STARTAPP") /\ sent' = sent /\ crc' = crc
      BY <1>10 DEF ExitReply
    <2>2. stage' \in Stages /\ pc' \in {"write", "exited"} /\ ret' \in ERR \cup {"running"}
      BY <1>10, <1>t, <1>e DEF ExitReply, Deny, Exit, Stages
    <2>. QED
      BY <1>t, <2>1, <2>2, ReadType
  <1>11. ASSUME InfoReply PROVE TypeOK'
    <2>1. Read("FW_GETVERSION") /\ stage' = stage /\ sent' = sent /\ crc' = crc /\ pc' = "exited"
      BY <1>11 DEF InfoReply, Exit
    <2>2. ret' \in {"ERR_USBLOOP", "ERR_UNK", "ERR_VM"}
      BY <1>11, ProtocolCodes DEF InfoReply, Exit
    <2>3. stage' \in Stages /\ pc' \in {"write", "exited"} /\ ret' \in ERR \cup {"running"}
      BY <1>t, <1>e, <2>1, <2>2
    <2>. QED
      BY <1>t, <2>1, <2>3, ReadType
  <1>12. ASSUME bootloader_enter PROVE TypeOK'
    <2>1. requests \in Seq(Req) /\ Packet("ENTERFWUPDATE", << >>) \in Req
      BY <1>0 DEF TypeOK, Req, Packet, Stages
    <2>2. Append(requests, Packet("ENTERFWUPDATE", << >>)) \in Seq(Req)
      BY <2>1, AppendProperties
    <2>3. requests' \in Seq(Req)
      BY <1>12, <2>1, <2>2 DEF bootloader_enter
    <2>4. pc' = "exited" /\ ret' \in ERR
      BY <1>12, <1>e DEF bootloader_enter, Exit
    <2>5. /\ UNCHANGED <<op, file, stage, sent, crc, replies, plugged, port>>
          /\ UNCHANGED <<mode, flash, next, flips, clean, refused, looped>>
      BY <1>12 DEF bootloader_enter, brick, history
    <2>. QED
      BY <2>3, <2>4, <2>5 DEF TypeOK, Req
  <1>13. ASSUME ReadFails PROVE TypeOK'
    <2>1. /\ UNCHANGED <<op, file, stage, sent, crc, requests, replies, plugged, port>>
          /\ UNCHANGED <<mode, flash, next, flips, clean, refused, looped>>
          /\ pc' = "exited" /\ ret' = "ERR_COMM"
      BY <1>13 DEF ReadFails, Exit, brick, history
    <2>. QED
      BY <1>e, <2>1 DEF TypeOK
  <1>14. ASSUME BrickErase PROVE TypeOK'
    <2>1. CASE Refuse
      BY <1>14, <2>1, RefuseType DEF BrickErase
    <2>2. CASE flash' = Blank /\ flips' = 0 /\ next' = -1 /\ Answer(VM_OK, 0) /\ Done /\ UNCHANGED mode
      <3>1. flash' \in [Cells -> Byte \cup {Erased}]
        BY <2>2 DEF Blank
      <3>2. next' \in -1 .. FLASH_SIZE /\ flips' \in 0 .. MaxFlips
        BY <1>t, <2>2, GeometryAssumption DEF GeometryAssumption
      <3>. QED
        BY <1>0, <1>14, <2>2, <3>1, <3>2, ServeType DEF BrickErase
    <2>. QED
      BY <1>14, <2>1, <2>2 DEF BrickErase
  <1>15. ASSUME BrickStart PROVE TypeOK'
    <2>1. CASE Refuse
      BY <1>15, <2>1, RefuseType DEF BrickStart
    <2>2. CASE next' = 0 /\ Answer(VM_OK, 0) /\ Done /\ UNCHANGED <<mode, flash, flips>>
      <3>1. flash' \in [Cells -> Byte \cup {Erased}] /\ next' \in -1 .. FLASH_SIZE
            /\ flips' \in 0 .. MaxFlips
        BY <1>t, <2>2 DEF TypeOK
      <3>. QED
        BY <1>0, <1>15, <2>2, <3>1, ServeType DEF BrickStart
    <2>. QED
      BY <1>15, <2>1, <2>2 DEF BrickStart
  <1>16. ASSUME BrickData PROVE TypeOK'
    <2>1. CASE Refuse
      BY <1>16, <2>1, RefuseType DEF BrickData
    <2>2. CASE ~Refuse
      <3>. DEFINE data == Head(requests).data
      <3>1. Serve("FW_DOWNLOAD_DATA") /\ requests # << >>
        BY <1>16 DEF BrickData, Serve
      <3>2. data \in Seq(Byte)
        BY <3>1, RequestsTail DEF Req
      <3>3. /\ next >= 0 /\ next + Len(data) <= FLASH_SIZE
            /\ next' = next + Len(data)
            /\ Programs(data)
            /\ Answer(VM_OK, 0) /\ Done /\ UNCHANGED mode
        BY <1>16, <2>2 DEF BrickData, Programs
      <3>4. next' \in -1 .. FLASH_SIZE
        BY <1>t, <3>2, <3>3, LenProperties DEF TypeOK
      <3>. HIDE DEF data
      <3>5. flash' \in [Cells -> Byte \cup {Erased}] /\ flips' \in 0 .. MaxFlips
        BY <3>2, <3>3, ProgramsType
      <3>. QED
        BY <1>0, <3>1, <3>3, <3>4, <3>5, ServeType
    <2>. QED
      BY <2>1, <2>2
  <1>17. ASSUME BrickCrc PROVE TypeOK'
    <2>1. CASE Refuse
      BY <1>17, <2>1, RefuseType DEF BrickCrc
    <2>2. CASE Answer(VM_OK, crc32(0, flash)) /\ Done /\ UNCHANGED brick
      <3>1. flash' \in [Cells -> Byte \cup {Erased}] /\ next' \in -1 .. FLASH_SIZE
            /\ flips' \in 0 .. MaxFlips /\ UNCHANGED mode
        BY <2>2 DEF TypeOK, brick
      <3>2. flash \in Seq(Data)
        <4>1. flash \in [1 .. FLASH_SIZE -> Data]
          BY DEF TypeOK, Cells, Data
        <4>. QED
          BY <1>t, <4>1, IsASeq
      <3>3. crc32(0, flash) \in Crcs
        BY <1>0, <3>2, CrcType
      <3>. QED
        BY <1>17, <2>2, <3>1, <3>3, ServeType DEF BrickCrc
    <2>. QED
      BY <1>17, <2>1, <2>2 DEF BrickCrc
  <1>18. ASSUME BrickVersion PROVE TypeOK'
    <2>1. CASE Refuse
      BY <1>18, <2>1, RefuseType DEF BrickVersion
    <2>2. CASE Answer(VM_OK, 0) /\ Done /\ UNCHANGED brick
      <3>1. flash' \in [Cells -> Byte \cup {Erased}] /\ next' \in -1 .. FLASH_SIZE
            /\ flips' \in 0 .. MaxFlips /\ UNCHANGED mode
        BY <2>2 DEF TypeOK, brick
      <3>. QED
        BY <1>0, <1>18, <2>2, <3>1, ServeType DEF BrickVersion
    <2>. QED
      BY <1>18, <2>1, <2>2 DEF BrickVersion
  <1>19. ASSUME BrickStartApp PROVE TypeOK'
    <2>1. CASE Refuse
      BY <1>19, <2>1, RefuseType DEF BrickStartApp
    <2>2. CASE ~Refuse
      <3>1. /\ mode' = "linux" /\ next' = -1 /\ requests' = << >>
            /\ Answer(VM_OK, 0) \/ UNCHANGED <<replies, looped>>
            /\ UNCHANGED <<flash, flips, refused>>
            /\ requests # << >>
            /\ UNCHANGED <<op, file, stage, pc, sent, crc, ret, plugged, port, clean>>
        BY <1>19, <2>2 DEF BrickStartApp, Serve, program
      <3>2. replies' \in Seq(Rep) /\ looped' \in BOOLEAN
        <4>1. CASE Answer(VM_OK, 0)
          BY <1>0, <3>1, <4>1, AnswerIs
        <4>2. CASE UNCHANGED <<replies, looped>>
          BY <4>2 DEF TypeOK, Rep
        <4>. QED
          BY <3>1, <4>1, <4>2
      <3>3. requests' \in Seq(Req) /\ next' \in -1 .. FLASH_SIZE
        BY <1>t, <3>1, EmptySeq
      <3>. QED
        BY <3>1, <3>2, <3>3 DEF TypeOK, Req, Rep
    <2>. QED
      BY <2>1, <2>2
  <1>20. ASSUME BrickEnter PROVE TypeOK'
    <2>1. /\ mode' = "bootloader" /\ requests' = << >> /\ replies' = << >>
          /\ UNCHANGED <<flash, next, flips, refused, looped>>
          /\ UNCHANGED <<op, file, stage, pc, sent, crc, ret, plugged, port, clean>>
      BY <1>20 DEF BrickEnter, Serve, program
    <2>2. requests' \in Seq(Req) /\ replies' \in Seq(Rep)
      BY <2>1, EmptySeq
    <2>. QED
      BY <2>1, <2>2 DEF TypeOK, Req, Rep
  <1>21. ASSUME UNCHANGED vars PROVE TypeOK'
    BY <1>21 DEF TypeOK, vars, program, brick, history
  <1>. QED
    BY <1>1, <1>2, <1>3, <1>4, <1>5, <1>6, <1>7, <1>8, <1>9, <1>10, <1>11, <1>12, <1>13,
       <1>14, <1>15, <1>16, <1>17, <1>18, <1>19, <1>20, <1>21 DEF Next, User, Command, Brick


-----------------------------------------------------------------------------
(***************************************************************************)
(* The invariants that hold whatever was in flight when the invocation     *)
(* began.                                                                  *)
(***************************************************************************)

Runs == RunEnter \/ RunInfo \/ RunExit \/ RunInstall

\* The requests that carry no data and are answered.
Asks ==
  \/ bootloader_erase \/ bootloader_start \/ bootloader_checksum
  \/ bootloader_exit \/ bootloader_info

LEMMA RunIs ==
  ASSUME Runs
  PROVE  /\ pc \in {"idle", "exited"} /\ sent' = 0 /\ crc' = 0 /\ plugged' = TRUE
         /\ \/ op' = "install" /\ stage' = "FW_ERASEFLASH"
            \/ op' # "install" /\ stage' \in {"ENTERFWUPDATE", "FW_GETVERSION", "FW_STARTAPP"}
         /\ \/ pc' = "write" /\ ret' = "running"
            \/ pc' = "exited" /\ ret' = "ERR_COMM"
         /\ op' = "install" /\ pc' = "write" => mode = "bootloader"
         /\ clean' = (requests' = << >> /\ replies' = << >>)
         /\ refused' = FALSE /\ looped' = FALSE
         /\ UNCHANGED <<mode, flash, next, flips>>
  BY DEF Runs, RunEnter, RunInfo, RunExit, RunInstall, Invoke, brick

LEMMA AskIs ==
  ASSUME TypeOK, Asks
  PROVE  /\ pc = "write" /\ stage # "ENTERFWUPDATE" /\ stage # "FW_DOWNLOAD_DATA"
         /\ \/ /\ plugged /\ pc' = "read" /\ ret' = ret
               /\ requests' = Append(requests, Packet(stage, << >>))
            \/ pc' = "exited" /\ ret' = "ERR_COMM" /\ requests' = requests
         /\ UNCHANGED <<op, file, stage, sent, crc, replies, plugged, mode, flash, next, flips,
                        clean, refused, looped>>
  BY DEF Asks, bootloader_erase, bootloader_start, bootloader_checksum, bootloader_exit,
     bootloader_info, Write, Exit, brick, history

LEMMA SendIs ==
  ASSUME bootloader_send
  PROVE  /\ pc = "write" /\ stage = "FW_DOWNLOAD_DATA" /\ crc' = crc32(crc, Payload)
         /\ \/ /\ plugged /\ pc' = "read" /\ ret' = ret
               /\ requests' = Append(requests, Packet(stage, Payload))
            \/ pc' = "exited" /\ ret' = "ERR_COMM" /\ requests' = requests
         /\ UNCHANGED <<op, file, stage, sent, replies, plugged, mode, flash, next, flips,
                        clean, refused, looped>>
  BY DEF bootloader_send, Write, Exit, brick, history

LEMMA EnterIs ==
  ASSUME bootloader_enter
  PROVE  /\ pc = "write" /\ stage = "ENTERFWUPDATE" /\ pc' = "exited" /\ ret' \in {"ERR_UNK", "ERR_COMM"}
         /\ \/ requests' = requests
            \/ plugged /\ requests' = Append(requests, Packet(stage, << >>))
         /\ UNCHANGED <<op, file, stage, sent, crc, replies, plugged, mode, flash, next, flips,
                        clean, refused, looped>>
  BY DEF bootloader_enter, Exit, brick, history

\* The steps that read a reply: each either goes on, after a reply that is
\* accepted, or ends the command.
Replies ==
  EraseReply \/ StartReply \/ SendReply \/ ChecksumReply \/ ExitReply \/ InfoReply

GoesOn ==
  /\ Accepted(Head(replies)) /\ pc' = "write" /\ ret' = ret
  /\ \/ stage = "FW_ERASEFLASH" /\ stage' = "FW_START_DOWNLOAD" /\ sent' = sent
     \/ /\ stage = "FW_START_DOWNLOAD" /\ sent' = sent
        /\ stage' = IF 0 < FLASH_SIZE THEN "FW_DOWNLOAD_DATA" ELSE "FW_GETCRC32"
     \/ /\ stage = "FW_DOWNLOAD_DATA" /\ sent' = sent + this_block
        /\ stage' = IF sent + this_block < FLASH_SIZE THEN "FW_DOWNLOAD_DATA" ELSE "FW_GETCRC32"
     \/ /\ stage = "FW_GETCRC32" /\ stage' = "FW_STARTAPP" /\ sent' = sent
        /\ Head(replies).type = VM_OK => crc \in RemoteCrc(Head(replies))

EndsHere ==
  /\ pc' = "exited" /\ stage' = stage /\ sent' = sent
  /\ ret' \in ERR \cup {"running"}
  /\ ret' = "ERR_UNK" =>
       \/ stage = "FW_STARTAPP" /\ Accepted(Head(replies))
       \/ stage = "FW_GETVERSION"

LEMMA ReplyIs ==
  ASSUME TypeOK, Replies
  PROVE  /\ pc = "read" /\ replies # << >> /\ replies' = Tail(replies) /\ crc' = crc
         /\ GoesOn \/ EndsHere
         /\ UNCHANGED <<op, file, requests, plugged, mode, flash, next, flips, clean, refused, looped>>
  <1>1. /\ pc = "read" /\ replies # << >> /\ replies' = Tail(replies) /\ crc' = crc
        /\ UNCHANGED <<op, file, requests, plugged, mode, flash, next, flips, clean, refused, looped>>
    BY DEF Replies, EraseReply, StartReply, SendReply, ChecksumReply, ExitReply, InfoReply, Read,
       brick, history
  <1>e. {"ERR_COMM", "ERR_VM", "ERR_IO", "ERR_UNK", "ERR_USBLOOP"} \subseteq ERR
    BY DEF ERR
  <1>2. ASSUME EraseReply PROVE GoesOn \/ EndsHere
    BY <1>2, <1>e DEF EraseReply, Read, Goto, Deny, Exit, GoesOn, EndsHere
  <1>3. ASSUME StartReply PROVE GoesOn \/ EndsHere
    BY <1>3, <1>e DEF StartReply, AfterBlock, Read, Goto, Deny, Exit, GoesOn, EndsHere
  <1>4. ASSUME SendReply PROVE GoesOn \/ EndsHere
    BY <1>4, <1>e DEF SendReply, AfterBlock, Read, Goto, Deny, Exit, GoesOn, EndsHere
  <1>5. ASSUME ChecksumReply PROVE GoesOn \/ EndsHere
    <2>. DEFINE reply == Head(replies)
    <2>1. stage = "FW_GETCRC32" /\ sent' = sent
      BY <1>5 DEF ChecksumReply, Read
    <2>2. CASE reply.type = VM_SYS_RQ
      <3>1. Goto("FW_STARTAPP")
        BY <1>5, <2>2, ProtocolCodes DEF ChecksumReply
      <3>. QED
        BY <2>1, <2>2, <3>1, ProtocolCodes DEF Goto, GoesOn, Accepted
    <2>3. CASE reply.type = VM_OK
      <3>1. \E remote \in RemoteCrc(reply) :
              IF remote = crc THEN Goto("FW_STARTAPP")
                              ELSE Exit("ERR_IO") /\ UNCHANGED stage
        BY <1>5, <2>3, ProtocolCodes DEF ChecksumReply
      <3>. QED
        BY <2>1, <2>3, <3>1, <1>e DEF Goto, Exit, GoesOn, EndsHere, Accepted
    <2>4. CASE reply.type # VM_SYS_RQ /\ reply.type # VM_OK
      <3>1. Deny
        BY <1>5, <2>4 DEF ChecksumReply
      <3>. QED
        BY <2>1, <3>1, <1>e DEF Deny, Exit, EndsHere
    <2>. QED
      BY <2>2, <2>3, <2>4
  <1>6. ASSUME ExitReply PROVE GoesOn \/ EndsHere
    BY <1>6, <1>e DEF ExitReply, Read, Deny, Exit, EndsHere
  <1>7. ASSUME InfoReply PROVE GoesOn \/ EndsHere
    <2>1. ret' \in {"ERR_USBLOOP", "ERR_UNK", "ERR_VM"}
      BY <1>7, ProtocolCodes DEF InfoReply, Exit
    <2>. QED
      BY <1>7, <1>e, <2>1 DEF InfoReply, Read, Exit, EndsHere
  <1>. QED
    BY <1>1, <1>2, <1>3, <1>4, <1>5, <1>6, <1>7 DEF Replies

LEMMA FailIs ==
  ASSUME ReadFails
  PROVE  /\ pc = "read" /\ pc' = "exited" /\ ret' = "ERR_COMM"
         /\ ~plugged \/ stage \in {"FW_STARTAPP", "FW_GETVERSION"}
         /\ UNCHANGED <<op, file, stage, sent, crc, requests, replies, plugged, mode, flash, next,
                        flips, clean, refused, looped>>
  BY DEF ReadFails, Exit, brick, history

LEMMA UnplugIs ==
  ASSUME Unplug
  PROVE  /\ plugged' = FALSE /\ requests' = << >> /\ replies' = << >>
         /\ UNCHANGED <<op, file, stage, pc, sent, crc, ret, mode, flash, next, flips,
                        clean, refused, looped>>
  BY DEF Unplug, program, brick, history

\* Only one request is served at a time, and only FW_STARTAPP and
\* ENTERFWUPDATE change the mode.
LEMMA BrickFrame ==
  ASSUME Brick
  PROVE  /\ requests # << >>
         /\ UNCHANGED <<op, file, stage, pc, sent, crc, ret, plugged, clean>>
  BY DEF Brick, BrickErase, BrickStart, BrickData, BrickCrc, BrickVersion, BrickStartApp,
     BrickEnter, Serve, program

LEMMA NextIs ==
  ASSUME [Next]_vars
  PROVE  \/ Runs \/ Unplug \/ Asks \/ bootloader_send \/ bootloader_enter \/ Replies \/ ReadFails
         \/ Brick \/ UNCHANGED vars
  BY DEF Next, User, Command, Runs, Asks, Replies

LEMMA StageStep ==
  ASSUME TypeOK, StageInv, ReturnInv, [Next]_vars
  PROVE  StageInv' /\ ReturnInv'
  <1>1. CASE Runs
    BY <1>1, RunIs DEF StageInv, ReturnInv
  <1>2. CASE Unplug
    BY <1>2, UnplugIs DEF StageInv, ReturnInv
  <1>3. CASE Asks
    BY <1>3, AskIs DEF StageInv, ReturnInv
  <1>4. CASE bootloader_send
    BY <1>4, SendIs DEF StageInv, ReturnInv
  <1>5. CASE bootloader_enter
    BY <1>5, EnterIs DEF StageInv, ReturnInv
  <1>6. CASE Replies
    BY <1>6, ReplyIs DEF StageInv, ReturnInv, GoesOn, EndsHere
  <1>7. CASE ReadFails
    BY <1>7, FailIs DEF StageInv, ReturnInv
  <1>8. CASE Brick
    BY <1>8, BrickFrame DEF StageInv, ReturnInv
  <1>9. CASE UNCHANGED vars
    BY <1>9 DEF StageInv, ReturnInv, vars, program
  <1>. QED
    BY <1>1, <1>2, <1>3, <1>4, <1>5, <1>6, <1>7, <1>8, <1>9, NextIs


\* A reply of the brick to the first request, or that request looped back.
Replied(t, c) ==
  /\ replies' = Append(replies, [type |-> t, cmd |-> requests[1].cmd, crc |-> c,
                                 own |-> requests[1].own])
  /\ t = VM_SYS_RQ /\ requests[1].own => looped'
  /\ looped => looped'

Refuses ==
  /\ Replied(VM_ERROR, 0) \/ Replied(VM_SYS_RQ, 0)
  /\ requests' = Tail(requests)
  /\ refused' => refused \/ requests[1].own
  /\ UNCHANGED <<mode, flash, next, flips>>

Serves(c) ==
  /\ Replied(VM_OK, c) \/ Replied(VM_SYS_RQ, c)
  /\ requests' = Tail(requests)
  /\ UNCHANGED <<mode, refused>>

LEMMA AnswerReplies ==
  ASSUME TypeOK, requests # << >>, NEW type \in {VM_OK, VM_ERROR}, NEW c \in Crcs,
         Answer(type, c)
  PROVE  Replied(type, c) \/ Replied(VM_SYS_RQ, c)
  <1>1. PICK t \in {type, VM_SYS_RQ} : Replied(t, c)
    BY AnswerIs DEF Replied
  <1>. QED
    BY <1>1

LEMMA RefuseIs ==
  ASSUME TypeOK, requests # << >>, Refuse
  PROVE  Refuses
  <1>1. 0 \in Crcs /\ Answer(VM_ERROR, 0) /\ Head(requests) = requests[1]
    BY RequestsTail, CrcAssumption DEF CrcAssumption, Refuse
  <1>2. Replied(VM_ERROR, 0) \/ Replied(VM_SYS_RQ, 0)
    BY <1>1, AnswerReplies
  <1>3. refused' => refused \/ requests[1].own
    BY <1>1 DEF Refuse
  <1>. QED
    BY <1>2, <1>3 DEF Refuses, Refuse, brick

LEMMA ServeIs ==
  ASSUME TypeOK, requests # << >>, NEW c \in Crcs, Answer(VM_OK, c), Done, UNCHANGED mode
  PROVE  Serves(c)
  BY AnswerReplies DEF Serves, Done

\* What the brick does to each request.
EraseServed == Serves(0) /\ flash' = Blank /\ flips' = 0 /\ next' = -1
StartServed == Serves(0) /\ next' = 0 /\ UNCHANGED <<flash, flips>>
DataServed ==
  /\ next >= 0 /\ next + Len(requests[1].data) <= FLASH_SIZE
  /\ next' = next + Len(requests[1].data)
  /\ Programs(requests[1].data)
  /\ Serves(0)
CrcServed == Serves(crc32(0, flash)) /\ UNCHANGED <<flash, next, flips>>
VersionServed == Serves(0) /\ UNCHANGED <<flash, next, flips>>
AppServed ==
  /\ Replied(VM_OK, 0) \/ Replied(VM_SYS_RQ, 0) \/ UNCHANGED <<replies, looped>>
  /\ requests' = << >> /\ mode' = "linux" /\ UNCHANGED <<flash, flips, refused>>
EnterServed ==
  /\ requests' = << >> /\ replies' = << >> /\ mode = "linux" /\ mode' = "bootloader"
  /\ UNCHANGED <<flash, next, flips, refused, looped>>

BrickDoes ==
  \/ Refuses
  \/ requests[1].cmd = "FW_ERASEFLASH" /\ EraseServed
  \/ requests[1].cmd = "FW_START_DOWNLOAD" /\ StartServed
  \/ requests[1].cmd = "FW_DOWNLOAD_DATA" /\ DataServed
  \/ requests[1].cmd = "FW_GETCRC32" /\ CrcServed
  \/ requests[1].cmd = "FW_GETVERSION" /\ VersionServed
  \/ requests[1].cmd = "FW_STARTAPP" /\ AppServed
  \/ requests[1].cmd = "ENTERFWUPDATE" /\ EnterServed

LEMMA FlashIsData ==
  ASSUME TypeOK
  PROVE  flash \in Seq(Data) /\ crc32(0, flash) \in Crcs
  <1>1. flash \in [1 .. FLASH_SIZE -> Data] /\ FLASH_SIZE \in Nat
    BY GeometryAssumption DEF TypeOK, Cells, Data, GeometryAssumption
  <1>2. flash \in Seq(Data)
    BY <1>1, IsASeq
  <1>3. 0 \in Crcs
    BY CrcAssumption DEF CrcAssumption
  <1>. QED
    BY <1>2, <1>3, CrcType

LEMMA BrickIs ==
  ASSUME TypeOK, Brick
  PROVE  /\ requests # << >> /\ BrickDoes
         /\ UNCHANGED <<op, file, stage, pc, sent, crc, ret, plugged, clean>>
  <1>1. /\ requests # << >>
        /\ UNCHANGED <<op, file, stage, pc, sent, crc, ret, plugged, clean>>
    BY BrickFrame
  <1>2. Head(requests) = requests[1] /\ 0 \in Crcs /\ crc32(0, flash) \in Crcs
    BY <1>1, RequestsTail, FlashIsData, CrcAssumption DEF CrcAssumption
  <1>3. CASE Refuse
    BY <1>1, <1>3, RefuseIs DEF BrickDoes
  <1>4. ASSUME BrickErase, ~Refuse PROVE BrickDoes
    <2>1. /\ requests[1].cmd = "FW_ERASEFLASH" /\ flash' = Blank /\ flips' = 0 /\ next' = -1
          /\ Answer(VM_OK, 0) /\ Done /\ UNCHANGED mode
      BY <1>2, <1>4 DEF BrickErase, Serve
    <2>. QED
      BY <1>1, <1>2, <2>1, ServeIs DEF BrickDoes, EraseServed
  <1>5. ASSUME BrickStart, ~Refuse PROVE BrickDoes
    <2>1. /\ requests[1].cmd = "FW_START_DOWNLOAD" /\ next' = 0
          /\ Answer(VM_OK, 0) /\ Done /\ UNCHANGED <<mode, flash, flips>>
      BY <1>2, <1>5 DEF BrickStart, Serve
    <2>. QED
      BY <1>1, <1>2, <2>1, ServeIs DEF BrickDoes, StartServed
  <1>6. ASSUME BrickData, ~Refuse PROVE BrickDoes
    <2>. DEFINE data == Head(requests).data
    <2>1. requests[1].cmd = "FW_DOWNLOAD_DATA" /\ data = requests[1].data
      BY <1>2, <1>6 DEF BrickData, Serve
    <2>2. /\ next >= 0 /\ next + Len(data) <= FLASH_SIZE
          /\ next' = next + Len(data)
          /\ Programs(data)
          /\ Answer(VM_OK, 0) /\ Done /\ UNCHANGED mode
      BY <1>6 DEF BrickData, Programs
    <2>. HIDE DEF data
    <2>3. Serves(0)
      BY <1>1, <1>2, <2>2, ServeIs
    <2>. QED
      BY <2>1, <2>2, <2>3 DEF BrickDoes, DataServed
  <1>7. ASSUME BrickCrc, ~Refuse PROVE BrickDoes
    <2>1. /\ requests[1].cmd = "FW_GETCRC32"
          /\ Answer(VM_OK, crc32(0, flash)) /\ Done /\ UNCHANGED <<mode, flash, next, flips>>
      BY <1>2, <1>7 DEF BrickCrc, Serve, brick
    <2>. QED
      BY <1>1, <1>2, <2>1, ServeIs DEF BrickDoes, CrcServed
  <1>8. ASSUME BrickVersion, ~Refuse PROVE BrickDoes
    <2>1. /\ requests[1].cmd = "FW_GETVERSION"
          /\ Answer(VM_OK, 0) /\ Done /\ UNCHANGED <<mode, flash, next, flips>>
      BY <1>2, <1>8 DEF BrickVersion, Serve, brick
    <2>. QED
      BY <1>1, <1>2, <2>1, ServeIs DEF BrickDoes, VersionServed
  <1>9. ASSUME BrickStartApp, ~Refuse PROVE BrickDoes
    <2>1. /\ requests[1].cmd = "FW_STARTAPP" /\ mode' = "linux"
          /\ Answer(VM_OK, 0) \/ UNCHANGED <<replies, looped>>
          /\ requests' = << >>
          /\ UNCHANGED <<flash, flips, refused>>
      BY <1>2, <1>9 DEF BrickStartApp, Serve
    <2>2. Replied(VM_OK, 0) \/ Replied(VM_SYS_RQ, 0) \/ UNCHANGED <<replies, looped>>
      BY <1>1, <1>2, <2>1, AnswerReplies
    <2>. QED
      BY <2>1, <2>2 DEF BrickDoes, AppServed
  <1>10. ASSUME BrickEnter PROVE BrickDoes
    BY <1>2, <1>10 DEF BrickEnter, Serve, BrickDoes, EnterServed
  <1>. QED
    BY <1>1, <1>3, <1>4, <1>5, <1>6, <1>7, <1>8, <1>9, <1>10 DEF Brick

LEMMA AppendIs ==
  ASSUME NEW S, NEW s \in Seq(S), NEW e
  PROVE  /\ Len(s) \in Nat /\ Len(Append(s, e)) = Len(s) + 1 /\ Append(s, e) # << >>
         /\ \A j \in 1 .. Len(s) : Append(s, e)[j] = s[j]
         /\ Append(s, e)[Len(s) + 1] = e
  <1>1. s \in Seq(S \cup {e}) /\ e \in S \cup {e}
    <2>1. Seq(S) \subseteq Seq(S \cup {e})
      OBVIOUS
    <2>. QED
      BY <2>1
  <1>. QED
    BY <1>1, AppendProperties, LenProperties, EmptySeq

LEMMA UnpluggedStep ==
  ASSUME TypeOK, UnpluggedInv, [Next]_vars
  PROVE  UnpluggedInv'
  <1>1. CASE Runs \/ Unplug \/ Asks \/ bootloader_send \/ bootloader_enter
    BY <1>1, RunIs, UnplugIs, AskIs, SendIs, EnterIs DEF UnpluggedInv
  <1>2. CASE Replies \/ ReadFails
    BY <1>2, ReplyIs, FailIs DEF UnpluggedInv
  <1>3. CASE Brick
    BY <1>3, BrickFrame DEF UnpluggedInv, TypeOK
  <1>4. CASE UNCHANGED vars
    BY <1>4 DEF UnpluggedInv, vars
  <1>. QED
    BY <1>1, <1>2, <1>3, <1>4, NextIs

LEMMA NoEnterStep ==
  ASSUME TypeOK, StageInv, NoEnter, [Next]_vars
  PROVE  NoEnter'
  <1>t. requests \in Seq(Req) /\ mode \in {"linux", "bootloader"}
    BY DEF TypeOK, Req
  <1>1. CASE Runs
    BY <1>1, <1>t, RunIs DEF NoEnter, Unfailed
  <1>2. CASE Unplug
    BY <1>2, UnplugIs, EmptySeq DEF NoEnter, Unfailed
  <1>3. ASSUME NEW d, requests' = Append(requests, Packet(stage, d)), stage # "ENTERFWUPDATE",
               pc = "write", UNCHANGED <<op, mode>>
        PROVE  NoEnter'
    <2>. SUFFICES ASSUME op = "install", mode = "linux", NEW j \in 1 .. Len(requests')
                  PROVE  requests'[j].cmd # "ENTERFWUPDATE"
      BY <1>3 DEF NoEnter
    <2>1. \A k \in 1 .. Len(requests) : requests[k].cmd # "ENTERFWUPDATE"
      BY <1>3 DEF NoEnter, Unfailed
    <2>2. /\ Len(requests) \in Nat /\ Len(requests') = Len(requests) + 1
          /\ \A k \in 1 .. Len(requests) : requests'[k] = requests[k]
          /\ requests'[Len(requests) + 1] = Packet(stage, d)
      BY <1>3, <1>t, AppendIs
    <2>3. CASE j \in 1 .. Len(requests)
      BY <2>1, <2>2, <2>3
    <2>4. CASE j = Len(requests) + 1
      BY <1>3, <2>2, <2>4 DEF Packet
    <2>. QED
      BY <2>2, <2>3, <2>4
  <1>4. CASE Asks
    <2>1. CASE requests' = requests
      BY <1>4, <2>1, AskIs DEF NoEnter, Unfailed
    <2>. QED
      BY <1>3, <1>4, <2>1, AskIs
  <1>5. CASE bootloader_send
    <2>1. CASE requests' = requests
      BY <1>5, <2>1, SendIs DEF NoEnter, Unfailed
    <2>. QED
      BY <1>3, <1>5, <2>1, SendIs
  <1>6. CASE bootloader_enter
    BY <1>6, EnterIs DEF NoEnter, StageInv
  <1>7. CASE Replies
    BY <1>7, ReplyIs DEF NoEnter, Unfailed
  <1>8. CASE ReadFails
    BY <1>8, FailIs DEF NoEnter, Unfailed
  <1>9. CASE Brick
    <2>1. /\ requests # << >> /\ BrickDoes /\ UNCHANGED <<op, pc, ret>>
      BY <1>9, BrickIs
    <2>2. \/ requests' = Tail(requests) /\ UNCHANGED mode
          \/ requests' = << >>
      BY <2>1 DEF BrickDoes, Refuses, EraseServed, StartServed, DataServed, CrcServed,
         VersionServed, AppServed, EnterServed, Serves
    <2>3. CASE requests' = Tail(requests) /\ UNCHANGED mode
      BY <2>1, <2>3, RequestsTail DEF NoEnter, Unfailed
    <2>4. CASE requests' = << >>
      BY <2>4, EmptySeq DEF NoEnter
    <2>. QED
      BY <2>2, <2>3, <2>4
  <1>10. CASE UNCHANGED vars
    BY <1>10 DEF NoEnter, Unfailed, vars, program, brick
  <1>. QED
    BY <1>1, <1>2, <1>4, <1>5, <1>6, <1>7, <1>8, <1>9, <1>10, NextIs

LEMMA RefusalStep ==
  ASSUME TypeOK, StageInv, NoEnter, RefusalInFlight, [Next]_vars
  PROVE  RefusalInFlight'
  <1>t. replies \in Seq(Rep)
    BY DEF TypeOK, Rep
  <1>1. CASE Runs
    BY <1>1, RunIs DEF RefusalInFlight
  <1>2. CASE Unplug
    BY <1>2, UnplugIs DEF RefusalInFlight
  <1>3. CASE Asks \/ bootloader_send \/ bootloader_enter
    BY <1>3, AskIs, SendIs, EnterIs DEF RefusalInFlight, Unfailed, StageInv
  <1>4. CASE Replies
    <2>1. /\ pc = "read" /\ replies # << >> /\ replies' = Tail(replies)
          /\ GoesOn \/ EndsHere
          /\ UNCHANGED <<op, plugged, refused, looped>>
      BY <1>4, ReplyIs
    <2>2. CASE EndsHere /\ ret' # "ERR_UNK"
      BY <2>2 DEF EndsHere, RefusalInFlight, Unfailed
    <2>3. CASE GoesOn \/ (EndsHere /\ ret' = "ERR_UNK")
      <3>. SUFFICES ASSUME op = "install", plugged, ~looped, refused
                    PROVE  \E j \in 1 .. Len(replies') : replies'[j].type = VM_ERROR
        BY <2>1 DEF RefusalInFlight
      <3>0. Accepted(Head(replies))
        BY <2>3 DEF GoesOn, EndsHere, StageInv
      <3>1. PICK j \in 1 .. Len(replies) : replies[j].type = VM_ERROR
        BY <2>1 DEF RefusalInFlight, Unfailed
      <3>2. /\ Head(replies) = replies[1] /\ Len(replies) \in Nat
            /\ Len(replies') = Len(replies) - 1
            /\ \A k \in 1 .. Len(replies) - 1 : replies'[k] = replies[k + 1]
        BY <2>1, RepliesTail
      <3>3. j # 1
        BY <3>0, <3>1, <3>2, ProtocolCodes DEF Accepted
      <3>4. j - 1 \in 1 .. Len(replies) - 1 /\ (j - 1) + 1 = j
        BY <3>2, <3>3
      <3>5. replies'[j - 1] = replies[j]
        BY <3>2, <3>4
      <3>. QED
        BY <3>1, <3>2, <3>4, <3>5
    <2>. QED
      BY <2>1, <2>2, <2>3
  <1>5. CASE ReadFails
    BY <1>5, FailIs DEF RefusalInFlight, Unfailed
  <1>6. CASE Brick
    <2>1. requests # << >> /\ BrickDoes /\ UNCHANGED <<op, pc, ret, plugged>>
      BY <1>6, BrickIs
    <2>. SUFFICES ASSUME op = "install", Unfailed, plugged, ~looped', refused'
                  PROVE  \E j \in 1 .. Len(replies') : replies'[j].type = VM_ERROR
      BY <2>1 DEF RefusalInFlight, Unfailed
    <2>2. ASSUME NEW t, NEW c, Replied(t, c), refused \/ t = VM_ERROR
          PROVE  \E j \in 1 .. Len(replies') : replies'[j].type = VM_ERROR
      <3>1. ~looped
        BY <2>2 DEF Replied
      <3>2. /\ Len(replies) \in Nat /\ Len(replies') = Len(replies) + 1
            /\ \A k \in 1 .. Len(replies) : replies'[k] = replies[k]
            /\ replies'[Len(replies) + 1].type = t
        BY <1>t, <2>2, AppendIs DEF Replied
      <3>3. CASE refused
        BY <3>1, <3>2, <3>3 DEF RefusalInFlight
      <3>4. CASE t = VM_ERROR
        BY <3>2, <3>4
      <3>. QED
        BY <2>2, <3>3, <3>4
    <2>3. ASSUME NEW c, Serves(c)
          PROVE  \E j \in 1 .. Len(replies') : replies'[j].type = VM_ERROR
      BY <2>2, <2>3 DEF Serves
    <2>4. CASE Refuses
      <3>1. CASE Replied(VM_ERROR, 0)
        BY <2>2, <3>1
      <3>2. CASE Replied(VM_SYS_RQ, 0)
        <4>1. ~requests[1].own
          BY <3>2 DEF Replied
        <4>2. refused
          BY <2>4, <4>1 DEF Refuses
        <4>. QED
          BY <2>2, <3>2, <4>2
      <3>. QED
        BY <2>4, <3>1, <3>2 DEF Refuses
    <2>5. CASE AppServed
      <3>1. CASE UNCHANGED <<replies, looped>>
        BY <2>1, <2>5, <3>1 DEF AppServed, RefusalInFlight
      <3>. QED
        BY <2>2, <2>5, <3>1 DEF AppServed
    <2>6. CASE requests[1].cmd = "ENTERFWUPDATE" /\ EnterServed
      <3>1. 1 \in 1 .. Len(requests)
        BY <2>1, RequestsTail
      <3>. QED
        BY <2>6, <3>1 DEF EnterServed, NoEnter
    <2>. QED
      BY <2>1, <2>3, <2>4, <2>5, <2>6 DEF BrickDoes, EraseServed, StartServed, DataServed,
         CrcServed, VersionServed
  <1>7. CASE UNCHANGED vars
    BY <1>7 DEF RefusalInFlight, Unfailed, vars, program, history
  <1>. QED
    BY <1>1, <1>2, <1>3, <1>4, <1>5, <1>6, <1>7, NextIs


-----------------------------------------------------------------------------
(***************************************************************************)
(* An invocation that began in silence.                                    *)
(***************************************************************************)

LEMMA OnlyReply ==
  ASSUME TypeOK, OneInFlight, clean, replies # << >>
  PROVE  /\ Tail(replies) = << >> /\ requests = << >> /\ Head(replies) = replies[1]
         /\ replies[1] \in Rep /\ replies[1].cmd = stage
         /\ replies[1].type = VM_SYS_RQ => looped
  <1>1. /\ Tail(replies) \in Seq(Rep) /\ Len(Tail(replies)) = Len(replies) - 1
        /\ Head(replies) = replies[1] /\ replies[1] \in Rep
    BY RepliesTail
  <1>2. Len(replies) = 1 /\ requests = << >> /\ replies[1].cmd = stage
        /\ (replies[1].type = VM_SYS_RQ => looped)
    BY DEF OneInFlight
  <1>3. Len(Tail(replies)) = 0
    BY <1>1, <1>2
  <1>. QED
    BY <1>1, <1>2, <1>3, EmptySeq

LEMMA OnlyRequest ==
  ASSUME TypeOK, OneInFlight, clean, requests # << >>
  PROVE  /\ Tail(requests) = << >> /\ replies = << >>
         /\ requests[1] \in Req /\ requests[1].cmd = stage /\ requests[1].own
  <1>1. /\ Tail(requests) \in Seq(Req) /\ Len(Tail(requests)) = Len(requests) - 1
        /\ requests[1] \in Req
    BY RequestsTail
  <1>2. Len(requests) = 1 /\ replies = << >> /\ requests[1].cmd = stage /\ requests[1].own
    BY DEF OneInFlight
  <1>3. Len(Tail(requests)) = 0
    BY <1>1, <1>2
  <1>. QED
    BY <1>1, <1>2, <1>3, EmptySeq

\* The only packet after an append to nothing.
LEMMA OnlyOne ==
  ASSUME NEW e
  PROVE  /\ Append(<< >>, e) # << >> /\ Len(Append(<< >>, e)) = 1
         /\ Append(<< >>, e)[1] = e
  <1>1. << >> \in Seq({e}) /\ Len(<< >>) = 0
    BY EmptySeq
  <1>. QED
    BY <1>1, AppendIs

\* What a brick step makes of the one packet in flight.
OneReply(t, c) ==
  /\ Len(replies') = 1 /\ replies'[1].type = t /\ replies'[1].crc = c
  /\ replies'[1].own /\ replies'[1].cmd = stage
  /\ t = VM_SYS_RQ => looped'

LEMMA RepliedOne ==
  ASSUME TypeOK, OneInFlight, clean, requests # << >>, NEW t, NEW c, Replied(t, c)
  PROVE  replies' # << >> /\ OneReply(t, c) /\ (looped => looped')
  <1>. DEFINE e == [type |-> t, cmd |-> requests[1].cmd, crc |-> c, own |-> requests[1].own]
  <1>1. replies' = Append(<< >>, e) /\ requests[1].cmd = stage /\ requests[1].own
        /\ (t = VM_SYS_RQ => looped') /\ (looped => looped')
    BY OnlyRequest DEF Replied
  <1>2. e.type = t /\ e.crc = c /\ e.own = requests[1].own /\ e.cmd = requests[1].cmd
    OBVIOUS
  <1>. HIDE DEF e
  <1>3. replies' # << >> /\ Len(replies') = 1 /\ replies'[1] = e
    BY <1>1, OnlyOne
  <1>. QED
    BY <1>1, <1>2, <1>3 DEF OneReply

LEMMA OneInFlightStep ==
  ASSUME TypeOK, StageInv, UnpluggedInv, OneInFlight, [Next]_vars
  PROVE  OneInFlight'
  <1>1. CASE Runs
    BY <1>1, RunIs DEF OneInFlight
  <1>2. CASE Unplug
    BY <1>2, UnplugIs DEF OneInFlight
  <1>3. ASSUME NEW d, clean, pc = "write", requests' = Append(requests, Packet(stage, d)),
               pc' = "read" \/ (pc' = "exited" /\ stage = "ENTERFWUPDATE"),
               UNCHANGED <<stage, replies, clean>>
        PROVE  OneInFlight'
    <2>1. requests = << >> /\ replies = << >>
      BY <1>3 DEF OneInFlight
    <2>2. requests' # << >> /\ Len(requests') = 1 /\ requests'[1] = Packet(stage, d)
      BY <1>3, <2>1, OnlyOne
    <2>3. requests'[1].own /\ requests'[1].cmd = stage
      BY <2>2 DEF Packet
    <2>. QED
      BY <1>3, <2>1, <2>2, <2>3 DEF OneInFlight
  <1>4. CASE Asks
    <2>1. CASE requests' = requests
      BY <1>4, <2>1, AskIs DEF OneInFlight
    <2>2. CASE ~clean
      BY <1>4, <2>2, AskIs DEF OneInFlight
    <2>. QED
      BY <1>3, <1>4, <2>1, <2>2, AskIs
  <1>5. CASE bootloader_send
    <2>1. CASE requests' = requests
      BY <1>5, <2>1, SendIs DEF OneInFlight
    <2>2. CASE ~clean
      BY <1>5, <2>2, SendIs DEF OneInFlight
    <2>. QED
      BY <1>3, <1>5, <2>1, <2>2, SendIs
  <1>6. CASE bootloader_enter
    <2>1. CASE requests' = requests
      BY <1>6, <2>1, EnterIs DEF OneInFlight
    <2>2. CASE ~clean
      BY <1>6, <2>2, EnterIs DEF OneInFlight
    <2>. QED
      BY <1>3, <1>6, <2>1, <2>2, EnterIs
  <1>7. CASE Replies
    <2>1. replies # << >> /\ replies' = Tail(replies) /\ UNCHANGED <<requests, clean>>
      BY <1>7, ReplyIs
    <2>2. CASE clean
      <3>1. replies' = << >> /\ requests' = << >>
        BY <2>1, <2>2, OnlyReply
      <3>. QED
        BY <3>1 DEF OneInFlight
    <2>. QED
      BY <2>1, <2>2 DEF OneInFlight
  <1>8. CASE ReadFails
    BY <1>8, FailIs DEF OneInFlight, UnpluggedInv
  <1>9. CASE Brick
    <2>1. requests # << >> /\ BrickDoes /\ UNCHANGED <<stage, pc, clean>>
      BY <1>9, BrickIs
    <2>. SUFFICES ASSUME clean PROVE OneInFlight'
      BY <2>1 DEF OneInFlight
    <2>2. /\ Tail(requests) = << >> /\ replies = << >> /\ pc \notin {"idle", "write"}
      BY <2>1, OnlyRequest DEF OneInFlight
    <2>3. ASSUME NEW t, NEW c, Replied(t, c), requests' = << >>
          PROVE  OneInFlight'
      <3>1. replies' # << >> /\ OneReply(t, c)
        BY <2>1, <2>3, RepliedOne
      <3>. QED
        BY <2>1, <2>2, <2>3, <3>1 DEF OneInFlight, OneReply
    <2>4. CASE Refuses
      BY <2>2, <2>3, <2>4 DEF Refuses
    <2>5. ASSUME NEW c, Serves(c) PROVE OneInFlight'
      BY <2>2, <2>3, <2>5 DEF Serves
    <2>6. CASE AppServed
      <3>1. CASE UNCHANGED <<replies, looped>>
        BY <2>1, <2>2, <2>6, <3>1 DEF AppServed, OneInFlight
      <3>. QED
        BY <2>3, <2>6, <3>1 DEF AppServed
    <2>7. CASE EnterServed
      BY <2>1, <2>2, <2>7 DEF EnterServed, OneInFlight
    <2>. QED
      BY <2>1, <2>4, <2>5, <2>6, <2>7 DEF BrickDoes, EraseServed, StartServed, DataServed,
         CrcServed, VersionServed
  <1>10. CASE UNCHANGED vars
    BY <1>10 DEF OneInFlight, vars, program, history
  <1>. QED
    BY <1>1, <1>2, <1>4, <1>5, <1>6, <1>7, <1>8, <1>9, <1>10, NextIs

\* The image and its blocks change only with the invocation and with sent.
LEMMA ImageFrame ==
  ASSUME UNCHANGED file
  PROVE  Image' = Image
  BY DEF Image

LEMMA BlockFrame ==
  ASSUME UNCHANGED <<file, sent>>
  PROVE  this_block' = this_block /\ Payload' = Payload
  <1>1. this_block' = this_block
    BY DEF this_block
  <1>. HIDE DEF this_block
  <1>2. Payload' = Payload
    BY <1>1 DEF Payload
  <1>. QED
    BY <1>1, <1>2

\* Programming the next block.
LEMMA BlockWritten ==
  ASSUME TypeOK, next = sent, Written(sent), Programs(Payload),
         next + Len(Payload) <= FLASH_SIZE, UNCHANGED file
  PROVE  Holds(flash', Image, flips', sent + this_block)
  <1>1. /\ sent \in 0 .. FLASH_SIZE /\ file \in Seq(Byte) /\ FLASH_SIZE \in Nat
        /\ flash \in [Cells -> Byte \cup {Erased}] /\ flips \in 0 .. MaxFlips /\ MaxFlips \in {0, 1}
    BY GeometryAssumption DEF TypeOK, GeometryAssumption
  <1>2. this_block \in Nat /\ sent + this_block \in 0 .. FLASH_SIZE
    BY <1>1, BlockSize
  <1>3. /\ Payload \in Seq(Byte) /\ Len(Payload) = this_block
        /\ \A j \in 1 .. this_block : Payload[j] = Image[sent + j]
    BY <1>1, PayloadType
  <1>. DEFINE P == Programmed(Payload)
              b == this_block
              img == Image
  <1>4. /\ P \in [Cells -> Byte \cup {Erased}]
        /\ \A i \in Cells : i \in sent + 1 .. sent + b => P[i] = img[i] /\ P[i] \in Byte
        /\ \A i \in Cells : i \notin sent + 1 .. sent + b => P[i] = flash[i]
    <2>1. sent >= 0 /\ sent + Len(Payload) <= FLASH_SIZE
      BY <1>1
    <2>. HIDE DEF Payload, Programmed, Image, this_block
    <2>2. /\ P \in [Cells -> Byte \cup {Erased}]
          /\ \A i \in Cells : i \in sent + 1 .. sent + b => P[i] = Payload[i - sent] /\ P[i] \in Byte
          /\ \A i \in Cells : i \notin sent + 1 .. sent + b => P[i] = flash[i]
      BY <1>3, <2>1, ProgrammedIs
    <2>3. ASSUME NEW i \in sent + 1 .. sent + b PROVE Payload[i - sent] = img[i]
      <3>1. i - sent \in 1 .. b /\ sent + (i - sent) = i
        BY <1>1, <1>2
      <3>. QED
        BY <1>3, <3>1
    <2>. QED
      BY <2>2, <2>3
  <1>5. b \in Nat /\ sent + b \in 0 .. FLASH_SIZE
    BY <1>2
  <1>. HIDE DEF P, b, img
  <1>6. Holds(P, img, flips, sent + b)
    <2>1. Holds(flash, img, flips, sent)
      BY DEF Written, img
    <2>2. ASSUME NEW i \in 1 .. sent + b
          PROVE  /\ i \in Cells /\ P[i] \in Byte
                 /\ i \in 1 .. sent => P[i] = flash[i]
                 /\ i \notin 1 .. sent => P[i] = img[i]
      <3>1. i \in Cells
        BY <1>1, <1>5 DEF Cells
      <3>2. CASE i \in 1 .. sent
        <4>1. i \notin sent + 1 .. sent + b
          BY <1>1, <3>2
        <4>. QED
          BY <1>4, <2>1, <3>1, <3>2, <4>1 DEF Holds
      <3>3. CASE i \notin 1 .. sent
        <4>1. i \in sent + 1 .. sent + b
          BY <1>1, <1>5, <3>3
        <4>. QED
          BY <1>4, <3>1, <3>3, <4>1
      <3>. QED
        BY <3>2, <3>3
    <2>3. ASSUME NEW i \in (sent + b) + 1 .. FLASH_SIZE PROVE P[i] = Erased
      <3>1. i \in Cells /\ i \notin sent + 1 .. sent + b /\ i \in sent + 1 .. FLASH_SIZE
        BY <1>1, <1>5 DEF Cells
      <3>. QED
        BY <1>4, <2>1, <3>1 DEF Holds
    <2>4. ASSUME NEW i \in 1 .. sent + b, NEW j \in 1 .. sent + b, P[i] # img[i], P[j] # img[j]
          PROVE  i = j
      BY <2>1, <2>2, <2>4 DEF Holds
    <2>5. ASSUME flips = 0, NEW i \in 1 .. sent + b PROVE P[i] = img[i]
      BY <2>1, <2>2, <2>5 DEF Holds
    <2>. QED
      BY <2>2, <2>3, <2>4, <2>5 DEF Holds
  <1>7. CASE flash' = P /\ UNCHANGED flips
    BY <1>6, <1>7 DEF b, img
  <1>8. ASSUME flips < MaxFlips, flips' = flips + 1, NEW k \in sent + 1 .. sent + b, NEW v \in Byte,
               flash' = [P EXCEPT ![k] = v]
        PROVE  Holds(flash', img, flips', sent + b)
    <2>1. flips = 0 /\ flips' # 0
      BY <1>1, <1>8
    <2>2. \A i \in 1 .. sent + b : P[i] = img[i] /\ P[i] \in Byte
      BY <1>6, <2>1 DEF Holds
    <2>3. k \in Cells
      BY <1>1, <1>5 DEF Cells
    <2>4. flash'[k] = v /\ \A i \in Cells : i # k => flash'[i] = P[i]
      BY <1>4, <1>8, <2>3
    <2>5. ASSUME NEW i \in 1 .. sent + b
          PROVE  i \in Cells /\ flash'[i] \in Byte /\ (i # k => flash'[i] = img[i])
      <3>1. i \in Cells
        BY <1>1, <1>5 DEF Cells
      <3>. QED
        BY <1>8, <2>2, <2>4, <3>1
    <2>6. ASSUME NEW i \in (sent + b) + 1 .. FLASH_SIZE PROVE flash'[i] = Erased
      <3>1. i \in Cells /\ i # k
        BY <1>1, <1>5 DEF Cells
      <3>. QED
        BY <1>6, <2>4, <3>1 DEF Holds
    <2>. QED
      BY <2>1, <2>5, <2>6 DEF Holds
  <1>9. \/ flash' = P /\ UNCHANGED flips
        \/ /\ flips < MaxFlips /\ flips' = flips + 1
           /\ \E k \in sent + 1 .. sent + b : \E v \in Byte : flash' = [P EXCEPT ![k] = v]
    <2>. HIDE DEF Payload, this_block
    <2>. QED
      BY <1>3 DEF Programs, P, b
  <1>. QED
    BY <1>7, <1>8, <1>9 DEF b, img

\* The checksums agree only if the flash holds the image.
LEMMA VerifiedIsImage ==
  ASSUME TypeOK, Written(FLASH_SIZE), crc32(0, flash) = crc32(0, Image)
  PROVE  flash = Image
  <1>1. FLASH_SIZE \in Nat /\ file \in Seq(Byte) /\ 0 \in Crcs
    BY GeometryAssumption, CrcAssumption DEF TypeOK, GeometryAssumption, CrcAssumption
  <1>2. Image \in Seq(Byte) /\ Len(Image) = FLASH_SIZE
    BY <1>1, ImageType
  <1>3. DOMAIN flash = 1 .. FLASH_SIZE /\ flash = [i \in 1 .. FLASH_SIZE |-> flash[i]]
    BY DEF TypeOK, Cells
  <1>. HIDE DEF Image
  <1>4. flash \in [1 .. FLASH_SIZE -> Byte]
    BY <1>3 DEF Written, Holds
  <1>5. flash \in Seq(Byte)
    BY <1>1, <1>4, IsASeq
  <1>6. Len(flash) = FLASH_SIZE
    BY <1>1, <1>3, <1>5, LenProperties
  <1>7. \A i, j \in 1 .. Len(flash) : flash[i] # Image[i] /\ flash[j] # Image[j] => i = j
    BY <1>6 DEF Written, Holds
  <1>. QED
    BY <1>1, <1>2, <1>5, <1>6, <1>7, CrcDetects


\* The checksum over the next block continues the one over the blocks before.
LEMMA ChecksumContinues ==
  ASSUME TypeOK, crc = crc32(0, First(sent))
  PROVE  crc32(crc, Payload) = crc32(0, First(sent + this_block))
  <1>1. sent \in 0 .. FLASH_SIZE /\ file \in Seq(Byte) /\ 0 \in Crcs
    BY CrcAssumption DEF TypeOK, CrcAssumption
  <1>2. First(sent) \in Seq(Byte) /\ First(sent) \o Payload = First(sent + this_block)
    BY <1>1, FirstStep
  <1>3. Payload \in Seq(Byte)
    BY <1>1, PayloadType
  <1>4. Seq(Byte) \subseteq Seq(Data)
    BY DEF Data
  <1>. HIDE DEF First, Payload, this_block
  <1>5. First(sent) \in Seq(Data) /\ Payload \in Seq(Data)
    BY <1>2, <1>3, <1>4
  <1>6. crc32(crc32(0, First(sent)), Payload) = crc32(0, First(sent) \o Payload)
    BY <1>1, <1>5, CrcChains
  <1>. QED
    BY <1>2, <1>6

LEMMA ProgressFrame ==
  ASSUME UNCHANGED <<file, flash, flips, next, sent, crc>>
  PROVE  /\ \A n : Written(n)' = Written(n)
         /\ Image' = Image /\ this_block' = this_block /\ Payload' = Payload
  <1>1. Image' = Image /\ this_block' = this_block /\ Payload' = Payload
    BY ImageFrame, BlockFrame
  <1>. HIDE DEF Image
  <1>2. ASSUME NEW n PROVE Written(n)' = Written(n)
    BY <1>1 DEF Written
  <1>. QED
    BY <1>1, <1>2

LEMMA ProgressStep ==
  ASSUME IInv, [Next]_vars
  PROVE  Progress'
  <1>0. TypeOK /\ StageInv /\ UnpluggedInv /\ OneInFlight /\ Progress
    BY DEF IInv
  <1>t. sent \in 0 .. FLASH_SIZE /\ file \in Seq(Byte) /\ FLASH_SIZE \in Nat /\ 0 \in Crcs
    BY <1>0, GeometryAssumption, CrcAssumption DEF TypeOK, GeometryAssumption, CrcAssumption
  <1>. SUFFICES ASSUME op' = "install", clean', ~looped'
                PROVE  (AtErase /\ AtStart /\ AtData /\ AtCrc /\ AtApp)'
    BY DEF Progress
  <1>1. CASE Runs
    <2>1. stage' = "FW_ERASEFLASH" /\ sent' = 0 /\ crc' = 0 /\ replies' = << >>
      BY <1>1, RunIs
    <2>. QED
      BY <2>1 DEF AtErase, AtStart, AtData, AtCrc, AtApp, Confirmed
  <1>p. ASSUME op = "install", clean, ~looped
        PROVE  AtErase /\ AtStart /\ AtData /\ AtCrc /\ AtApp
    BY <1>0, <1>p DEF Progress
  \* Steps that change neither the flash nor what the program has sent.
  <1>f. ASSUME UNCHANGED <<file, flash, flips, next, sent, crc, stage, op, clean, looped>>,
               pc' # "write" \/ pc' = pc, pc' # "read" \/ pc' = pc \/ stage # "FW_DOWNLOAD_DATA",
               requests' = << >> \/ requests' = requests \/ stage # "FW_DOWNLOAD_DATA",
               replies' = << >> \/ replies' = replies
        PROVE  (AtErase /\ AtStart /\ AtData /\ AtCrc /\ AtApp)'
    <2>1. /\ \A n : Written(n)' = Written(n)
          /\ Image' = Image /\ this_block' = this_block /\ Payload' = Payload
      BY <1>f, ProgressFrame
    <2>2. AtErase /\ AtStart /\ AtData /\ AtCrc /\ AtApp
      BY <1>p, <1>f
    <2>3. Confirmed' => Confirmed /\ replies' = replies
      BY <1>f DEF Confirmed
    <2>4. /\ Written(0)' = Written(0) /\ Written(FLASH_SIZE)' = Written(FLASH_SIZE)
          /\ Written(sent)' = Written(sent) /\ Written(sent + this_block)' = Written(sent + this_block)
          /\ First(sent)' = First(sent) /\ First(sent + this_block)' = First(sent + this_block)
      <3>. HIDE DEF Image, this_block
      <3>. QED
        BY <1>f, <2>1 DEF Written, First
    <2>. HIDE DEF Image, this_block, Payload, Written, First, Confirmed
    <2>5. AtErase' /\ AtStart' /\ AtApp'
      BY <1>f, <2>1, <2>2, <2>3, <2>4 DEF AtErase, AtStart, AtApp
    <2>6. AtCrc'
      BY <1>f, <2>1, <2>2, <2>3, <2>4 DEF AtCrc
    <2>7. AtData'
      BY <1>f, <2>1, <2>2, <2>3, <2>4 DEF AtData
    <2>. QED
      BY <2>5, <2>6, <2>7
  <1>2. CASE Unplug
    BY <1>2, <1>f, UnplugIs
  <1>3. CASE Asks
    BY <1>3, <1>0, <1>f, AskIs
  <1>4. CASE bootloader_send
    <2>1. /\ pc = "write" /\ stage = "FW_DOWNLOAD_DATA" /\ crc' = crc32(crc, Payload)
          /\ \/ pc' = "read" /\ requests' = Append(requests, Packet(stage, Payload))
             \/ pc' = "exited" /\ requests' = requests
          /\ UNCHANGED <<op, file, stage, sent, replies, flash, next, flips, clean, looped>>
      BY <1>4, SendIs
    <2>2. requests = << >> /\ replies = << >> /\ AtData
      BY <1>0, <1>p, <2>1 DEF OneInFlight
    <2>3. sent < FLASH_SIZE /\ crc = crc32(0, First(sent)) /\ next = sent /\ Written(sent)
      BY <2>1, <2>2 DEF AtData
    <2>4. crc' = crc32(0, First(sent + this_block))
      BY <1>0, <2>1, <2>3, ChecksumContinues
    <2>5. Image' = Image /\ this_block' = this_block /\ Payload' = Payload
      BY <2>1, ImageFrame, BlockFrame
    <2>6. Written(sent)' /\ First(sent + this_block)' = First(sent + this_block)
      <3>. HIDE DEF Image, this_block
      <3>. QED
        BY <2>1, <2>3, <2>5 DEF Written, First
    <2>7. requests' # << >> => pc' = "read" /\ requests'[1].data = Payload
      <3>1. CASE requests' = Append(<< >>, Packet(stage, Payload))
        <4>1. requests'[1] = Packet(stage, Payload)
          BY <3>1, OnlyOne
        <4>. HIDE DEF Payload
        <4>. QED
          BY <2>1, <2>2, <4>1 DEF Packet
      <3>. QED
        BY <2>1, <2>2, <3>1
    <2>8. ~Confirmed'
      BY <2>1, <2>2 DEF Confirmed
    <2>. HIDE DEF Image, this_block, Payload, Written, First, Confirmed
    <2>9. AtData'
      BY <2>1, <2>3, <2>4, <2>5, <2>6, <2>7, <2>8 DEF AtData
    <2>. QED
      BY <2>1, <2>9 DEF AtErase, AtStart, AtCrc, AtApp
  <1>5. CASE bootloader_enter
    BY <1>5, <1>0, EnterIs DEF StageInv
  <1>6. CASE Replies
    <2>1. /\ pc = "read" /\ replies # << >> /\ replies' = Tail(replies) /\ crc' = crc
          /\ GoesOn \/ EndsHere
          /\ UNCHANGED <<op, file, requests, flash, next, flips, clean, looped>>
      BY <1>0, <1>6, ReplyIs
    <2>2. CASE EndsHere
      <3>1. replies' = << >>
        BY <1>0, <2>1, OnlyReply
      <3>. QED
        BY <1>f, <2>1, <2>2, <3>1 DEF EndsHere
    <2>3. CASE GoesOn
      <3>1. /\ replies' = << >> /\ requests' = << >> /\ Head(replies) = replies[1]
            /\ replies[1].cmd = stage /\ replies[1].type = VM_OK
        <4>1. /\ replies' = << >> /\ requests' = << >> /\ Head(replies) = replies[1]
              /\ replies[1].cmd = stage /\ replies[1].type # VM_SYS_RQ
          BY <1>0, <2>1, OnlyReply
        <4>. QED
          BY <2>3, <4>1 DEF GoesOn, Accepted
      <3>2. Confirmed /\ ~Confirmed'
        BY <2>1, <3>1 DEF Confirmed
      <3>3. AtErase /\ AtStart /\ AtData /\ AtCrc /\ AtApp /\ pc' = "write"
        BY <1>p, <2>1, <2>3 DEF GoesOn
      <3>4. Image' = Image
        BY <2>1, ImageFrame
      <3>5. CASE stage = "FW_ERASEFLASH" /\ stage' = "FW_START_DOWNLOAD" /\ sent' = sent
        <4>1. Written(0)'
          <5>. HIDE DEF Image
          <5>. QED
            BY <2>1, <3>2, <3>3, <3>4, <3>5 DEF AtErase, Written
        <4>. QED
          BY <2>1, <3>2, <3>3, <3>5, <4>1 DEF AtErase, AtStart, AtData, AtCrc, AtApp
      \* The first block is next, unless there is none.
      <3>6. CASE /\ stage = "FW_START_DOWNLOAD" /\ sent' = sent
                 /\ stage' = IF 0 < FLASH_SIZE THEN "FW_DOWNLOAD_DATA" ELSE "FW_GETCRC32"
        <4>1. sent = 0 /\ crc = 0 /\ Written(0) /\ next = 0
          BY <3>2, <3>3, <3>6 DEF AtStart
        <4>2. Image \in Seq(Byte) /\ Len(Image) = FLASH_SIZE
          BY <1>t, ImageType
        <4>. HIDE DEF Image
        <4>3. First(0) = << >>
          BY <1>t, <4>2, SubSeqEmpty DEF First
        <4>4. crc = crc32(0, First(0))
          BY <1>t, <4>1, <4>3, CrcEmpty
        <4>5. Written(0)' /\ First(0)' = First(0)
          BY <2>1, <3>4, <4>1 DEF Written, First
        <4>6. CASE 0 < FLASH_SIZE
          <5>1. sent' = 0 /\ next' = 0 /\ crc' = crc32(0, First(0)') /\ Written(sent)'
            BY <2>1, <3>6, <4>1, <4>4, <4>5 DEF Written
          <5>2. First(sent)' = First(0)'
            BY <5>1 DEF First
          <5>. HIDE DEF First, Written, this_block, Payload
          <5>3. AtData'
            BY <3>1, <3>2, <3>3, <4>6, <5>1, <5>2 DEF AtData
          <5>. QED
            BY <3>6, <4>6, <5>3 DEF AtErase, AtStart, AtCrc, AtApp
        <4>7. CASE ~(0 < FLASH_SIZE)
          <5>1. FLASH_SIZE = 0
            BY <1>t, <4>7
          <5>2. Image = << >>
            BY <4>2, <5>1, EmptySeq
          <5>3. crc' = crc32(0, Image') /\ Written(FLASH_SIZE)'
            BY <2>1, <3>4, <4>1, <4>3, <4>4, <4>5, <5>1, <5>2
          <5>. HIDE DEF Written
          <5>. QED
            BY <3>2, <3>6, <4>7, <5>3 DEF AtErase, AtStart, AtData, AtCrc, AtApp
        <4>. QED
          BY <4>6, <4>7
      <3>7. CASE /\ stage = "FW_DOWNLOAD_DATA" /\ sent' = sent + this_block
                 /\ stage' = IF sent + this_block < FLASH_SIZE THEN "FW_DOWNLOAD_DATA"
                             ELSE "FW_GETCRC32"
        <4>. DEFINE n == sent + this_block
        <4>1. /\ crc = crc32(0, First(n)) /\ next = n /\ Written(n) /\ n \in 0 .. FLASH_SIZE
              /\ sent' = n
              /\ stage' = IF n < FLASH_SIZE THEN "FW_DOWNLOAD_DATA" ELSE "FW_GETCRC32"
          BY <1>t, <2>1, <3>2, <3>3, <3>7, BlockSize DEF AtData
        <4>. HIDE DEF n
        <4>2. Image \in Seq(Byte) /\ Len(Image) = FLASH_SIZE
          BY <1>t, ImageType
        <4>. HIDE DEF Image
        <4>3. Written(sent)' /\ First(sent)' = First(n)
          BY <2>1, <3>4, <4>1 DEF Written, First
        <4>4. CASE n < FLASH_SIZE
          <5>. HIDE DEF First, Written, this_block, Payload
          <5>1. AtData'
            BY <2>1, <3>1, <3>2, <3>3, <4>1, <4>3, <4>4 DEF AtData
          <5>. QED
            BY <4>1, <4>4, <5>1 DEF AtErase, AtStart, AtCrc, AtApp
        <4>5. CASE ~(n < FLASH_SIZE)
          <5>1. n = FLASH_SIZE
            BY <1>t, <4>1, <4>5
          <5>2. First(n) = Image
            BY <4>2, <5>1, SubSeqFull DEF First
          <5>3. crc' = crc32(0, Image') /\ Written(FLASH_SIZE)'
            <6>1. crc' = crc32(0, Image')
              BY <2>1, <3>4, <4>1, <5>2
            <6>2. Written(FLASH_SIZE)'
              BY <2>1, <3>4, <4>1, <5>1 DEF Written
            <6>. QED
              BY <6>1, <6>2
          <5>. HIDE DEF Written
          <5>. QED
            BY <3>2, <4>1, <4>5, <5>3 DEF AtErase, AtStart, AtData, AtCrc, AtApp
        <4>. QED
          BY <4>4, <4>5
      <3>8. CASE /\ stage = "FW_GETCRC32" /\ stage' = "FW_STARTAPP" /\ sent' = sent
                 /\ Head(replies).type = VM_OK => crc \in RemoteCrc(Head(replies))
        <4>1. crc = replies[1].crc
          BY <3>1, <3>8 DEF RemoteCrc
        <4>2. Written(FLASH_SIZE) /\ crc = crc32(0, Image) /\ replies[1].crc = crc32(0, flash)
          BY <3>2, <3>3, <3>8 DEF AtCrc
        <4>3. flash = Image
          BY <1>0, <4>1, <4>2, VerifiedIsImage
        <4>. HIDE DEF Image
        <4>4. flash' = Image'
          BY <2>1, <3>4, <4>3
        <4>. QED
          BY <3>8, <4>4 DEF AtErase, AtStart, AtData, AtCrc, AtApp
      <3>. QED
        BY <2>3, <3>5, <3>6, <3>7, <3>8 DEF GoesOn
    <2>. QED
      BY <2>1, <2>2, <2>3
  <1>7. CASE ReadFails
    BY <1>7, <1>f, FailIs
  <1>8. CASE Brick
    <2>1. /\ requests # << >> /\ BrickDoes
          /\ UNCHANGED <<op, file, stage, pc, sent, crc, clean>>
      BY <1>0, <1>8, BrickIs
    <2>2. /\ Tail(requests) = << >> /\ replies = << >> /\ requests[1].cmd = stage
          /\ pc \notin {"idle", "write"}
      BY <1>0, <2>1, OnlyRequest DEF OneInFlight
    <2>3. requests' = << >> /\ ~looped
      <3>1. ASSUME NEW c, Serves(c) PROVE requests' = << >> /\ ~looped
        BY <2>2, <3>1 DEF Serves, Replied
      <3>2. CASE Refuses
        BY <2>2, <3>2 DEF Refuses, Replied
      <3>3. CASE AppServed
        BY <2>2, <3>3 DEF AppServed, Replied
      <3>. QED
        BY <2>1, <3>1, <3>2, <3>3 DEF BrickDoes, EraseServed, StartServed, DataServed,
           CrcServed, VersionServed, EnterServed
    <2>4. AtErase /\ AtStart /\ AtData /\ AtCrc /\ AtApp
      BY <1>p, <2>1, <2>3
    <2>5. /\ Image' = Image /\ this_block' = this_block /\ Payload' = Payload
          /\ First(sent + this_block)' = First(sent + this_block)
      <3>1. Image' = Image /\ this_block' = this_block /\ Payload' = Payload
        BY <2>1, ImageFrame, BlockFrame
      <3>. HIDE DEF Image, this_block
      <3>. QED
        BY <2>1, <3>1 DEF First
    <2>6. stage \in {"FW_ERASEFLASH", "FW_START_DOWNLOAD", "FW_DOWNLOAD_DATA",
                     "FW_GETCRC32", "FW_STARTAPP"}
      BY <1>0, <2>1 DEF StageInv
    <2>7. ASSUME NEW t, NEW c, Replied(t, c)
          PROVE  /\ replies'[1].type = t /\ replies'[1].crc = c
                 /\ t # VM_SYS_RQ
      BY <1>0, <2>1, <2>7, RepliedOne DEF OneReply
    \* A refusal confirms nothing and changes nothing.
    <2>8. CASE Refuses
      <3>1. ~Confirmed' /\ UNCHANGED <<flash, next, flips>>
        BY <2>7, <2>8, ProtocolCodes DEF Refuses, Confirmed
      <3>2. \A n : Written(n)' = Written(n)
        BY <2>1, <3>1, ProgressFrame
      <3>3. Written(0)' = Written(0) /\ Written(FLASH_SIZE)' = Written(FLASH_SIZE)
        BY <3>2
      <3>. HIDE DEF Image, this_block, Payload, Written, First, Confirmed
      <3>. QED
        BY <2>1, <2>2, <2>3, <2>4, <2>5, <3>1, <3>3 DEF AtErase, AtStart, AtData, AtCrc, AtApp
    <2>9. CASE requests[1].cmd = "FW_ERASEFLASH" /\ EraseServed
      <3>1. stage' = "FW_ERASEFLASH" /\ flash' = Blank /\ flips' = 0
        BY <2>1, <2>2, <2>9 DEF EraseServed
      <3>2. Written(0)'
        <4>1. \A i \in 1 .. FLASH_SIZE : flash'[i] = Erased
          BY <3>1 DEF Blank, Cells
        <4>. HIDE DEF Image
        <4>. QED
          BY <1>t, <4>1 DEF Written, Holds
      <3>. HIDE DEF Written
      <3>. QED
        BY <2>1, <2>4, <3>1, <3>2 DEF AtErase, AtStart, AtData, AtCrc, AtApp
    <2>10. CASE requests[1].cmd = "FW_START_DOWNLOAD" /\ StartServed
      <3>1. stage = "FW_START_DOWNLOAD" /\ next' = 0 /\ UNCHANGED <<flash, flips>>
        BY <2>2, <2>10 DEF StartServed
      <3>2. Written(0)'
        <4>. HIDE DEF Image
        <4>. QED
          BY <2>4, <2>5, <3>1 DEF AtStart, Written
      <3>. HIDE DEF Written
      <3>. QED
        BY <2>1, <2>4, <3>1, <3>2 DEF AtErase, AtStart, AtData, AtCrc, AtApp
    <2>11. CASE requests[1].cmd = "FW_DOWNLOAD_DATA" /\ DataServed
      <3>1. stage = "FW_DOWNLOAD_DATA" /\ requests[1].data = Payload /\ next = sent /\ Written(sent)
        BY <2>1, <2>2, <2>4, <2>11 DEF AtData
      <3>2. next' = next + Len(Payload) /\ Programs(Payload) /\ next + Len(Payload) <= FLASH_SIZE
        BY <2>11, <3>1 DEF DataServed
      <3>3. Holds(flash', Image, flips', sent + this_block)
        BY <1>0, <2>1, <3>1, <3>2, BlockWritten
      <3>4. Len(Payload) = this_block
        BY <1>t, PayloadType
      <3>5. next' = sent' + this_block' /\ Written(sent + this_block)'
        <4>. HIDE DEF Image, this_block, Payload
        <4>. QED
          BY <2>1, <2>5, <3>1, <3>2, <3>3, <3>4 DEF Written
      <3>. HIDE DEF Image, this_block, Payload, Written, First, Confirmed
      <3>6. AtData'
        BY <2>1, <2>2, <2>3, <2>4, <2>5, <3>1, <3>5 DEF AtData
      <3>. QED
        BY <2>1, <3>1, <3>6 DEF AtErase, AtStart, AtCrc, AtApp
    <2>12. CASE requests[1].cmd = "FW_GETCRC32" /\ CrcServed
      <3>1. stage = "FW_GETCRC32" /\ Serves(crc32(0, flash)) /\ UNCHANGED <<flash, next, flips>>
        BY <2>2, <2>12 DEF CrcServed
      <3>2. replies'[1].crc = crc32(0, flash')
        BY <2>7, <3>1 DEF Serves
      <3>3. Written(FLASH_SIZE)' /\ crc' = crc32(0, Image')
        <4>. HIDE DEF Image
        <4>. QED
          BY <2>1, <2>4, <2>5, <3>1 DEF AtCrc, Written
      <3>. HIDE DEF Image, Written
      <3>. QED
        BY <2>1, <3>1, <3>2, <3>3 DEF AtErase, AtStart, AtData, AtCrc, AtApp
    <2>13. CASE requests[1].cmd = "FW_STARTAPP" /\ AppServed
      <3>1. stage = "FW_STARTAPP" /\ flash' = flash
        BY <2>2, <2>13 DEF AppServed
      <3>. HIDE DEF Image
      <3>. QED
        BY <2>1, <2>4, <2>5, <3>1 DEF AtErase, AtStart, AtData, AtCrc, AtApp
    <2>. QED
      BY <2>1, <2>2, <2>6, <2>8, <2>9, <2>10, <2>11, <2>12, <2>13 DEF BrickDoes
  <1>9. CASE UNCHANGED vars
    BY <1>9, <1>f DEF vars, program, brick, history
  <1>. QED
    BY <1>1, <1>2, <1>3, <1>4, <1>5, <1>6, <1>7, <1>8, <1>9, NextIs


-----------------------------------------------------------------------------
(***************************************************************************)
(* The theorems.                                                           *)
(***************************************************************************)

LEMMA InitInv == Init => IInv
  <1>. SUFFICES ASSUME Init PROVE IInv
    OBVIOUS
  <1>1. TypeOK
    BY InitType
  <1>2. StageInv /\ ReturnInv /\ UnpluggedInv
    BY DEF Init, StageInv, ReturnInv, UnpluggedInv
  <1>3. OneInFlight
    BY DEF Init, OneInFlight
  <1>4. Progress /\ NoEnter /\ RefusalInFlight
    BY DEF Init, Progress, NoEnter, RefusalInFlight
  <1>. QED
    BY <1>1, <1>2, <1>3, <1>4 DEF IInv

LEMMA NextInv == IInv /\ [Next]_vars => IInv'
  <1>. SUFFICES ASSUME IInv, [Next]_vars PROVE IInv'
    OBVIOUS
  <1>1. TypeOK /\ StageInv /\ ReturnInv /\ UnpluggedInv /\ OneInFlight /\ NoEnter /\ RefusalInFlight
    BY DEF IInv
  <1>2. TypeOK'
    BY <1>1, TypeStep
  <1>3. StageInv' /\ ReturnInv'
    BY <1>1, StageStep
  <1>4. UnpluggedInv'
    BY <1>1, UnpluggedStep
  <1>5. OneInFlight'
    BY <1>1, OneInFlightStep
  <1>6. Progress'
    BY ProgressStep
  <1>7. NoEnter' /\ RefusalInFlight'
    BY <1>1, NoEnterStep, RefusalStep
  <1>. QED
    BY <1>2, <1>3, <1>4, <1>5, <1>6, <1>7 DEF IInv

LEMMA Invariance == Spec => []IInv
  BY InitInv, NextInv, PTL DEF Spec

\* Every variable stays in its type: neither bootloader_send nor the brick
\* goes beyond the end of the flash, whatever is in flight.
THEOREM TypeCorrect == Spec => []TypeOK
  <1>1. IInv => TypeOK
    BY DEF IInv
  <1>. QED
    BY <1>1, Invariance, PTL

\* "Success! Local and remote checksums match." (bl_install.c): after an
\* install that began in silence and was not looped back, exit code 0 means
\* that the flash holds the file, cut or padded to FLASH_SIZE.
THEOREM InstallCorrect == Spec => []InstalledImage
  <1>1. IInv => InstalledImage
    BY DEF IInv, ReturnInv, Progress, AtApp, InstalledImage, Succeeded
  <1>. QED
    BY <1>1, Invariance, PTL

\* A refusal is never read and passed over, even when every reply is read one
\* request late; bootloader_exit does not follow it in an installation that
\* begins in silence.
THEOREM RefusalNoticed == Spec => []RefusalStopsInstall
  <1>1. IInv => RefusalStopsInstall
    <2>. SUFFICES ASSUME IInv, op = "install", plugged, ~looped, refused
                  PROVE  /\ pc # "exited" \/ ret = "ERR_UNK" =>
                              \E j \in 1 .. Len(replies) : replies[j].type = VM_ERROR
                         /\ clean => ~(stage = "FW_STARTAPP" /\ pc = "write")
      BY DEF RefusalStopsInstall
    <2>1. Unfailed => \E j \in 1 .. Len(replies) : replies[j].type = VM_ERROR
      BY DEF IInv, RefusalInFlight
    <2>2. clean /\ pc = "write" => replies = << >>
      BY DEF IInv, OneInFlight
    <2>3. clean => pc # "write"
      BY <2>1, <2>2, EmptySeq DEF Unfailed
    <2>. QED
      BY <2>1, <2>3 DEF Unfailed
  <1>. QED
    BY <1>1, Invariance, PTL

\* The brick leaves update mode under an install only when the flash already
\* holds the image (the order of the calls in bootloader_install).
THEOREM RebootCorrect == Spec => RebootsOnlyVerified
  <1>. DEFINE A == op = "install" /\ clean /\ ~looped /\ mode = "bootloader"
                   /\ mode' = "linux" => flash = Image
  <1>1. ASSUME IInv, [Next]_vars PROVE [A]_vars
    <2>. SUFFICES ASSUME op = "install", clean, ~looped, mode = "bootloader", mode' = "linux"
                  PROVE  flash = Image
      OBVIOUS
    <2>0. TypeOK /\ StageInv /\ OneInFlight /\ AtApp
      BY <1>1 DEF IInv, Progress
    <2>1. Brick
      <3>1. mode' # mode
        OBVIOUS
      <3>. QED
        BY <1>1, <2>0, <3>1, NextIs, RunIs, UnplugIs, AskIs, SendIs, EnterIs, ReplyIs, FailIs
           DEF vars, brick
    <2>2. requests # << >> /\ BrickDoes /\ requests[1].cmd = stage
      BY <2>0, <2>1, BrickIs, OnlyRequest
    <2>3. stage = "FW_STARTAPP"
      BY <2>2 DEF BrickDoes, Refuses, EraseServed, StartServed, DataServed, CrcServed,
         VersionServed, EnterServed, Serves
    <2>. QED
      BY <2>0, <2>3 DEF AtApp
  <1>2. Spec => [][A]_vars
    BY <1>1, Invariance, PTL DEF Spec
  <1>. QED
    BY <1>2 DEF RebootsOnlyVerified

\* A flash cell is programmed at most once between two erasures, whatever
\* installations were interrupted before.
THEOREM ProgramsOnce == Spec => ProgramsErasedCells
  <1>. DEFINE A == clean /\ ~looped =>
                     \A i \in Cells : flash'[i] \in {flash[i], Erased} \/ flash[i] = Erased
  <1>1. ASSUME IInv, [Next]_vars PROVE [A]_vars
    <2>. SUFFICES ASSUME clean, ~looped, NEW i \in Cells
                  PROVE  flash'[i] \in {flash[i], Erased} \/ flash[i] = Erased
      OBVIOUS
    <2>0. TypeOK /\ StageInv /\ OneInFlight /\ Progress
      BY <1>1 DEF IInv
    <2>1. CASE flash' = flash
      BY <2>1
    <2>2. CASE flash' # flash
      <3>1. Brick
        BY <1>1, <2>0, <2>2, NextIs, RunIs, UnplugIs, AskIs, SendIs, EnterIs, ReplyIs, FailIs
           DEF vars, brick
      <3>2. requests # << >> /\ BrickDoes /\ requests[1].cmd = stage
        BY <2>0, <3>1, BrickIs, OnlyRequest
      <3>3. CASE flash' = Blank
        BY <3>3 DEF Blank
      <3>4. CASE stage = "FW_DOWNLOAD_DATA" /\ DataServed
        <4>1. op = "install"
          BY <2>0, <3>4 DEF StageInv
        <4>2. next = sent /\ Written(sent) /\ requests[1].data = Payload
          BY <2>0, <3>2, <3>4, <4>1 DEF Progress, AtData
        <4>. DEFINE P == Programmed(Payload)
        <4>3. /\ Programs(Payload) /\ next >= 0 /\ next + Len(Payload) <= FLASH_SIZE
              /\ Payload \in Seq(Byte) /\ Len(Payload) \in Nat
          <5>1. sent \in 0 .. FLASH_SIZE /\ file \in Seq(Byte)
            BY <2>0 DEF TypeOK
          <5>2. Payload \in Seq(Byte)
            BY <5>1, PayloadType
          <5>. HIDE DEF Payload
          <5>. QED
            BY <3>4, <4>2, <5>2, LenProperties DEF DataServed
        <4>. HIDE DEF Payload
        <4>4. /\ P \in [Cells -> Byte \cup {Erased}]
              /\ i \notin next + 1 .. next + Len(Payload) => P[i] = flash[i]
          BY <2>0, <4>3, ProgrammedIs
        <4>. HIDE DEF P
        <4>5. CASE i \in next + 1 .. next + Len(Payload)
          <5>1. i \in sent + 1 .. FLASH_SIZE
            BY <2>0, <4>2, <4>3, <4>5, GeometryAssumption DEF TypeOK, GeometryAssumption
          <5>. QED
            BY <4>2, <5>1 DEF Written, Holds
        <4>6. CASE i \notin next + 1 .. next + Len(Payload)
          <5>1. flash' = P \/ \E k \in next + 1 .. next + Len(Payload), v \in Byte :
                                flash' = [P EXCEPT ![k] = v]
            BY <4>3 DEF Programs, P
          <5>2. flash'[i] = P[i]
            BY <4>4, <4>6, <5>1
          <5>. QED
            BY <4>4, <4>6, <5>2
        <4>. QED
          BY <4>5, <4>6
      <3>. QED
        BY <2>2, <3>2, <3>3, <3>4 DEF BrickDoes, Refuses, EraseServed, StartServed, CrcServed,
           VersionServed, AppServed, EnterServed
    <2>. QED
      BY <2>1, <2>2
  <1>2. Spec => [][A]_vars
    BY <1>1, Invariance, PTL DEF Spec
  <1>. QED
    BY <1>2 DEF ProgramsErasedCells
=============================================================================
