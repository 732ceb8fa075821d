---------------------------- MODULE SerialProofs ----------------------------
(***************************************************************************)
(* Proofs about Serial, for any byte base, requests, replies, buffer size, *)
(* number of writes and number of unread bytes: however the stream is      *)
(* fragmented, the brick finds the packets that were written, and bt_read  *)
(* implements the packet channel of PacketChannel.                         *)
(***************************************************************************)
EXTENDS Serial, SequenceTheorems, WellFoundedInduction, TLAPS

Stream == Seq(Byte)

-----------------------------------------------------------------------------
(***************************************************************************)
(* Induction, from the well-foundedness of < on the natural numbers: the   *)
(* induced property is given as the set of the numbers that have it.       *)
(***************************************************************************)

\* A set of natural numbers that is not empty has a least element.
LEMMA Smallest ==
  ASSUME NEW T \in SUBSET Nat, T # {}
  PROVE  \E x \in T : \A y \in T : x <= y
  <1>. DEFINE R == OpToRel(<, Nat)
  <1>1. IsWellFoundedOn(R, Nat)
    BY NatLessThanWellFounded
  <1>2. \A x, y \in Nat : y < x => <<y, x>> \in R
    BY DEF OpToRel
  <1>. HIDE DEF R
  <1>3. PICK x \in T : \A y \in T : ~(<<y, x>> \in R)
    BY <1>1, WFMin
  <1>4. ASSUME NEW y \in T PROVE x <= y
    <2>1. ~(y < x)
      BY <1>2, <1>3
    <2>. QED
      BY <2>1
  <1>. QED
    BY <1>4

\* A set of streams that holds every stream of which it holds all shorter
\* ones holds them all.
LEMMA StreamInduction ==
  ASSUME NEW G,
         \A s \in Stream : (\A t \in Stream : Len(t) < Len(s) => t \in G) => s \in G
  PROVE  \A s \in Stream : s \in G
  <1>. DEFINE T == {n \in Nat : \E s \in Stream : n = Len(s) /\ s \notin G}
  <1>1. SUFFICES ASSUME NEW s \in Stream, s \notin G PROVE FALSE
    OBVIOUS
  <1>0. \A t \in Stream : Len(t) \in Nat
    BY LenProperties DEF Stream
  <1>2. T \in SUBSET Nat /\ Len(s) \in T
    BY <1>0, <1>1
  <1>3. PICK x \in T : \A y \in T : x <= y
    <2>. HIDE DEF T
    <2>. QED
      BY <1>2, Smallest
  <1>4. PICK u \in Stream : x = Len(u) /\ u \notin G
    OBVIOUS
  <1>5. ASSUME NEW t \in Stream, Len(t) < Len(u) PROVE t \in G
    <2>1. SUFFICES ASSUME t \notin G PROVE FALSE
      OBVIOUS
    <2>2. Len(t) \in T
      BY <1>0, <2>1
    <2>3. Len(u) <= Len(t)
      BY <1>3, <1>4, <2>2
    <2>. QED
      BY <1>0, <1>5, <2>3
  <1>. QED
    BY <1>4, <1>5

-----------------------------------------------------------------------------
(***************************************************************************)
(* Streams and the packet they begin with.                                 *)
(***************************************************************************)

\* What the length field at the start of s announces, itself included.
First(s) == 2 + s[1] + Base * s[2]

\* s does not begin with a whole packet.
Short(s) == Len(s) < 2 \/ Len(s) < First(s)

After(s) == SubSeq(s, First(s) + 1, Len(s))

LEMMA BaseFacts == Base \in Nat /\ Base >= 2
  BY BytesAssumption DEF BytesAssumption

LEMMA FirstFacts ==
  ASSUME NEW s \in Stream, Len(s) >= 2
  PROVE  First(s) \in Nat /\ First(s) >= 2
  <1>1. s[1] \in Nat /\ s[2] \in Nat
    BY BaseFacts, ElementOfSeq, LenProperties DEF Stream, Byte
  <1>2. \A a, b \in Nat : a * b \in Nat
    OBVIOUS
  <1>3. Base * s[2] \in Nat
    BY <1>1, <1>2, BaseFacts
  <1>. QED
    BY <1>1, <1>3 DEF First

\* A stream is split at any place.
LEMMA Split ==
  ASSUME NEW s \in Stream, NEW n \in 0 .. Len(s)
  PROVE  /\ SubSeq(s, 1, n) \in Stream /\ Len(SubSeq(s, 1, n)) = n
         /\ SubSeq(s, n + 1, Len(s)) \in Stream
         /\ Len(SubSeq(s, n + 1, Len(s))) = Len(s) - n
         /\ SubSeq(s, 1, n) \o SubSeq(s, n + 1, Len(s)) = s
  <1>0. Len(s) \in Nat /\ n \in Nat /\ \A i \in 1 .. Len(s) : s[i] \in Byte
    BY LenProperties, ElementOfSeq DEF Stream
  <1>1. SubSeq(s, 1, n) \in Stream /\ Len(SubSeq(s, 1, n)) = n
    <2>1. \A i \in 1 .. n : s[i] \in Byte
      BY <1>0
    <2>2. 1 \in Int /\ n \in Int
      BY <1>0
    <2>. QED
      BY <1>0, <2>1, <2>2, SubSeqProperties DEF Stream
  <1>2. /\ SubSeq(s, n + 1, Len(s)) \in Stream
        /\ Len(SubSeq(s, n + 1, Len(s))) = Len(s) - n
    <2>1. \A i \in n + 1 .. Len(s) : s[i] \in Byte
      BY <1>0
    <2>2. n + 1 \in Int /\ Len(s) \in Int
      BY <1>0
    <2>3. /\ SubSeq(s, n + 1, Len(s)) \in Seq(Byte)
          /\ Len(SubSeq(s, n + 1, Len(s))) = IF n + 1 <= Len(s) THEN Len(s) - (n + 1) + 1 ELSE 0
      BY <2>1, <2>2, SubSeqProperties
    <2>4. Len(SubSeq(s, n + 1, Len(s))) = Len(s) - n
      <3>. DEFINE L == Len(s)
      <3>1. n \in 0 .. L /\ L \in Nat
        BY <1>0
      <3>2. Len(SubSeq(s, n + 1, Len(s))) = IF n + 1 <= L THEN L - (n + 1) + 1 ELSE 0
        BY <2>3
      <3>. HIDE DEF L
      <3>3. Len(SubSeq(s, n + 1, Len(s))) = L - n
        BY <3>1, <3>2
      <3>. QED
        BY <3>3 DEF L
    <2>. QED
      BY <2>3, <2>4 DEF Stream
  <1>3. SubSeq(s, 1, n) \o SubSeq(s, n + 1, Len(s)) = SubSeq(s, 1, Len(s))
    <2>1. 1 \in 1 .. Len(s) + 1 /\ n \in 1 - 1 .. Len(s) /\ Len(s) \in n .. Len(s)
      BY <1>0
    <2>. QED
      BY <2>1, ConcatAdjacentSubSeq DEF Stream
  <1>4. SubSeq(s, 1, Len(s)) = s
    BY SubSeqFull DEF Stream
  <1>. QED
    BY <1>1, <1>2, <1>3, <1>4

LEMMA AfterFacts ==
  ASSUME NEW s \in Stream, ~Short(s)
  PROVE  /\ Len(s) >= 2 /\ First(s) \in 2 .. Len(s)
         /\ After(s) \in Stream /\ Len(After(s)) < Len(s)
         /\ Len(After(s)) = Len(s) - First(s)
         /\ SubSeq(s, 1, First(s)) \in Stream
         /\ Len(SubSeq(s, 1, First(s))) = First(s)
         /\ s = SubSeq(s, 1, First(s)) \o After(s)
  <1>1. Len(s) \in Nat /\ ~(Len(s) < 2)
    BY LenProperties DEF Stream, Short
  <1>2. Len(s) >= 2
    BY <1>1
  <1>3. First(s) \in Nat /\ First(s) >= 2
    BY <1>2, FirstFacts
  <1>4. First(s) \in 2 .. Len(s)
    BY <1>1, <1>3 DEF Short
  <1>5. First(s) \in 0 .. Len(s)
    BY <1>1, <1>4
  <1>6. /\ SubSeq(s, 1, First(s)) \in Stream
        /\ Len(SubSeq(s, 1, First(s))) = First(s)
        /\ After(s) \in Stream /\ Len(After(s)) = Len(s) - First(s)
        /\ s = SubSeq(s, 1, First(s)) \o After(s)
    BY <1>5, Split DEF After
  <1>7. Len(After(s)) < Len(s)
    BY <1>1, <1>4, <1>6
  <1>. QED
    BY <1>2, <1>4, <1>6, <1>7

-----------------------------------------------------------------------------
(***************************************************************************)
(* The recursive definition of Cut has exactly one solution.               *)
(***************************************************************************)

Pieces == [packets : Seq(Stream), rest : Stream]

\* The right-hand side of the definition, with f for the function defined.
Step(f, s) ==
  IF Short(s)
    THEN [packets |-> << >>, rest |-> s]
    ELSE [packets |-> <<SubSeq(s, 1, First(s))>> \o f[After(s)].packets,
          rest |-> f[After(s)].rest]

\* f is a solution on the streams of up to n bytes.
Solves(f, n) == \A s \in Stream : Len(s) <= n => f[s] = Step(f, s)

\* Two solutions agree.
LEMMA SolutionUnique ==
  ASSUME NEW f, NEW g, NEW n \in Nat, Solves(f, n), Solves(g, n)
  PROVE  \A s \in Stream : Len(s) <= n => f[s] = g[s]
  <1>. DEFINE G == {s \in Stream : Len(s) <= n => f[s] = g[s]}
  <1>1. ASSUME NEW s \in Stream, \A t \in Stream : Len(t) < Len(s) => t \in G
        PROVE  s \in G
    <2>1. SUFFICES ASSUME Len(s) <= n PROVE f[s] = g[s]
      OBVIOUS
    <2>2. f[s] = Step(f, s) /\ g[s] = Step(g, s)
      BY <2>1 DEF Solves
    <2>3. CASE Short(s)
      BY <2>2, <2>3 DEF Step
    <2>4. CASE ~Short(s)
      <3>1. After(s) \in Stream /\ Len(After(s)) < Len(s)
        BY <2>4, AfterFacts
      <3>2. Len(After(s)) <= n
        BY <2>1, <3>1, LenProperties DEF Stream
      <3>3. f[After(s)] = g[After(s)]
        BY <1>1, <3>1, <3>2
      <3>. QED
        BY <2>2, <2>4, <3>3 DEF Step
    <2>. QED
      BY <2>3, <2>4
  <1>. HIDE DEF G
  <1>2. \A s \in Stream : s \in G
    BY <1>1, StreamInduction
  <1>. QED
    BY <1>2 DEF G

LEMMA StepType ==
  ASSUME NEW f \in [Stream -> Pieces], NEW s \in Stream
  PROVE  Step(f, s) \in Pieces
  <1>1. CASE Short(s)
    <2>1. << >> \in Seq(Stream)
      BY EmptySeq
    <2>. QED
      BY <1>1, <2>1 DEF Step, Pieces
  <1>2. CASE ~Short(s)
    <2>1. After(s) \in Stream /\ SubSeq(s, 1, First(s)) \in Stream
      BY <1>2, AfterFacts
    <2>2. f[After(s)].packets \in Seq(Stream) /\ f[After(s)].rest \in Stream
      BY <2>1 DEF Pieces
    <2>3. <<SubSeq(s, 1, First(s))>> \in Seq(Stream)
      BY <2>1
    <2>4. <<SubSeq(s, 1, First(s))>> \o f[After(s)].packets \in Seq(Stream)
      BY <2>2, <2>3, ConcatProperties
    <2>. QED
      BY <1>2, <2>2, <2>4 DEF Step, Pieces
  <1>. QED
    BY <1>1, <1>2

LEMMA SolutionUpTo ==
  ASSUME NEW n \in Nat
  PROVE  \E f \in [Stream -> Pieces] : Solves(f, n)
  <1>. DEFINE B == {k \in Nat : ~ \E f \in [Stream -> Pieces] : Solves(f, k)}
  <1>0. \A s \in Stream : Len(s) \in Nat
    BY LenProperties DEF Stream
  <1>1. SUFFICES ASSUME B # {} PROVE FALSE
    OBVIOUS
  <1>2. PICK x \in B : \A y \in B : x <= y
    <2>1. B \in SUBSET Nat
      OBVIOUS
    <2>. HIDE DEF B
    <2>. QED
      BY <1>1, <2>1, Smallest
  <1>3. PICK f \in [Stream -> Pieces] : \A s \in Stream : Len(s) < x => f[s] = Step(f, s)
    <2>1. CASE x = 0
      <3>. DEFINE f == [s \in Stream |-> [packets |-> << >>, rest |-> s]]
      <3>0. << >> \in Seq(Stream)
        BY EmptySeq
      <3>1. f \in [Stream -> Pieces]
        BY <3>0 DEF Pieces
      <3>2. \A s \in Stream : ~(Len(s) < x)
        BY <1>0, <2>1
      <3>. HIDE DEF f
      <3>. QED
        BY <3>1, <3>2
    <2>2. CASE x # 0
      <3>1. x - 1 \in Nat /\ x - 1 \notin B
        BY <1>2, <2>2
      <3>2. PICK f \in [Stream -> Pieces] : Solves(f, x - 1)
        BY <3>1
      <3>3. \A s \in Stream : Len(s) < x => Len(s) <= x - 1
        BY <1>0
      <3>. QED
        BY <3>2, <3>3 DEF Solves
    <2>. QED
      BY <2>1, <2>2
  <1>. DEFINE g == [s \in Stream |-> Step(f, s)]
  <1>4. g \in [Stream -> Pieces]
    BY StepType
  <1>5. \A s \in Stream : Len(s) < x => g[s] = f[s]
    BY <1>3
  <1>6. ASSUME NEW s \in Stream, Len(s) <= x PROVE g[s] = Step(g, s)
    <2>1. g[s] = Step(f, s)
      OBVIOUS
    <2>. HIDE DEF g
    <2>2. CASE Short(s)
      BY <2>1, <2>2 DEF Step
    <2>3. CASE ~Short(s)
      <3>1. After(s) \in Stream /\ Len(After(s)) < Len(s)
        BY <2>3, AfterFacts
      <3>2. Len(After(s)) < x
        BY <1>0, <1>6, <3>1
      <3>3. g[After(s)] = f[After(s)]
        BY <1>5, <3>1, <3>2
      <3>. QED
        BY <2>1, <2>3, <3>3 DEF Step
    <2>. QED
      BY <2>2, <2>3
  <1>. HIDE DEF g
  <1>7. Solves(g, x)
    BY <1>6 DEF Solves
  <1>. QED
    BY <1>4, <1>7

LEMMA SolutionExists ==
  \E f \in [Stream -> Pieces] : \A s \in Stream : f[s] = Step(f, s)
  <1>. DEFINE Upto(n) == CHOOSE f \in [Stream -> Pieces] : Solves(f, n)
              F == [s \in Stream |-> Upto(Len(s))[s]]
  <1>0. \A s \in Stream : Len(s) \in Nat
    BY LenProperties DEF Stream
  <1>1. \A n \in Nat : Upto(n) \in [Stream -> Pieces] /\ Solves(Upto(n), n)
    BY SolutionUpTo
  <1>. HIDE DEF Upto
  <1>2. F \in [Stream -> Pieces]
    BY <1>0, <1>1
  <1>3. ASSUME NEW s \in Stream PROVE F[s] = Step(F, s)
    <2>1. F[s] = Upto(Len(s))[s]
      OBVIOUS
    <2>2. Upto(Len(s))[s] = Step(Upto(Len(s)), s)
      BY <1>0, <1>1 DEF Solves
    <2>3. CASE Short(s)
      BY <2>1, <2>2, <2>3 DEF Step
    <2>4. CASE ~Short(s)
      <3>1. After(s) \in Stream /\ Len(After(s)) < Len(s)
        BY <2>4, AfterFacts
      <3>2. F[After(s)] = Upto(Len(After(s)))[After(s)]
        BY <3>1
      <3>3. Solves(Upto(Len(s)), Len(After(s)))
        <4>1. \A t \in Stream : Len(t) <= Len(After(s)) => Len(t) <= Len(s)
          BY <1>0, <3>1
        <4>. QED
          BY <1>0, <1>1, <4>1 DEF Solves
      <3>4. Upto(Len(After(s)))[After(s)] = Upto(Len(s))[After(s)]
        <4>1. Len(After(s)) \in Nat /\ Len(After(s)) <= Len(After(s))
          BY <1>0, <3>1
        <4>2. Solves(Upto(Len(After(s))), Len(After(s)))
          BY <1>1, <4>1
        <4>. QED
          BY <3>1, <3>3, <4>1, <4>2, SolutionUnique
      <3>. HIDE DEF F
      <3>. QED
        BY <2>1, <2>2, <2>4, <3>2, <3>4 DEF Step
    <2>. QED
      BY <2>3, <2>4
  <1>. HIDE DEF F
  <1>. QED
    BY <1>2, <1>3

\* Cut is that function: what it computes follows its definition.
LEMMA CutIs ==
  ASSUME NEW s \in Stream
  PROVE  Cut[s] \in Pieces /\ Cut[s] = Step(Cut, s)
  <1>1. PICK f \in [Stream -> Pieces] : \A t \in Stream : f[t] = Step(f, t)
    BY SolutionExists
  <1>2. f = [t \in Stream |-> Step(f, t)]
    BY <1>1
  <1>3. Cut = [t \in Stream |-> Step(Cut, t)]
    BY <1>2 DEF Cut, Step, Short, First, After, Stream
  <1>4. \A t \in Stream : Cut[t] = Step(Cut, t)
    BY <1>3
  <1>5. Len(s) \in Nat
    BY LenProperties DEF Stream
  <1>6. Solves(Cut, Len(s)) /\ Solves(f, Len(s))
    BY <1>1, <1>4 DEF Solves
  <1>7. Cut[s] = f[s]
    BY <1>5, <1>6, SolutionUnique
  <1>. QED
    BY <1>4, <1>7

-----------------------------------------------------------------------------
(***************************************************************************)
(* How a stream is cut.                                                    *)
(***************************************************************************)

LEMMA CutTypes ==
  ASSUME NEW s \in Stream
  PROVE  Frames(s) \in Seq(Stream) /\ Unframed(s) \in Stream
  BY CutIs DEF Pieces, Frames, Unframed

LEMMA FramesShort ==
  ASSUME NEW s \in Stream, Short(s)
  PROVE  Frames(s) = << >>
  <1>1. Cut[s] = [packets |-> << >>, rest |-> s]
    BY CutIs DEF Step
  <1>. QED
    BY <1>1 DEF Frames

LEMMA FramesLong ==
  ASSUME NEW s \in Stream, ~Short(s)
  PROVE  Frames(s) = <<SubSeq(s, 1, First(s))>> \o Frames(After(s))
  <1>1. Cut[s] = [packets |-> <<SubSeq(s, 1, First(s))>> \o Cut[After(s)].packets,
                  rest |-> Cut[After(s)].rest]
    BY CutIs DEF Step
  <1>. QED
    BY <1>1 DEF Frames

LEMMA EmptyStream == << >> \in Stream /\ Len(<< >>) = 0 /\ Frames(<< >>) = << >>
  <1>1. << >> \in Stream /\ Len(<< >>) = 0
    BY EmptySeq DEF Stream
  <1>2. Short(<< >>)
    BY <1>1 DEF Short
  <1>. QED
    BY <1>1, <1>2, FramesShort

\* A packet whose length field tells its length.
IsPacket(p) == p \in Stream /\ Len(p) >= 2 /\ Len(p) = First(p)

LEMMA StreamConcat ==
  ASSUME NEW s \in Stream, NEW t \in Stream
  PROVE  /\ s \o t \in Stream /\ Len(s \o t) = Len(s) + Len(t)
         /\ Len(s) \in Nat /\ Len(t) \in Nat
  BY ConcatProperties, LenProperties DEF Stream

Associative(s, t, u) == (s \o t) \o u = s \o (t \o u)

LEMMA StreamAssociative ==
  ASSUME NEW s \in Stream, NEW t \in Stream, NEW u \in Stream
  PROVE  Associative(s, t, u)
  <1>1. s \in Seq(Byte) /\ t \in Seq(Byte) /\ u \in Seq(Byte)
    BY DEF Stream
  <1>. QED
    BY ONLY <1>1, ConcatAssociative DEF Associative

\* The length field of a stream does not depend on what follows it.
LEMMA FirstOfConcat ==
  ASSUME NEW s \in Stream, NEW t \in Stream, Len(s) >= 2
  PROVE  First(s \o t) = First(s)
  <1>1. (s \o t)[1] = s[1] /\ (s \o t)[2] = s[2]
    BY StreamConcat, ConcatProperties DEF Stream
  <1>. QED
    BY <1>1 DEF First

\* A stream that begins with p is split after p.
LEMMA SplitConcat ==
  ASSUME NEW p \in Stream, NEW r \in Stream
  PROVE  /\ SubSeq(p \o r, 1, Len(p)) = p
         /\ SubSeq(p \o r, Len(p) + 1, Len(p \o r)) = r
  <1>. DEFINE a == SubSeq(p \o r, 1, Len(p))
              b == SubSeq(p \o r, Len(p) + 1, Len(p \o r))
  <1>1. p \o r \in Stream /\ Len(p) \in 0 .. Len(p \o r) /\ Len(p \o r) = Len(p) + Len(r)
    BY StreamConcat
  <1>2. /\ a \in Stream /\ Len(a) = Len(p) /\ b \in Stream /\ Len(b) = Len(r)
        /\ a \o b = p \o r
    <2>1. /\ a \in Stream /\ Len(a) = Len(p) /\ b \in Stream /\ Len(b) = Len(p \o r) - Len(p)
          /\ a \o b = p \o r
      BY <1>1, Split
    <2>2. Len(p \o r) - Len(p) = Len(r)
      BY <1>1, StreamConcat
    <2>. QED
      BY <2>1, <2>2
  <1>. HIDE DEF a, b
  <1>3. ASSUME NEW i \in 1 .. Len(p) PROVE a[i] = p[i]
    <2>1. i \in 1 .. Len(a) + Len(b) /\ i \in 1 .. Len(p) + Len(r) /\ i <= Len(a)
      BY <1>2, StreamConcat
    <2>2. (a \o b)[i] = a[i] /\ (p \o r)[i] = p[i]
      BY <1>2, <2>1, ConcatProperties DEF Stream
    <2>. QED
      BY <1>2, <2>2
  <1>4. a = p
    BY <1>2, <1>3, SeqEqual DEF Stream
  <1>5. b = r
    BY <1>2, <1>4, ConcatSimplifications DEF Stream
  <1>. QED
    BY <1>4, <1>5 DEF a, b

LEMMA FramesOfPacket ==
  ASSUME NEW p, IsPacket(p), NEW r \in Stream
  PROVE  Frames(p \o r) = <<p>> \o Frames(r)
  <1>1. p \in Stream /\ Len(p) >= 2 /\ Len(p) = First(p)
    BY DEF IsPacket
  <1>2. p \o r \in Stream /\ Len(p \o r) = Len(p) + Len(r) /\ Len(p) \in Nat /\ Len(r) \in Nat
    BY <1>1, StreamConcat
  <1>3. First(p \o r) = Len(p)
    BY <1>1, FirstOfConcat
  <1>4. ~Short(p \o r)
    BY <1>1, <1>2, <1>3 DEF Short
  <1>5. SubSeq(p \o r, 1, First(p \o r)) = p /\ After(p \o r) = r
    BY <1>1, <1>3, SplitConcat DEF After
  <1>. QED
    BY <1>2, <1>4, <1>5, FramesLong

LEMMA FramesOfOne ==
  ASSUME NEW p, IsPacket(p)
  PROVE  Frames(p) = <<p>>
  <1>1. p \in Stream /\ p \o << >> = p
    BY ConcatEmptySeq DEF IsPacket, Stream
  <1>2. Frames(p) = <<p>> \o << >>
    BY <1>1, EmptyStream, FramesOfPacket
  <1>3. <<p>> \in Seq(Stream)
    BY <1>1
  <1>. QED
    BY <1>2, <1>3, ConcatEmptySeq

\* Part of a packet is not cut.
LEMMA FramesOfPart ==
  ASSUME NEW q \in Stream, NEW t \in Stream, t # << >>, IsPacket(q \o t)
  PROVE  Frames(q) = << >>
  <1>1. Len(q) \in Nat /\ Len(t) \in Nat \ {0} /\ Len(q \o t) = Len(q) + Len(t)
    BY StreamConcat, EmptySeq DEF Stream
  <1>2. Short(q)
    <2>1. SUFFICES ASSUME Len(q) >= 2 PROVE Len(q) < First(q)
      BY <1>1 DEF Short
    <2>2. First(q \o t) = First(q)
      BY <2>1, FirstOfConcat
    <2>3. First(q) = Len(q) + Len(t)
      BY <1>1, <2>2 DEF IsPacket
    <2>. QED
      BY <1>1, <2>3
  <1>. QED
    BY <1>2, FramesShort

\* A stream that ends with a packet: what follows is cut on its own.
Whole(s) == \A t \in Stream : Frames(s \o t) = Frames(s) \o Frames(t)

LEMMA WholeEmpty == Whole(<< >>)
  <1>1. ASSUME NEW t \in Stream PROVE Frames(<< >> \o t) = Frames(<< >>) \o Frames(t)
    <2>1. << >> \o t = t
      BY ConcatEmptySeq DEF Stream
    <2>2. << >> \o Frames(t) = Frames(t)
      BY CutTypes, ConcatEmptySeq
    <2>. QED
      BY <2>1, <2>2, EmptyStream
  <1>. QED
    BY <1>1 DEF Whole

\* A packet after such a stream is cut off it.
LEMMA WholeAppend ==
  ASSUME NEW s \in Stream, Whole(s), NEW p, IsPacket(p)
  PROVE  /\ Whole(s \o p)
         /\ Frames(s \o p) = Append(Frames(s), p)
  <1>1. p \in Stream /\ <<p>> \in Seq(Stream) /\ Frames(s) \in Seq(Stream)
    BY CutTypes DEF IsPacket
  <1>2. Frames(s \o p) = Frames(s) \o <<p>>
    BY <1>1, FramesOfOne DEF Whole
  <1>3. Frames(s \o p) = Append(Frames(s), p)
    BY <1>1, <1>2, AppendIsConcat
  <1>4. ASSUME NEW t \in Stream PROVE Frames((s \o p) \o t) = Frames(s \o p) \o Frames(t)
    <2>1. (s \o p) \o t = s \o (p \o t) /\ p \o t \in Stream
      <3>1. s \in Stream /\ p \in Stream /\ t \in Stream
        BY <1>1
      <3>2. (s \o p) \o t = s \o (p \o t)
        <4>1. Associative(s, p, t)
          BY <3>1, StreamAssociative
        <4>. QED
          BY <4>1 DEF Associative
      <3>3. p \o t \in Stream
        BY ONLY <3>1, StreamConcat
      <3>. QED
        BY <3>2, <3>3
    <2>2. Frames(s \o (p \o t)) = Frames(s) \o Frames(p \o t)
      BY <2>1 DEF Whole
    <2>3. Frames(p \o t) = <<p>> \o Frames(t)
      BY FramesOfPacket
    <2>4. Frames(s) \o (<<p>> \o Frames(t)) = (Frames(s) \o <<p>>) \o Frames(t)
      BY <1>1, CutTypes, ConcatAssociative
    <2>. QED
      BY <1>2, <2>1, <2>2, <2>3, <2>4
  <1>. QED
    BY <1>3, <1>4 DEF Whole

\* So is a stream without the packet it began with.
LEMMA WholeRest ==
  ASSUME NEW p, IsPacket(p), NEW r \in Stream, Whole(p \o r)
  PROVE  Whole(r)
  <1>1. p \in Stream /\ <<p>> \in Seq(Stream)
    BY DEF IsPacket
  <1>2. ASSUME NEW t \in Stream PROVE Frames(r \o t) = Frames(r) \o Frames(t)
    <2>1. Frames((p \o r) \o t) = Frames(p \o r) \o Frames(t)
      BY DEF Whole
    <2>2. (p \o r) \o t = p \o (r \o t) /\ r \o t \in Stream
      <3>1. p \in Stream /\ r \in Stream /\ t \in Stream
        BY <1>1
      <3>2. (p \o r) \o t = p \o (r \o t)
        <4>1. Associative(p, r, t)
          BY <3>1, StreamAssociative
        <4>. QED
          BY <4>1 DEF Associative
      <3>3. r \o t \in Stream
        BY ONLY <3>1, StreamConcat
      <3>. QED
        BY <3>2, <3>3
    <2>3. Frames(p \o (r \o t)) = <<p>> \o Frames(r \o t) /\ Frames(p \o r) = <<p>> \o Frames(r)
      BY <2>2, FramesOfPacket
    <2>4. (<<p>> \o Frames(r)) \o Frames(t) = <<p>> \o (Frames(r) \o Frames(t))
      BY <1>1, CutTypes, ConcatAssociative
    <2>5. <<p>> \o Frames(r \o t) = <<p>> \o (Frames(r) \o Frames(t))
      BY <2>1, <2>2, <2>3, <2>4
    <2>6. Frames(r \o t) \in Seq(Stream) /\ Frames(r) \o Frames(t) \in Seq(Stream)
      BY <2>2, CutTypes, ConcatProperties
    <2>. QED
      BY <1>1, <2>5, <2>6, ConcatSimplifications
  <1>. QED
    BY <1>2 DEF Whole

\* More bytes add packets and change none.
LEMMA FramesPrefix ==
  ASSUME NEW u \in Stream, NEW t \in Stream
  PROVE  \E g \in Seq(Stream) : Frames(u \o t) = Frames(u) \o g
  <1>. DEFINE G == {v \in Stream : \E g \in Seq(Stream) : Frames(v \o t) = Frames(v) \o g}
  <1>1. ASSUME NEW v \in Stream, \A w \in Stream : Len(w) < Len(v) => w \in G
        PROVE  v \in G
    <2>1. CASE Short(v)
      <3>1. Frames(v) = << >> /\ Frames(v \o t) \in Seq(Stream)
        BY <2>1, FramesShort, CutTypes, StreamConcat
      <3>2. Frames(v \o t) = Frames(v) \o Frames(v \o t)
        BY <3>1, ConcatEmptySeq
      <3>. QED
        BY <3>1, <3>2
    <2>2. CASE ~Short(v)
      <3>. DEFINE p == SubSeq(v, 1, First(v))
                  r == After(v)
      <3>1. /\ p \in Stream /\ Len(p) = First(v) /\ First(v) >= 2
            /\ r \in Stream /\ Len(r) < Len(v) /\ v = p \o r
        BY <2>2, AfterFacts
      <3>. HIDE DEF p, r
      <3>2. IsPacket(p)
        BY <3>1, FirstOfConcat DEF IsPacket
      <3>3. PICK g \in Seq(Stream) : Frames(r \o t) = Frames(r) \o g
        BY <1>1, <3>1
      <3>4. v \o t = p \o (r \o t) /\ r \o t \in Stream
        <4>1. (p \o r) \o t = p \o (r \o t)
          <5>1. p \in Stream /\ r \in Stream /\ t \in Stream
            BY <3>1
          <5>2. Associative(p, r, t)
            BY <5>1, StreamAssociative
          <5>. QED
            BY <5>2 DEF Associative
        <4>. QED
          BY <3>1, <4>1, StreamConcat
      <3>5. Frames(v \o t) = <<p>> \o (Frames(r) \o g) /\ Frames(v) = <<p>> \o Frames(r)
        BY <3>1, <3>2, <3>3, <3>4, FramesOfPacket
      <3>6. <<p>> \o (Frames(r) \o g) = (<<p>> \o Frames(r)) \o g
        <4>1. <<p>> \in Seq(Stream) /\ Frames(r) \in Seq(Stream)
          BY <3>1, CutTypes
        <4>. QED
          BY <4>1, ConcatAssociative
      <3>. QED
        BY <3>5, <3>6
    <2>. QED
      BY <2>1, <2>2
  <1>. HIDE DEF G
  <1>2. \A v \in Stream : v \in G
    BY <1>1, StreamInduction
  <1>. QED
    BY <1>2 DEF G

LEMMA SubSeqOfFirst ==
  ASSUME NEW S, NEW f \in Seq(S), NEW g \in Seq(S)
  PROVE  /\ SubSeq(f \o g, 1, Len(f)) = f
         /\ Len(f) \in 0 .. Len(f \o g)
  <1>1. /\ Len(f) \in Nat /\ Len(g) \in Nat /\ f \o g \in Seq(S) /\ Len(f \o g) = Len(f) + Len(g)
        /\ \A i \in 1 .. Len(f) + Len(g) : (f \o g)[i] = IF i <= Len(f) THEN f[i] ELSE g[i - Len(f)]
    BY ConcatProperties, LenProperties
  <1>2. \A i \in 1 .. Len(f) : (f \o g)[i] = f[i] /\ (f \o g)[i] \in S
    BY <1>1, ElementOfSeq
  <1>3. /\ SubSeq(f \o g, 1, Len(f)) \in Seq(S)
        /\ Len(SubSeq(f \o g, 1, Len(f))) = IF 1 <= Len(f) THEN Len(f) - 1 + 1 ELSE 0
        /\ \A i \in 1 .. Len(f) - 1 + 1 : SubSeq(f \o g, 1, Len(f))[i] = (f \o g)[1 + i - 1]
    <2>1. 1 \in Int /\ Len(f) \in Int
      BY <1>1
    <2>. QED
      BY <1>2, <2>1, SubSeqProperties
  <1>. DEFINE h == SubSeq(f \o g, 1, Len(f))
              n == Len(f)
  <1>4. n \in Nat
    BY <1>1
  <1>5. Len(h) = IF 1 <= n THEN n - 1 + 1 ELSE 0
    BY <1>3
  <1>6. Len(h) = n
    <2>. HIDE DEF n, h
    <2>. QED
      BY <1>4, <1>5
  <1>7. \A i \in 1 .. n : h[i] = f[i]
    <2>1. \A i \in 1 .. n : i \in 1 .. n - 1 + 1 /\ 1 + i - 1 = i
      BY <1>4
    <2>. QED
      BY <1>2, <1>3, <2>1
  <1>8. h = f
    <2>1. h \in Seq(S)
      BY <1>3
    <2>. HIDE DEF h
    <2>. QED
      BY <1>6, <1>7, <2>1, SeqEqual
  <1>. QED
    BY <1>1, <1>8

-----------------------------------------------------------------------------
(***************************************************************************)
(* The packets of both sides.                                              *)
(***************************************************************************)

\* What bt_write puts into the stream for CONTINUE_LIST_FILES.
ListPacket == LenField(Len(ListBody) - 2) \o ListBody

LEMMA DivMod ==
  ASSUME NEW n \in Nat, n < Base * Base
  PROVE  /\ n % Base \in Byte /\ n \div Base \in Byte
         /\ (n % Base) + Base * (n \div Base) = n
  <1>. DEFINE q == n \div Base
              r == n % Base
  <1>0. Base \in Nat /\ Base >= 2
    BY BaseFacts
  <1>1. q \in Nat /\ r \in 0 .. Base - 1 /\ n = Base * q + r
    BY <1>0, SMT
  <1>. HIDE DEF q, r
  <1>2. q < Base
    <2>1. SUFFICES ASSUME q >= Base PROVE FALSE
      BY <1>0, <1>1
    <2>2. PICK d \in Nat : q = Base + d
      <3>1. q - Base \in Nat /\ q = Base + (q - Base)
        BY <1>0, <1>1, <2>1
      <3>. QED
        BY <3>1
    <2>3. Base * q = Base * Base + Base * d
      BY <1>0, <2>2
    <2>4. Base * d \in Nat /\ Base * Base \in Nat
      BY <1>0, <2>2
    <2>. QED
      BY <1>1, <2>3, <2>4
  <1>3. r \in Byte /\ q \in Byte /\ r + Base * q = n
    <2>1. Base * q \in Nat
      BY <1>0, <1>1
    <2>. QED
      BY <1>0, <1>1, <1>2, <2>1 DEF Byte
  <1>. QED
    BY <1>3 DEF q, r

\* The length field is two bytes that First reads back.
LEMMA LenFieldFacts ==
  ASSUME NEW n \in Nat, n < Base * Base, NEW b \in Stream
  PROVE  /\ LenField(n) \in Stream /\ Len(LenField(n)) = 2
         /\ LenField(n) \o b \in Stream
         /\ Len(LenField(n) \o b) = 2 + Len(b)
         /\ First(LenField(n) \o b) = 2 + n
  <1>. DEFINE f == LenField(n)
  <1>0. /\ n % Base \in Byte /\ n \div Base \in Byte
        /\ (n % Base) + Base * (n \div Base) = n
    BY DivMod
  <1>1. f \in Stream /\ Len(f) = 2 /\ f[1] = n % Base /\ f[2] = n \div Base
    BY <1>0 DEF LenField, Stream
  <1>2. n % Base \in Int /\ Base * (n \div Base) \in Int
    BY <1>0, BaseFacts DEF Byte
  <1>3. First(f) = 2 + n
    <2>1. First(f) = 2 + (n % Base) + Base * (n \div Base)
      BY <1>1 DEF First
    <2>. QED
      BY <1>0, <1>2, <2>1
  <1>. HIDE DEF f
  <1>4. f \o b \in Stream /\ Len(f \o b) = 2 + Len(b)
    BY <1>1, StreamConcat
  <1>5. First(f \o b) = 2 + n
    <2>1. Len(f) >= 2
      BY <1>1
    <2>2. First(f \o b) = First(f)
      BY <1>1, <2>1, FirstOfConcat
    <2>. QED
      BY <1>3, <2>2
  <1>. QED
    BY <1>1, <1>4, <1>5 DEF f

\* Every packet of the brick, and every request, tells its length.
LEMMA PacketWhole ==
  ASSUME NEW b \in Requests \cup Replies
  PROVE  IsPacket(LenField(Len(b)) \o b)
  <1>1. b \in Stream /\ Len(b) \in Nat /\ Len(b) < Base * Base
    BY BytesAssumption, LenProperties DEF BytesAssumption, Stream
  <1>2. /\ LenField(Len(b)) \o b \in Stream
        /\ Len(LenField(Len(b)) \o b) = 2 + Len(b)
        /\ First(LenField(Len(b)) \o b) = 2 + Len(b)
    BY <1>1, LenFieldFacts
  <1>. QED
    BY <1>1, <1>2 DEF IsPacket

LEMMA ListPacketFacts ==
  /\ ListPacket \in Stream /\ Len(ListPacket) >= 4
  /\ LenField(Len(ListBody) - 2) \in Stream /\ ListBody \in Stream
  <1>. DEFINE L == Len(ListBody)
  <1>1. ListBody \in Stream /\ L \in Nat /\ L < Base * Base /\ L >= 2
    BY BytesAssumption, LenProperties DEF BytesAssumption, Stream
  <1>2. L - 2 \in Nat /\ L - 2 < Base * Base
    <2>1. Base * Base \in Nat
      BY BaseFacts
    <2>. HIDE DEF L
    <2>. QED
      BY <1>1, <2>1
  <1>3. /\ LenField(L - 2) \in Stream /\ LenField(L - 2) \o ListBody \in Stream
        /\ Len(LenField(L - 2) \o ListBody) = 2 + L
    BY <1>1, <1>2, LenFieldFacts
  <1>. QED
    BY <1>1, <1>3 DEF ListPacket

LEMMA TailOfReport ==
  ASSUME NEW f \in Stream, NEW b \in Stream
  PROVE  Tail(<<0>> \o f \o b) = f \o b
  <1>. DEFINE o == <<0>>
  <1>1. o \in Stream /\ Len(o) = 1
    BY BaseFacts DEF Stream, Byte
  <1>. HIDE DEF o
  <1>2. (o \o f) \o b = o \o (f \o b)
    <2>1. Associative(o, f, b)
      BY <1>1, StreamAssociative
    <2>. QED
      BY <2>1 DEF Associative
  <1>. DEFINE x == f \o b
              y == o \o x
  <1>3. x \in Stream
    BY StreamConcat
  <1>. HIDE DEF x
  <1>4. /\ y \in Stream /\ Len(y) = 1 + Len(x)
        /\ SubSeq(y, 1 + 1, Len(y)) = x
    <2>1. y \in Stream /\ Len(y) = Len(o) + Len(x)
      BY <1>1, <1>3, StreamConcat
    <2>2. SubSeq(y, Len(o) + 1, Len(y)) = x
      BY <1>1, <1>3, SplitConcat
    <2>. QED
      BY <1>1, <2>1, <2>2
  <1>5. y # << >>
    BY <1>3, <1>4, LenProperties, EmptyStream DEF Stream
  <1>. HIDE DEF y
  <1>6. Tail(y) = SubSeq(y, 2, Len(y))
    BY <1>4, <1>5, TailIsSubSeq DEF Stream
  <1>7. Tail(y) = x
    BY <1>4, <1>6
  <1>. QED
    BY <1>2, <1>7 DEF o, x, y

LEMMA PacketNotEmpty ==
  ASSUME NEW x, x = ListPacket \/ IsPacket(x)
  PROVE  x \in Stream /\ x # << >>
  <1>1. x \in Stream /\ Len(x) \in Nat /\ Len(x) >= 2
    <2>1. CASE x = ListPacket
      <3>1. Len(x) \in Nat /\ Len(x) >= 4 /\ x \in Stream
        BY <2>1, ListPacketFacts, LenProperties DEF Stream
      <3>. QED
        BY <3>1
    <2>2. CASE IsPacket(x)
      BY <2>2, LenProperties DEF IsPacket, Stream
    <2>. QED
      BY <2>1, <2>2
  <1>2. x = << >> => Len(x) = 0
    BY EmptyStream
  <1>. QED
    BY <1>1, <1>2

\* What bt_write is to write of each packet.
LEMMA WrittenPacket ==
  ASSUME NEW p \in {packet_alloc(b) : b \in Requests} \cup {CONTINUE_LIST_FILES}
  PROVE  /\ Tail(p) \in Stream /\ Tail(p) # << >>
         /\ Tail(p) = ListPacket \/ IsPacket(Tail(p))
  <1>1. ASSUME NEW b \in Requests, p = packet_alloc(b)
        PROVE  IsPacket(Tail(p))
    <2>1. b \in Stream /\ Len(b) \in Nat /\ Len(b) < Base * Base
      BY BytesAssumption, LenProperties DEF BytesAssumption, Stream
    <2>2. LenField(Len(b)) \in Stream
      BY <2>1, LenFieldFacts
    <2>3. Tail(p) = LenField(Len(b)) \o b
      BY <1>1, <2>1, <2>2, TailOfReport DEF packet_alloc
    <2>. QED
      BY <2>3, PacketWhole
  <1>2. ASSUME p = CONTINUE_LIST_FILES PROVE Tail(p) = ListPacket
    BY <1>2, ListPacketFacts, TailOfReport DEF CONTINUE_LIST_FILES, ListPacket
  <1>3. Tail(p) = ListPacket \/ IsPacket(Tail(p))
    BY <1>1, <1>2
  <1>. QED
    BY <1>3, PacketNotEmpty

LEMMA ListPacketIs == Tail(CONTINUE_LIST_FILES) = ListPacket
  BY ListPacketFacts, TailOfReport DEF CONTINUE_LIST_FILES, ListPacket

-----------------------------------------------------------------------------
(***************************************************************************)
(* The packets before the first CONTINUE_LIST_FILES.                       *)
(***************************************************************************)

NoList(ps) == \A i \in 1 .. Len(ps) : ps[i] # ListPacket

LEMMA BeforeNoList ==
  ASSUME NEW ps \in Seq(Stream), NoList(ps)
  PROVE  BeforeList(ps) = ps
  <1>1. DOMAIN ps = 1 .. Len(ps)
    BY LenProperties
  <1>2. {i \in DOMAIN ps : ps[i] = Tail(CONTINUE_LIST_FILES)} = {}
    BY <1>1, ListPacketIs DEF NoList
  <1>. QED
    BY <1>2 DEF BeforeList

\* The first of them is at i.
FirstList(ps, i) ==
  /\ i \in 1 .. Len(ps) /\ ps[i] = ListPacket
  /\ \A j \in 1 .. Len(ps) : ps[j] = ListPacket => i <= j

LEMMA FirstListExists ==
  ASSUME NEW ps \in Seq(Stream), ~NoList(ps)
  PROVE  \E i \in 1 .. Len(ps) : FirstList(ps, i)
  <1>. DEFINE T == {i \in 1 .. Len(ps) : ps[i] = ListPacket}
  <1>1. T \in SUBSET Nat /\ T # {}
    BY LenProperties DEF NoList
  <1>2. PICK i \in T : \A j \in T : i <= j
    <2>. HIDE DEF T
    <2>. QED
      BY <1>1, Smallest
  <1>. QED
    BY <1>2 DEF FirstList

LEMMA BeforeFirstList ==
  ASSUME NEW ps \in Seq(Stream), NEW i, FirstList(ps, i)
  PROVE  BeforeList(ps) = SubSeq(ps, 1, i - 1)
  <1>. DEFINE T == {j \in DOMAIN ps : ps[j] = Tail(CONTINUE_LIST_FILES)}
  <1>1. DOMAIN ps = 1 .. Len(ps) /\ Len(ps) \in Nat
    BY LenProperties
  <1>2. i \in T /\ (\A j \in T : i <= j) /\ T \in SUBSET Nat
    <2>1. T = {j \in 1 .. Len(ps) : ps[j] = ListPacket}
      BY <1>1, ListPacketIs
    <2>. HIDE DEF T
    <2>2. i \in T
      BY <2>1 DEF FirstList
    <2>3. \A j \in T : i <= j
      BY <2>1 DEF FirstList
    <2>. QED
      BY <1>1, <2>1, <2>2, <2>3
  <1>. HIDE DEF T
  <1>3. Min(T) \in T /\ \A j \in T : Min(T) <= j
    BY <1>2 DEF Min
  <1>4. Min(T) = i
    <2>1. Min(T) <= i /\ i <= Min(T) /\ i \in Nat /\ Min(T) \in Nat
      BY <1>2, <1>3
    <2>. QED
      BY <2>1
  <1>5. BeforeList(ps) = IF T = {} THEN ps ELSE SubSeq(ps, 1, Min(T) - 1)
    BY DEF BeforeList, T
  <1>. QED
    BY <1>2, <1>4, <1>5

LEMMA BeforeIsShorter ==
  ASSUME NEW ps \in Seq(Stream), ~NoList(ps)
  PROVE  BeforeList(ps) # ps
  <1>1. PICK i \in 1 .. Len(ps) : FirstList(ps, i)
    BY FirstListExists
  <1>2. Len(ps) \in Nat /\ \A j \in 1 .. Len(ps) : ps[j] \in Stream
    BY LenProperties, ElementOfSeq
  <1>3. BeforeList(ps) = SubSeq(ps, 1, i - 1)
    BY <1>1, BeforeFirstList
  <1>4. Len(SubSeq(ps, 1, i - 1)) = IF 1 <= i - 1 THEN i - 1 - 1 + 1 ELSE 0
    <2>1. \A j \in 1 .. i - 1 : ps[j] \in Stream
      BY <1>2
    <2>2. 1 \in Int /\ i - 1 \in Int
      BY <1>2
    <2>. QED
      BY <2>1, <2>2, SubSeqProperties
  <1>5. Len(SubSeq(ps, 1, i - 1)) < Len(ps)
    <2>. DEFINE m == Len(SubSeq(ps, 1, i - 1))
                n == Len(ps)
    <2>1. n \in Nat /\ i \in 1 .. n /\ m = IF 1 <= i - 1 THEN i - 1 - 1 + 1 ELSE 0
      BY <1>2, <1>4
    <2>. HIDE DEF m, n
    <2>2. m < n
      BY <2>1
    <2>. QED
      BY <2>2 DEF m, n
  <1>. QED
    BY <1>2, <1>3, <1>5

\* One more packet: before the first list request, or that request itself, or
\* after it.
LEMMA BeforeAppend ==
  ASSUME NEW ps \in Seq(Stream), NEW p \in Stream
  PROVE  /\ Append(ps, p) \in Seq(Stream)
         /\ NoList(ps) /\ p # ListPacket => NoList(Append(ps, p))
         /\ p = ListPacket => ~NoList(Append(ps, p))
         /\ ~NoList(ps) => /\ ~NoList(Append(ps, p))
                           /\ BeforeList(Append(ps, p)) = BeforeList(ps)
         /\ NoList(ps) /\ p = ListPacket => BeforeList(Append(ps, p)) = ps
  <1>. DEFINE a == Append(ps, p)
  <1>1. /\ a \in Seq(Stream) /\ Len(a) = Len(ps) + 1 /\ Len(ps) \in Nat
        /\ \A i \in 1 .. Len(ps) : a[i] = ps[i]
        /\ a[Len(ps) + 1] = p
    BY AppendProperties, LenProperties
  <1>. HIDE DEF a
  <1>2. \A i \in 1 .. Len(a) : i \in 1 .. Len(ps) \/ i = Len(ps) + 1
    BY <1>1
  <1>3. 1 .. Len(ps) \subseteq 1 .. Len(a) /\ Len(ps) + 1 \in 1 .. Len(a)
    BY <1>1
  <1>4. NoList(ps) /\ p # ListPacket => NoList(a)
    BY <1>1, <1>2 DEF NoList
  <1>5. p = ListPacket => ~NoList(a)
    BY <1>1, <1>3 DEF NoList
  <1>6. \A i \in 0 .. Len(ps) : SubSeq(a, 1, i) = SubSeq(ps, 1, i)
    <2>1. SUFFICES ASSUME NEW i \in 0 .. Len(ps) PROVE SubSeq(a, 1, i) = SubSeq(ps, 1, i)
      OBVIOUS
    <2>2. a = ps \o <<p>> /\ <<p>> \in Seq(Stream)
      BY AppendIsConcat DEF a
    <2>3. CASE i = 0
      <3>1. 0 < 1 /\ 1 \in Int /\ 0 \in Int
        OBVIOUS
      <3>. QED
        BY <2>3, <3>1, SubSeqEmpty
    <2>4. CASE i # 0
      <3>1. 1 \in 1 .. Len(ps) /\ i \in 1 .. Len(ps)
        BY <1>1, <2>4
      <3>. QED
        BY <2>2, <3>1, SubSeqOfConcat1
    <2>. QED
      BY <2>3, <2>4
  <1>7. ASSUME ~NoList(ps) PROVE ~NoList(a) /\ BeforeList(a) = BeforeList(ps)
    <2>1. PICK i \in 1 .. Len(ps) : FirstList(ps, i)
      BY <1>7, FirstListExists
    <2>2. FirstList(a, i)
      <3>1. i \in 1 .. Len(a) /\ a[i] = ListPacket
        BY <1>1, <1>3, <2>1 DEF FirstList
      <3>2. \A j \in 1 .. Len(a) : a[j] = ListPacket => i <= j
        BY <1>1, <1>2, <2>1 DEF FirstList
      <3>. QED
        BY <3>1, <3>2 DEF FirstList
    <2>3. BeforeList(a) = SubSeq(a, 1, i - 1) /\ BeforeList(ps) = SubSeq(ps, 1, i - 1)
      BY <1>1, <2>1, <2>2, BeforeFirstList
    <2>4. i - 1 \in 0 .. Len(ps)
      BY <1>1
    <2>5. ~NoList(a)
      BY <2>2 DEF FirstList, NoList
    <2>. QED
      BY <1>6, <2>3, <2>4, <2>5
  <1>8. ASSUME NoList(ps), p = ListPacket PROVE BeforeList(a) = ps
    <2>1. FirstList(a, Len(ps) + 1)
      <3>1. \A j \in 1 .. Len(a) : a[j] = ListPacket => j = Len(ps) + 1
        BY <1>1, <1>2, <1>8 DEF NoList
      <3>. QED
        BY <1>1, <1>3, <1>8, <3>1 DEF FirstList
    <2>2. BeforeList(a) = SubSeq(a, 1, Len(ps) + 1 - 1)
      BY <1>1, <2>1, BeforeFirstList
    <2>3. Len(ps) + 1 - 1 = Len(ps) /\ Len(ps) \in 0 .. Len(ps)
      BY <1>1
    <2>4. SubSeq(ps, 1, Len(ps)) = ps
      BY SubSeqFull
    <2>. QED
      BY <1>6, <2>2, <2>3, <2>4
  <1>. QED
    BY <1>1, <1>4, <1>5, <1>7, <1>8 DEF a

-----------------------------------------------------------------------------
(***************************************************************************)
(* The inductive invariant.                                                *)
(***************************************************************************)

\* Between two calls there is no part of a packet in bt_read's buffer; in a
\* call there is less than the packet, and it fits.
BufInv ==
  /\ pc \notin {"header", "body"} => buf = << >> /\ packet_len = 2
  /\ pc = "header" => Len(buf) < 2 /\ packet_len = 2
  /\ pc = "body" => /\ Len(buf) >= 2 /\ Len(buf) < packet_len
                    /\ packet_len = First(buf) /\ packet_len <= 2 * count

LineInv == line # "up" => coming = << >>

\* The bytes that were sent and not returned by bt_read.
Unread == buf \o arrived \o coming

\* They are whole packets while the line is up.
BorderInv == clean /\ pc # "closed" /\ line = "up" => Whole(Unread)

TodoInv == IF pc = "write" THEN todo # << >> /\ written # << >> ELSE todo = << >>

WrittenInv ==
  \A i \in 1 .. Len(written) : written[i] = ListPacket \/ IsPacket(written[i])

\* The packets whose bt_write has returned, and the one being written.
Done == IF pc = "write" THEN Front(written) ELSE written
Current == IF pc = "write" THEN Last(written) ELSE << >>

\* The brick has received the whole packets w and the bytes q: before the
\* first CONTINUE_LIST_FILES, q is the written part of the current packet.
OnTheWire(w, q) ==
  /\ wire = w \o q /\ Whole(w)
  /\ NoList(written) => Frames(w) = Done /\ Current = q \o todo
  /\ ~NoList(written) => Frames(w) = BeforeList(written)

WireInv == clean /\ ~lost => \E w, q \in Stream : OnTheWire(w, q)

IInv ==
  /\ TypeOK /\ BufInv /\ LineInv /\ BorderInv
  /\ TodoInv /\ WrittenInv /\ WireInv

-----------------------------------------------------------------------------
(***************************************************************************)
(* One read().                                                             *)
(***************************************************************************)

\* What read() leaves in the descriptor.
Left == SubSeq(arrived, Received + 1, Len(arrived))

LEMMA MinOfTwo ==
  ASSUME NEW a \in Int, NEW b \in Int
  PROVE  Min({a, b}) = IF a <= b THEN a ELSE b
  <1>. DEFINE m == IF a <= b THEN a ELSE b
              T == {a, b}
  <1>1. m \in T /\ m <= a /\ m <= b
    OBVIOUS
  <1>2. \A y \in T : m <= y
    BY <1>1
  <1>3. \A x \in T : (\A y \in T : x <= y) => x = m
    <2>1. SUFFICES ASSUME NEW x \in T, \A y \in T : x <= y PROVE x = m
      OBVIOUS
    <2>2. x <= m /\ m <= x /\ x \in Int /\ m \in Int
      BY <1>1, <1>2, <2>1
    <2>. QED
      BY <2>2
  <1>. HIDE DEF m
  <1>4. Min(T) = m
    <2>. HIDE DEF T
    <2>. QED
      BY <1>1, <1>2, <1>3 DEF Min
  <1>. QED
    BY <1>4 DEF m

LEMMA ReadFacts ==
  ASSUME TypeOK, BufInv, pc \in {"header", "body"}, arrived # << >>
  PROVE  /\ Filled \in Stream /\ Len(Filled) \in Nat /\ packet_len \in Nat
         /\ Len(Filled) > Len(buf) /\ Len(Filled) <= packet_len
         /\ Left \in Stream
         /\ Filled \o Left = buf \o arrived
         /\ Len(buf) >= 2 => First(Filled) = First(buf)
  <1>0. /\ buf \in Stream /\ arrived \in Stream /\ packet_len \in Nat
        /\ Len(buf) \in Nat /\ Len(arrived) \in Nat /\ Len(arrived) # 0
    BY LenProperties, EmptySeq DEF TypeOK, Stream
  <1>1. Len(buf) < packet_len
    BY <1>0 DEF BufInv
  <1>. DEFINE k == packet_len - Len(buf)
              n == Len(arrived)
  <1>2. k \in Nat /\ k > 0 /\ n \in Nat /\ n > 0
    BY <1>0, <1>1
  <1>3. Received = IF k <= n THEN k ELSE n
    <2>1. k \in Int /\ n \in Int
      BY <1>2
    <2>. HIDE DEF k, n
    <2>2. Min({k, n}) = IF k <= n THEN k ELSE n
      BY <2>1, MinOfTwo
    <2>. QED
      BY <2>2 DEF Received, k, n
  <1>. HIDE DEF n
  <1>4. Received \in 0 .. n /\ Received > 0 /\ Received <= k
    <2>. HIDE DEF k
    <2>. QED
      BY <1>2, <1>3
  <1>. DEFINE a == SubSeq(arrived, 1, Received)
  <1>5. /\ a \in Stream /\ Len(a) = Received
        /\ Left \in Stream /\ a \o Left = arrived
    BY <1>0, <1>4, Split DEF Left, n
  <1>. HIDE DEF a
  <1>6. Filled = buf \o a
    BY DEF Filled, a
  <1>7. Filled \in Stream /\ Len(Filled) = Len(buf) + Received
    BY <1>0, <1>5, <1>6, StreamConcat
  <1>8. Received \in Nat /\ Len(Filled) > Len(buf) /\ Len(Filled) <= packet_len
    BY <1>0, <1>2, <1>4, <1>7
  <1>9. Filled \o Left = buf \o arrived
    <2>1. buf \in Stream /\ a \in Stream /\ Left \in Stream
      BY <1>0, <1>5
    <2>2. (buf \o a) \o Left = buf \o (a \o Left)
      <3>1. Associative(buf, a, Left)
        BY <2>1, StreamAssociative
      <3>. QED
        BY <3>1 DEF Associative
    <2>. QED
      BY <1>5, <1>6, <2>2
  <1>10. Len(buf) >= 2 => First(Filled) = First(buf)
    BY <1>0, <1>5, <1>6, FirstOfConcat
  <1>. QED
    BY <1>0, <1>5, <1>7, <1>8, <1>9, <1>10

\* The four ways a read() of the length field can go.
HeaderPart ==
  /\ Len(Filled) < 2
  /\ buf' = Filled /\ UNCHANGED <<pc, packet_len, result, clean>>

HeaderTooLong ==
  /\ pc' = "idle" /\ result' = Nothing(-1) /\ buf' = << >> /\ packet_len' = 2
  /\ clean' = FALSE

HeaderAlone ==
  /\ IsPacket(Filled)
  /\ pc' = "idle" /\ result' = [n |-> 2, bytes |-> Filled]
  /\ buf' = << >> /\ packet_len' = 2 /\ UNCHANGED clean

HeaderDone ==
  /\ Len(Filled) = 2 /\ First(Filled) > 2 /\ First(Filled) <= 2 * count
  /\ pc' = "body" /\ buf' = Filled /\ packet_len' = First(Filled)
  /\ UNCHANGED <<result, clean>>

LEMMA HeaderCases ==
  ASSUME TypeOK, BufInv, ReadHeader
  PROVE  /\ pc = "header" /\ arrived # << >> /\ arrived' = Left
         /\ UNCHANGED <<writing, peer>>
         /\ HeaderPart \/ HeaderTooLong \/ HeaderAlone \/ HeaderDone
  <1>1. /\ pc = "header" /\ arrived # << >> /\ arrived' = Left
        /\ UNCHANGED <<writing, peer>>
    BY DEF ReadHeader, TakeBytes, Left
  <1>2. Filled \in Stream /\ Len(Filled) \in Nat /\ Len(Filled) <= packet_len /\ packet_len = 2
    BY <1>1, ReadFacts DEF BufInv
  <1>3. PacketLen(Filled) = First(Filled)
    BY DEF PacketLen, First
  <1>4. CASE Len(Filled) < 2
    <2>1. Len(Filled) # 2
      BY <1>2, <1>4
    <2>2. buf' = Filled /\ UNCHANGED <<pc, packet_len, result, clean>>
      BY <1>4, <2>1 DEF ReadHeader
    <2>. QED
      BY <1>1, <1>4, <2>2 DEF HeaderPart
  <1>5. CASE ~(Len(Filled) < 2)
    <2>1. Len(Filled) = 2
      <3>. DEFINE m == Len(Filled)
      <3>1. m \in Nat /\ m <= 2 /\ ~(m < 2)
        BY <1>2, <1>5
      <3>. HIDE DEF m
      <3>2. m = 2
        BY <3>1
      <3>. QED
        BY <3>2 DEF m
    <2>2. First(Filled) \in Nat /\ First(Filled) >= 2 /\ 2 * count \in Nat
      BY <1>2, <2>1, FirstFacts, BoundsAssumption DEF BoundsAssumption
    <2>3. CASE TooLong
      BY <1>1, <1>5, <2>1, <2>3 DEF ReadHeader, HeaderTooLong, ReturnRead
    <2>4. CASE ~TooLong /\ First(Filled) = 2
      <3>1. ReturnRead([n |-> 2, bytes |-> Filled]) /\ UNCHANGED clean
        BY <1>3, <1>5, <2>1, <2>4 DEF ReadHeader
      <3>2. IsPacket(Filled)
        BY <1>2, <2>1, <2>4 DEF IsPacket
      <3>. QED
        BY <1>1, <3>1, <3>2 DEF HeaderAlone, ReturnRead
    <2>5. CASE ~TooLong /\ First(Filled) # 2
      <3>1. /\ pc' = "body" /\ buf' = Filled
            /\ packet_len' = PacketLen(Filled)
            /\ UNCHANGED <<result, clean>>
        BY <1>3, <1>5, <2>1, <2>5 DEF ReadHeader
      <3>2. First(Filled) > 2 /\ First(Filled) <= 2 * count
        BY <1>3, <2>2, <2>5 DEF TooLong
      <3>. QED
        BY <1>1, <1>3, <2>1, <3>1, <3>2 DEF HeaderDone
    <2>. QED
      BY <2>3, <2>4, <2>5
  <1>. QED
    BY <1>1, <1>4, <1>5

\* The two ways a read() of the body can go.
BodyPart ==
  /\ Len(Filled) < packet_len
  /\ buf' = Filled /\ UNCHANGED <<pc, packet_len, result>>

BodyDone ==
  /\ IsPacket(Filled) /\ Len(Filled) <= 2 * count
  /\ pc' = "idle" /\ result' = [n |-> Len(Filled), bytes |-> Filled]
  /\ buf' = << >> /\ packet_len' = 2

LEMMA BodyCases ==
  ASSUME TypeOK, BufInv, ReadBody
  PROVE  /\ pc = "body" /\ arrived # << >> /\ arrived' = Left
         /\ UNCHANGED <<writing, peer, clean>>
         /\ First(Filled) = packet_len /\ Len(Filled) >= 2
         /\ BodyPart \/ BodyDone
  <1>1. /\ pc = "body" /\ arrived # << >> /\ arrived' = Left
        /\ UNCHANGED <<writing, peer, clean>>
    BY DEF ReadBody, TakeBytes, Left
  <1>2. /\ Filled \in Stream /\ Len(Filled) \in Nat /\ Len(Filled) <= packet_len
        /\ packet_len \in Nat /\ Len(buf) \in Nat /\ Len(Filled) > Len(buf)
        /\ Len(buf) >= 2 /\ packet_len = First(buf) /\ packet_len <= 2 * count
        /\ First(Filled) = First(buf)
    BY <1>1, ReadFacts, LenProperties DEF BufInv, TypeOK
  <1>3. First(Filled) = packet_len /\ Len(Filled) >= 2
    BY <1>2
  <1>4. CASE Len(Filled) < packet_len
    BY <1>1, <1>3, <1>4 DEF ReadBody, BodyPart
  <1>5. CASE ~(Len(Filled) < packet_len)
    <2>1. Len(Filled) = packet_len
      BY <1>2, <1>5
    <2>2. ReturnRead([n |-> Len(Filled), bytes |-> Filled])
      BY <1>5 DEF ReadBody
    <2>3. IsPacket(Filled) /\ Len(Filled) <= 2 * count
      BY <1>2, <1>3, <2>1 DEF IsPacket
    <2>. QED
      BY <1>1, <1>3, <2>2, <2>3 DEF BodyDone, ReturnRead
  <1>. QED
    BY <1>1, <1>3, <1>4, <1>5

-----------------------------------------------------------------------------
(***************************************************************************)
(* Every step preserves it.                                                *)
(***************************************************************************)

LEMMA IInvInit == Init => IInv
  <1>1. SUFFICES ASSUME Init PROVE IInv
    OBVIOUS
  <1>0. << >> \in Stream /\ << >> \in Seq(Seq(Byte)) /\ Len(<< >>) = 0
    BY EmptySeq DEF Stream
  <1>2. count \in Nat /\ count >= 1
    BY BoundsAssumption DEF BoundsAssumption
  <1>3. TypeOK
    <2>1. result.n = 0 /\ result.bytes = << >>
      BY <1>1 DEF Init, Nothing
    <2>2. 0 \in -1 .. 2 * count /\ 0 <= 2 * count /\ 2 \in Nat /\ 0 \in Nat
      BY <1>2
    <2>. QED
      BY <1>0, <1>1, <2>1, <2>2 DEF Init, TypeOK, Stream
  <1>4. BufInv /\ LineInv /\ BorderInv /\ TodoInv
    BY <1>1 DEF Init, BufInv, LineInv, BorderInv, TodoInv
  <1>5. WrittenInv /\ NoList(written)
    BY <1>0, <1>1 DEF Init, WrittenInv, NoList
  <1>6. WireInv
    <2>1. << >> \o << >> = << >>
      BY <1>0, ConcatEmptySeq DEF Stream
    <2>2. OnTheWire(<< >>, << >>)
      BY <1>1, <1>5, <2>1, WholeEmpty, EmptyStream DEF Init, OnTheWire, Done, Current
    <2>. QED
      BY <1>0, <2>2 DEF WireInv
  <1>. QED
    BY <1>3, <1>4, <1>5, <1>6 DEF IInv

LEMMA TypeStep ==
  ASSUME TypeOK, BufInv, [Next]_vars
  PROVE  TypeOK'
  <1>0. count \in Nat /\ count >= 1 /\ 2 * count \in Nat /\ 2 * count >= 2
    BY BoundsAssumption DEF BoundsAssumption
  <1>00. << >> \in Seq(Byte) /\ << >> \in Seq(Seq(Byte)) /\ Len(<< >>) = 0
    BY EmptySeq
  <1>n. \A n \in -1 .. 2 * count : Nothing(n).n = n /\ Nothing(n).bytes = << >>
    BY DEF Nothing
  <1>1. CASE bt_open
    <2>1. wire' \in Seq(Byte) /\ coming' \in Seq(Byte)
      BY <1>1, <1>00, CutTypes DEF bt_open, TypeOK, Stream
    <2>2. result'.n = 0 /\ result'.bytes = << >>
      BY <1>1 DEF bt_open, Nothing
    <2>3. clean' \in BOOLEAN
      BY <1>1 DEF bt_open
    <2>4. 0 \in -1 .. 2 * count
      BY <1>0
    <2>. QED
      BY <1>1, <1>00, <2>1, <2>2, <2>3, <2>4 DEF bt_open, TypeOK
  <1>2. CASE bt_close
    BY <1>2, <1>00 DEF bt_close, TypeOK, writing, reading, peer
  <1>3. CASE CallWrite
    <2>1. PICK p \in {packet_alloc(b) : b \in Requests} \cup {CONTINUE_LIST_FILES} :
            todo' = Payload(p) /\ written' = Append(written, Tail(p))
      BY <1>3 DEF CallWrite
    <2>2. Tail(p) \in Seq(Byte)
      BY WrittenPacket DEF Stream
    <2>3. todo' \in Seq(Byte)
      BY <2>1, <2>2 DEF Payload
    <2>4. written \in Seq(Seq(Byte))
      BY DEF TypeOK
    <2>5. written' \in Seq(Seq(Byte))
      BY <2>1, <2>2, <2>4, AppendProperties
    <2>. QED
      BY <1>3, <2>3, <2>5 DEF CallWrite, TypeOK, reading, peer
  <1>4. CASE WriteSome
    <2>1. PICK n \in 1 .. Len(todo) :
            /\ wire' = wire \o SubSeq(todo, 1, n)
            /\ todo' = SubSeq(todo, n + 1, Len(todo))
            /\ sent' = sent + n
      BY <1>4 DEF WriteSome
    <2>2. todo \in Stream /\ wire \in Stream /\ sent \in Nat /\ Len(todo) \in Nat
      BY LenProperties DEF TypeOK, Stream
    <2>3. n \in 0 .. Len(todo) /\ n \in Nat
      BY <2>2
    <2>4. SubSeq(todo, 1, n) \in Stream /\ SubSeq(todo, n + 1, Len(todo)) \in Stream
      BY <2>2, <2>3, Split
    <2>5. wire' \in Seq(Byte) /\ todo' \in Seq(Byte) /\ sent' \in Nat
      BY <2>1, <2>2, <2>3, <2>4, StreamConcat DEF Stream
    <2>. QED
      BY <1>4, <2>5 DEF WriteSome, TypeOK, reading, peer
  <1>5. CASE WriteFails
    BY <1>5, <1>00 DEF WriteFails, TypeOK, reading, peer
  <1>6. CASE CallRead
    BY <1>6 DEF CallRead, TypeOK, writing, reading, peer
  <1>7. CASE SelectReady
    BY <1>7 DEF SelectReady, TypeOK, writing, reading, peer
  <1>8. CASE SelectTimeout
    <2>1. result'.n = 0 /\ result'.bytes = << >> /\ 0 \in -1 .. 2 * count
      BY <1>0, <1>8 DEF SelectTimeout, ReturnRead, Nothing
    <2>2. Len(buf') <= 2 * count /\ buf' \in Seq(Byte)
      BY <1>0, <1>00, <1>8 DEF SelectTimeout, ReturnRead
    <2>. QED
      BY <1>8, <2>1, <2>2 DEF SelectTimeout, ReturnRead, TypeOK, writing, peer
  <1>9. CASE ReadHeader
    <2>1. /\ pc = "header" /\ arrived # << >> /\ arrived' = Left
          /\ UNCHANGED <<writing, peer>>
          /\ HeaderPart \/ HeaderTooLong \/ HeaderAlone \/ HeaderDone
      BY <1>9, HeaderCases
    <2>2. /\ Filled \in Seq(Byte) /\ Len(Filled) \in Nat /\ Left \in Seq(Byte)
          /\ Len(Filled) <= packet_len /\ packet_len = 2
      BY <2>1, ReadFacts DEF Stream, BufInv
    <2>3. Len(Filled) <= 2 * count
      BY <1>0, <2>2
    <2>4. /\ buf' \in Seq(Byte) /\ Len(buf') <= 2 * count /\ packet_len' \in Nat
          /\ pc' \in {"idle", "header", "body"} /\ clean' \in BOOLEAN
      <3>1. CASE HeaderPart
        BY <2>1, <2>2, <2>3, <3>1 DEF HeaderPart, TypeOK
      <3>2. CASE HeaderTooLong
        <4>1. Len(<< >>) <= 2 * count
          BY <1>0, <1>00
        <4>. QED
          BY <1>00, <3>2, <4>1 DEF HeaderTooLong
      <3>3. CASE HeaderAlone
        BY <1>0, <1>00, <3>3 DEF HeaderAlone, TypeOK
      <3>4. CASE HeaderDone
        <4>1. First(Filled) \in Nat
          BY <2>2, <3>4, FirstFacts DEF HeaderDone, Stream
        <4>. QED
          BY <2>2, <2>3, <3>4, <4>1 DEF HeaderDone, TypeOK
      <3>. QED
        BY <2>1, <3>1, <3>2, <3>3, <3>4
    <2>5. result'.n \in -1 .. 2 * count /\ result'.bytes \in Seq(Byte)
      <3>1. CASE HeaderPart \/ HeaderDone
        BY <3>1 DEF HeaderPart, HeaderDone, TypeOK
      <3>2. CASE HeaderTooLong
        <4>1. -1 \in -1 .. 2 * count
          BY <1>0
        <4>. QED
          BY <1>00, <1>n, <3>2, <4>1 DEF HeaderTooLong
      <3>3. CASE HeaderAlone
        <4>1. 2 \in -1 .. 2 * count
          BY <1>0
        <4>2. result'.n = 2 /\ result'.bytes = Filled
          BY <3>3 DEF HeaderAlone
        <4>. QED
          BY <2>2, <4>1, <4>2
      <3>. QED
        BY <2>1, <3>1, <3>2, <3>3
    <2>. QED
      BY <2>1, <2>2, <2>4, <2>5 DEF TypeOK, writing, peer
  <1>10. CASE HeaderFails
    <2>1. -1 \in -1 .. 2 * count
      BY <1>0
    <2>2. result'.n = -1 /\ result'.bytes = << >>
      BY <1>10, <1>n, <2>1 DEF HeaderFails, ReturnRead
    <2>3. Len(buf') <= 2 * count /\ buf' \in Seq(Byte)
      BY <1>0, <1>00, <1>10 DEF HeaderFails, ReturnRead
    <2>. QED
      BY <1>10, <1>00, <2>1, <2>2, <2>3 DEF HeaderFails, ReturnRead, TypeOK, writing, peer
  <1>11. CASE ReadBody
    <2>1. /\ pc = "body" /\ arrived # << >> /\ arrived' = Left
          /\ UNCHANGED <<writing, peer, clean>>
          /\ BodyPart \/ BodyDone
      BY <1>11, BodyCases
    <2>2. /\ Filled \in Seq(Byte) /\ Len(Filled) \in Nat /\ Left \in Seq(Byte)
          /\ packet_len \in Nat /\ packet_len <= 2 * count
      BY <2>1, ReadFacts DEF Stream, BufInv
    <2>3. CASE BodyPart
      <3>1. Len(Filled) <= 2 * count
        BY <1>0, <2>2, <2>3 DEF BodyPart
      <3>. QED
        BY <2>1, <2>2, <2>3, <3>1 DEF BodyPart, TypeOK, writing, peer
    <2>4. CASE BodyDone
      <3>1. Len(Filled) \in -1 .. 2 * count
        BY <1>0, <2>2, <2>4 DEF BodyDone
      <3>2. result'.n = Len(Filled) /\ result'.bytes = Filled
        BY <2>4 DEF BodyDone
      <3>3. Len(buf') <= 2 * count /\ buf' \in Seq(Byte)
        BY <1>0, <1>00, <2>4 DEF BodyDone
      <3>. QED
        BY <2>1, <2>2, <2>4, <3>1, <3>2, <3>3 DEF BodyDone, TypeOK, writing, peer
    <2>. QED
      BY <2>1, <2>3, <2>4
  <1>12. CASE BodyFails
    <2>1. result' = (IF line = "eof" THEN [n |-> Len(buf), bytes |-> buf] ELSE Nothing(-1))
      BY <1>12 DEF BodyFails, ReturnRead
    <2>2. Len(buf) \in -1 .. 2 * count /\ buf \in Seq(Byte) /\ -1 \in -1 .. 2 * count
      BY <1>0, LenProperties DEF TypeOK
    <2>3. result'.n \in -1 .. 2 * count /\ result'.bytes \in Seq(Byte)
      <3>1. CASE line = "eof"
        BY <2>1, <2>2, <3>1
      <3>2. CASE line # "eof"
        BY <1>00, <1>n, <2>1, <2>2, <3>2
      <3>. QED
        BY <3>1, <3>2
    <2>4. Len(buf') <= 2 * count /\ buf' \in Seq(Byte)
      BY <1>0, <1>00, <1>12 DEF BodyFails, ReturnRead
    <2>. QED
      BY <1>12, <2>3, <2>4 DEF BodyFails, ReturnRead, TypeOK, writing, peer
  <1>13. CASE Send
    <2>1. PICK b \in Replies : coming' = coming \o LenField(Len(b)) \o b
      BY <1>13 DEF Send
    <2>2. b \in Stream /\ Len(b) \in Nat /\ Len(b) < Base * Base
      BY BytesAssumption, LenProperties DEF BytesAssumption, Stream
    <2>3. LenField(Len(b)) \in Stream /\ coming \in Stream
      BY <2>2, LenFieldFacts DEF TypeOK, Stream
    <2>4. coming' \in Seq(Byte)
      BY <2>1, <2>2, <2>3, StreamConcat DEF Stream
    <2>. QED
      BY <1>13, <2>4 DEF Send, TypeOK, writing, reading
  <1>14. CASE Arrive
    <2>1. coming \in Seq(Byte) /\ coming # << >> /\ arrived \in Seq(Byte)
      BY <1>14 DEF Arrive, TypeOK
    <2>2. Head(coming) \in Byte /\ Tail(coming) \in Seq(Byte)
      BY <2>1, HeadTailProperties
    <2>3. arrived' \in Seq(Byte) /\ coming' \in Seq(Byte)
      BY <1>14, <2>1, <2>2, AppendProperties DEF Arrive
    <2>. QED
      BY <1>14, <2>3 DEF Arrive, TypeOK, writing, reading
  <1>15. CASE HangUp
    <2>1. arrived' \in Seq(Byte) /\ line' \in {"eof", "error"} /\ coming' = << >>
      BY <1>15, <1>00 DEF HangUp, TypeOK
    <2>. QED
      BY <1>15, <1>00, <2>1 DEF HangUp, TypeOK, writing, reading
  <1>16. CASE UNCHANGED vars
    BY <1>16 DEF vars, TypeOK, writing, reading, peer
  <1>. QED
    BY <1>1, <1>2, <1>3, <1>4, <1>5, <1>6, <1>7, <1>8, <1>9, <1>10, <1>11, <1>12,
       <1>13, <1>14, <1>15, <1>16
    DEF Next, bt_write, bt_read

LEMMA BufStep ==
  ASSUME TypeOK, BufInv, [Next]_vars
  PROVE  BufInv'
  <1>0. Len(<< >>) = 0 /\ count \in Nat
    BY EmptyStream, BoundsAssumption DEF BoundsAssumption
  <1>1. CASE bt_open \/ bt_close \/ CallWrite \/ WriteFails \/ CallRead
    BY <1>1 DEF bt_open, bt_close, CallWrite, WriteFails, CallRead, BufInv, reading
  <1>2. CASE WriteSome
    <2>1. pc = "write" /\ pc' \in {"idle", "write"} /\ UNCHANGED reading
      BY <1>2 DEF WriteSome
    <2>. QED
      BY <2>1 DEF BufInv, reading
  <1>3. CASE SelectReady
    <2>1. buf' = << >> /\ packet_len' = 2 /\ pc' = "header"
      BY <1>3 DEF SelectReady, BufInv, reading
    <2>2. Len(buf') < 2
      BY <1>0, <2>1
    <2>. QED
      BY <2>1, <2>2 DEF BufInv
  <1>4. CASE SelectTimeout \/ HeaderFails \/ BodyFails
    <2>1. buf' = << >> /\ packet_len' = 2 /\ pc' = "idle"
      BY <1>4 DEF SelectTimeout, HeaderFails, BodyFails, ReturnRead
    <2>. QED
      BY <2>1 DEF BufInv
  <1>5. CASE ReadHeader
    <2>1. /\ pc = "header" /\ arrived # << >>
          /\ HeaderPart \/ HeaderTooLong \/ HeaderAlone \/ HeaderDone
      BY <1>5, HeaderCases
    <2>2. CASE HeaderPart
      BY <2>1, <2>2 DEF HeaderPart, BufInv
    <2>3. CASE HeaderTooLong \/ HeaderAlone
      BY <2>3 DEF HeaderTooLong, HeaderAlone, BufInv
    <2>4. CASE HeaderDone
      <3>1. /\ pc' = "body" /\ buf' = Filled /\ packet_len' = First(Filled)
            /\ Len(Filled) = 2 /\ First(Filled) > 2 /\ First(Filled) <= 2 * count
        BY <2>4 DEF HeaderDone
      <3>2. Filled \in Stream /\ First(Filled) \in Nat
        <4>1. Filled \in Stream /\ Len(Filled) >= 2
          BY <2>1, <3>1, ReadFacts
        <4>. QED
          BY <4>1, FirstFacts
      <3>3. Len(buf') >= 2 /\ Len(buf') < packet_len'
        BY <3>1, <3>2
      <3>. QED
        BY <3>1, <3>3 DEF BufInv
    <2>. QED
      BY <2>1, <2>2, <2>3, <2>4
  <1>6. CASE ReadBody
    <2>1. /\ pc = "body" /\ First(Filled) = packet_len /\ Len(Filled) >= 2
          /\ BodyPart \/ BodyDone
      BY <1>6, BodyCases
    <2>2. CASE BodyPart
      BY <2>1, <2>2 DEF BodyPart, BufInv
    <2>3. CASE BodyDone
      BY <2>3 DEF BodyDone, BufInv
    <2>. QED
      BY <2>1, <2>2, <2>3
  <1>7. CASE Send \/ Arrive \/ HangUp \/ UNCHANGED vars
    BY <1>7 DEF Send, Arrive, HangUp, vars, BufInv, reading
  <1>. QED
    BY <1>1, <1>2, <1>3, <1>4, <1>5, <1>6, <1>7 DEF Next, bt_write, bt_read

LEMMA LineStep ==
  ASSUME TypeOK, BufInv, LineInv, [Next]_vars
  PROVE  LineInv'
  <1>1. CASE bt_open \/ bt_close \/ CallWrite \/ WriteFails \/ CallRead
    BY <1>1 DEF bt_open, bt_close, CallWrite, WriteFails, CallRead, LineInv, peer
  <1>2. CASE WriteSome \/ SelectReady \/ SelectTimeout \/ HeaderFails \/ BodyFails
    BY <1>2 DEF WriteSome, SelectReady, SelectTimeout, HeaderFails, BodyFails, LineInv, peer
  <1>3. CASE ReadHeader
    <2>1. UNCHANGED peer
      BY <1>3 DEF ReadHeader
    <2>. QED
      BY <2>1 DEF LineInv, peer
  <1>4. CASE ReadBody
    <2>1. UNCHANGED peer
      BY <1>4 DEF ReadBody
    <2>. QED
      BY <2>1 DEF LineInv, peer
  <1>5. CASE Send \/ Arrive \/ HangUp \/ UNCHANGED vars
    BY <1>5 DEF Send, Arrive, HangUp, vars, LineInv, peer
  <1>. QED
    BY <1>1, <1>2, <1>3, <1>4, <1>5 DEF Next, bt_write, bt_read

\* What follows the bytes of one read(), or of a whole packet.
LEMMA UnreadAfterRead ==
  ASSUME TypeOK, BufInv, pc \in {"header", "body"}, arrived # << >>
  PROVE  /\ Unread = Filled \o (Left \o coming) /\ Unread = Filled \o Left \o coming
         /\ Left \o coming \in Stream
  <1>1. Filled \in Seq(Byte) /\ Left \in Seq(Byte) /\ Filled \o Left = buf \o arrived
    BY ReadFacts DEF Stream
  <1>2. coming \in Seq(Byte)
    BY DEF TypeOK
  <1>3. (Filled \o Left) \o coming = Filled \o (Left \o coming)
    <2>1. Filled \in Stream /\ Left \in Stream /\ coming \in Stream
      BY <1>1, <1>2 DEF Stream
    <2>2. Associative(Filled, Left, coming)
      BY <2>1, StreamAssociative
    <2>. QED
      BY <2>2 DEF Associative
  <1>. QED
    BY <1>1, <1>2, <1>3, StreamConcat DEF Unread, Stream

LEMMA EmptyFirst ==
  ASSUME NEW a \in Stream, NEW b \in Stream
  PROVE  << >> \o a \o b = a \o b
  BY ConcatEmptySeq DEF Stream

\* A byte arrives: the stream stays as it is.
LEMMA ArriveUnread ==
  ASSUME TypeOK, Arrive
  PROVE  Unread' = Unread
  <1>. DEFINE h == Head(coming)
              t == Tail(coming)
  <1>1. coming \in Seq(Byte) /\ coming # << >> /\ arrived \in Seq(Byte) /\ buf \in Seq(Byte)
    BY DEF Arrive, TypeOK
  <1>2. h \in Byte /\ t \in Seq(Byte) /\ <<h>> \in Seq(Byte)
    BY <1>1, HeadTailProperties
  <1>3. coming = <<h>> \o t
    BY <1>1
  <1>4. arrived' = arrived \o <<h>> /\ coming' = t /\ buf' = buf
    BY <1>1, <1>2, AppendIsConcat DEF Arrive, reading
  <1>. HIDE DEF h, t
  <1>5. buf \o (arrived \o <<h>>) = (buf \o arrived) \o <<h>> /\ buf \o arrived \in Seq(Byte)
    BY ONLY <1>1, <1>2, ConcatAssociative, ConcatProperties
  <1>6. ((buf \o arrived) \o <<h>>) \o t = (buf \o arrived) \o (<<h>> \o t)
    BY ONLY <1>2, <1>5, ConcatAssociative
  <1>. QED
    BY <1>3, <1>4, <1>5, <1>6 DEF Unread

\* The brick sends: its packet is the end of the stream.
LEMMA SendUnread ==
  ASSUME TypeOK, Send
  PROVE  \E b \in Replies : /\ Unread' = Unread \o (LenField(Len(b)) \o b)
                            /\ IsPacket(LenField(Len(b)) \o b)
  <1>1. PICK b \in Replies : coming' = coming \o LenField(Len(b)) \o b
    BY DEF Send
  <1>. DEFINE f == LenField(Len(b))
  <1>2. b \in Stream /\ Len(b) \in Nat /\ Len(b) < Base * Base
    BY BytesAssumption, LenProperties DEF BytesAssumption, Stream
  <1>3. f \in Seq(Byte) /\ b \in Seq(Byte) /\ f \o b \in Seq(Byte)
    BY <1>2, LenFieldFacts DEF Stream
  <1>4. coming' = (coming \o f) \o b
    BY <1>1
  <1>5. IsPacket(f \o b)
    BY PacketWhole
  <1>. HIDE DEF f
  <1>6. coming \in Seq(Byte) /\ buf \o arrived \in Seq(Byte)
    BY ConcatProperties DEF TypeOK
  <1>7. (coming \o f) \o b = coming \o (f \o b)
    <2>1. coming \in Stream /\ f \in Stream /\ b \in Stream
      BY <1>3, <1>6 DEF Stream
    <2>2. Associative(coming, f, b)
      BY <2>1, StreamAssociative
    <2>. QED
      BY <2>2 DEF Associative
  <1>8. (buf \o arrived) \o (coming \o (f \o b)) = ((buf \o arrived) \o coming) \o (f \o b)
    <2>1. coming \in Stream /\ buf \o arrived \in Stream /\ f \o b \in Stream
      BY <1>3, <1>6 DEF Stream
    <2>2. Associative(buf \o arrived, coming, f \o b)
      BY <2>1, StreamAssociative
    <2>. QED
      BY <2>2 DEF Associative
  <1>9. buf' = buf /\ arrived' = arrived
    BY DEF Send, reading
  <1>10. Unread' = Unread \o (f \o b)
    BY <1>4, <1>7, <1>8, <1>9 DEF Unread
  <1>. QED
    BY <1>5, <1>10 DEF f

LEMMA UnreadType ==
  ASSUME TypeOK
  PROVE  Unread \in Stream /\ buf \in Stream /\ arrived \in Stream /\ coming \in Stream
  BY StreamConcat DEF TypeOK, Unread, Stream

LEMMA BorderStep ==
  ASSUME TypeOK, BufInv, LineInv, BorderInv, [Next]_vars
  PROVE  BorderInv'
  <1>0. SUFFICES ASSUME clean', pc' # "closed", line' = "up" PROVE Whole(Unread')
    BY DEF BorderInv
  <1>1. CASE bt_open
    <2>1. buf' = << >> /\ arrived' = << >> /\ coming' = << >>
      BY <1>0, <1>1 DEF bt_open, BufInv
    <2>2. << >> \o << >> \o << >> = << >>
      BY EmptyFirst, EmptyStream, ConcatEmptySeq DEF Stream
    <2>. QED
      BY <2>1, <2>2, WholeEmpty DEF Unread
  <1>2. CASE bt_close
    BY <1>0, <1>2 DEF bt_close
  <1>3. CASE CallWrite \/ WriteSome \/ WriteFails \/ CallRead \/ SelectReady
    <2>1. /\ pc # "closed" /\ line' = line /\ clean' = clean
          /\ buf' = buf /\ arrived' = arrived /\ coming' = coming
      BY <1>3 DEF CallWrite, WriteSome, WriteFails, CallRead, SelectReady, reading, peer
    <2>. QED
      BY <1>0, <2>1 DEF BorderInv, Unread
  <1>4. CASE SelectTimeout
    <2>1. /\ pc # "closed" /\ line' = line /\ clean' = clean
          /\ buf' = buf /\ arrived' = arrived /\ coming' = coming
      BY <1>4 DEF SelectTimeout, ReturnRead, peer, BufInv
    <2>. QED
      BY <1>0, <2>1 DEF BorderInv, Unread
  <1>5. CASE HeaderFails \/ BodyFails
    BY <1>0, <1>5 DEF HeaderFails, BodyFails, peer
  <1>6. CASE ReadHeader
    <2>1. /\ pc = "header" /\ arrived # << >> /\ arrived' = Left
          /\ line' = line /\ coming' = coming
          /\ HeaderPart \/ HeaderTooLong \/ HeaderAlone \/ HeaderDone
      BY <1>6, HeaderCases DEF peer
    <2>2. /\ Unread = Filled \o (Left \o coming) /\ Unread = Filled \o Left \o coming
          /\ Left \o coming \in Stream /\ Left \in Stream /\ coming \in Stream
      BY <2>1, UnreadAfterRead, ReadFacts, UnreadType
    <2>3. CASE HeaderPart \/ HeaderDone
      <3>1. buf' = Filled /\ clean' = clean
        BY <2>3 DEF HeaderPart, HeaderDone
      <3>2. Unread' = Unread
        BY <2>1, <2>2, <3>1 DEF Unread
      <3>. QED
        BY <1>0, <2>1, <3>1, <3>2 DEF BorderInv
    <2>4. CASE HeaderTooLong
      BY <1>0, <2>4 DEF HeaderTooLong
    <2>5. CASE HeaderAlone
      <3>1. IsPacket(Filled) /\ buf' = << >> /\ clean' = clean
        BY <2>5 DEF HeaderAlone
      <3>2. Unread' = Left \o coming
        BY <2>1, <2>2, <3>1, EmptyFirst DEF Unread
      <3>3. Whole(Filled \o (Left \o coming))
        BY <1>0, <2>1, <2>2, <3>1 DEF BorderInv
      <3>. QED
        BY <2>2, <3>1, <3>2, <3>3, WholeRest
    <2>. QED
      BY <2>1, <2>3, <2>4, <2>5
  <1>7. CASE ReadBody
    <2>1. /\ pc = "body" /\ arrived # << >> /\ arrived' = Left
          /\ line' = line /\ coming' = coming /\ clean' = clean
          /\ BodyPart \/ BodyDone
      BY <1>7, BodyCases DEF peer
    <2>2. /\ Unread = Filled \o (Left \o coming) /\ Unread = Filled \o Left \o coming
          /\ Left \o coming \in Stream /\ Left \in Stream /\ coming \in Stream
      BY <2>1, UnreadAfterRead, ReadFacts, UnreadType
    <2>3. CASE BodyPart
      <3>1. Unread' = Unread
        BY <2>1, <2>2, <2>3 DEF Unread, BodyPart
      <3>. QED
        BY <1>0, <2>1, <3>1 DEF BorderInv
    <2>4. CASE BodyDone
      <3>1. IsPacket(Filled) /\ buf' = << >>
        BY <2>4 DEF BodyDone
      <3>2. Unread' = Left \o coming
        BY <2>1, <2>2, <3>1, EmptyFirst DEF Unread
      <3>3. Whole(Filled \o (Left \o coming))
        BY <1>0, <2>1, <2>2 DEF BorderInv
      <3>. QED
        BY <2>2, <3>1, <3>2, <3>3, WholeRest
    <2>. QED
      BY <2>1, <2>3, <2>4
  <1>8. CASE Send
    <2>1. pc # "closed" /\ line = "up" /\ clean' = clean
      BY <1>8 DEF Send
    <2>2. PICK b \in Replies : /\ Unread' = Unread \o (LenField(Len(b)) \o b)
                               /\ IsPacket(LenField(Len(b)) \o b)
      BY <1>8, SendUnread
    <2>3. Whole(Unread) /\ Unread \in Stream
      BY <1>0, <2>1, UnreadType DEF BorderInv
    <2>. QED
      BY <2>2, <2>3, WholeAppend
  <1>9. CASE Arrive
    <2>1. pc # "closed" /\ line = "up" /\ clean' = clean
      BY <1>9 DEF Arrive
    <2>. QED
      BY <1>0, <1>9, <2>1, ArriveUnread DEF BorderInv
  <1>10. CASE HangUp
    BY <1>0, <1>10 DEF HangUp
  <1>11. CASE UNCHANGED vars
    BY <1>0, <1>11 DEF vars, reading, peer, BorderInv, Unread
  <1>. QED
    BY <1>1, <1>2, <1>3, <1>4, <1>5, <1>6, <1>7, <1>8, <1>9, <1>10, <1>11
    DEF Next, bt_write, bt_read

\* The steps that leave bt_write's variables as they are.
QuietWrite ==
  /\ UNCHANGED <<todo, wire, written, lost>>
  /\ pc # "write" /\ pc' # "write"
  /\ clean' => clean

LEMMA QuietSteps ==
  ASSUME TypeOK, BufInv, [Next]_vars
  PROVE  \/ bt_open \/ CallWrite \/ WriteSome \/ WriteFails \/ QuietWrite
         \/ UNCHANGED <<todo, wire, written, lost, pc, clean>>
  <1>1. CASE bt_close \/ CallRead \/ SelectReady
    BY <1>1 DEF bt_close, CallRead, SelectReady, QuietWrite, writing
  <1>2. CASE SelectTimeout \/ HeaderFails \/ BodyFails
    BY <1>2 DEF SelectTimeout, HeaderFails, BodyFails, ReturnRead, QuietWrite, writing
  <1>3. CASE ReadHeader
    <2>1. /\ pc = "header" /\ UNCHANGED writing
          /\ HeaderPart \/ HeaderTooLong \/ HeaderAlone \/ HeaderDone
      BY <1>3, HeaderCases
    <2>2. pc' \in {"idle", "header", "body"} /\ (clean' => clean)
      BY <2>1 DEF HeaderPart, HeaderTooLong, HeaderAlone, HeaderDone
    <2>. QED
      BY <2>1, <2>2 DEF QuietWrite, writing
  <1>4. CASE ReadBody
    <2>1. /\ pc = "body" /\ UNCHANGED <<writing, clean>>
          /\ BodyPart \/ BodyDone
      BY <1>4, BodyCases
    <2>2. pc' \in {"idle", "body"}
      BY <2>1 DEF BodyPart, BodyDone
    <2>. QED
      BY <2>1, <2>2 DEF QuietWrite, writing
  <1>5. CASE Send \/ Arrive \/ HangUp \/ UNCHANGED vars
    BY <1>5 DEF Send, Arrive, HangUp, vars, writing
  <1>. QED
    BY <1>1, <1>2, <1>3, <1>4, <1>5 DEF Next, bt_write, bt_read

LEMMA TodoStep ==
  ASSUME TypeOK, BufInv, TodoInv, [Next]_vars
  PROVE  TodoInv'
  <1>1. CASE bt_open
    BY <1>1 DEF bt_open, TodoInv
  <1>2. CASE CallWrite
    <2>1. PICK p \in {packet_alloc(b) : b \in Requests} \cup {CONTINUE_LIST_FILES} :
            todo' = Payload(p) /\ written' = Append(written, Tail(p))
      BY <1>2 DEF CallWrite
    <2>2. Tail(p) \in Stream /\ Tail(p) # << >>
      BY WrittenPacket
    <2>3. written \in Seq(Stream)
      BY DEF TypeOK, Stream
    <2>4. todo' # << >> /\ written' # << >>
      BY <2>1, <2>2, <2>3, AppendProperties DEF Payload
    <2>5. pc' = "write"
      BY <1>2 DEF CallWrite
    <2>. QED
      BY <2>4, <2>5 DEF TodoInv
  <1>3. CASE WriteSome
    BY <1>3 DEF WriteSome, TodoInv
  <1>4. CASE WriteFails
    BY <1>4 DEF WriteFails, TodoInv
  <1>5. CASE QuietWrite
    BY <1>5 DEF QuietWrite, TodoInv
  <1>6. CASE UNCHANGED <<todo, wire, written, lost, pc, clean>>
    BY <1>6 DEF TodoInv
  <1>. QED
    BY <1>1, <1>2, <1>3, <1>4, <1>5, <1>6, QuietSteps

LEMMA WrittenStep ==
  ASSUME TypeOK, BufInv, WrittenInv, [Next]_vars
  PROVE  WrittenInv'
  <1>1. CASE bt_open
    BY <1>1, EmptyStream DEF bt_open, WrittenInv
  <1>2. CASE CallWrite
    <2>1. PICK p \in {packet_alloc(b) : b \in Requests} \cup {CONTINUE_LIST_FILES} :
            todo' = Payload(p) /\ written' = Append(written, Tail(p))
      BY <1>2 DEF CallWrite
    <2>2. PICK x : x = Tail(p)
      OBVIOUS
    <2>3. x \in Stream /\ (x = ListPacket \/ IsPacket(x))
      BY <2>2, WrittenPacket
    <2>4. written \in Seq(Stream) /\ Len(written) \in Nat
      BY LenProperties DEF TypeOK, Stream
    <2>5. /\ Len(written') = Len(written) + 1
          /\ \A i \in 1 .. Len(written) : written'[i] = written[i]
          /\ written'[Len(written) + 1] = x
      BY <2>1, <2>2, <2>3, <2>4, AppendProperties
    <2>6. ASSUME NEW i \in 1 .. Len(written')
          PROVE  written'[i] = ListPacket \/ IsPacket(written'[i])
      <3>1. i \in 1 .. Len(written) \/ i = Len(written) + 1
        BY <2>4, <2>5
      <3>2. CASE i \in 1 .. Len(written)
        BY <2>5, <3>2 DEF WrittenInv
      <3>3. CASE i = Len(written) + 1
        BY <2>3, <2>5, <3>3
      <3>. QED
        BY <3>1, <3>2, <3>3
    <2>. QED
      BY <2>6 DEF WrittenInv
  <1>3. CASE UNCHANGED written
    BY <1>3 DEF WrittenInv
  <1>. QED
    BY <1>1, <1>2, <1>3, QuietSteps DEF WriteSome, WriteFails, QuietWrite

LEMMA FrontLast ==
  ASSUME NEW S, NEW ps \in Seq(S), NEW p \in S
  PROVE  Front(Append(ps, p)) = ps /\ Last(Append(ps, p)) = p
  <1>. DEFINE a == Append(ps, p)
  <1>1. Len(a) = Len(ps) + 1 /\ Len(ps) \in Nat /\ a[Len(ps) + 1] = p
    BY AppendProperties, LenProperties
  <1>2. a = ps \o <<p>> /\ <<p>> \in Seq(S)
    BY AppendIsConcat
  <1>3. SubSeq(ps \o <<p>>, 1, Len(ps)) = ps
    BY <1>2, SubSeqOfFirst
  <1>. HIDE DEF a
  <1>4. Len(a) - 1 = Len(ps)
    BY <1>1
  <1>. QED
    BY <1>1, <1>2, <1>3, <1>4 DEF Front, Last, a

\* A sequence is its front and its last element.
LEMMA FrontAppend ==
  ASSUME NEW S, NEW ps \in Seq(S), ps # << >>
  PROVE  /\ Front(ps) \in Seq(S) /\ Last(ps) \in S
         /\ ps = Append(Front(ps), Last(ps))
  <1>1. PICK s \in Seq(S), e \in S : ps = Append(s, e)
    BY SequenceEmptyOrAppend
  <1>. QED
    BY <1>1, FrontLast

LEMMA WireStep ==
  ASSUME IInv, [Next]_vars
  PROVE  WireInv'
  <1>0. /\ TypeOK /\ BufInv /\ TodoInv /\ WrittenInv /\ WireInv
        /\ wire \in Stream /\ todo \in Stream /\ written \in Seq(Stream)
    BY DEF IInv, TypeOK, Stream
  <1>1. SUFFICES ASSUME clean', ~lost' PROVE \E w, q \in Stream : OnTheWire(w, q)'
    BY DEF WireInv
  <1>2. CASE bt_open
    <2>1. pc' = "idle" /\ wire' = << >> /\ written' = << >> /\ todo' = << >>
      BY <1>0, <1>1, <1>2 DEF bt_open, TodoInv
    <2>2. << >> \o << >> = << >>
      BY EmptyStream, ConcatEmptySeq DEF Stream
    <2>3. NoList(<< >>)
      BY EmptyStream DEF NoList
    <2>4. OnTheWire(<< >>, << >>)'
      BY <2>1, <2>2, <2>3, WholeEmpty, EmptyStream DEF OnTheWire, Done, Current
    <2>. QED
      BY <2>4, EmptyStream
  <1>3. CASE CallWrite
    <2>0. pc = "idle" /\ pc' = "write" /\ wire' = wire /\ lost' = lost /\ clean' = clean
      BY <1>3 DEF CallWrite
    <2>1. PICK p \in {packet_alloc(b) : b \in Requests} \cup {CONTINUE_LIST_FILES} :
            todo' = Payload(p) /\ written' = Append(written, Tail(p))
      BY <1>3 DEF CallWrite
    <2>2. PICK x : x = Tail(p)
      OBVIOUS
    <2>3. x \in Stream /\ todo' = x /\ written' = Append(written, x)
      BY <2>1, <2>2, WrittenPacket DEF Payload
    <2>4. PICK w, q : w \in Stream /\ q \in Stream /\ OnTheWire(w, q)
      BY <1>0, <1>1, <2>0 DEF WireInv
    <2>5. /\ NoList(written) /\ x # ListPacket => NoList(written')
          /\ x = ListPacket => ~NoList(written')
          /\ ~NoList(written) => /\ ~NoList(written')
                                 /\ BeforeList(written') = BeforeList(written)
          /\ NoList(written) /\ x = ListPacket => BeforeList(written') = written
      BY <1>0, <2>3, BeforeAppend
    <2>6. CASE ~NoList(written)
      <3>1. OnTheWire(w, q)'
        BY <2>0, <2>4, <2>5, <2>6 DEF OnTheWire
      <3>. QED
        BY <2>4, <3>1
    <2>7. CASE NoList(written)
      <3>1. Frames(w) = written /\ q \o todo = << >>
        BY <2>0, <2>4, <2>7 DEF OnTheWire, Done, Current
      <3>2. q = << >>
        BY <1>0, <2>4, <3>1, ConcatSimplifications DEF Stream
      <3>3. CASE x = ListPacket
        <4>1. OnTheWire(w, q)'
          BY <2>0, <2>4, <2>5, <2>7, <3>1, <3>3 DEF OnTheWire
        <4>. QED
          BY <2>4, <4>1
      <3>4. CASE x # ListPacket
        <4>1. Done' = written /\ Current' = x
          BY <1>0, <2>0, <2>3, FrontLast DEF Done, Current
        <4>2. q \o todo' = x
          BY <2>3, <3>2, ConcatEmptySeq DEF Stream
        <4>3. OnTheWire(w, q)'
          BY <2>0, <2>4, <2>5, <2>7, <3>1, <3>4, <4>1, <4>2 DEF OnTheWire
        <4>. QED
          BY <2>4, <4>3
      <3>. QED
        BY <3>3, <3>4
    <2>. QED
      BY <2>6, <2>7
  <1>4. CASE WriteSome
    <2>0. pc = "write" /\ written' = written /\ lost' = lost /\ clean' = clean
      BY <1>4 DEF WriteSome
    <2>1. PICK n \in 1 .. Len(todo) :
            /\ wire' = wire \o SubSeq(todo, 1, n)
            /\ todo' = SubSeq(todo, n + 1, Len(todo))
      BY <1>4 DEF WriteSome
    <2>2. PICK a, b : a = SubSeq(todo, 1, n) /\ b = SubSeq(todo, n + 1, Len(todo))
      OBVIOUS
    <2>3. a \in Stream /\ b \in Stream /\ a \o b = todo
      <3>1. n \in 0 .. Len(todo)
        BY <1>0, LenProperties DEF Stream
      <3>. QED
        BY <1>0, <2>2, <3>1, Split
    <2>4. PICK w, q : w \in Stream /\ q \in Stream /\ OnTheWire(w, q)
      BY <1>0, <1>1, <2>0 DEF WireInv
    <2>5. q \o a \in Stream /\ wire' = w \o (q \o a) /\ (q \o a) \o b = q \o todo
      <3>1. wire = w \o q
        BY <2>4 DEF OnTheWire
      <3>2. (w \o q) \o a = w \o (q \o a) /\ (q \o a) \o b = q \o (a \o b)
        <4>1. w \in Stream /\ q \in Stream /\ a \in Stream /\ b \in Stream
          BY <2>3, <2>4
        <4>2. (w \o q) \o a = w \o (q \o a)
          <5>1. Associative(w, q, a)
            BY <4>1, StreamAssociative
          <5>. QED
            BY <5>1 DEF Associative
        <4>3. (q \o a) \o b = q \o (a \o b)
          <5>1. Associative(q, a, b)
            BY <4>1, StreamAssociative
          <5>. QED
            BY <5>1 DEF Associative
        <4>. QED
          BY <4>2, <4>3
      <3>. QED
        BY <2>1, <2>2, <2>3, <2>4, <3>1, <3>2, StreamConcat
    <2>6. CASE ~NoList(written)
      <3>1. OnTheWire(w, q \o a)'
        BY <2>0, <2>4, <2>5, <2>6 DEF OnTheWire
      <3>. QED
        BY <2>4, <2>5, <3>1
    <2>7. CASE NoList(written)
      <3>1. Frames(w) = Front(written) /\ Last(written) = q \o todo /\ Whole(w)
        BY <2>0, <2>4, <2>7 DEF OnTheWire, Done, Current
      <3>2. CASE b # << >>
        <4>1. pc' = "write"
          BY <1>4, <2>1, <2>2, <3>2 DEF WriteSome
        <4>2. OnTheWire(w, q \o a)'
          BY <2>0, <2>1, <2>2, <2>5, <2>7, <3>1, <4>1 DEF OnTheWire, Done, Current
        <4>. QED
          BY <2>4, <2>5, <4>2
      <3>3. CASE b = << >>
        <4>1. pc' = "idle" /\ todo' = << >>
          BY <1>4, <2>1, <2>2, <3>3 DEF WriteSome
        <4>0. PICK c : c = Last(written)
          OBVIOUS
        <4>2. written # << >>
          BY <1>0, <2>0 DEF TodoInv
        <4>3. written = Append(Front(written), c)
          BY <1>0, <4>0, <4>2, FrontAppend
        <4>4. IsPacket(c)
          <5>1. Len(written) \in 1 .. Len(written)
            BY <1>0, <4>2, EmptySeq
          <5>2. c = written[Len(written)]
            BY <4>0 DEF Last
          <5>3. c # ListPacket
            BY <2>7, <5>1, <5>2 DEF NoList
          <5>. QED
            BY <1>0, <5>1, <5>2, <5>3 DEF WrittenInv
        <4>5. c = q \o a /\ c \in Stream
          <5>1. (q \o a) \o << >> = q \o a
            BY <2>5, ConcatEmptySeq DEF Stream
          <5>. QED
            BY <2>5, <3>1, <3>3, <4>0, <5>1
        <4>6. Whole(w \o c) /\ Frames(w \o c) = written
          BY <2>4, <3>1, <4>3, <4>4, WholeAppend
        <4>7. /\ w \o c \in Stream /\ (w \o c) \o << >> = w \o c
              /\ << >> \o << >> = << >>
          BY <2>4, <4>5, EmptyStream, StreamConcat, ConcatEmptySeq DEF Stream
        <4>8. OnTheWire(w \o c, << >>)'
          BY <2>0, <2>5, <2>7, <4>1, <4>5, <4>6, <4>7 DEF OnTheWire, Done, Current
        <4>. QED
          BY <4>7, <4>8, EmptyStream
      <3>. QED
        BY <3>2, <3>3
    <2>. QED
      BY <2>6, <2>7
  <1>5. CASE WriteFails
    BY <1>1, <1>5 DEF WriteFails
  <1>6. CASE QuietWrite \/ UNCHANGED <<todo, wire, written, lost, pc, clean>>
    <2>1. /\ clean /\ ~lost /\ UNCHANGED <<todo, wire, written>>
          /\ Done' = Done /\ Current' = Current
      <3>1. CASE QuietWrite
        BY <1>1, <3>1 DEF QuietWrite, Done, Current
      <3>2. CASE UNCHANGED <<todo, wire, written, lost, pc, clean>>
        BY <1>1, <3>2 DEF Done, Current
      <3>. QED
        BY <1>6, <3>1, <3>2
    <2>2. PICK w, q : w \in Stream /\ q \in Stream /\ OnTheWire(w, q)
      BY <1>0, <2>1 DEF WireInv
    <2>3. OnTheWire(w, q)'
      BY <2>1, <2>2 DEF OnTheWire
    <2>. QED
      BY <2>2, <2>3
  <1>. QED
    BY <1>0, <1>2, <1>3, <1>4, <1>5, <1>6, QuietSteps

LEMMA IInvStep ==
  ASSUME IInv, [Next]_vars
  PROVE  IInv'
  <1>1. TypeOK /\ BufInv /\ LineInv /\ BorderInv /\ TodoInv /\ WrittenInv
    BY DEF IInv
  <1>2. TypeOK' /\ BufInv' /\ LineInv' /\ BorderInv'
    BY <1>1, TypeStep, BufStep, LineStep, BorderStep
  <1>3. TodoInv' /\ WrittenInv' /\ WireInv'
    BY <1>1, TodoStep, WrittenStep, WireStep
  <1>. QED
    BY <1>2, <1>3 DEF IInv

LEMMA Invariance == Spec => []IInv
  <1>1. Init => IInv
    BY IInvInit
  <1>2. IInv /\ [Next]_vars => IInv'
    BY IInvStep
  <1>. QED
    BY <1>1, <1>2, PTL DEF Spec

LEMMA IsPrefixOfConcat ==
  ASSUME NEW S, NEW f \in Seq(S), NEW g \in Seq(S)
  PROVE  IsPrefix(f, f \o g)
  <1>1. SubSeq(f \o g, 1, Len(f)) = f /\ Len(f) \in 0 .. Len(f \o g) /\ SubSeq(f, 1, Len(f)) = f
    BY SubSeqOfFirst, SubSeqFull
  <1>2. Len(f) <= Len(f \o g)
    BY <1>1, ConcatProperties, LenProperties
  <1>. QED
    BY <1>1, <1>2 DEF IsPrefix

LEMMA FramedFromInv == IInv => FramedAsWritten
  <1>1. SUFFICES ASSUME IInv, clean, ~lost
                 PROVE  \/ Frames(wire) = Done
                        \/ /\ BeforeList(written) # written
                           /\ IsPrefix(BeforeList(written), Frames(wire))
    BY DEF FramedAsWritten, Done
  <1>2. /\ todo \in Stream /\ written \in Seq(Stream)
        /\ TodoInv /\ WrittenInv
    BY <1>1 DEF IInv, TypeOK, Stream
  <1>3. PICK w, q : w \in Stream /\ q \in Stream /\ OnTheWire(w, q)
    BY <1>1 DEF IInv, WireInv
  <1>4. Frames(wire) = Frames(w) \o Frames(q)
    BY <1>3 DEF OnTheWire, Whole
  <1>5. Frames(w) \in Seq(Stream) /\ Frames(q) \in Seq(Stream)
    BY <1>3, CutTypes
  <1>6. CASE NoList(written)
    <2>1. Frames(w) = Done /\ Current = q \o todo
      BY <1>3, <1>6 DEF OnTheWire
    <2>2. Frames(q) = << >>
      <3>1. CASE pc # "write"
        <4>1. q \o todo = << >>
          BY <2>1, <3>1 DEF Current
        <4>2. q = << >>
          BY <1>2, <1>3, <4>1, ConcatSimplifications DEF Stream
        <4>. QED
          BY <4>2, EmptyStream
      <3>2. CASE pc = "write"
        <4>1. todo # << >> /\ written # << >> /\ Last(written) = q \o todo
          BY <1>2, <2>1, <3>2 DEF TodoInv, Current
        <4>2. Len(written) \in 1 .. Len(written)
          BY <1>2, <4>1, EmptySeq
        <4>3. IsPacket(Last(written))
          BY <1>2, <1>6, <4>2 DEF WrittenInv, NoList, Last
        <4>. QED
          BY <1>2, <1>3, <4>1, <4>3, FramesOfPart
      <3>. QED
        BY <3>1, <3>2
    <2>3. Frames(w) \o << >> = Frames(w)
      BY <1>5, ConcatEmptySeq
    <2>. QED
      BY <1>4, <2>1, <2>2, <2>3
  <1>7. CASE ~NoList(written)
    <2>1. Frames(w) = BeforeList(written)
      BY <1>3, <1>7 DEF OnTheWire
    <2>2. BeforeList(written) # written
      BY <1>2, <1>7, BeforeIsShorter
    <2>3. IsPrefix(Frames(w), Frames(w) \o Frames(q))
      BY <1>5, IsPrefixOfConcat
    <2>. QED
      BY <1>4, <2>1, <2>2, <2>3
  <1>. QED
    BY <1>6, <1>7

\* Every variable stays in its type, and bt_read's buffer within the bytes
\* its check allows.
THEOREM TypeCorrect == Spec => []TypeOK
  <1>1. IInv => TypeOK
    BY DEF IInv
  <1>. QED
    BY <1>1, Invariance, PTL

\* The brick finds in the stream exactly the packets given to bt_write, in
\* order, whatever pieces write() takes, until a write() fails or ls asks for
\* the rest of a listing.
THEOREM FramingCorrect == Spec => []FramedAsWritten
  BY FramedFromInv, Invariance, PTL

-----------------------------------------------------------------------------
(***************************************************************************)
(* bt_read implements the packet channel: every step is one of its steps,  *)
(* or none.                                                                *)
(***************************************************************************)

\* The variables of the channel.
Queue == Frames(Unread)
AbstractLine ==
  IF line = "up" THEN "up" ELSE IF buf \o arrived = << >> THEN "dry" ELSE "ended"
Broken == ~clean \/ pc = "closed"

ChannelStep == [Channel!Next]_(Channel!vars)

\* What has to be shown for each of its steps.
LEMMA IsStutter ==
  ASSUME Queue' = Queue, result'.bytes = result.bytes,
         AbstractLine' = AbstractLine, Broken' = Broken
  PROVE  ChannelStep
  BY DEF ChannelStep, Channel!vars, Queue, Unread, AbstractLine, Broken

LEMMA IsBreak ==
  ASSUME Broken'
  PROVE  ChannelStep
  <1>1. (~clean \/ pc = "closed")' = TRUE
    BY DEF Broken
  <1>. QED
    BY <1>1 DEF ChannelStep, Channel!Next, Channel!Break

LEMMA IsOpen ==
  ASSUME Broken, ~Broken', AbstractLine' = "up", Queue' = << >>, result'.bytes = << >>
  PROVE  ChannelStep
  <1>1. (~clean \/ pc = "closed") = TRUE /\ (~clean \/ pc = "closed")' = FALSE
    BY DEF Broken
  <1>. QED
    BY <1>1 DEF ChannelStep, Channel!Next, Channel!Open, AbstractLine, Queue, Unread

\* The line stays as it is or turns out to be dry.
Wane == AbstractLine' = AbstractLine \/ (AbstractLine = "ended" /\ AbstractLine' = "dry")

LEMMA IsTake ==
  ASSUME Queue # << >>, result'.bytes = Head(Queue), Queue' = Tail(Queue),
         Wane, Broken' = Broken
  PROVE  ChannelStep
  BY DEF ChannelStep, Channel!Next, Channel!Take, Channel!Wane, Wane,
         AbstractLine, Queue, Unread, Broken

LEMMA IsNothing ==
  ASSUME result'.bytes = << >>, Queue' = Queue, Wane, Broken' = Broken
  PROVE  ChannelStep
  BY DEF ChannelStep, Channel!Next, Channel!Nothing, Channel!Wane, Wane,
         AbstractLine, Queue, Unread, Broken

LEMMA IsRemnant ==
  ASSUME Queue = << >>, Queue' = Queue, AbstractLine = "ended", AbstractLine' = "dry",
         Broken' = Broken
  PROVE  ChannelStep
  BY DEF ChannelStep, Channel!Next, Channel!Remnant, AbstractLine, Queue, Unread, Broken

LEMMA IsPut ==
  ASSUME AbstractLine = "up", AbstractLine' = "up",
         NEW b \in Replies, Queue' = Append(Queue, LenField(Len(b)) \o b),
         result'.bytes = result.bytes, Broken' = Broken
  PROVE  ChannelStep
  <1>1. LenField(Len(b)) \o b \in {LenField(Len(r)) \o r : r \in Replies}
    OBVIOUS
  <1>. QED
    BY <1>1 DEF ChannelStep, Channel!Next, Channel!Put, AbstractLine, Queue, Unread, Broken

LEMMA IsEnd ==
  ASSUME AbstractLine = "up", AbstractLine' \in {"ended", "dry"},
         NEW n \in 0 .. Len(Queue), Queue' = SubSeq(Queue, 1, n),
         result'.bytes = result.bytes, Broken' = Broken
  PROVE  ChannelStep
  BY DEF ChannelStep, Channel!Next, Channel!End, AbstractLine, Queue, Unread, Broken

-----------------------------------------------------------------------------
LEMMA HeadTailOfOne ==
  ASSUME NEW S, NEW p \in S, NEW g \in Seq(S)
  PROVE  /\ <<p>> \o g # << >>
         /\ Head(<<p>> \o g) = p /\ Tail(<<p>> \o g) = g
  <1>. DEFINE h == <<p>> \o g
  <1>1. <<p>> \in Seq(S) /\ Len(<<p>>) = 1 /\ Len(g) \in Nat
    BY LenProperties
  <1>2. /\ h \in Seq(S) /\ Len(h) = 1 + Len(g)
        /\ \A i \in 1 .. 1 + Len(g) : h[i] = IF i <= 1 THEN <<p>>[i] ELSE g[i - 1]
    BY <1>1, ConcatProperties
  <1>3. 1 \in 1 .. 1 + Len(g)
    BY <1>1
  <1>4. h[1] = p
    BY <1>2, <1>3
  <1>. HIDE DEF h
  <1>5. h # << >>
    BY <1>1, <1>2, EmptySeq
  <1>6. Head(h) = p
    BY <1>2, <1>4, <1>5
  <1>7. /\ Tail(h) \in Seq(S) /\ Len(Tail(h)) = Len(h) - 1
        /\ \A i \in 1 .. Len(Tail(h)) : Tail(h)[i] = h[i + 1]
    BY <1>2, <1>5, HeadTailProperties
  <1>8. Len(Tail(h)) = Len(g)
    BY <1>1, <1>2, <1>7
  <1>9. ASSUME NEW i \in 1 .. Len(Tail(h)) PROVE Tail(h)[i] = g[i]
    <2>1. i + 1 \in 1 .. 1 + Len(g) /\ ~(i + 1 <= 1) /\ (i + 1) - 1 = i
      BY <1>1, <1>8
    <2>. QED
      BY <1>2, <1>7, <2>1
  <1>10. Tail(h) = g
    BY <1>7, <1>8, <1>9, SeqEqual
  <1>. QED
    BY <1>5, <1>6, <1>10 DEF h

\* A read() that completes a packet takes it from the queue.
LEMMA TakeStep ==
  ASSUME TypeOK, BufInv, pc \in {"header", "body"}, arrived # << >>,
         IsPacket(Filled), arrived' = Left, buf' = << >>, coming' = coming, line' = line,
         result'.bytes = Filled, Broken' = Broken
  PROVE  ChannelStep
  <1>1. /\ Unread = Filled \o (Left \o coming) /\ Left \o coming \in Stream
        /\ Left \in Stream /\ coming \in Stream /\ Filled \in Stream
    BY UnreadAfterRead, ReadFacts, UnreadType
  <1>2. Unread' = Left \o coming
    BY <1>1, EmptyFirst DEF Unread
  <1>3. Queue = <<Filled>> \o Queue'
    BY <1>1, <1>2, FramesOfPacket DEF Queue
  <1>4. Queue' \in Seq(Stream)
    BY <1>1, <1>2, CutTypes DEF Queue
  <1>5. Queue # << >> /\ Head(Queue) = Filled /\ Tail(Queue) = Queue'
    BY <1>1, <1>3, <1>4, HeadTailOfOne
  <1>6. buf \o arrived # << >>
    BY UnreadType, ConcatSimplifications DEF Stream
  <1>7. Wane
    BY <1>6 DEF Wane, AbstractLine
  <1>. QED
    BY <1>5, <1>7, IsTake

\* One that does not leaves the stream as it is.
LEMMA PartStep ==
  ASSUME TypeOK, BufInv, pc \in {"header", "body"}, arrived # << >>,
         arrived' = Left, buf' = Filled, coming' = coming, line' = line,
         result' = result, Broken' = Broken
  PROVE  ChannelStep
  <1>1. Unread = Filled \o Left \o coming /\ Filled \o Left = buf \o arrived
    BY UnreadAfterRead, ReadFacts
  <1>2. Queue' = Queue /\ AbstractLine' = AbstractLine
    BY <1>1 DEF Queue, Unread, AbstractLine
  <1>. QED
    BY <1>2, IsStutter

\* A packet that the end of the line has cut is not in the queue.
LEMMA CutOff ==
  ASSUME IInv, arrived = << >>, line # "up", pc \in {"header", "body"},
         buf' = << >>, UNCHANGED <<arrived, coming, line>>
  PROVE  /\ Queue = << >> /\ Queue' = << >> /\ AbstractLine' = "dry"
         /\ AbstractLine = IF buf = << >> THEN "dry" ELSE "ended"
  <1>1. coming = << >> /\ buf \in Stream /\ Len(buf) \in Nat
    BY LenProperties DEF IInv, LineInv, TypeOK, Stream
  <1>2. Short(buf)
    <2>1. BufInv
      BY DEF IInv
    <2>. QED
      BY <1>1, <2>1 DEF BufInv, Short
  <1>3. buf \o << >> = buf /\ << >> \o << >> = << >>
    BY <1>1, EmptyStream, ConcatEmptySeq DEF Stream
  <1>4. Unread = buf /\ Unread' = << >>
    BY <1>1, <1>3 DEF Unread
  <1>5. Queue = << >> /\ Queue' = << >>
    BY <1>1, <1>2, <1>4, FramesShort, EmptyStream DEF Queue
  <1>. QED
    BY <1>1, <1>3, <1>5 DEF AbstractLine

LEMMA Simulation ==
  ASSUME IInv, IInv', [Next]_vars
  PROVE  ChannelStep
  <1>0. TypeOK /\ BufInv /\ LineInv /\ BorderInv /\ TypeOK' /\ clean \in BOOLEAN
    BY DEF IInv, TypeOK
  <1>1. CASE Broken'
    BY <1>1, IsBreak
  <1>2. CASE ~Broken'
    <2>0. clean' /\ pc' # "closed"
      BY <1>2 DEF Broken
    <2>1. CASE bt_open
      <3>1. /\ buf' = << >> /\ arrived' = << >> /\ coming' = << >> /\ line' = "up"
            /\ result'.bytes = << >>
        BY <1>0, <2>0, <2>1 DEF bt_open, BufInv, Nothing
      <3>2. << >> \o << >> \o << >> = << >>
        BY EmptyFirst, EmptyStream, ConcatEmptySeq DEF Stream
      <3>3. Queue' = << >> /\ AbstractLine' = "up"
        BY <3>1, <3>2, EmptyStream DEF Queue, Unread, AbstractLine
      <3>4. Broken
        BY <2>1 DEF bt_open, Broken
      <3>. QED
        BY <1>2, <3>1, <3>3, <3>4, IsOpen
    <2>2. CASE bt_close
      BY <2>0, <2>2 DEF bt_close
    <2>3. CASE CallWrite \/ WriteSome \/ WriteFails \/ CallRead \/ SelectReady
      <3>1. /\ pc # "closed" /\ UNCHANGED <<clean, line, buf, arrived, coming, result>>
        BY <2>3 DEF CallWrite, WriteSome, WriteFails, CallRead, SelectReady, reading, peer
      <3>2. Broken' = Broken
        BY <2>0, <3>1 DEF Broken
      <3>3. Queue' = Queue /\ AbstractLine' = AbstractLine
        BY <3>1 DEF Queue, Unread, AbstractLine
      <3>. QED
        BY <3>1, <3>2, <3>3, IsStutter
    <2>4. CASE SelectTimeout
      <3>1. /\ pc # "closed" /\ UNCHANGED <<clean, line, buf, arrived, coming>>
            /\ result'.bytes = << >>
        BY <1>0, <2>4 DEF SelectTimeout, ReturnRead, peer, BufInv, Nothing
      <3>2. Broken' = Broken
        BY <2>0, <3>1 DEF Broken
      <3>3. Queue' = Queue /\ AbstractLine' = AbstractLine
        BY <3>1 DEF Queue, Unread, AbstractLine
      <3>. QED
        BY <3>1, <3>2, <3>3, IsNothing DEF Wane
    <2>5. CASE ReadHeader
      <3>1. /\ pc = "header" /\ arrived # << >> /\ arrived' = Left
            /\ line' = line /\ coming' = coming
            /\ HeaderPart \/ HeaderTooLong \/ HeaderAlone \/ HeaderDone
        BY <1>0, <2>5, HeaderCases DEF peer
      <3>2. ~HeaderTooLong
        BY <2>0 DEF HeaderTooLong
      <3>3. clean' = clean
        BY <3>1, <3>2 DEF HeaderPart, HeaderAlone, HeaderDone
      <3>4. Broken' = Broken
        BY <2>0, <3>1, <3>3 DEF Broken
      <3>5. CASE HeaderPart \/ HeaderDone
        <4>1. buf' = Filled /\ result' = result
          BY <3>5 DEF HeaderPart, HeaderDone
        <4>. QED
          BY <1>0, <3>1, <3>4, <4>1, PartStep
      <3>6. CASE HeaderAlone
        <4>1. IsPacket(Filled) /\ buf' = << >> /\ result'.bytes = Filled
          BY <3>6 DEF HeaderAlone
        <4>. QED
          BY <1>0, <3>1, <3>4, <4>1, TakeStep
      <3>. QED
        BY <3>1, <3>2, <3>5, <3>6
    <2>6. CASE HeaderFails
      <3>1. /\ pc = "header" /\ arrived = << >> /\ line # "up" /\ buf' = << >>
            /\ UNCHANGED <<arrived, coming, line, clean>> /\ result'.bytes = << >>
        BY <2>6 DEF HeaderFails, ReturnRead, peer, Nothing
      <3>2. Broken' = Broken
        BY <2>0, <3>1 DEF Broken
      <3>3. Queue' = Queue /\ Wane
        BY <3>1, CutOff DEF Wane
      <3>. QED
        BY <3>1, <3>2, <3>3, IsNothing
    <2>7. CASE ReadBody
      <3>1. /\ pc = "body" /\ arrived # << >> /\ arrived' = Left
            /\ line' = line /\ coming' = coming /\ clean' = clean
            /\ BodyPart \/ BodyDone
        BY <1>0, <2>7, BodyCases DEF peer
      <3>2. Broken' = Broken
        BY <2>0, <3>1 DEF Broken
      <3>3. CASE BodyPart
        <4>1. buf' = Filled /\ result' = result
          BY <3>3 DEF BodyPart
        <4>. QED
          BY <1>0, <3>1, <3>2, <4>1, PartStep
      <3>4. CASE BodyDone
        <4>1. IsPacket(Filled) /\ buf' = << >> /\ result'.bytes = Filled
          BY <3>4 DEF BodyDone
        <4>. QED
          BY <1>0, <3>1, <3>2, <4>1, TakeStep
      <3>. QED
        BY <3>1, <3>3, <3>4
    <2>8. CASE BodyFails
      <3>1. /\ pc = "body" /\ arrived = << >> /\ line # "up" /\ buf' = << >>
            /\ UNCHANGED <<arrived, coming, line, clean>>
        BY <2>8 DEF BodyFails, ReturnRead, peer
      <3>2. Broken' = Broken
        BY <2>0, <3>1 DEF Broken
      <3>3. buf # << >>
        <4>1. Len(buf) >= 2
          BY <1>0, <3>1 DEF BufInv
        <4>. QED
          BY <4>1, EmptyStream
      <3>4. /\ Queue = << >> /\ Queue' = Queue
            /\ AbstractLine = "ended" /\ AbstractLine' = "dry"
        BY <3>1, <3>3, CutOff
      <3>. QED
        BY <3>2, <3>4, IsRemnant
    <2>9. CASE Send
      <3>1. pc # "closed" /\ line = "up" /\ UNCHANGED <<line, clean, result>>
        BY <2>9 DEF Send, reading
      <3>2. Broken' = Broken /\ AbstractLine = "up" /\ AbstractLine' = "up"
        BY <2>0, <3>1 DEF Broken, AbstractLine
      <3>3. PICK b \in Replies : /\ Unread' = Unread \o (LenField(Len(b)) \o b)
                                 /\ IsPacket(LenField(Len(b)) \o b)
        BY <1>0, <2>9, SendUnread
      <3>4. Whole(Unread) /\ Unread \in Stream
        BY <1>0, <2>0, <3>1, UnreadType DEF BorderInv
      <3>5. Queue' = Append(Queue, LenField(Len(b)) \o b)
        BY <3>3, <3>4, WholeAppend DEF Queue
      <3>. QED
        BY <3>1, <3>2, <3>5, IsPut
    <2>10. CASE Arrive
      <3>1. pc # "closed" /\ line = "up" /\ UNCHANGED <<line, clean, result>>
        BY <2>10 DEF Arrive, reading
      <3>2. Broken' = Broken /\ AbstractLine' = AbstractLine
        BY <2>0, <3>1 DEF Broken, AbstractLine
      <3>3. Queue' = Queue
        BY <1>0, <2>10, ArriveUnread DEF Queue
      <3>. QED
        BY <3>1, <3>2, <3>3, IsStutter
    <2>11. CASE HangUp
      <3>1. /\ pc # "closed" /\ line = "up" /\ UNCHANGED <<buf, clean, result>>
            /\ coming' = << >> /\ line' \in {"eof", "error"}
            /\ arrived' = arrived \/ arrived' = << >>
        BY <2>11 DEF HangUp, reading
      <3>2. Broken' = Broken
        BY <2>0, <3>1 DEF Broken
      <3>3. AbstractLine = "up" /\ AbstractLine' \in {"ended", "dry"}
        BY <3>1 DEF AbstractLine
      <3>4. buf \in Stream /\ arrived \in Stream /\ coming \in Stream
        BY <1>0, UnreadType
      <3>5. PICK x, t : x \in Stream /\ t \in Stream /\ Unread' = x /\ Unread = x \o t
        <4>1. CASE arrived' = arrived
          <5>1. Unread' = buf \o arrived
            BY <3>1, <3>4, <4>1, StreamConcat, ConcatEmptySeq DEF Unread, Stream
          <5>. QED
            BY <3>4, <5>1, StreamConcat DEF Unread
        <4>2. CASE arrived' = << >>
          <5>1. buf \o << >> = buf
            BY <3>4, ConcatEmptySeq DEF Stream
          <5>2. Unread' = buf
            BY <3>1, <4>2, <5>1 DEF Unread
          <5>3. Unread = buf \o (arrived \o coming)
            <6>1. Associative(buf, arrived, coming)
              BY <3>4, StreamAssociative
            <6>. QED
              BY <6>1 DEF Associative, Unread
          <5>. QED
            BY <3>4, <5>2, <5>3, StreamConcat
        <4>. QED
          BY <3>1, <4>1, <4>2
      <3>6. PICK g \in Seq(Stream) : Frames(x \o t) = Frames(x) \o g
        BY <3>5, FramesPrefix
      <3>7. Queue' = SubSeq(Queue, 1, Len(Frames(x))) /\ Len(Frames(x)) \in 0 .. Len(Queue)
        <4>1. Queue' = Frames(x) /\ Queue = Frames(x) \o g /\ Frames(x) \in Seq(Stream)
          BY <3>5, <3>6, CutTypes DEF Queue
        <4>. QED
          BY <4>1, SubSeqOfFirst
      <3>. QED
        BY <3>1, <3>2, <3>3, <3>7, IsEnd
    <2>12. CASE UNCHANGED vars
      <3>1. UNCHANGED <<pc, clean, line, buf, arrived, coming, result>>
        BY <2>12 DEF vars, reading, peer
      <3>2. Broken' = Broken
        BY <3>1 DEF Broken
      <3>3. Queue' = Queue /\ AbstractLine' = AbstractLine
        BY <3>1 DEF Queue, Unread, AbstractLine
      <3>. QED
        BY <3>1, <3>2, <3>3, IsStutter
    <2>. QED
      BY <2>1, <2>2, <2>3, <2>4, <2>5, <2>6, <2>7, <2>8, <2>9, <2>10, <2>11, <2>12
      DEF Next, bt_write, bt_read
  <1>. QED
    BY <1>1, <1>2

\* bt_read implements the packet channel the commands rely on: on a connection
\* that began in silence each call returns the oldest packet, whole, or
\* nothing, however the stream is fragmented, and a packet cut by the end of
\* the line is the last thing returned.
THEOREM Refinement == Spec => ImplementsChannel
  <1>1. Init => Channel!Init
    <2>1. SUFFICES ASSUME Init PROVE Channel!Init
      OBVIOUS
    <2>2. << >> \o << >> \o << >> = << >>
      BY EmptyFirst, EmptyStream, ConcatEmptySeq DEF Stream
    <2>3. Frames(buf \o arrived \o coming) = << >>
      BY <2>1, <2>2, EmptyStream DEF Init
    <2>4. result.bytes = << >> /\ line = "up"
      BY <2>1 DEF Init, Nothing
    <2>5. (~clean \/ pc = "closed") = TRUE
      BY <2>1 DEF Init
    <2>. QED
      BY <2>3, <2>4, <2>5 DEF Channel!Init
  <1>2. IInv /\ IInv' /\ [Next]_vars => [Channel!Next]_(Channel!vars)
    BY Simulation DEF ChannelStep
  <1>. QED
    BY <1>1, <1>2, Invariance, PTL DEF Spec, ImplementsChannel, Channel!Spec
=============================================================================
