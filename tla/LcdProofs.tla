------------------------------ MODULE LcdProofs ------------------------------
(***************************************************************************)
(* Proofs about the two halves of ev3_lcd.c.                               *)
(*                                                                         *)
(* Lcd, for any pictures, callback intervals, table size and tick counter: *)
(* what the signal can find, wherever in a call it comes.                  *)
(*                                                                         *)
(* Drawing, for any size of the screen and the font and any arguments:     *)
(* what a call touches lies in displayBuf, and slanted lines, clipped or   *)
(* not, follow the segment between their ends.                             *)
(***************************************************************************)
EXTENDS Lcd, Drawing, FiniteSetTheorems, SequenceTheorems, WellFoundedInduction, TLAPS

------------------------------------------------------------------------------
(***************************************************************************)
(* Types.                                                                  *)
(***************************************************************************)

Callbacks == {NULL, Handler, Other}

Ops == {"Paint", "Shift", "Unconvert", "Convert", "Fetch", "Mark", "Clear", "Fields",
        "Mapped", "Forget", "NoDisplay", "Copy", "Close", "Unmap", "Start", "Zero",
        "Wipe", "Store", "Count", "Update", "Open", "Register"}

Slots == [interval : Interval, index : 0..MaxCallbacks, callback : Callbacks]

Steps == [op : Ops, cell : Cell, pic : 0..7, slot : Slots]

\* The bytes PixelTab holds.
LitBytes == {Lit(v) : v \in 0..7}

LcdType == [Dirty : BOOLEAN, DispFile : {"static", "none", "open"}, pFB0 : {NULL, "fb"},
            pLcd : {NULL, "displayBuf"}, autoRefresh : BOOLEAN,
            displayBuf : [Cell -> 0..7], hwBuffer : [Cell -> LitBytes]]

DevType == [fb : [Cell -> LitBytes], open : Int, mapped : BOOLEAN]

TimerType == [callBack : [Interval -> [1..MaxCallbacks -> Callbacks]],
              count : [Interval -> Nat], counter : Nat, ticking : BOOLEAN]

TypeOK ==
    /\ lcd \in LcdType
    /\ dev \in DevType
    /\ timer \in TimerType
    /\ script \in Seq(Steps)
    /\ hist \in [unmarked : BOOLEAN, reset : BOOLEAN, leaks : Nat]
    /\ crash \in {"no", "callback", "frame buffer", "table"}

------------------------------------------------------------------------------
(***************************************************************************)
(* What the steps a call has still to take look like.                      *)
(***************************************************************************)

\* The step that may follow another one in a call.
Follows(a, b) ==
    /\ a.op \notin {"Mark", "Register", "NoDisplay"}
    /\ a.op = "Fields" => b.op = "Open"
    /\ a.op = "Open" => b.op = "Mapped"
    /\ a.op = "Mapped" => b.op = "Start"
    /\ a.op = "Start" => b.op = "Zero"
    /\ a.op = "Zero" => b.op = "Wipe"
    /\ a.op = "Wipe" => b.op = "Register" /\ b.slot = Slot(LcdInterval, 0, Handler)
    /\ a.op = "Close" => b.op = "Unmap"
    /\ a.op = "Unmap" => b.op = "Forget"
    /\ a.op = "Forget" => b.op = "NoDisplay"
    /\ a.op = "Paint" => b.op \in {"Paint", "Mark"}
    /\ a.op = "Shift" => b.op = "Paint"
    /\ a.op \in {"Update", "Clear"} => b.op = "Clear"
    /\ a.op = "Fetch" => IF a.cell = 1 THEN b.op = "Fetch" /\ b.cell = 2
                                       ELSE b.op = "Unconvert" /\ b.cell = 1
    /\ a.op = "Unconvert" => a.cell = 1 /\ b.op = "Unconvert" /\ b.cell = 2
    /\ a.op = "Convert" => IF a.cell = 1 THEN b.op = "Convert" /\ b.cell = 2
                                         ELSE b.op = "Copy" /\ b.cell = 1
    /\ a.op = "Copy" => IF a.cell = 1 THEN b.op = "Copy" /\ b.cell = 2 ELSE b.op = "Clear"
    /\ a.op = "Store" => /\ b.op = "Count" /\ b.slot.interval = a.slot.interval
                         /\ b.slot.callback = a.slot.callback
    /\ a.op = "Count" => /\ b.op = "Store" /\ b.slot.interval = a.slot.interval
                         /\ b.slot.callback = a.slot.callback

\* The step a call may end with.
Final(a) ==
    \/ a.op \in {"Wipe", "Register", "NoDisplay", "Paint", "Mark", "Update", "Clear",
                 "Store", "Count"}
    \/ a.op = "Unconvert" /\ a.cell = 2

\* Only the steps that register a callback name one.
Names(a) == a.slot.callback # NULL <=> a.op \in {"Register", "Store", "Count"}

Chain(s) ==
    /\ \A j \in 1..(Len(s) - 1) : Follows(s[j], s[j + 1])
    /\ \A j \in 1..Len(s) : Names(s[j])

Linked(s) == Chain(s) /\ (s # <<>> => Final(s[Len(s)]))

HeadIs(op) == script # <<>> /\ script[1].op = op

\* The registration of the handler, or the mark, is still to come.
HandlerPending(s) == \E j \in 1..Len(s) : s[j].slot.callback = Handler
MarkPending(s) == \E j \in 1..Len(s) : s[j].op = "Mark"

\* LcdInit goes on to register the handler; a TimerInit that does not is the
\* program's; what is painted is marked at the end, unless it is a scroll.
PendingInv ==
    /\ HeadIs("Fields") \/ HeadIs("Open") \/ HeadIs("Mapped") => HandlerPending(script)
    /\ HeadIs("Start") \/ HeadIs("Zero") \/ HeadIs("Wipe") => HandlerPending(script) \/ hist.reset
    /\ HeadIs("Paint") => MarkPending(script) \/ hist.unmarked

------------------------------------------------------------------------------
(***************************************************************************)
(* The inductive invariant.                                                *)
(***************************************************************************)

\* The descriptor, the mapping and what the library believes of them, at
\* every step of LcdInit and LcdExit.
DeviceInv ==
    /\ dev.open = hist.leaks +
         (IF HeadIs("Mapped") \/ (LcdInitialized /\ ~HeadIs("Unmap") /\ ~HeadIs("Forget"))
            THEN 1 ELSE 0)
    /\ dev.mapped = (HeadIs("Mapped") \/ (LcdInitialized /\ ~HeadIs("Forget")))
    /\ HeadIs("Fields") => ~LcdInitialized
    /\ HeadIs("Open") => lcd.pFB0 = NULL
    /\ HeadIs("Mapped") => lcd.pFB0 = NULL /\ lcd.DispFile = "open"
    /\ HeadIs("Close") \/ HeadIs("Unmap") \/ HeadIs("Forget") => LcdInitialized
    /\ lcd.DispFile = "none" \/ lcd.DispFile = "static" => lcd.pFB0 = NULL

NoCounts == \A i \in Interval : timer.count[i] = 0

\* The used slots of the tables hold a callback and the others none, but for
\* the slot that is being filled and the tables that are being cleared.
TablesInv ==
    /\ \A i \in Interval : timer.count[i] <= MaxCallbacks
    /\ \A i \in Interval, k \in 1..MaxCallbacks :
         /\ k <= timer.count[i] =>
              \/ timer.callBack[i][k] # NULL
              \/ HeadIs("Store") /\ script[1].slot.interval = i /\ script[1].slot.index = k
         /\ k > timer.count[i] =>
              \/ timer.callBack[i][k] = NULL
              \/ HeadIs("Wipe")
              \/ /\ HeadIs("Count") /\ Len(script) = 1
                 /\ script[1].slot.interval = i /\ k = timer.count[i] + 1
    /\ HeadIs("Wipe") => NoCounts
    /\ HeadIs("Register") /\ script[1].slot.callback = Handler => NoCounts
    /\ HeadIs("Store") => LET s == script[1].slot IN
         /\ Len(script) \in {1, 2} /\ s.index \in 1..MaxCallbacks
         /\ s.index = timer.count[s.interval] + (IF Len(script) = 2 THEN 1 ELSE 0)
         /\ timer.callBack[s.interval][s.index] = NULL
    /\ HeadIs("Count") => LET s == script[1].slot IN
         /\ Len(script) \in {1, 2} /\ timer.count[s.interval] < MaxCallbacks
         /\ Len(script) = 2 => script[2].slot.index = timer.count[s.interval] + 1
         /\ Len(script) = 1 =>
              timer.callBack[s.interval][timer.count[s.interval] + 1] = s.callback

Registered(i, k) == k <= timer.count[i] /\ timer.callBack[i][k] = Handler

\* The handler is nowhere while it is being registered, and in one slot after.
HandlerInv ==
    /\ /\ HeadIs("Register") \/ HeadIs("Store") \/ HeadIs("Count")
       /\ script[1].slot.callback = Handler
       => \A i \in Interval, k \in 1..MaxCallbacks : ~Registered(i, k)
    /\ LcdInitialized /\ ~hist.reset /\ ~HandlerPending(script) =>
         \E i \in Interval, k \in 1..MaxCallbacks :
           /\ Registered(i, k)
           /\ \A j \in Interval, l \in 1..MaxCallbacks : Registered(j, l) => j = i /\ l = k

Seen(c) == dev.fb[c] = Lit(lcd.displayBuf[c])
Shown == Seen(1) /\ Seen(2)
Converted(c) == lcd.hwBuffer[c] = Lit(lcd.displayBuf[c])
Fetched(c) == lcd.hwBuffer[c] = dev.fb[c]
At(op, c) == HeadIs(op) /\ script[1].cell = c

\* What each step of a refresh and of reading the frame buffer back may rely
\* on, whenever the signal comes.
ScreenInv ==
    /\ ~lcd.Dirty /\ ~hist.unmarked /\ ~MarkPending(script) => Shown
    /\ At("Convert", 2) => Converted(1)
    /\ HeadIs("Copy") => Converted(1) /\ Converted(2)
    /\ At("Copy", 2) => Seen(1)
    /\ HeadIs("Clear") => Shown \/ ~lcd.Dirty
    /\ At("Fetch", 2) => Fetched(1)
    /\ At("Unconvert", 1) => Fetched(1)
    /\ HeadIs("Unconvert") => Fetched(2)
    /\ HeadIs("Open") => hist.unmarked

IInv ==
    /\ TypeOK /\ Linked(script) /\ PendingInv
    /\ DeviceInv /\ TablesInv /\ HandlerInv /\ ScreenInv /\ CrashesOnlyThere


------------------------------------------------------------------------------
(***************************************************************************)
(* Scripts.                                                                *)
(***************************************************************************)

LEMMA TailIs ==
    ASSUME NEW s \in Seq(Steps), s # <<>>
    PROVE  /\ Len(s) \in Nat /\ Len(s) >= 1 /\ Head(s) = s[1] /\ s[1] \in Steps
           /\ Tail(s) \in Seq(Steps) /\ Len(Tail(s)) = Len(s) - 1
           /\ \A j \in 1..(Len(s) - 1) : Tail(s)[j] = s[j + 1]
           /\ Tail(s) = <<>> <=> Len(s) = 1
  <1>1. Len(s) \in Nat /\ Len(s) >= 1
    BY EmptySeq, LenProperties
  <1>2. Tail(s) \in Seq(Steps) /\ Len(Tail(s)) = Len(s) - 1
        /\ \A j \in 1..(Len(s) - 1) : Tail(s)[j] = s[j + 1]
    BY HeadTailProperties
  <1>3. Head(s) = s[1] /\ s[1] \in Steps
    BY <1>1, HeadTailProperties, ElementOfSeq
  <1>4. Tail(s) = <<>> <=> Len(s) = 1
    <2>1. Tail(s) = <<>> <=> Len(Tail(s)) = 0
      BY <1>2, EmptySeq
    <2>. HIDE DEF Steps
    <2>. QED
      BY <1>1, <1>2, <2>1
  <1>. QED
    BY <1>1, <1>2, <1>3, <1>4

LEMMA LinkedTail ==
    ASSUME NEW s \in Seq(Steps), s # <<>>, Linked(s)
    PROVE  /\ Linked(Tail(s)) /\ Names(s[1])
           /\ Tail(s) # <<>> => Follows(s[1], Tail(s)[1]) /\ Len(s) >= 2 /\ Names(Tail(s)[1])
           /\ Tail(s) = <<>> => Final(s[1])
  <1>1. /\ Len(s) \in Nat /\ Len(s) >= 1 /\ Len(Tail(s)) = Len(s) - 1
        /\ \A j \in 1..(Len(s) - 1) : Tail(s)[j] = s[j + 1]
        /\ Tail(s) = <<>> <=> Len(s) = 1
    BY TailIs
  <1>. DEFINE t == Tail(s)
  <1>. HIDE DEF t
  <1>2. ASSUME NEW j \in 1..(Len(t) - 1) PROVE Follows(t[j], t[j + 1])
    <2>1. j + 1 \in 1..(Len(s) - 1) /\ t[j] = s[j + 1] /\ t[j + 1] = s[(j + 1) + 1]
      BY <1>1 DEF t
    <2>. QED
      BY <2>1 DEF Linked, Chain
  <1>3. ASSUME NEW j \in 1..Len(t) PROVE Names(t[j])
    <2>1. j + 1 \in 1..Len(s) /\ t[j] = s[j + 1]
      BY <1>1 DEF t
    <2>. QED
      BY <2>1 DEF Linked, Chain
  <1>4. t # <<>> => Final(t[Len(t)])
    <2>1. t # <<>> => t[Len(t)] = s[Len(s)]
      BY <1>1 DEF t
    <2>. QED
      BY <2>1, <1>1 DEF Linked, t
  <1>5. Linked(t)
    BY <1>2, <1>3, <1>4 DEF Linked, Chain
  <1>6. Names(s[1])
    BY <1>1 DEF Linked, Chain
  <1>7. t # <<>> => Follows(s[1], t[1]) /\ Len(s) >= 2 /\ Names(t[1])
    <2>. SUFFICES ASSUME t # <<>> PROVE Follows(s[1], t[1]) /\ Len(s) >= 2 /\ Names(t[1])
      OBVIOUS
    <2>1. Len(s) >= 2 /\ 1 \in 1..(Len(s) - 1) /\ 1 \in 1..Len(t)
      BY <1>1 DEF t
    <2>2. t[1] = s[1 + 1]
      BY <1>1, <2>1 DEF t
    <2>3. Follows(s[1], s[1 + 1])
      BY <2>1 DEF Linked, Chain
    <2>. QED
      BY <1>3, <2>1, <2>2, <2>3
  <1>8. t = <<>> => Final(s[1])
    BY <1>1 DEF Linked, t
  <1>. QED
    BY <1>5, <1>6, <1>7, <1>8 DEF t

LEMMA PendingTail ==
    ASSUME NEW s \in Seq(Steps), s # <<>>
    PROVE  /\ HandlerPending(Tail(s)) => HandlerPending(s)
           /\ HandlerPending(s) => HandlerPending(Tail(s)) \/ s[1].slot.callback = Handler
           /\ MarkPending(Tail(s)) => MarkPending(s)
           /\ MarkPending(s) => MarkPending(Tail(s)) \/ s[1].op = "Mark"
  <1>. DEFINE t == Tail(s)
  <1>1. /\ Len(s) \in Nat /\ Len(s) >= 1 /\ Len(t) = Len(s) - 1
        /\ \A j \in 1..(Len(s) - 1) : t[j] = s[j + 1]
    BY TailIs
  <1>. HIDE DEF t
  <1>2. ASSUME NEW j \in 1..Len(t) PROVE j + 1 \in 1..Len(s) /\ t[j] = s[j + 1]
    BY <1>1
  <1>3. ASSUME NEW j \in 1..Len(s), j # 1 PROVE j - 1 \in 1..Len(t) /\ s[j] = t[j - 1]
    <2>1. j - 1 \in 1..(Len(s) - 1) /\ (j - 1) + 1 = j
      BY <1>1, <1>3
    <2>. QED
      BY <1>1, <2>1
  <1>. QED
    BY <1>2, <1>3 DEF HandlerPending, MarkPending, t

\* A sequence of steps from a to b.
Piece(s, a, b) ==
    /\ s \in Seq(Steps) /\ s # <<>> /\ Chain(s)
    /\ s[1] = a /\ s[Len(s)] = b

LEMMA Join ==
    ASSUME NEW s, NEW t, NEW a, NEW b, NEW c, NEW d, Piece(s, a, b), Piece(t, c, d), Follows(b, c)
    PROVE  /\ Piece(s \o t, a, d)
           /\ HandlerPending(s \o t) <=> HandlerPending(s) \/ HandlerPending(t)
           /\ MarkPending(s \o t) <=> MarkPending(s) \/ MarkPending(t)
  <1>. DEFINE u == s \o t
              m == Len(s)
              n == Len(t)
  <1>1. s \in Seq(Steps) /\ t \in Seq(Steps) /\ s # <<>> /\ t # <<>>
    BY DEF Piece
  <1>2. m \in Nat /\ n \in Nat /\ m >= 1 /\ n >= 1
    BY <1>1, EmptySeq, LenProperties
  <1>3. /\ u \in Seq(Steps) /\ Len(u) = m + n
        /\ \A i \in 1..(m + n) : u[i] = IF i <= m THEN s[i] ELSE t[i - m]
    BY <1>1, ConcatProperties
  <1>. HIDE DEF u, m, n
  <1>4. ASSUME NEW i \in 1..m PROVE i \in 1..(m + n) /\ u[i] = s[i]
    BY <1>2, <1>3
  <1>5. ASSUME NEW i \in 1..n PROVE m + i \in 1..(m + n) /\ u[m + i] = t[i]
    <2>1. m + i \in 1..(m + n) /\ ~(m + i <= m) /\ (m + i) - m = i
      BY <1>2
    <2>. QED
      BY <1>3, <2>1
  <1>6. ASSUME NEW i \in 1..(m + n), i \notin 1..m PROVE i - m \in 1..n /\ u[i] = t[i - m]
    <2>1. i - m \in 1..n /\ ~(i <= m)
      BY <1>2, <1>6
    <2>. QED
      BY <1>3, <2>1
  <1>7. /\ \A i \in 1..(m - 1) : Follows(s[i], s[i + 1])
        /\ \A i \in 1..m : Names(s[i])
        /\ \A i \in 1..(n - 1) : Follows(t[i], t[i + 1])
        /\ \A i \in 1..n : Names(t[i])
        /\ s[1] = a /\ s[m] = b /\ t[1] = c /\ t[n] = d
    BY DEF Piece, Chain, m, n
  <1>8. ASSUME NEW i \in 1..(Len(u) - 1) PROVE Follows(u[i], u[i + 1])
    <2>1. CASE i < m
      <3>1. i \in 1..(m - 1) /\ i \in 1..m /\ i + 1 \in 1..m
        BY <1>2, <1>3, <2>1
      <3>. QED
        BY <1>4, <1>7, <3>1
    <2>2. CASE i = m
      <3>1. m \in 1..m /\ 1 \in 1..n
        BY <1>2
      <3>2. u[i] = b /\ u[i + 1] = c
        BY <1>4, <1>5, <1>7, <2>2, <3>1
      <3>. QED
        BY <3>2
    <2>3. CASE i > m
      <3>. DEFINE j == i - m
      <3>1. j \in 1..(n - 1) /\ j \in 1..n /\ j + 1 \in 1..n /\ m + j = i /\ m + (j + 1) = i + 1
        BY <1>2, <1>3, <2>3
      <3>. HIDE DEF j
      <3>2. u[m + j] = t[j] /\ u[m + (j + 1)] = t[j + 1]
        BY <1>5, <3>1
      <3>3. Follows(t[j], t[j + 1])
        BY <1>7, <3>1
      <3>. QED
        BY <3>1, <3>2, <3>3
    <2>. QED
      BY <1>2, <1>3, <2>1, <2>2, <2>3
  <1>9. ASSUME NEW i \in 1..Len(u) PROVE Names(u[i])
    BY <1>3, <1>4, <1>6, <1>7
  <1>10. u # <<>> /\ u[1] = a /\ u[Len(u)] = d
    <2>1. 1 \in 1..m /\ n \in 1..n
      BY <1>2
    <2>2. u[1] = a /\ u[m + n] = d
      BY <1>4, <1>5, <1>7, <2>1
    <2>. QED
      BY <1>2, <1>3, <2>2, EmptySeq
  <1>11. Piece(u, a, d)
    BY <1>3, <1>8, <1>9, <1>10 DEF Piece, Chain
  <1>12. HandlerPending(u) <=> HandlerPending(s) \/ HandlerPending(t)
    <2>1. HandlerPending(s) <=> \E i \in 1..m : s[i].slot.callback = Handler
      BY DEF HandlerPending, m
    <2>2. HandlerPending(t) <=> \E i \in 1..n : t[i].slot.callback = Handler
      BY DEF HandlerPending, n
    <2>3. HandlerPending(u) <=> \E i \in 1..(m + n) : u[i].slot.callback = Handler
      BY <1>3 DEF HandlerPending
    <2>. QED
      BY <1>4, <1>5, <1>6, <2>1, <2>2, <2>3
  <1>13. MarkPending(u) <=> MarkPending(s) \/ MarkPending(t)
    <2>1. MarkPending(s) <=> \E i \in 1..m : s[i].op = "Mark"
      BY DEF MarkPending, m
    <2>2. MarkPending(t) <=> \E i \in 1..n : t[i].op = "Mark"
      BY DEF MarkPending, n
    <2>3. MarkPending(u) <=> \E i \in 1..(m + n) : u[i].op = "Mark"
      BY <1>3 DEF MarkPending
    <2>. QED
      BY <1>4, <1>5, <1>6, <2>1, <2>2, <2>3
  <1>. QED
    BY <1>11, <1>12, <1>13 DEF u

LEMMA Single ==
    ASSUME NEW a \in Steps, Names(a)
    PROVE  /\ Piece(<<a>>, a, a)
           /\ HandlerPending(<<a>>) <=> a.slot.callback = Handler
           /\ MarkPending(<<a>>) <=> a.op = "Mark"
  <1>1. <<a>> \in Seq(Steps) /\ Len(<<a>>) = 1 /\ <<a>>[1] = a /\ <<a>> # <<>>
    OBVIOUS
  <1>. QED
    BY <1>1 DEF Piece, Chain, HandlerPending, MarkPending

LEMMA NoSlotType == NoSlot \in Slots /\ NoSlot.callback = NULL /\ NULL # Handler /\ NULL # Other
                    /\ Handler # Other
  BY LcdAssumption DEF LcdAssumption, NoSlot, Slot, Slots, Callbacks, NULL, Handler, Other

Display == Ops \ {"Register", "Store", "Count"}

LEMMA DisplayStep ==
    \A op \in Display, c \in Cell, v \in 0..7 :
      /\ Step(op, c, v, NoSlot) \in Steps /\ Names(Step(op, c, v, NoSlot))
      /\ Step(op, c, v, NoSlot).op = op /\ Step(op, c, v, NoSlot).slot = NoSlot
  BY NoSlotType DEF Step, Steps, Display, Names

\* A step of the display: Do, and the parts of Each and Paint.
LEMMA PlainStep ==
    ASSUME NEW op \in Display, NEW c \in Cell, NEW v \in 0..7,
           NEW a, a = Step(op, c, v, NoSlot)
    PROVE  /\ a \in Steps /\ a.op = op /\ a.cell = c /\ a.slot = NoSlot /\ Piece(<<a>>, a, a)
           /\ Names(a)
           /\ ~HandlerPending(<<a>>)
           /\ MarkPending(<<a>>) <=> op = "Mark"
  <1>1. a \in Steps /\ a.op = op /\ a.cell = c /\ a.slot = NoSlot
    BY NoSlotType DEF Step, Steps, Display
  <1>2. a.slot.callback = NULL /\ Names(a)
    BY <1>1, NoSlotType DEF Names, Display
  <1>3. Piece(<<a>>, a, a) /\ ~HandlerPending(<<a>>) /\ (MarkPending(<<a>>) <=> op = "Mark")
    BY <1>1, <1>2, NoSlotType, Single
  <1>. QED
    BY <1>1, <1>2, <1>3

Plain(op, c) == Step(op, c, 0, NoSlot)

LEMMA DoPiece ==
    ASSUME NEW op \in Display
    PROVE  /\ Piece(Do(op), Plain(op, 1), Plain(op, 1))
           /\ ~HandlerPending(Do(op))
           /\ MarkPending(Do(op)) <=> op = "Mark"
  <1>. DEFINE a == Step(op, 1, 0, NoSlot)
  <1>1. Do(op) = <<a>> /\ Plain(op, 1) = a /\ a = Step(op, 1, 0, NoSlot)
    BY DEF Do, Plain
  <1>2. 1 \in Cell /\ 0 \in 0..7
    BY DEF Cell
  <1>. HIDE DEF a
  <1>3. Piece(<<a>>, a, a) /\ ~HandlerPending(<<a>>) /\ (MarkPending(<<a>>) <=> op = "Mark")
    BY <1>1, <1>2, PlainStep
  <1>. QED
    BY <1>1, <1>3

LEMMA PlainIs ==
    ASSUME NEW op, NEW c
    PROVE  /\ Plain(op, c).op = op /\ Plain(op, c).cell = c
           /\ Plain(op, c).slot = NoSlot
  BY DEF Plain, Step

LEMMA PlainLinks ==
    /\ Follows(Plain("Fields", 1), Plain("Open", 1))
    /\ Follows(Plain("Open", 1), Plain("Mapped", 1))
    /\ Follows(Plain("Mapped", 1), Plain("Start", 1))
    /\ Follows(Plain("Start", 1), Plain("Zero", 1))
    /\ Follows(Plain("Zero", 1), Plain("Wipe", 1))
    /\ Follows(Plain("Close", 1), Plain("Unmap", 1))
    /\ Follows(Plain("Unmap", 1), Plain("Forget", 1))
    /\ Follows(Plain("Forget", 1), Plain("NoDisplay", 1))
    /\ Follows(Plain("Update", 1), Plain("Clear", 1))
    /\ Follows(Plain("Fetch", 1), Plain("Fetch", 2))
    /\ Follows(Plain("Fetch", 2), Plain("Unconvert", 1))
    /\ Follows(Plain("Unconvert", 1), Plain("Unconvert", 2))
    /\ Follows(Plain("Convert", 1), Plain("Convert", 2))
    /\ Follows(Plain("Convert", 2), Plain("Copy", 1))
    /\ Follows(Plain("Copy", 1), Plain("Copy", 2))
    /\ Follows(Plain("Copy", 2), Plain("Clear", 1))
  <1>1. Follows(Plain("Fields", 1), Plain("Open", 1))
    <2>1. \A a, b : a.op = "Fields" /\ a.cell = 1 /\ b.op = "Open" /\ b.cell = 1 => Follows(a, b)
      BY DEF Follows
    <2>. QED
      BY <2>1, PlainIs
  <1>2. Follows(Plain("Open", 1), Plain("Mapped", 1))
    <2>1. \A a, b : a.op = "Open" /\ a.cell = 1 /\ b.op = "Mapped" /\ b.cell = 1 => Follows(a, b)
      BY DEF Follows
    <2>. QED
      BY <2>1, PlainIs
  <1>3. Follows(Plain("Mapped", 1), Plain("Start", 1))
    <2>1. \A a, b : a.op = "Mapped" /\ a.cell = 1 /\ b.op = "Start" /\ b.cell = 1 => Follows(a, b)
      BY DEF Follows
    <2>. QED
      BY <2>1, PlainIs
  <1>4. Follows(Plain("Start", 1), Plain("Zero", 1))
    <2>1. \A a, b : a.op = "Start" /\ a.cell = 1 /\ b.op = "Zero" /\ b.cell = 1 => Follows(a, b)
      BY DEF Follows
    <2>. QED
      BY <2>1, PlainIs
  <1>5. Follows(Plain("Zero", 1), Plain("Wipe", 1))
    <2>1. \A a, b : a.op = "Zero" /\ a.cell = 1 /\ b.op = "Wipe" /\ b.cell = 1 => Follows(a, b)
      BY DEF Follows
    <2>. QED
      BY <2>1, PlainIs
  <1>6. Follows(Plain("Close", 1), Plain("Unmap", 1))
    <2>1. \A a, b : a.op = "Close" /\ a.cell = 1 /\ b.op = "Unmap" /\ b.cell = 1 => Follows(a, b)
      BY DEF Follows
    <2>. QED
      BY <2>1, PlainIs
  <1>7. Follows(Plain("Unmap", 1), Plain("Forget", 1))
    <2>1. \A a, b : a.op = "Unmap" /\ a.cell = 1 /\ b.op = "Forget" /\ b.cell = 1 => Follows(a, b)
      BY DEF Follows
    <2>. QED
      BY <2>1, PlainIs
  <1>8. Follows(Plain("Forget", 1), Plain("NoDisplay", 1))
    <2>1. \A a, b : a.op = "Forget" /\ a.cell = 1 /\ b.op = "NoDisplay" /\ b.cell = 1 => Follows(a, b)
      BY DEF Follows
    <2>. QED
      BY <2>1, PlainIs
  <1>9. Follows(Plain("Update", 1), Plain("Clear", 1))
    <2>1. \A a, b : a.op = "Update" /\ a.cell = 1 /\ b.op = "Clear" /\ b.cell = 1 => Follows(a, b)
      BY DEF Follows
    <2>. QED
      BY <2>1, PlainIs
  <1>10. Follows(Plain("Fetch", 1), Plain("Fetch", 2))
    <2>1. \A a, b : a.op = "Fetch" /\ a.cell = 1 /\ b.op = "Fetch" /\ b.cell = 2 => Follows(a, b)
      BY DEF Follows
    <2>. QED
      BY <2>1, PlainIs
  <1>11. Follows(Plain("Fetch", 2), Plain("Unconvert", 1))
    <2>1. \A a, b : a.op = "Fetch" /\ a.cell = 2 /\ b.op = "Unconvert" /\ b.cell = 1 => Follows(a, b)
      BY DEF Follows
    <2>. QED
      BY <2>1, PlainIs
  <1>12. Follows(Plain("Unconvert", 1), Plain("Unconvert", 2))
    <2>1. \A a, b : a.op = "Unconvert" /\ a.cell = 1 /\ b.op = "Unconvert" /\ b.cell = 2 => Follows(a, b)
      BY DEF Follows
    <2>. QED
      BY <2>1, PlainIs
  <1>13. Follows(Plain("Convert", 1), Plain("Convert", 2))
    <2>1. \A a, b : a.op = "Convert" /\ a.cell = 1 /\ b.op = "Convert" /\ b.cell = 2 => Follows(a, b)
      BY DEF Follows
    <2>. QED
      BY <2>1, PlainIs
  <1>14. Follows(Plain("Convert", 2), Plain("Copy", 1))
    <2>1. \A a, b : a.op = "Convert" /\ a.cell = 2 /\ b.op = "Copy" /\ b.cell = 1 => Follows(a, b)
      BY DEF Follows
    <2>. QED
      BY <2>1, PlainIs
  <1>15. Follows(Plain("Copy", 1), Plain("Copy", 2))
    <2>1. \A a, b : a.op = "Copy" /\ a.cell = 1 /\ b.op = "Copy" /\ b.cell = 2 => Follows(a, b)
      BY DEF Follows
    <2>. QED
      BY <2>1, PlainIs
  <1>16. Follows(Plain("Copy", 2), Plain("Clear", 1))
    <2>1. \A a, b : a.op = "Copy" /\ a.cell = 2 /\ b.op = "Clear" /\ b.cell = 1 => Follows(a, b)
      BY DEF Follows
    <2>. QED
      BY <2>1, PlainIs
  <1>. QED
    BY <1>1, <1>2, <1>3, <1>4, <1>5, <1>6, <1>7, <1>8, <1>9, <1>10, <1>11, <1>12, <1>13, <1>14, <1>15, <1>16

LEMMA EachPiece ==
    ASSUME NEW op \in {"Fetch", "Unconvert", "Convert", "Copy"}
    PROVE  /\ Piece(Each(op), Plain(op, 1), Plain(op, 2))
           /\ ~HandlerPending(Each(op)) /\ ~MarkPending(Each(op))
  <1>. DEFINE a == Plain(op, 1)
              b == Plain(op, 2)
  <1>1. Each(op) = <<a, b>>
    BY DEF Each, Plain
  <1>2. a \in Steps /\ b \in Steps /\ Names(a) /\ Names(b)
    <2>1. op \in Display /\ 1 \in Cell /\ 2 \in Cell /\ 0 \in 0..7
      BY DEF Display, Ops, Cell
    <2>2. a = Step(op, 1, 0, NoSlot) /\ b = Step(op, 2, 0, NoSlot)
      BY DEF Plain
    <2>. HIDE DEF a, b
    <2>. QED
      BY <2>1, <2>2, DisplayStep
  <1>3. Follows(a, b)
    BY PlainLinks
  <1>4. /\ a.op # "Mark" /\ b.op # "Mark"
        /\ a.slot.callback # Handler /\ b.slot.callback # Handler
    BY PlainIs, NoSlotType
  <1>. HIDE DEF a, b
  <1>5. <<a, b>> \in Seq(Steps) /\ Len(<<a, b>>) = 2 /\ <<a, b>>[1] = a /\ <<a, b>>[2] = b /\ <<a, b>> # <<>>
    BY <1>2
  <1>. DEFINE s == <<a, b>>
  <1>6. s \in Seq(Steps) /\ Len(s) = 2 /\ s[1] = a /\ s[2] = b /\ s # <<>>
    BY <1>5
  <1>. HIDE DEF s
  <1>7. \A j \in 1..(Len(s) - 1) : j = 1
    BY <1>6
  <1>8. \A j \in 1..Len(s) : j = 1 \/ j = 2
    BY <1>6
  <1>9. Chain(s)
    <2>1. Follows(s[1], s[1 + 1])
      BY <1>3, <1>6
    <2>2. \A j \in 1..(Len(s) - 1) : Follows(s[j], s[j + 1])
      BY <1>7, <2>1
    <2>3. \A j \in 1..Len(s) : Names(s[j])
      BY <1>2, <1>6, <1>8
    <2>. QED
      BY <2>2, <2>3 DEF Chain
  <1>10. Piece(s, a, b)
    BY <1>6, <1>9 DEF Piece
  <1>11. ~HandlerPending(s) /\ ~MarkPending(s)
    BY <1>4, <1>6, <1>8 DEF HandlerPending, MarkPending
  <1>. QED
    BY <1>1, <1>10, <1>11 DEF s, a, b

LEMMA PaintPiece ==
    ASSUME NEW cells \in Seq(Cell), cells # <<>>, NEW v \in 0..7
    PROVE  /\ \E a, b : Piece(Paint(cells, v), a, b) /\ a.op = "Paint" /\ b.op = "Paint"
           /\ ~HandlerPending(Paint(cells, v)) /\ ~MarkPending(Paint(cells, v))
  <1>. DEFINE s == Paint(cells, v)
              n == Len(cells)
  <1>1. n \in Nat /\ n >= 1 /\ \A k \in 1..n : cells[k] \in Cell
    BY EmptySeq, LenProperties, ElementOfSeq
  <1>2. s = [k \in 1..n |-> Step("Paint", cells[k], v, NoSlot)]
    BY DEF Paint
  <1>3. ASSUME NEW k \in 1..n
        PROVE  s[k] \in Steps /\ s[k].op = "Paint" /\ Names(s[k]) /\ s[k].slot = NoSlot
    <2>1. s[k] = Step("Paint", cells[k], v, NoSlot) /\ cells[k] \in Cell
      BY <1>1, <1>2
    <2>2. "Paint" \in Display
      BY DEF Display, Ops
    <2>. HIDE DEF s
    <2>. QED
      BY <2>1, <2>2, DisplayStep
  <1>4. s \in [1..n -> Steps]
    BY <1>2, <1>3
  <1>. HIDE DEF s
  <1>5. s \in Seq(Steps)
    BY <1>1, <1>4, IsASeq
  <1>6. DOMAIN s = 1..n
    BY <1>4
  <1>. HIDE DEF n
  <1>7. Len(s) = n
    BY <1>1, <1>5, <1>6, LenProperties
  <1>8. s # <<>>
    BY <1>1, <1>7, EmptySeq
  <1>9. Chain(s)
    <2>1. ASSUME NEW j \in 1..(Len(s) - 1) PROVE Follows(s[j], s[j + 1])
      <3>1. j \in 1..n /\ j + 1 \in 1..n
        BY <1>1, <1>7
      <3>2. s[j].op = "Paint" /\ s[j + 1].op = "Paint"
        BY <1>3, <3>1
      <3>3. \A a, b : a.op = "Paint" /\ b.op = "Paint" => Follows(a, b)
        BY DEF Follows
      <3>. QED
        BY <3>2, <3>3
    <2>2. \A j \in 1..Len(s) : Names(s[j])
      BY <1>3, <1>7
    <2>. QED
      BY <2>1, <2>2 DEF Chain
  <1>10. Piece(s, s[1], s[n]) /\ s[1].op = "Paint" /\ s[n].op = "Paint"
    <2>1. 1 \in 1..n /\ n \in 1..n
      BY <1>1
    <2>. QED
      BY <1>3, <1>5, <1>7, <1>8, <1>9, <2>1 DEF Piece
  <1>11. ~HandlerPending(s) /\ ~MarkPending(s)
    BY <1>3, <1>7, NoSlotType DEF HandlerPending, MarkPending
  <1>. QED
    BY <1>10, <1>11 DEF s

LEMMA RegisterStep ==
    ASSUME NEW i \in Interval, NEW callback \in {Handler, Other}
    PROVE  LET a == Step("Register", 1, 0, Slot(i, 0, callback)) IN
           /\ SetTimerCallback(i, callback) = <<a>> /\ a \in Steps /\ a.op = "Register"
           /\ a.slot = Slot(i, 0, callback) /\ a.slot.callback = callback
           /\ Piece(<<a>>, a, a)
           /\ HandlerPending(<<a>>) <=> callback = Handler
           /\ ~MarkPending(<<a>>)
  <1>. DEFINE a == Step("Register", 1, 0, Slot(i, 0, callback))
  <1>1. Slot(i, 0, callback) \in Slots /\ Slot(i, 0, callback).callback = callback
    BY LcdAssumption DEF LcdAssumption, Slot, Slots, Callbacks
  <1>2. a \in Steps /\ a.op = "Register" /\ a.slot = Slot(i, 0, callback)
    BY <1>1 DEF Step, Steps, Cell, Ops
  <1>3. Names(a)
    BY <1>1, <1>2, NoSlotType DEF Names
  <1>4. SetTimerCallback(i, callback) = <<a>>
    BY DEF SetTimerCallback
  <1>. HIDE DEF a
  <1>. QED
    BY <1>1, <1>2, <1>3, <1>4, Single DEF a

\* The script of a call: where it starts and how it ends.
Starts(s, op) == s \in Seq(Steps) /\ s # <<>> /\ Linked(s) /\ s[1].op = op

LEMMA PieceStarts ==
    ASSUME NEW s, NEW a, NEW b, Piece(s, a, b), Final(b)
    PROVE  Starts(s, a.op)
  BY DEF Piece, Starts, Linked

LEMMA TimerInitPiece ==
    /\ Piece(TimerInit, Plain("Start", 1), Plain("Wipe", 1))
    /\ ~HandlerPending(TimerInit) /\ ~MarkPending(TimerInit)
  <1>0. {"Start", "Zero", "Wipe"} \subseteq Display
    BY DEF Display, Ops
  <1>. DEFINE s == Do("Start")
              t == Do("Zero")
              u == Do("Wipe")
  <1>1. /\ Piece(s, Plain("Start", 1), Plain("Start", 1)) /\ ~HandlerPending(s) /\ ~MarkPending(s)
        /\ Piece(t, Plain("Zero", 1), Plain("Zero", 1)) /\ ~HandlerPending(t) /\ ~MarkPending(t)
        /\ Piece(u, Plain("Wipe", 1), Plain("Wipe", 1)) /\ ~HandlerPending(u) /\ ~MarkPending(u)
    BY <1>0, DoPiece
  <1>. HIDE DEF s, t, u
  <1>2. /\ Piece(s \o t, Plain("Start", 1), Plain("Zero", 1))
        /\ ~HandlerPending(s \o t) /\ ~MarkPending(s \o t)
    BY <1>1, PlainLinks, Join
  <1>3. /\ Piece((s \o t) \o u, Plain("Start", 1), Plain("Wipe", 1))
        /\ ~HandlerPending((s \o t) \o u) /\ ~MarkPending((s \o t) \o u)
    BY <1>1, <1>2, PlainLinks, Join
  <1>. QED
    BY <1>3 DEF TimerInit, s, t, u

LEMMA InitScript ==
    LET s == Do("Fields") \o Do("Open") \o Do("Mapped")
               \o TimerInit \o SetTimerCallback(LcdInterval, Handler)
    IN  Starts(s, "Fields") /\ HandlerPending(s) /\ ~MarkPending(s)
  <1>0. {"Fields", "Open", "Mapped"} \subseteq Display /\ LcdInterval \in Interval
    BY LcdAssumption DEF Display, Ops, LcdAssumption
  <1>. DEFINE s == Do("Fields")
              t == Do("Open")
              u == Do("Mapped")
              w == TimerInit
              r == SetTimerCallback(LcdInterval, Handler)
              e == Step("Register", 1, 0, Slot(LcdInterval, 0, Handler))
  <1>1. /\ Piece(s, Plain("Fields", 1), Plain("Fields", 1)) /\ ~HandlerPending(s) /\ ~MarkPending(s)
        /\ Piece(t, Plain("Open", 1), Plain("Open", 1)) /\ ~HandlerPending(t) /\ ~MarkPending(t)
        /\ Piece(u, Plain("Mapped", 1), Plain("Mapped", 1)) /\ ~HandlerPending(u) /\ ~MarkPending(u)
    BY <1>0, DoPiece
  <1>2. /\ Piece(r, e, e) /\ HandlerPending(r) /\ ~MarkPending(r) /\ e.op = "Register"
        /\ e.slot = Slot(LcdInterval, 0, Handler)
    BY <1>0, RegisterStep
  <1>3. Follows(Plain("Wipe", 1), e) /\ Final(e)
    BY <1>2, PlainIs DEF Follows, Final
  <1>4. Piece(w, Plain("Start", 1), Plain("Wipe", 1)) /\ ~HandlerPending(w) /\ ~MarkPending(w)
    BY TimerInitPiece
  <1>. HIDE DEF s, t, u, w, r, e
  <1>5. Piece(s \o t, Plain("Fields", 1), Plain("Open", 1)) /\ ~MarkPending(s \o t)
    BY <1>1, PlainLinks, Join
  <1>6. Piece((s \o t) \o u, Plain("Fields", 1), Plain("Mapped", 1)) /\ ~MarkPending((s \o t) \o u)
    BY <1>1, <1>5, PlainLinks, Join
  <1>7. /\ Piece(((s \o t) \o u) \o w, Plain("Fields", 1), Plain("Wipe", 1))
        /\ ~MarkPending(((s \o t) \o u) \o w)
    BY <1>4, <1>6, PlainLinks, Join
  <1>8. /\ Piece((((s \o t) \o u) \o w) \o r, Plain("Fields", 1), e)
        /\ HandlerPending((((s \o t) \o u) \o w) \o r) /\ ~MarkPending((((s \o t) \o u) \o w) \o r)
    BY <1>2, <1>3, <1>7, Join
  <1>9. Starts((((s \o t) \o u) \o w) \o r, "Fields")
    BY <1>3, <1>8, PlainIs, PieceStarts
  <1>. QED
    BY <1>8, <1>9 DEF s, t, u, w, r

LEMMA ExitScript ==
    LET s == LcdCloseDevices \o Do("NoDisplay")
    IN  Starts(s, "Close") /\ ~HandlerPending(s) /\ ~MarkPending(s)
  <1>0. {"Close", "Unmap", "Forget", "NoDisplay"} \subseteq Display
    BY DEF Display, Ops
  <1>. DEFINE s == Do("Close")
              t == Do("Unmap")
              u == Do("Forget")
              w == Do("NoDisplay")
  <1>1. /\ Piece(s, Plain("Close", 1), Plain("Close", 1)) /\ ~HandlerPending(s) /\ ~MarkPending(s)
        /\ Piece(t, Plain("Unmap", 1), Plain("Unmap", 1)) /\ ~HandlerPending(t) /\ ~MarkPending(t)
        /\ Piece(u, Plain("Forget", 1), Plain("Forget", 1)) /\ ~HandlerPending(u) /\ ~MarkPending(u)
        /\ Piece(w, Plain("NoDisplay", 1), Plain("NoDisplay", 1)) /\ ~HandlerPending(w) /\ ~MarkPending(w)
    BY <1>0, DoPiece
  <1>. HIDE DEF s, t, u, w
  <1>2. /\ Piece(s \o t, Plain("Close", 1), Plain("Unmap", 1))
        /\ ~HandlerPending(s \o t) /\ ~MarkPending(s \o t)
    BY <1>1, PlainLinks, Join
  <1>3. /\ Piece((s \o t) \o u, Plain("Close", 1), Plain("Forget", 1))
        /\ ~HandlerPending((s \o t) \o u) /\ ~MarkPending((s \o t) \o u)
    BY <1>1, <1>2, PlainLinks, Join
  <1>4. /\ Piece(((s \o t) \o u) \o w, Plain("Close", 1), Plain("NoDisplay", 1))
        /\ ~HandlerPending(((s \o t) \o u) \o w) /\ ~MarkPending(((s \o t) \o u) \o w)
    BY <1>1, <1>3, PlainLinks, Join
  <1>5. Starts(((s \o t) \o u) \o w, "Close")
    BY <1>4, PlainIs, PieceStarts DEF Final
  <1>. QED
    BY <1>4, <1>5 DEF LcdCloseDevices, s, t, u, w

LEMMA DrawScript ==
    ASSUME NEW cells \in Seq(Cell), cells # <<>>, NEW v \in 0..7
    PROVE  LET s == Paint(cells, v) \o Do("Mark")
           IN  Starts(s, "Paint") /\ ~HandlerPending(s) /\ MarkPending(s)
  <1>. DEFINE s == Paint(cells, v)
              t == Do("Mark")
  <1>1. "Mark" \in Display
    BY DEF Display, Ops
  <1>2. PICK a, b : Piece(s, a, b) /\ a.op = "Paint" /\ b.op = "Paint"
    BY PaintPiece
  <1>3. Piece(t, Plain("Mark", 1), Plain("Mark", 1)) /\ ~HandlerPending(t) /\ MarkPending(t)
    BY <1>1, DoPiece
  <1>4. ~HandlerPending(s)
    BY PaintPiece
  <1>. HIDE DEF s, t
  <1>5. Follows(b, Plain("Mark", 1)) /\ Final(Plain("Mark", 1))
    BY <1>2, PlainIs DEF Follows, Final
  <1>6. Piece(s \o t, a, Plain("Mark", 1)) /\ ~HandlerPending(s \o t) /\ MarkPending(s \o t)
    BY <1>2, <1>3, <1>4, <1>5, Join
  <1>7. Starts(s \o t, "Paint")
    BY <1>2, <1>5, <1>6, PieceStarts
  <1>. QED
    BY <1>6, <1>7 DEF s, t

LEMMA ScrollScript ==
    ASSUME NEW c \in Cell
    PROVE  LET s == <<Step("Shift", c, 0, NoSlot)>> \o Paint(<<3 - c>>, 0)
           IN  Starts(s, "Shift") /\ ~HandlerPending(s) /\ ~MarkPending(s)
  <1>. DEFINE e == Step("Shift", c, 0, NoSlot)
              s == <<e>>
              t == Paint(<<3 - c>>, 0)
  <1>1. Piece(s, e, e) /\ e.op = "Shift" /\ ~HandlerPending(s) /\ ~MarkPending(s)
    <2>1. "Shift" \in Display /\ 0 \in 0..7 /\ e = Step("Shift", c, 0, NoSlot)
      BY DEF Display, Ops
    <2>. HIDE DEF e
    <2>. QED
      BY <2>1, PlainStep
  <1>2. <<3 - c>> \in Seq(Cell) /\ <<3 - c>> # <<>> /\ 0 \in 0..7
    BY DEF Cell
  <1>3. PICK a, b : Piece(t, a, b) /\ a.op = "Paint" /\ b.op = "Paint"
    BY <1>2, PaintPiece
  <1>4. ~HandlerPending(t) /\ ~MarkPending(t)
    BY <1>2, PaintPiece
  <1>. HIDE DEF s, t, e
  <1>5. Follows(e, a) /\ Final(b)
    BY <1>1, <1>3 DEF Follows, Final
  <1>6. Piece(s \o t, e, b) /\ ~HandlerPending(s \o t) /\ ~MarkPending(s \o t)
    BY <1>1, <1>3, <1>4, <1>5, Join
  <1>7. Starts(s \o t, "Shift")
    BY <1>1, <1>5, <1>6, PieceStarts
  <1>. QED
    BY <1>6, <1>7 DEF s, t, e

LEMMA UpdateScripts ==
    /\ Starts(Do("Update"), "Update") /\ ~HandlerPending(Do("Update")) /\ ~MarkPending(Do("Update"))
    /\ LET s == Do("Update") \o Do("Clear")
       IN  Starts(s, "Update") /\ ~HandlerPending(s) /\ ~MarkPending(s)
  <1>0. {"Update", "Clear"} \subseteq Display
    BY DEF Display, Ops
  <1>. DEFINE s == Do("Update")
              t == Do("Clear")
  <1>1. /\ Piece(s, Plain("Update", 1), Plain("Update", 1)) /\ ~HandlerPending(s) /\ ~MarkPending(s)
        /\ Piece(t, Plain("Clear", 1), Plain("Clear", 1)) /\ ~HandlerPending(t) /\ ~MarkPending(t)
    BY <1>0, DoPiece
  <1>. HIDE DEF s, t
  <1>2. /\ Piece(s \o t, Plain("Update", 1), Plain("Clear", 1))
        /\ ~HandlerPending(s \o t) /\ ~MarkPending(s \o t)
    BY <1>1, PlainLinks, Join
  <1>3. Final(Plain("Update", 1)) /\ Final(Plain("Clear", 1))
    BY PlainIs DEF Final
  <1>4. Starts(s, "Update") /\ Starts(s \o t, "Update")
    BY <1>1, <1>2, <1>3, PlainIs, PieceStarts
  <1>. QED
    BY <1>1, <1>2, <1>4 DEF s, t

LEMMA FetchScript ==
    LET s == Each("Fetch") \o Each("Unconvert")
    IN  /\ Starts(s, "Fetch") /\ s[1].cell = 1
        /\ ~HandlerPending(s) /\ ~MarkPending(s)
  <1>. DEFINE s == Each("Fetch")
              t == Each("Unconvert")
  <1>1. /\ Piece(s, Plain("Fetch", 1), Plain("Fetch", 2)) /\ ~HandlerPending(s) /\ ~MarkPending(s)
        /\ Piece(t, Plain("Unconvert", 1), Plain("Unconvert", 2)) /\ ~HandlerPending(t) /\ ~MarkPending(t)
    BY EachPiece
  <1>. HIDE DEF s, t
  <1>2. /\ Piece(s \o t, Plain("Fetch", 1), Plain("Unconvert", 2))
        /\ ~HandlerPending(s \o t) /\ ~MarkPending(s \o t)
    BY <1>1, PlainLinks, Join
  <1>. DEFINE u == s \o t
              a == Plain("Fetch", 1)
              b == Plain("Unconvert", 2)
  <1>3. Starts(u, "Fetch") /\ u[1].cell = 1
    <2>1. a.op = "Fetch" /\ a.cell = 1 /\ b.op = "Unconvert" /\ b.cell = 2
      BY PlainIs
    <2>2. Piece(u, a, b)
      BY <1>2
    <2>. HIDE DEF u, a, b
    <2>3. Final(b)
      BY <2>1 DEF Final
    <2>4. Starts(u, a.op)
      BY <2>2, <2>3, PieceStarts
    <2>5. u[1] = a
      BY <2>2 DEF Piece
    <2>. QED
      BY <2>1, <2>4, <2>5
  <1>. QED
    BY <1>2, <1>3 DEF s, t

LEMMA RefreshScript ==
    LET s == Each("Convert") \o Each("Copy") \o Do("Clear")
    IN  /\ Piece(s, Plain("Convert", 1), Plain("Clear", 1))
        /\ ~HandlerPending(s) /\ ~MarkPending(s)
  <1>. DEFINE s == Each("Convert")
              t == Each("Copy")
              u == Do("Clear")
  <1>0. "Clear" \in Display
    BY DEF Display, Ops
  <1>1. /\ Piece(s, Plain("Convert", 1), Plain("Convert", 2)) /\ ~HandlerPending(s) /\ ~MarkPending(s)
        /\ Piece(t, Plain("Copy", 1), Plain("Copy", 2)) /\ ~HandlerPending(t) /\ ~MarkPending(t)
        /\ Piece(u, Plain("Clear", 1), Plain("Clear", 1)) /\ ~HandlerPending(u) /\ ~MarkPending(u)
    BY <1>0, EachPiece, DoPiece
  <1>. HIDE DEF s, t, u
  <1>2. /\ Piece(s \o t, Plain("Convert", 1), Plain("Copy", 2))
        /\ ~HandlerPending(s \o t) /\ ~MarkPending(s \o t)
    BY <1>1, PlainLinks, Join
  <1>3. /\ Piece((s \o t) \o u, Plain("Convert", 1), Plain("Clear", 1))
        /\ ~HandlerPending((s \o t) \o u) /\ ~MarkPending((s \o t) \o u)
    BY <1>1, <1>2, PlainLinks, Join
  <1>. QED
    BY <1>3 DEF s, t, u

\* What a step follows, read backwards.
LEMMA Before ==
    ASSUME NEW a \in Steps, NEW b \in Steps, Follows(a, b)
    PROVE  /\ b.op \notin {"Fields", "Close", "Shift", "Update"}
           /\ a.op \notin {"Mark", "Register", "NoDisplay"}
           /\ b.op = "Open" <=> a.op = "Fields"
           /\ b.op = "Mapped" <=> a.op = "Open"
           /\ b.op = "Start" <=> a.op = "Mapped"
           /\ b.op = "Zero" <=> a.op = "Start"
           /\ b.op = "Wipe" <=> a.op = "Zero"
           /\ b.op = "Register" <=> a.op = "Wipe"
           /\ b.op = "Unmap" <=> a.op = "Close"
           /\ b.op = "Forget" <=> a.op = "Unmap"
           /\ b.op = "NoDisplay" <=> a.op = "Forget"
           /\ b.op = "Count" <=> a.op = "Store"
           /\ b.op = "Store" <=> a.op = "Count"
           /\ b.op = "Paint" => a.op \in {"Paint", "Shift"}
           /\ b.op = "Mark" => a.op = "Paint"
  BY DEF Follows, Steps, Ops

LEMMA BeforeCells ==
    ASSUME NEW a \in Steps, NEW b \in Steps, Follows(a, b)
    PROVE  /\ b.op = "Clear" => a.op \in {"Update", "Clear"} \/ (a.op = "Copy" /\ a.cell = 2)
           /\ b.op = "Fetch" => a.op = "Fetch" /\ a.cell = 1 /\ b.cell = 2
           /\ b.op = "Unconvert" /\ b.cell = 1 => a.op = "Fetch" /\ a.cell = 2
           /\ b.op = "Unconvert" /\ b.cell = 2 => a.op = "Unconvert" /\ a.cell = 1
           /\ b.op = "Convert" => a.op = "Convert" /\ a.cell = 1 /\ b.cell = 2
           /\ b.op = "Copy" /\ b.cell = 1 => a.op = "Convert" /\ a.cell = 2
           /\ b.op = "Copy" /\ b.cell = 2 => a.op = "Copy" /\ a.cell = 1
  <1>1. a.cell = 1 \/ a.cell = 2
    BY DEF Steps, Cell
  <1>0. a.op \in Ops /\ a.cell \in Cell /\ b.cell \in Cell
    BY DEF Steps
  <1>2. b.op = "Clear" => a.op \in {"Update", "Clear"} \/ (a.op = "Copy" /\ a.cell = 2)
    <2>1. b.op = "Clear" => a.op \in {"Update", "Clear", "Copy"}
      BY <1>0, <1>1 DEF Follows, Ops
    <2>2. b.op = "Clear" /\ a.op = "Copy" => a.cell # 1
      BY DEF Follows
    <2>. QED
      BY <1>1, <2>1, <2>2
  <1>3. b.op = "Fetch" => a.op = "Fetch" /\ a.cell = 1 /\ b.cell = 2
    BY <1>0, <1>1 DEF Follows, Ops
  <1>4. b.op = "Unconvert" /\ b.cell = 1 => a.op = "Fetch" /\ a.cell = 2
    BY <1>0, <1>1 DEF Follows, Ops
  <1>5. b.op = "Unconvert" /\ b.cell = 2 => a.op = "Unconvert" /\ a.cell = 1
    BY <1>0, <1>1 DEF Follows, Ops
  <1>6. b.op = "Convert" => a.op = "Convert" /\ a.cell = 1 /\ b.cell = 2
    BY <1>0, <1>1 DEF Follows, Ops
  <1>7. b.op = "Copy" /\ b.cell = 1 => a.op = "Convert" /\ a.cell = 2
    BY <1>0, <1>1 DEF Follows, Ops
  <1>8. b.op = "Copy" /\ b.cell = 2 => a.op = "Copy" /\ a.cell = 1
    BY <1>0, <1>1 DEF Follows, Ops
  <1>. QED
    BY <1>2, <1>3, <1>4, <1>5, <1>6, <1>7, <1>8

LEMMA BeforeSlots ==
    ASSUME NEW a \in Steps, NEW b \in Steps, Follows(a, b)
    PROVE  /\ b.op = "Register" => b.slot = Slot(LcdInterval, 0, Handler)
           /\ b.op \in {"Store", "Count"} => /\ b.slot.interval = a.slot.interval
                                             /\ b.slot.callback = a.slot.callback
  BY Before DEF Follows

LEMMA Proceeding ==
    ASSUME TypeOK, Linked(script), Proceed
    PROVE  /\ script # <<>> /\ script[1] \in Steps /\ script[1] = Head(script)
           /\ script' = Tail(script) /\ script' \in Seq(Steps) /\ Linked(script')
           /\ script[1].op \in Ops \ Deciding
           /\ Len(script) \in Nat /\ Len(script') \in Nat /\ Len(script) = Len(script') + 1
           /\ script' = <<>> => Final(script[1]) /\ Len(script) = 1
           /\ script' # <<>> => /\ script'[1] \in Steps /\ Follows(script[1], script'[1])
                                /\ script'[1] = script[2]
           /\ crash = "no" /\ crash' = "no"
  <1>1. script \in Seq(Steps) /\ script # <<>> /\ script' = Tail(script) /\ crash = "no" /\ crash' = "no"
    BY DEF TypeOK, Proceed, Idle, Alive
  <1>2. /\ Len(script) \in Nat /\ Len(script) >= 1 /\ Head(script) = script[1] /\ script[1] \in Steps
        /\ script' \in Seq(Steps) /\ Len(script') = Len(script) - 1
        /\ script' = <<>> <=> Len(script) = 1
        /\ \A j \in 1..(Len(script) - 1) : script'[j] = script[j + 1]
    BY <1>1, TailIs
  <1>3. Linked(script') /\ (script' # <<>> => Follows(script[1], script'[1]))
        /\ (script' = <<>> => Final(script[1]))
    BY <1>1, LinkedTail
  <1>4. script[1].op \in Ops \ Deciding
    BY <1>2 DEF Proceed, Steps
  <1>5. script' # <<>> => script'[1] \in Steps /\ script'[1] = script[2]
    <2>1. script' # <<>> => 1 \in 1..(Len(script) - 1) /\ 1 \in 1..Len(script')
      BY <1>2
    <2>2. script' # <<>> => script'[1] = script[1 + 1]
      BY <1>2, <2>1
    <2>3. script' # <<>> => script'[1] \in Steps
      BY <1>2, <2>1, ElementOfSeq
    <2>. QED
      BY <2>2, <2>3
  <1>. QED
    BY <1>1, <1>2, <1>3, <1>4, <1>5

LEMMA ProceedPending ==
    ASSUME TypeOK, Linked(script), Proceed
    PROVE  /\ HandlerPending(script') => HandlerPending(script)
           /\ HandlerPending(script) => \/ HandlerPending(script')
                                        \/ /\ script[1].slot.callback = Handler
                                           /\ script[1].op \in {"Store", "Count"}
           /\ MarkPending(script') => MarkPending(script)
           /\ MarkPending(script) => MarkPending(script') \/ script[1].op = "Mark"
  <1>1. /\ script \in Seq(Steps) /\ script # <<>> /\ script' = Tail(script)
        /\ script[1].op \in Ops \ Deciding
    BY Proceeding DEF TypeOK
  <1>2. Names(script[1])
    BY <1>1, LinkedTail
  <1>3. script[1].slot.callback = Handler => script[1].op \in {"Store", "Count"}
    BY <1>1, <1>2, NoSlotType DEF Names, Deciding
  <1>. QED
    BY <1>1, <1>3, PendingTail

------------------------------------------------------------------------------
(***************************************************************************)
(* What a step changes, field by field.                                    *)
(***************************************************************************)

LEMMA LcdEffect ==
    ASSUME TypeOK, NEW s \in Steps, NEW e, e = OnLcd(s)
    PROVE  /\ e.displayBuf =
                IF s.op = "Paint" THEN [lcd.displayBuf EXCEPT ![s.cell] = s.pic]
                ELSE IF s.op = "Shift" THEN [lcd.displayBuf EXCEPT ![s.cell] = lcd.displayBuf[3 - s.cell]]
                ELSE IF s.op = "Unconvert"
                  THEN [lcd.displayBuf EXCEPT ![s.cell] = UnPixelTab(lcd.hwBuffer[s.cell])]
                ELSE lcd.displayBuf
           /\ e.hwBuffer =
                IF s.op = "Convert" THEN [lcd.hwBuffer EXCEPT ![s.cell] = Lit(lcd.displayBuf[s.cell])]
                ELSE IF s.op = "Fetch" THEN [lcd.hwBuffer EXCEPT ![s.cell] = dev.fb[s.cell]]
                ELSE lcd.hwBuffer
           /\ e.Dirty = IF s.op = "Mark" THEN TRUE
                        ELSE IF s.op \in {"Clear", "Fields"} THEN FALSE ELSE lcd.Dirty
           /\ e.autoRefresh = IF s.op = "Fields" THEN TRUE ELSE lcd.autoRefresh
           /\ e.pFB0 = IF s.op \in {"Fields", "Forget"} THEN NULL
                       ELSE IF s.op = "Mapped" THEN "fb" ELSE lcd.pFB0
           /\ e.DispFile = IF s.op \in {"Fields", "Forget"} THEN "none" ELSE lcd.DispFile
           /\ e.pLcd = IF s.op \in {"Fields", "NoDisplay"} THEN NULL
                       ELSE IF s.op = "Mapped" THEN "displayBuf" ELSE lcd.pLcd
           /\ e = [Dirty |-> e.Dirty, DispFile |-> e.DispFile, pFB0 |-> e.pFB0, pLcd |-> e.pLcd,
                   autoRefresh |-> e.autoRefresh, displayBuf |-> e.displayBuf,
                   hwBuffer |-> e.hwBuffer]
  <1>0. lcd \in LcdType
    BY DEF TypeOK
  <1>. DEFINE Ds == {"Paint", "Shift", "Unconvert", "Convert", "Fetch", "Mark", "Clear",
                     "Fields", "Mapped", "Forget", "NoDisplay"}
  <1>1. CASE s.op = "Paint"
    <2>1. e = [lcd EXCEPT !.displayBuf[s.cell] = s.pic]
      BY <1>1 DEF OnLcd
    <2>. QED
      BY <1>0, <1>1, <2>1 DEF LcdType
  <1>2. CASE s.op = "Shift"
    <2>1. e = [lcd EXCEPT !.displayBuf[s.cell] = lcd.displayBuf[3 - s.cell]]
      BY <1>2 DEF OnLcd
    <2>. QED
      BY <1>0, <1>2, <2>1 DEF LcdType
  <1>3. CASE s.op = "Unconvert"
    <2>1. e = [lcd EXCEPT !.displayBuf[s.cell] = UnPixelTab(lcd.hwBuffer[s.cell])]
      BY <1>3 DEF OnLcd
    <2>. QED
      BY <1>0, <1>3, <2>1 DEF LcdType
  <1>4. CASE s.op = "Convert"
    <2>1. e = [lcd EXCEPT !.hwBuffer[s.cell] = Lit(lcd.displayBuf[s.cell])]
      BY <1>4 DEF OnLcd
    <2>. QED
      BY <1>0, <1>4, <2>1 DEF LcdType
  <1>5. CASE s.op = "Fetch"
    <2>1. e = [lcd EXCEPT !.hwBuffer[s.cell] = dev.fb[s.cell]]
      BY <1>5 DEF OnLcd
    <2>. QED
      BY <1>0, <1>5, <2>1 DEF LcdType
  <1>6. CASE s.op = "Mark"
    <2>1. e = [lcd EXCEPT !.Dirty = TRUE]
      BY <1>6 DEF OnLcd
    <2>. QED
      BY <1>0, <1>6, <2>1 DEF LcdType
  <1>7. CASE s.op = "Clear"
    <2>1. e = [lcd EXCEPT !.Dirty = FALSE]
      BY <1>7 DEF OnLcd
    <2>. QED
      BY <1>0, <1>7, <2>1 DEF LcdType
  <1>8. CASE s.op = "Fields"
    <2>1. e = [lcd EXCEPT !.Dirty = FALSE, !.autoRefresh = TRUE, !.pFB0 = NULL,
                          !.DispFile = "none", !.pLcd = NULL]
      BY <1>8 DEF OnLcd
    <2>. QED
      BY <1>0, <1>8, <2>1 DEF LcdType
  <1>9. CASE s.op = "Mapped"
    <2>1. e = [lcd EXCEPT !.pFB0 = "fb", !.pLcd = "displayBuf"]
      BY <1>9 DEF OnLcd
    <2>. QED
      BY <1>0, <1>9, <2>1 DEF LcdType
  <1>10. CASE s.op = "Forget"
    <2>1. e = [lcd EXCEPT !.pFB0 = NULL, !.DispFile = "none"]
      BY <1>10 DEF OnLcd
    <2>. QED
      BY <1>0, <1>10, <2>1 DEF LcdType
  <1>11. CASE s.op = "NoDisplay"
    <2>1. e = [lcd EXCEPT !.pLcd = NULL]
      BY <1>11 DEF OnLcd
    <2>. QED
      BY <1>0, <1>11, <2>1 DEF LcdType
  <1>12. CASE s.op \notin Ds
    <2>1. e = lcd
      BY <1>12 DEF OnLcd
    <2>. QED
      BY <1>0, <1>12, <2>1 DEF LcdType
  <1>. QED
    BY <1>1, <1>2, <1>3, <1>4, <1>5, <1>6, <1>7, <1>8, <1>9, <1>10, <1>11, <1>12

LEMMA DevEffect ==
    ASSUME TypeOK, NEW s \in Steps, NEW e, e = OnDev(s)
    PROVE  /\ e.fb = IF s.op = "Copy" THEN [dev.fb EXCEPT ![s.cell] = lcd.hwBuffer[s.cell]] ELSE dev.fb
           /\ e.open = IF s.op = "Close" THEN dev.open - 1 ELSE dev.open
           /\ e.mapped = IF s.op = "Unmap" THEN FALSE ELSE dev.mapped
           /\ e = [fb |-> e.fb, open |-> e.open, mapped |-> e.mapped]
  <1>0. dev \in DevType
    BY DEF TypeOK
  <1>1. CASE s.op = "Copy"
    <2>1. e = [dev EXCEPT !.fb[s.cell] = lcd.hwBuffer[s.cell]]
      BY <1>1 DEF OnDev
    <2>. QED
      BY <1>0, <1>1, <2>1 DEF DevType
  <1>2. CASE s.op = "Close"
    <2>1. e = [dev EXCEPT !.open = dev.open - 1]
      BY <1>2 DEF OnDev
    <2>. QED
      BY <1>0, <1>2, <2>1 DEF DevType
  <1>3. CASE s.op = "Unmap"
    <2>1. e = [dev EXCEPT !.mapped = FALSE]
      BY <1>3 DEF OnDev
    <2>. QED
      BY <1>0, <1>3, <2>1 DEF DevType
  <1>4. CASE s.op \notin {"Copy", "Close", "Unmap"}
    <2>1. e = dev
      BY <1>4 DEF OnDev
    <2>. QED
      BY <1>0, <1>4, <2>1 DEF DevType
  <1>. QED
    BY <1>1, <1>2, <1>3, <1>4

LEMMA TimerEffect ==
    ASSUME TypeOK, NEW s \in Steps, NEW e, e = OnTimer(s)
    PROVE  /\ e.count =
                IF s.op = "Zero" THEN [i \in Interval |-> 0]
                ELSE IF s.op = "Count"
                  THEN [timer.count EXCEPT ![s.slot.interval] = timer.count[s.slot.interval] + 1]
                ELSE timer.count
           /\ e.callBack =
                IF s.op = "Wipe" THEN [i \in Interval |-> [k \in 1..MaxCallbacks |-> NULL]]
                ELSE IF s.op = "Store"
                  THEN [timer.callBack EXCEPT ![s.slot.interval][s.slot.index] = s.slot.callback]
                ELSE timer.callBack
           /\ e.counter = timer.counter
           /\ e.ticking = IF s.op = "Start" THEN TRUE ELSE timer.ticking
           /\ e = [callBack |-> e.callBack, count |-> e.count, counter |-> e.counter,
                   ticking |-> e.ticking]
  <1>0. timer \in TimerType
    BY DEF TypeOK
  <1>1. CASE s.op = "Start"
    <2>1. e = [timer EXCEPT !.ticking = TRUE]
      BY <1>1 DEF OnTimer
    <2>. QED
      BY <1>0, <1>1, <2>1 DEF TimerType
  <1>2. CASE s.op = "Zero"
    <2>1. e = [timer EXCEPT !.count = [i \in Interval |-> 0]]
      BY <1>2 DEF OnTimer
    <2>. QED
      BY <1>0, <1>2, <2>1 DEF TimerType
  <1>3. CASE s.op = "Wipe"
    <2>1. e = [timer EXCEPT !.callBack = [i \in Interval |-> [k \in 1..MaxCallbacks |-> NULL]]]
      BY <1>3 DEF OnTimer
    <2>. QED
      BY <1>0, <1>3, <2>1 DEF TimerType
  <1>4. CASE s.op = "Store"
    <2>1. e = [timer EXCEPT !.callBack[s.slot.interval][s.slot.index] = s.slot.callback]
      BY <1>4 DEF OnTimer
    <2>. QED
      BY <1>0, <1>4, <2>1 DEF TimerType
  <1>5. CASE s.op = "Count"
    <2>1. e = [timer EXCEPT !.count[s.slot.interval] = timer.count[s.slot.interval] + 1]
      BY <1>5 DEF OnTimer
    <2>. QED
      BY <1>0, <1>5, <2>1 DEF TimerType
  <1>6. CASE s.op \notin {"Start", "Zero", "Wipe", "Store", "Count"}
    <2>1. e = timer
      BY <1>6 DEF OnTimer
    <2>. QED
      BY <1>0, <1>6, <2>1 DEF TimerType
  <1>. QED
    BY <1>1, <1>2, <1>3, <1>4, <1>5, <1>6

LEMMA HistEffect ==
    ASSUME TypeOK, NEW s \in Steps, NEW e, e = OnHist(s)
    PROVE  /\ e.unmarked = IF s.op \in {"Shift", "Fields"} THEN TRUE
                           ELSE IF s.op = "Mark" THEN FALSE ELSE hist.unmarked
           /\ e.reset = hist.reset /\ e.leaks = hist.leaks
           /\ e = [unmarked |-> e.unmarked, reset |-> e.reset, leaks |-> e.leaks]
  <1>0. hist \in [unmarked : BOOLEAN, reset : BOOLEAN, leaks : Nat]
    BY DEF TypeOK
  <1>1. CASE s.op \in {"Shift", "Fields"}
    <2>1. e = [hist EXCEPT !.unmarked = TRUE]
      BY <1>1 DEF OnHist
    <2>. QED
      BY <1>0, <1>1, <2>1
  <1>2. CASE s.op = "Mark"
    <2>1. e = [hist EXCEPT !.unmarked = FALSE]
      BY <1>2 DEF OnHist
    <2>. QED
      BY <1>0, <1>2, <2>1
  <1>3. CASE s.op \notin {"Shift", "Fields", "Mark"}
    <2>1. e = hist
      BY <1>3 DEF OnHist
    <2>. QED
      BY <1>0, <1>3, <2>1
  <1>. QED
    BY <1>1, <1>2, <1>3

LEMMA Lits ==
    /\ \A v \in 0..7 : Lit(v) \in LitBytes
    /\ \A b \in LitBytes : UnPixelTab(b) \in 0..7 /\ Lit(UnPixelTab(b)) = b
    /\ Cell = {1, 2}
  <1>1. \A v \in 0..7 : Lit(v) \in LitBytes
    BY DEF LitBytes
  <1>2. ASSUME NEW b \in LitBytes PROVE UnPixelTab(b) \in 0..7 /\ Lit(UnPixelTab(b)) = b
    <2>1. \E v \in 0..7 : Lit(v) = b
      BY DEF LitBytes
    <2>2. UnPixelTab(b) = CHOOSE v \in 0..7 : Lit(v) = b
      BY <2>1 DEF UnPixelTab
    <2>. QED
      BY <2>1, <2>2
  <1>. QED
    BY <1>1, <1>2 DEF Cell

LEMMA ProceedType ==
    ASSUME TypeOK, Linked(script), Proceed
    PROVE  TypeOK'
  <1>. DEFINE s == script[1]
  <1>1. /\ s \in Steps /\ s = Head(script) /\ script' \in Seq(Steps)
        /\ crash' = "no"
    BY Proceeding
  <1>2. lcd' = OnLcd(s) /\ dev' = OnDev(s) /\ timer' = OnTimer(s) /\ hist' = OnHist(s)
    BY <1>1 DEF Proceed
  <1>. HIDE DEF s
  <1>3. s.cell \in Cell /\ s.pic \in 0..7 /\ s.slot \in Slots
    BY <1>1 DEF Steps
  <1>4. lcd' \in LcdType
    <2>. DEFINE e == lcd'
    <2>0. e = OnLcd(s)
      BY <1>2
    <2>. HIDE DEF e
    <2>1. lcd \in LcdType /\ dev.fb \in [Cell -> LitBytes]
      BY DEF TypeOK, DevType
    <2>2. lcd.displayBuf \in [Cell -> 0..7] /\ lcd.hwBuffer \in [Cell -> LitBytes]
      BY <2>1 DEF LcdType
    <2>3. e.displayBuf \in [Cell -> 0..7]
      <3>1. 3 - s.cell \in Cell
        BY <1>3 DEF Cell
      <3>2. UnPixelTab(lcd.hwBuffer[s.cell]) \in 0..7 /\ lcd.displayBuf[3 - s.cell] \in 0..7
        BY <1>3, <2>2, <3>1, Lits
      <3>3. \/ e.displayBuf = [lcd.displayBuf EXCEPT ![s.cell] = s.pic]
            \/ e.displayBuf = [lcd.displayBuf EXCEPT ![s.cell] = lcd.displayBuf[3 - s.cell]]
            \/ e.displayBuf = [lcd.displayBuf EXCEPT ![s.cell] = UnPixelTab(lcd.hwBuffer[s.cell])]
            \/ e.displayBuf = lcd.displayBuf
        BY <1>1, <2>0, LcdEffect, ZenonT(30)
      <3>. QED
        BY <1>3, <2>2, <3>2, <3>3
    <2>4. e.hwBuffer \in [Cell -> LitBytes]
      <3>1. \/ e.hwBuffer = [lcd.hwBuffer EXCEPT ![s.cell] = Lit(lcd.displayBuf[s.cell])]
            \/ e.hwBuffer = [lcd.hwBuffer EXCEPT ![s.cell] = dev.fb[s.cell]]
            \/ e.hwBuffer = lcd.hwBuffer
        BY <1>1, <2>0, LcdEffect, ZenonT(30)
      <3>2. Lit(lcd.displayBuf[s.cell]) \in LitBytes /\ dev.fb[s.cell] \in LitBytes
        BY <1>3, <2>1, <2>2, Lits
      <3>. QED
        BY <1>3, <2>2, <3>1, <3>2
    <2>5. e.Dirty \in BOOLEAN /\ e.autoRefresh \in BOOLEAN
      <3>1. lcd.Dirty \in BOOLEAN /\ lcd.autoRefresh \in BOOLEAN
        BY <2>1 DEF LcdType
      <3>2. /\ e.Dirty \in {TRUE, FALSE, lcd.Dirty}
            /\ e.autoRefresh \in {TRUE, lcd.autoRefresh}
        BY <1>1, <2>0, LcdEffect
      <3>. QED
        BY <3>1, <3>2
    <2>6. /\ e.DispFile \in {"static", "none", "open"} /\ e.pFB0 \in {NULL, "fb"}
          /\ e.pLcd \in {NULL, "displayBuf"}
      <3>1. /\ lcd.DispFile \in {"static", "none", "open"} /\ lcd.pFB0 \in {NULL, "fb"}
            /\ lcd.pLcd \in {NULL, "displayBuf"}
        BY <2>1 DEF LcdType
      <3>2. /\ e.DispFile \in {"none", lcd.DispFile} /\ e.pFB0 \in {NULL, "fb", lcd.pFB0}
            /\ e.pLcd \in {NULL, "displayBuf", lcd.pLcd}
        BY <1>1, <2>0, LcdEffect
      <3>. QED
        BY <3>1, <3>2
    <2>7. e = [Dirty |-> e.Dirty, DispFile |-> e.DispFile, pFB0 |-> e.pFB0, pLcd |-> e.pLcd,
               autoRefresh |-> e.autoRefresh, displayBuf |-> e.displayBuf,
               hwBuffer |-> e.hwBuffer]
      BY <1>1, <2>0, LcdEffect
    <2>8. e \in LcdType
      BY <2>3, <2>4, <2>5, <2>6, <2>7 DEF LcdType
    <2>. QED
      BY <2>8 DEF e
  <1>5. dev' \in DevType
    <2>. DEFINE e == dev'
    <2>0. e = OnDev(s)
      BY <1>2
    <2>. HIDE DEF e
    <2>1. dev.fb \in [Cell -> LitBytes] /\ dev.open \in Int /\ dev.mapped \in BOOLEAN
          /\ lcd.hwBuffer \in [Cell -> LitBytes]
      BY DEF TypeOK, DevType, LcdType
    <2>2. /\ e.fb \in {[dev.fb EXCEPT ![s.cell] = lcd.hwBuffer[s.cell]], dev.fb}
          /\ e.open \in {dev.open - 1, dev.open} /\ e.mapped \in {FALSE, dev.mapped}
          /\ e = [fb |-> e.fb, open |-> e.open, mapped |-> e.mapped]
      BY <1>1, <2>0, DevEffect
    <2>3. e.fb \in [Cell -> LitBytes]
      BY <1>3, <2>1, <2>2
    <2>4. e.open \in Int
      BY <2>1, <2>2
    <2>5. e.mapped \in BOOLEAN
      BY <2>1, <2>2
    <2>6. e = [fb |-> e.fb, open |-> e.open, mapped |-> e.mapped]
      BY <2>2
    <2>7. e \in DevType
      BY <2>3, <2>4, <2>5, <2>6 DEF DevType
    <2>. QED
      BY <2>7 DEF e
  <1>6. timer' \in TimerType
    <2>. DEFINE e == timer'
    <2>0. e = OnTimer(s)
      BY <1>2
    <2>. HIDE DEF e
    <2>1. /\ timer.count \in [Interval -> Nat] /\ timer.counter \in Nat /\ timer.ticking \in BOOLEAN
          /\ timer.callBack \in [Interval -> [1..MaxCallbacks -> Callbacks]]
      BY DEF TypeOK, TimerType
    <2>2. s.slot.interval \in Interval /\ s.slot.callback \in Callbacks /\ NULL \in Callbacks
      BY <1>3 DEF Slots, Callbacks
    <2>3. e.count \in [Interval -> Nat]
      <3>1. \/ e.count = [i \in Interval |-> 0]
            \/ e.count = [timer.count EXCEPT ![s.slot.interval] = timer.count[s.slot.interval] + 1]
            \/ e.count = timer.count
        BY <1>1, <2>0, TimerEffect
      <3>2. [i \in Interval |-> 0] \in [Interval -> Nat]
        OBVIOUS
      <3>3. ASSUME NEW i \in Interval
            PROVE  [timer.count EXCEPT ![i] = timer.count[i] + 1] \in [Interval -> Nat]
        BY <2>1
      <3>. QED
        BY <2>1, <2>2, <3>1, <3>2, <3>3
    <2>4. e.callBack \in [Interval -> [1..MaxCallbacks -> Callbacks]]
      <3>1. \/ e.callBack = [i \in Interval |-> [k \in 1..MaxCallbacks |-> NULL]]
            \/ e.callBack = [timer.callBack EXCEPT ![s.slot.interval][s.slot.index] = s.slot.callback]
            \/ e.callBack = timer.callBack
        BY <1>1, <2>0, TimerEffect
      <3>2. [i \in Interval |-> [k \in 1..MaxCallbacks |-> NULL]]
              \in [Interval -> [1..MaxCallbacks -> Callbacks]]
        BY <2>2
      <3>. DEFINE i == s.slot.interval
                  k == s.slot.index
                  c == s.slot.callback
                  B == [Interval -> [1..MaxCallbacks -> Callbacks]]
                  f == [timer.callBack EXCEPT ![i][k] = c]
      <3>3. i \in Interval /\ c \in Callbacks
        BY <2>2
      <3>. HIDE DEF i, k, c
      <3>4. f \in B
        BY <2>1, <3>3
      <3>5. e.callBack = f \/ e.callBack = timer.callBack
            \/ e.callBack = [j \in Interval |-> [l \in 1..MaxCallbacks |-> NULL]]
        BY <3>1 DEF i, k, c
      <3>. HIDE DEF f
      <3>. QED
        BY <2>1, <3>2, <3>4, <3>5
    <2>5. /\ e.counter = timer.counter /\ e.ticking \in {TRUE, timer.ticking}
          /\ e = [callBack |-> e.callBack, count |-> e.count, counter |-> e.counter,
                  ticking |-> e.ticking]
      BY <1>1, <2>0, TimerEffect
    <2>6. e \in TimerType
      BY <2>1, <2>3, <2>4, <2>5 DEF TimerType
    <2>. QED
      BY <2>6 DEF e
  <1>7. hist' \in [unmarked : BOOLEAN, reset : BOOLEAN, leaks : Nat]
    <2>. DEFINE e == hist'
    <2>0. e = OnHist(s)
      BY <1>2
    <2>. HIDE DEF e
    <2>1. hist.unmarked \in BOOLEAN /\ hist.reset \in BOOLEAN /\ hist.leaks \in Nat
      BY DEF TypeOK
    <2>2. /\ e.unmarked \in {TRUE, FALSE, hist.unmarked} /\ e.reset = hist.reset /\ e.leaks = hist.leaks
          /\ e = [unmarked |-> e.unmarked, reset |-> e.reset, leaks |-> e.leaks]
      BY <1>1, <2>0, HistEffect
    <2>3. e \in [unmarked : BOOLEAN, reset : BOOLEAN, leaks : Nat]
      BY <2>1, <2>2
    <2>. QED
      BY <2>3 DEF e
  <1>. QED
    BY <1>1, <1>4, <1>5, <1>6, <1>7 DEF TypeOK

------------------------------------------------------------------------------
(***************************************************************************)
(* A step of a call preserves the invariant.                               *)
(***************************************************************************)

LEMMA ProceedEffect ==
    ASSUME TypeOK, Linked(script), Proceed
    PROVE  /\ lcd' = OnLcd(script[1]) /\ dev' = OnDev(script[1])
           /\ timer' = OnTimer(script[1]) /\ hist' = OnHist(script[1])
           /\ script[1] \in Steps
  BY Proceeding DEF Proceed

LEMMA ProceedPendingInv ==
    ASSUME TypeOK, Linked(script), PendingInv, Proceed
    PROVE  PendingInv'
  <1>. DEFINE a == script[1]
              b == script'[1]
              H == HandlerPending(script)
              H1 == HandlerPending(script')
              M == MarkPending(script)
              M1 == MarkPending(script')
  <1>1. /\ script # <<>> /\ a \in Steps /\ a.op \notin Deciding
        /\ script' # <<>> => b \in Steps /\ Follows(a, b)
    BY Proceeding
  <1>2. /\ hist'.unmarked = IF a.op \in {"Shift", "Fields"} THEN TRUE
                            ELSE IF a.op = "Mark" THEN FALSE ELSE hist.unmarked
        /\ hist'.reset = hist.reset
    BY ProceedEffect, HistEffect
  <1>3. /\ H => H1 \/ a.op \in {"Store", "Count"}
        /\ M => M1 \/ a.op = "Mark"
    BY ProceedPending
  <1>4. /\ a.op \in {"Fields", "Open", "Mapped"} => H
        /\ a.op \in {"Start", "Zero", "Wipe"} => H \/ hist.reset
        /\ a.op = "Paint" => M \/ hist.unmarked
    BY <1>1 DEF PendingInv, HeadIs
  <1>5. script' # <<>> =>
        /\ b.op # "Fields"
        /\ b.op = "Open" => a.op = "Fields"
        /\ b.op = "Mapped" => a.op = "Open"
        /\ b.op = "Start" => a.op = "Mapped"
        /\ b.op = "Zero" => a.op = "Start"
        /\ b.op = "Wipe" => a.op = "Zero"
        /\ b.op = "Paint" => a.op \in {"Paint", "Shift"}
    BY <1>1, Before
  <1>. HIDE DEF a, b, H, H1, M, M1
  <1>6. /\ script' # <<>> /\ b.op \in {"Fields", "Open", "Mapped"} => H1
        /\ script' # <<>> /\ b.op \in {"Start", "Zero", "Wipe"} => H1 \/ hist'.reset
        /\ script' # <<>> /\ b.op = "Paint" => M1 \/ hist'.unmarked
    BY <1>1, <1>2, <1>3, <1>4, <1>5 DEF Deciding
  <1>. QED
    BY <1>6 DEF PendingInv, HeadIs, b, H1, M1

LEMMA ProceedDevice ==
    ASSUME TypeOK, Linked(script), DeviceInv, Proceed
    PROVE  DeviceInv'
  <1>. DEFINE a == script[1]
              b == script'[1]
  <1>1. /\ script # <<>> /\ a \in Steps /\ a.op \in Ops \ Deciding
        /\ script' # <<>> => b \in Steps /\ Follows(a, b)
        /\ script' = <<>> => Final(a)
    BY Proceeding
  <1>2. /\ lcd'.pFB0 = IF a.op \in {"Fields", "Forget"} THEN NULL
                       ELSE IF a.op = "Mapped" THEN "fb" ELSE lcd.pFB0
        /\ lcd'.DispFile = IF a.op \in {"Fields", "Forget"} THEN "none" ELSE lcd.DispFile
    BY ProceedEffect, LcdEffect
  <1>3. /\ dev'.open = IF a.op = "Close" THEN dev.open - 1 ELSE dev.open
        /\ dev'.mapped = IF a.op = "Unmap" THEN FALSE ELSE dev.mapped
    BY ProceedEffect, DevEffect
  <1>4. hist'.leaks = hist.leaks
    BY ProceedEffect, HistEffect
  <1>5. script' # <<>> =>
        /\ b.op \notin {"Fields", "Close", "Mapped"}
        /\ b.op = "Open" <=> a.op = "Fields"
        /\ b.op = "Unmap" <=> a.op = "Close"
        /\ b.op = "Forget" <=> a.op = "Unmap"
    BY <1>1, Before DEF Deciding
  <1>6. script' = <<>> => a.op \notin {"Fields", "Mapped", "Close", "Unmap", "Forget"}
    BY <1>1 DEF Final
  <1>7. /\ dev.open \in Int /\ hist.leaks \in Nat /\ lcd.DispFile \in {"static", "none", "open"}
        /\ lcd.pFB0 \in {NULL, "fb"} /\ dev.mapped \in BOOLEAN
    BY DEF TypeOK, DevType, LcdType
  <1>8. a.op \notin {"Open"} /\ NULL # "fb"
    BY <1>1 DEF Deciding, NULL
  <1>. DEFINE Init0 == lcd.DispFile # "none" /\ lcd.pFB0 # NULL
              Init1 == lcd'.DispFile # "none" /\ lcd'.pFB0 # NULL
  <1>9. /\ dev.open = hist.leaks +
             (IF a.op = "Mapped" \/ (Init0 /\ a.op # "Unmap" /\ a.op # "Forget") THEN 1 ELSE 0)
        /\ dev.mapped = (a.op = "Mapped" \/ (Init0 /\ a.op # "Forget"))
        /\ a.op = "Fields" => ~Init0
        /\ a.op = "Mapped" => lcd.pFB0 = NULL /\ lcd.DispFile = "open"
        /\ a.op \in {"Close", "Unmap", "Forget"} => Init0
        /\ lcd.DispFile \in {"none", "static"} => lcd.pFB0 = NULL
    BY <1>1 DEF DeviceInv, HeadIs, LcdInitialized
  <1>. DEFINE At1(op) == script' # <<>> /\ b.op = op
  <1>. HIDE DEF a, b
  <1>10. dev'.open = hist'.leaks +
             (IF At1("Mapped") \/ (Init1 /\ ~At1("Unmap") /\ ~At1("Forget")) THEN 1 ELSE 0)
    BY <1>2, <1>3, <1>4, <1>5, <1>6, <1>7, <1>8, <1>9
  <1>11. dev'.mapped = (At1("Mapped") \/ (Init1 /\ ~At1("Forget")))
    BY <1>2, <1>3, <1>5, <1>6, <1>7, <1>8, <1>9
  <1>12. /\ At1("Fields") => ~Init1
         /\ At1("Open") => lcd'.pFB0 = NULL
         /\ At1("Mapped") => lcd'.pFB0 = NULL /\ lcd'.DispFile = "open"
         /\ At1("Close") \/ At1("Unmap") \/ At1("Forget") => Init1
         /\ lcd'.DispFile = "none" \/ lcd'.DispFile = "static" => lcd'.pFB0 = NULL
    BY <1>2, <1>5, <1>6, <1>7, <1>8, <1>9
  <1>. QED
    BY <1>10, <1>11, <1>12 DEF DeviceInv, HeadIs, LcdInitialized, b

LEMMA ProceedScreen ==
    ASSUME TypeOK, Linked(script), PendingInv, ScreenInv, Proceed
    PROVE  ScreenInv'
  <1>. DEFINE a == script[1]
              b == script'[1]
              d == lcd.displayBuf
              h == lcd.hwBuffer
              f == dev.fb
              d1 == lcd'.displayBuf
              h1 == lcd'.hwBuffer
              f1 == dev'.fb
              M == MarkPending(script)
              M1 == MarkPending(script')
              D == lcd.Dirty
              D1 == lcd'.Dirty
              U == hist.unmarked
              U1 == hist'.unmarked
              B1(op) == script' # <<>> /\ b.op = op
              c == a.cell
  <1>1. /\ script # <<>> /\ a \in Steps /\ a.op \in Ops \ Deciding /\ c \in {1, 2}
        /\ script' # <<>> => b \in Steps /\ Follows(a, b) /\ b.cell \in {1, 2}
    BY Proceeding DEF Steps, Cell
  <1>2. /\ d1 = IF a.op = "Paint" THEN [d EXCEPT ![c] = a.pic]
                ELSE IF a.op = "Shift" THEN [d EXCEPT ![c] = d[3 - c]]
                ELSE IF a.op = "Unconvert" THEN [d EXCEPT ![c] = UnPixelTab(h[c])]
                ELSE d
        /\ h1 = IF a.op = "Convert" THEN [h EXCEPT ![c] = Lit(d[c])]
                ELSE IF a.op = "Fetch" THEN [h EXCEPT ![c] = f[c]]
                ELSE h
        /\ D1 = IF a.op = "Mark" THEN TRUE
                ELSE IF a.op \in {"Clear", "Fields"} THEN FALSE ELSE D
    BY ProceedEffect, LcdEffect
  <1>3. f1 = IF a.op = "Copy" THEN [f EXCEPT ![c] = h[c]] ELSE f
    BY ProceedEffect, DevEffect
  <1>4. U1 = IF a.op \in {"Shift", "Fields"} THEN TRUE
             ELSE IF a.op = "Mark" THEN FALSE ELSE U
    BY ProceedEffect, HistEffect
  <1>5. /\ M1 => M
        /\ M => M1 \/ a.op = "Mark"
        /\ a.op = "Paint" => M \/ U
    BY <1>1, ProceedPending DEF PendingInv, HeadIs
  <1>6. /\ d \in [Cell -> 0..7] /\ h \in [Cell -> LitBytes] /\ f \in [Cell -> LitBytes]
        /\ D \in BOOLEAN /\ U \in BOOLEAN /\ Cell = {1, 2}
    BY Lits DEF TypeOK, LcdType, DevType
  <1>7. /\ ~D /\ ~U /\ ~M => f[1] = Lit(d[1]) /\ f[2] = Lit(d[2])
        /\ a.op = "Convert" /\ c = 2 => h[1] = Lit(d[1])
        /\ a.op = "Copy" => h[1] = Lit(d[1]) /\ h[2] = Lit(d[2])
        /\ a.op = "Copy" /\ c = 2 => f[1] = Lit(d[1])
        /\ a.op = "Clear" => (f[1] = Lit(d[1]) /\ f[2] = Lit(d[2])) \/ ~D
        /\ a.op = "Fetch" /\ c = 2 => h[1] = f[1]
        /\ a.op = "Unconvert" /\ c = 1 => h[1] = f[1]
        /\ a.op = "Unconvert" => h[2] = f[2]
    BY <1>1 DEF ScreenInv, HeadIs, At, Shown, Seen, Converted, Fetched
  <1>8. script' # <<>> =>
        /\ b.op = "Clear" => a.op \in {"Update", "Clear"} \/ (a.op = "Copy" /\ c = 2)
        /\ b.op = "Fetch" => a.op = "Fetch" /\ c = 1 /\ b.cell = 2
        /\ b.op = "Unconvert" /\ b.cell = 1 => a.op = "Fetch" /\ c = 2
        /\ b.op = "Unconvert" /\ b.cell = 2 => a.op = "Unconvert" /\ c = 1
        /\ b.op = "Convert" => a.op = "Convert" /\ c = 1 /\ b.cell = 2
        /\ b.op = "Copy" /\ b.cell = 1 => a.op = "Convert" /\ c = 2
        /\ b.op = "Copy" /\ b.cell = 2 => a.op = "Copy" /\ c = 1
        /\ b.op = "Open" => a.op = "Fields"
    BY <1>1, Before, BeforeCells
  <1>9. a.op = "Unconvert" /\ h[c] \in LitBytes => Lit(UnPixelTab(h[c])) = h[c]
    BY Lits
  <1>10. a.op # "Update"
    BY <1>1 DEF Deciding
  <1>11. h[c] \in LitBytes
    BY <1>1, <1>6
  <1>. HIDE DEF a, b, c, d, h, f, d1, h1, f1, M, M1, D, D1, U, U1
  <1>12. ASSUME ~D1, ~U1, ~M1 PROVE f1[1] = Lit(d1[1]) /\ f1[2] = Lit(d1[2])
    <2>1. CASE a.op \in {"Paint", "Shift", "Fields", "Mark"}
      BY <1>2, <1>4, <1>5, <1>12, <2>1
    <2>2. CASE a.op = "Unconvert"
      <3>1. ~D /\ ~U /\ ~M /\ f1 = f /\ d1 = [d EXCEPT ![c] = UnPixelTab(h[c])]
        BY <1>2, <1>3, <1>4, <1>5, <1>12, <2>2
      <3>2. h[c] = f[c] /\ f[1] = Lit(d[1]) /\ f[2] = Lit(d[2])
        BY <1>1, <1>7, <2>2, <3>1
      <3>3. d1[c] = UnPixelTab(h[c]) /\ \A k \in Cell : k # c => d1[k] = d[k]
        BY <1>1, <1>6, <3>1
      <3>. QED
        BY <1>1, <1>6, <1>9, <1>11, <2>2, <3>1, <3>2, <3>3
    <2>3. CASE a.op = "Clear"
      BY <1>2, <1>3, <1>4, <1>5, <1>7, <1>12, <2>3
    <2>4. CASE a.op = "Copy"
      <3>1. d1 = d /\ f1 = [f EXCEPT ![c] = h[c]] /\ ~D /\ ~U /\ ~M
        BY <1>2, <1>3, <1>4, <1>5, <1>12, <2>4
      <3>. QED
        BY <1>1, <1>6, <1>7, <2>4, <3>1
    <2>5. CASE a.op \notin {"Paint", "Shift", "Fields", "Mark", "Unconvert", "Clear", "Copy"}
      BY <1>2, <1>3, <1>4, <1>5, <1>7, <1>12, <2>5
    <2>. QED
      BY <2>1, <2>2, <2>3, <2>4, <2>5
  <1>13. B1("Convert") /\ b.cell = 2 => h1[1] = Lit(d1[1])
    BY <1>1, <1>2, <1>6, <1>8
  <1>14. B1("Copy") => h1[1] = Lit(d1[1]) /\ h1[2] = Lit(d1[2])
    <2>1. CASE B1("Copy") /\ b.cell = 1
      <3>1. a.op = "Convert" /\ c = 2
        BY <1>8, <2>1
      <3>. QED
        BY <1>2, <1>6, <1>7, <3>1
    <2>2. CASE B1("Copy") /\ b.cell = 2
      <3>1. a.op = "Copy"
        BY <1>8, <2>2
      <3>. QED
        BY <1>2, <1>7, <3>1
    <2>. QED
      BY <1>1, <2>1, <2>2
  <1>15. B1("Copy") /\ b.cell = 2 => f1[1] = Lit(d1[1])
    BY <1>2, <1>3, <1>6, <1>7, <1>8
  <1>16. B1("Clear") => (f1[1] = Lit(d1[1]) /\ f1[2] = Lit(d1[2])) \/ ~D1
    <2>. SUFFICES ASSUME B1("Clear") PROVE (f1[1] = Lit(d1[1]) /\ f1[2] = Lit(d1[2])) \/ ~D1
      OBVIOUS
    <2>1. CASE a.op = "Clear"
      BY <1>2, <2>1
    <2>2. CASE a.op = "Copy" /\ c = 2
      BY <1>2, <1>3, <1>6, <1>7, <2>2
    <2>. QED
      BY <1>8, <1>10, <2>1, <2>2
  <1>17. B1("Fetch") /\ b.cell = 2 => h1[1] = f1[1]
    BY <1>2, <1>3, <1>6, <1>8
  <1>18. B1("Unconvert") /\ b.cell = 1 => h1[1] = f1[1]
    BY <1>2, <1>3, <1>6, <1>7, <1>8
  <1>19. B1("Unconvert") => h1[2] = f1[2]
    <2>1. CASE B1("Unconvert") /\ b.cell = 1
      BY <1>2, <1>3, <1>6, <1>8, <2>1
    <2>2. CASE B1("Unconvert") /\ b.cell = 2
      BY <1>2, <1>3, <1>6, <1>7, <1>8, <2>2
    <2>. QED
      BY <1>1, <2>1, <2>2
  <1>20. B1("Open") => U1
    BY <1>4, <1>8
  <1>. QED
    BY <1>12, <1>13, <1>14, <1>15, <1>16, <1>17, <1>18, <1>19, <1>20
      DEF ScreenInv, HeadIs, At, Shown, Seen, Converted, Fetched, b, d1, h1, f1, M1, D1, U1

\* TablesInv for tables cb with counts cnt, before a step op on a slot, the
\* first of n.
Tables(cnt, cb, op, i0, k0, f0, n) ==
    /\ \A i \in Interval : cnt[i] <= MaxCallbacks
    /\ \A i \in Interval, k \in 1..MaxCallbacks :
         /\ k <= cnt[i] => cb[i][k] # NULL \/ (op = "Store" /\ i0 = i /\ k0 = k)
         /\ k > cnt[i] => \/ cb[i][k] = NULL \/ op = "Wipe"
                          \/ (op = "Count" /\ n = 1 /\ i0 = i /\ k = cnt[i] + 1)
    /\ op = "Wipe" => \A i \in Interval : cnt[i] = 0
    /\ op = "Register" /\ f0 = Handler => \A i \in Interval : cnt[i] = 0
    /\ op = "Store" => /\ n \in {1, 2} /\ k0 \in 1..MaxCallbacks
                       /\ k0 = cnt[i0] + (IF n = 2 THEN 1 ELSE 0)
                       /\ cb[i0][k0] = NULL
    /\ op = "Count" => /\ n \in {1, 2} /\ cnt[i0] < MaxCallbacks
                       /\ n = 1 => cb[i0][cnt[i0] + 1] = f0

HeadOp == IF script = <<>> THEN "none" ELSE script[1].op

LEMMA TablesIs ==
    /\ TablesInv <=>
         /\ Tables(timer.count, timer.callBack, HeadOp, script[1].slot.interval,
                   script[1].slot.index, script[1].slot.callback, Len(script))
         /\ HeadIs("Count") /\ Len(script) = 2 =>
              script[2].slot.index = timer.count[script[1].slot.interval] + 1
    /\ HeadOp # "none" => script # <<>> /\ HeadOp = script[1].op
  <1>1. /\ HeadIs("Store") <=> HeadOp = "Store"
        /\ HeadIs("Wipe") <=> HeadOp = "Wipe"
        /\ HeadIs("Count") <=> HeadOp = "Count"
        /\ HeadIs("Register") <=> HeadOp = "Register"
        /\ HeadOp # "none" => script # <<>> /\ HeadOp = script[1].op
    BY DEF HeadIs, HeadOp
  <1>. HIDE DEF HeadIs, HeadOp
  <1>2. ASSUME TablesInv
        PROVE  /\ Tables(timer.count, timer.callBack, HeadOp, script[1].slot.interval,
                         script[1].slot.index, script[1].slot.callback, Len(script))
               /\ HeadIs("Count") /\ Len(script) = 2 =>
                    script[2].slot.index = timer.count[script[1].slot.interval] + 1
    BY <1>1, <1>2 DEF TablesInv, Tables, NoCounts
  <1>3. ASSUME Tables(timer.count, timer.callBack, HeadOp, script[1].slot.interval,
                      script[1].slot.index, script[1].slot.callback, Len(script)),
               HeadIs("Count") /\ Len(script) = 2 =>
                    script[2].slot.index = timer.count[script[1].slot.interval] + 1
        PROVE  TablesInv
    BY <1>1, <1>3 DEF TablesInv, Tables, NoCounts
  <1>. QED
    BY <1>1, <1>2, <1>3

LEMMA TablesIsNext ==
    ASSUME Tables(timer'.count, timer'.callBack, HeadOp', script'[1].slot.interval,
                  script'[1].slot.index, script'[1].slot.callback, Len(script')),
           script' # <<>> /\ script'[1].op = "Count" /\ Len(script') = 2 =>
             script'[2].slot.index = timer'.count[script'[1].slot.interval] + 1
    PROVE  TablesInv'
  <1>1. /\ HeadIs("Store")' <=> HeadOp' = "Store"
        /\ HeadIs("Wipe")' <=> HeadOp' = "Wipe"
        /\ HeadIs("Count")' <=> HeadOp' = "Count"
        /\ HeadIs("Register")' <=> HeadOp' = "Register"
        /\ HeadIs("Count")' <=> script' # <<>> /\ script'[1].op = "Count"
    BY DEF HeadIs, HeadOp
  <1>. HIDE DEF HeadIs, HeadOp
  <1>. QED
    BY <1>1 DEF TablesInv, Tables, NoCounts

CountsType == [Interval -> Nat]
TableType == [Interval -> [1..MaxCallbacks -> Callbacks]]
TableOps == {"Wipe", "Register", "Store", "Count"}

LEMMA TablesPlain ==
    ASSUME NEW cnt, NEW cb, NEW op, NEW i, NEW k, NEW f, NEW n, Tables(cnt, cb, op, i, k, f, n),
           op \notin TableOps, NEW op1, op1 \notin TableOps, NEW i1, NEW k1, NEW f1, NEW n1
    PROVE  Tables(cnt, cb, op1, i1, k1, f1, n1)
  BY DEF Tables, TableOps

LEMMA TablesZero ==
    ASSUME NEW cnt, NEW cb, cnt = [j \in Interval |-> 0], NEW i, NEW k, NEW f, NEW n
    PROVE  Tables(cnt, cb, "Wipe", i, k, f, n)
  BY LcdAssumption DEF Tables, LcdAssumption

LEMMA TablesWipe ==
    ASSUME NEW cnt \in CountsType, NEW cb, NEW i, NEW k, NEW f, NEW n, Tables(cnt, cb, "Wipe", i, k, f, n),
           NEW cb1, cb1 = [j \in Interval |-> [l \in 1..MaxCallbacks |-> NULL]],
           NEW op1 \in {"none", "Register"}, NEW i1, NEW k1, NEW f1, NEW n1
    PROVE  Tables(cnt, cb1, op1, i1, k1, f1, n1)
  BY DEF Tables, CountsType

StoreIn(cb, i, k, f) == [cb EXCEPT ![i][k] = f]
CountIn(cnt, i) == [cnt EXCEPT ![i] = cnt[i] + 1]

LEMMA TablesStore ==
    ASSUME NEW cnt \in CountsType, NEW cb \in TableType, NEW i \in Interval, NEW k, NEW f, NEW n,
           Tables(cnt, cb, "Store", i, k, f, n), f # NULL,
           NEW cb1, cb1 = StoreIn(cb, i, k, f)
    PROVE  /\ n = 2 => \A k1 : Tables(cnt, cb1, "Count", i, k1, f, 1)
           /\ n # 2 => \A i1, k1, f1, n1 : Tables(cnt, cb1, "none", i1, k1, f1, n1)
  <1>1. /\ n \in {1, 2} /\ k \in 1..MaxCallbacks /\ k = cnt[i] + (IF n = 2 THEN 1 ELSE 0)
        /\ MaxCallbacks \in Nat /\ cnt[i] \in Nat
    BY LcdAssumption DEF Tables, LcdAssumption, CountsType
  <1>2. cb1[i][k] = f /\ \A j \in Interval, l \in 1..MaxCallbacks : j # i \/ l # k => cb1[j][l] = cb[j][l]
    BY <1>1 DEF TableType, StoreIn
  <1>3. /\ \A j \in Interval : cnt[j] <= MaxCallbacks
        /\ \A j \in Interval, l \in 1..MaxCallbacks :
             /\ l <= cnt[j] => cb[j][l] # NULL \/ (i = j /\ k = l)
             /\ l > cnt[j] => cb[j][l] = NULL
    BY DEF Tables
  <1>4. ASSUME NEW j \in Interval, NEW l \in 1..MaxCallbacks
        PROVE  /\ l <= cnt[j] => cb1[j][l] # NULL
               /\ l > cnt[j] => cb1[j][l] = NULL \/ (n = 2 /\ i = j /\ l = cnt[j] + 1)
    BY <1>1, <1>2, <1>3
  <1>5. n = 2 => cnt[i] < MaxCallbacks /\ cb1[i][cnt[i] + 1] = f
    BY <1>1, <1>2
  <1>. HIDE DEF CountsType, TableType
  <1>6. CASE n = 2
    BY <1>3, <1>4, <1>5, <1>6 DEF Tables
  <1>7. CASE n = 1
    BY <1>3, <1>4, <1>7 DEF Tables
  <1>. QED
    BY <1>1, <1>6, <1>7

LEMMA TablesCount ==
    ASSUME NEW cnt \in CountsType, NEW cb \in TableType, NEW i \in Interval, NEW k, NEW f, NEW n,
           Tables(cnt, cb, "Count", i, k, f, n), f # NULL,
           NEW cnt1, cnt1 = CountIn(cnt, i),
           NEW k1, k1 = cnt[i] + 1
    PROVE  /\ n = 2 => Tables(cnt1, cb, "Store", i, k1, f, 1)
           /\ n # 2 => \A i1, k2, f1, n1 : Tables(cnt1, cb, "none", i1, k2, f1, n1)
  <1>1. /\ n \in {1, 2} /\ cnt[i] < MaxCallbacks
        /\ MaxCallbacks \in Nat /\ cnt[i] \in Nat /\ \A j \in Interval : cnt[j] \in Nat
        /\ n = 1 => cb[i][cnt[i] + 1] = f
    BY LcdAssumption DEF Tables, LcdAssumption, CountsType
  <1>2. cnt1[i] = cnt[i] + 1 /\ \A j \in Interval : j # i => cnt1[j] = cnt[j]
    BY DEF CountsType, CountIn
  <1>3. /\ \A j \in Interval : cnt[j] <= MaxCallbacks
        /\ \A j \in Interval, l \in 1..MaxCallbacks :
             /\ l <= cnt[j] => cb[j][l] # NULL
             /\ l > cnt[j] => cb[j][l] = NULL \/ (n = 1 /\ i = j /\ l = cnt[j] + 1)
    BY DEF Tables
  <1>. HIDE DEF CountsType, TableType
  <1>4. ASSUME NEW j \in Interval, NEW l \in 1..MaxCallbacks
        PROVE  /\ l <= cnt1[j] => cb[j][l] # NULL \/ (n = 2 /\ i = j /\ cnt[i] + 1 = l)
               /\ l > cnt1[j] => cb[j][l] = NULL
    <2>1. CASE j # i
      BY <1>1, <1>2, <1>3, <2>1
    <2>2. CASE j = i
      <3>1. l <= cnt[i] \/ l = cnt[i] + 1 \/ l > cnt[i] + 1
        BY <1>1
      <3>. QED
        BY <1>1, <1>2, <1>3, <2>2, <3>1
    <2>. QED
      BY <2>1, <2>2
  <1>5. \A j \in Interval : cnt1[j] <= MaxCallbacks
    BY <1>1, <1>2, <1>3
  <1>6. n = 2 => k1 \in 1..MaxCallbacks /\ k1 = cnt1[i] /\ cb[i][k1] = NULL
    BY <1>1, <1>2, <1>3
  <1>7. CASE n = 2
    BY <1>1, <1>4, <1>5, <1>6, <1>7 DEF Tables
  <1>8. CASE n = 1
    BY <1>4, <1>5, <1>8 DEF Tables
  <1>. QED
    BY <1>1, <1>7, <1>8

LEMMA ProceedTables ==
    ASSUME TypeOK, Linked(script), TablesInv, Proceed
    PROVE  TablesInv'
  <1>. DEFINE a == script[1]
              b == script'[1]
              cnt == timer.count
              cb == timer.callBack
              cnt1 == timer'.count
              cb1 == timer'.callBack
              i == a.slot.interval
              k == a.slot.index
              f == a.slot.callback
              n == Len(script)
              i1 == b.slot.interval
              k1 == b.slot.index
              f1 == b.slot.callback
              n1 == Len(script')
              op == a.op
              op1 == HeadOp'
  <1>1. /\ script # <<>> /\ a \in Steps /\ op \in Ops \ Deciding
        /\ script' # <<>> => b \in Steps /\ Follows(a, b) /\ b = script[2]
        /\ script' = <<>> => Final(a) /\ n = 1
        /\ n \in Nat /\ n1 \in Nat /\ n = n1 + 1
    BY Proceeding
  <1>2. Names(a)
    BY <1>1, LinkedTail DEF TypeOK
  <1>3. op1 = IF script' = <<>> THEN "none" ELSE b.op
    BY DEF HeadOp
  <1>4. script' = <<>> <=> n1 = 0
    BY Proceeding, EmptySeq
  <1>5. HeadOp = op
    BY <1>1 DEF HeadOp
  <1>6. /\ Tables(cnt, cb, op, i, k, f, n)
        /\ op = "Count" /\ n = 2 => script[2].slot.index = cnt[i] + 1
    BY <1>1, <1>5, TablesIs DEF HeadIs
  <1>7. cnt \in CountsType /\ cb \in TableType
    BY DEF TypeOK, TimerType, CountsType, TableType
  <1>8. i \in Interval
    BY <1>1 DEF Steps, Slots
  <1>9. /\ cnt1 = IF op = "Zero" THEN [j \in Interval |-> 0]
                  ELSE IF op = "Count" THEN CountIn(cnt, i) ELSE cnt
        /\ cb1 = IF op = "Wipe" THEN [j \in Interval |-> [l \in 1..MaxCallbacks |-> NULL]]
                 ELSE IF op = "Store" THEN StoreIn(cb, i, k, f) ELSE cb
    BY ProceedEffect, TimerEffect DEF CountIn, StoreIn
  <1>10. script' # <<>> =>
         /\ b.op = "Wipe" <=> op = "Zero"
         /\ b.op = "Register" <=> op = "Wipe"
         /\ b.op = "Count" <=> op = "Store"
         /\ b.op = "Store" <=> op = "Count"
         /\ b.op \in {"Store", "Count"} => i1 = i /\ f1 = f
    BY <1>1, Before, BeforeSlots
  <1>11. script' = <<>> => op # "Zero"
    BY <1>1 DEF Final
  <1>12. op \in {"Store", "Count"} => f # NULL /\ n \in {1, 2}
    BY <1>2, <1>6 DEF Names, Tables
  <1>13. /\ "none" \notin TableOps
         /\ \A x : x \notin {"Wipe", "Register", "Store", "Count"} => x \notin TableOps
    BY DEF TableOps
  <1>. HIDE DEF a, b, cnt, cb, cnt1, cb1, i, k, f, n, i1, k1, f1, n1, op, op1, CountsType, TableType
  <1>14. Tables(cnt1, cb1, op1, i1, k1, f1, n1)
    <2>1. CASE op = "Zero"
      <3>1. cnt1 = [j \in Interval |-> 0] /\ op1 = "Wipe"
        BY <1>3, <1>9, <1>10, <1>11, <2>1
      <3>. QED
        BY <3>1, TablesZero
    <2>2. CASE op = "Wipe"
      <3>1. /\ cnt1 = cnt /\ cb1 = [j \in Interval |-> [l \in 1..MaxCallbacks |-> NULL]]
            /\ op1 \in {"none", "Register"}
        BY <1>3, <1>9, <1>10, <2>2
      <3>2. Tables(cnt, cb, "Wipe", i, k, f, n)
        BY <1>6, <2>2
      <3>. QED
        BY <1>7, <3>1, <3>2, TablesWipe
    <2>3. CASE op = "Store"
      <3>1. /\ cnt1 = cnt /\ cb1 = StoreIn(cb, i, k, f)
            /\ op1 = (IF n = 2 THEN "Count" ELSE "none")
            /\ n = 2 => i1 = i /\ f1 = f /\ n1 = 1
        BY <1>1, <1>3, <1>4, <1>9, <1>10, <1>12, <2>3
      <3>2. Tables(cnt, cb, "Store", i, k, f, n) /\ f # NULL
        BY <1>6, <1>12, <2>3
      <3>. QED
        <4>1. CASE n = 2
          <5>1. Tables(cnt, cb1, "Count", i, k1, f, 1)
            BY <1>7, <1>8, <3>1, <3>2, <4>1, TablesStore
          <5>. QED
            BY <3>1, <4>1, <5>1
        <4>2. CASE n # 2
          <5>1. Tables(cnt, cb1, "none", i1, k1, f1, n1)
            BY <1>7, <1>8, <3>1, <3>2, <4>2, TablesStore
          <5>. QED
            BY <3>1, <4>2, <5>1
        <4>. QED
          BY <4>1, <4>2
    <2>4. CASE op = "Count"
      <3>1. /\ cb1 = cb /\ cnt1 = CountIn(cnt, i)
            /\ op1 = (IF n = 2 THEN "Store" ELSE "none")
            /\ n = 2 => i1 = i /\ n1 = 1 /\ script' # <<>>
        BY <1>1, <1>3, <1>4, <1>9, <1>10, <1>12, <2>4
      <3>2. n = 2 => k1 = cnt[i] + 1
        BY <1>1, <1>6, <2>4, <3>1 DEF k1
      <3>3. Tables(cnt, cb, "Count", i, k, f, n) /\ f # NULL
        BY <1>6, <1>12, <2>4
      <3>. QED
        <4>1. CASE n = 2
          <5>1. Tables(cnt1, cb, "Store", i, k1, f, 1)
            BY <1>7, <1>8, <3>1, <3>2, <3>3, <4>1, TablesCount
          <5>2. f1 = f
            BY <1>10, <2>4, <3>1, <4>1
          <5>. QED
            BY <3>1, <4>1, <5>1, <5>2
        <4>2. CASE n # 2
          <5>. DEFINE k2 == cnt[i] + 1
          <5>1. k2 = cnt[i] + 1
            OBVIOUS
          <5>. HIDE DEF k2
          <5>2. Tables(cnt1, cb, "none", i1, k1, f1, n1)
            BY <1>7, <1>8, <3>1, <3>3, <4>2, <5>1, TablesCount
          <5>. QED
            BY <3>1, <4>2, <5>2
        <4>. QED
          BY <4>1, <4>2
    <2>5. CASE op \notin {"Zero", "Wipe", "Store", "Count"}
      <3>1. cnt1 = cnt /\ cb1 = cb /\ op \notin TableOps /\ op1 \notin TableOps
        BY <1>1, <1>3, <1>9, <1>10, <1>13, <2>5 DEF Deciding
      <3>. QED
        BY <1>6, <3>1, TablesPlain
    <2>. QED
      BY <2>1, <2>2, <2>3, <2>4, <2>5
  <1>15. ~(script' # <<>> /\ b.op = "Count" /\ n1 = 2)
    BY <1>1, <1>10, <1>12
  <1>. QED
    BY <1>14, <1>15, TablesIsNext DEF b, cnt1, cb1, i1, k1, f1, n1, op1

Reg(cnt, cb, i, k) == k <= cnt[i] /\ cb[i][k] = Handler

Nowhere(cnt, cb) == \A i \in Interval, k \in 1..MaxCallbacks : ~Reg(cnt, cb, i, k)

Once(cnt, cb) ==
    \E i \in Interval, k \in 1..MaxCallbacks :
      /\ Reg(cnt, cb, i, k)
      /\ \A j \in Interval, l \in 1..MaxCallbacks : Reg(cnt, cb, j, l) => j = i /\ l = k

LEMMA HandlerIs ==
    HandlerInv <=>
      /\ script # <<>> /\ script[1].op \in {"Register", "Store", "Count"}
           /\ script[1].slot.callback = Handler
         => Nowhere(timer.count, timer.callBack)
      /\ LcdInitialized /\ ~hist.reset /\ ~HandlerPending(script)
         => Once(timer.count, timer.callBack)
  BY DEF HandlerInv, HeadIs, Registered, Reg, Nowhere, Once

LEMMA HandlerIsNext ==
    HandlerInv' <=>
      /\ script' # <<>> /\ script'[1].op \in {"Register", "Store", "Count"}
           /\ script'[1].slot.callback = Handler
         => Nowhere(timer'.count, timer'.callBack)
      /\ LcdInitialized' /\ ~hist'.reset /\ ~HandlerPending(script')
         => Once(timer'.count, timer'.callBack)
  BY DEF HandlerInv, HeadIs, Registered, Reg, Nowhere, Once

LEMMA SameSlots ==
    ASSUME NEW cnt, NEW cb, NEW cnt1, NEW cb1,
           \A j \in Interval, l \in 1..MaxCallbacks : Reg(cnt, cb, j, l) <=> Reg(cnt1, cb1, j, l)
    PROVE  /\ Nowhere(cnt, cb) <=> Nowhere(cnt1, cb1)
           /\ Once(cnt, cb) <=> Once(cnt1, cb1)
  BY DEF Nowhere, Once

LEMMA RegStore ==
    ASSUME NEW cnt \in CountsType, NEW cb \in TableType, NEW i \in Interval, NEW k, NEW f, NEW n,
           Tables(cnt, cb, "Store", i, k, f, n),
           NEW cb1, cb1 = StoreIn(cb, i, k, f)
    PROVE  /\ f # Handler => (Nowhere(cnt, cb) <=> Nowhere(cnt, cb1)) /\ (Once(cnt, cb) <=> Once(cnt, cb1))
           /\ Nowhere(cnt, cb) /\ n = 2 => Nowhere(cnt, cb1)
           /\ f = Handler /\ Nowhere(cnt, cb) /\ n = 1 => Once(cnt, cb1)
  <1>1. /\ n \in {1, 2} /\ k \in 1..MaxCallbacks /\ k = cnt[i] + (IF n = 2 THEN 1 ELSE 0)
        /\ cb[i][k] = NULL /\ cnt[i] \in Nat /\ NULL # Handler
    BY NoSlotType DEF Tables, CountsType
  <1>2. cb1[i][k] = f /\ \A j \in Interval, l \in 1..MaxCallbacks : j # i \/ l # k => cb1[j][l] = cb[j][l]
    BY <1>1 DEF TableType, StoreIn
  <1>3. f # Handler =>
          \A j \in Interval, l \in 1..MaxCallbacks : Reg(cnt, cb, j, l) <=> Reg(cnt, cb1, j, l)
    BY <1>1, <1>2 DEF Reg
  <1>4. ASSUME Nowhere(cnt, cb), n = 2 PROVE Nowhere(cnt, cb1)
    <2>1. ASSUME NEW j \in Interval, NEW l \in 1..MaxCallbacks PROVE ~Reg(cnt, cb1, j, l)
      <3>1. CASE j = i /\ l = k
        BY <1>1, <1>4, <3>1 DEF Reg
      <3>2. CASE j # i \/ l # k
        BY <1>2, <1>4, <3>2 DEF Reg, Nowhere
      <3>. QED
        BY <3>1, <3>2
    <2>. QED
      BY <2>1 DEF Nowhere
  <1>5. ASSUME f = Handler, Nowhere(cnt, cb), n = 1 PROVE Once(cnt, cb1)
    <2>1. Reg(cnt, cb1, i, k)
      BY <1>1, <1>2, <1>5 DEF Reg
    <2>2. ASSUME NEW j \in Interval, NEW l \in 1..MaxCallbacks, Reg(cnt, cb1, j, l) PROVE j = i /\ l = k
      BY <1>2, <1>5, <2>2 DEF Reg, Nowhere
    <2>. QED
      BY <1>1, <2>1, <2>2 DEF Once
  <1>. QED
    BY <1>3, <1>4, <1>5, SameSlots

LEMMA RegCount ==
    ASSUME NEW cnt \in CountsType, NEW cb \in TableType, NEW i \in Interval, NEW k, NEW f, NEW n,
           Tables(cnt, cb, "Count", i, k, f, n),
           NEW cnt1, cnt1 = CountIn(cnt, i)
    PROVE  /\ f # Handler => (Nowhere(cnt, cb) <=> Nowhere(cnt1, cb)) /\ (Once(cnt, cb) <=> Once(cnt1, cb))
           /\ Nowhere(cnt, cb) /\ n = 2 => Nowhere(cnt1, cb)
           /\ f = Handler /\ Nowhere(cnt, cb) /\ n = 1 => Once(cnt1, cb)
  <1>. DEFINE m == cnt[i] + 1
  <1>1. /\ n \in {1, 2} /\ m \in 1..MaxCallbacks /\ cnt[i] \in Nat /\ NULL # Handler
        /\ MaxCallbacks \in Nat
    BY NoSlotType, LcdAssumption DEF Tables, CountsType, LcdAssumption
  <1>2. cnt1[i] = m /\ \A j \in Interval : j # i => cnt1[j] = cnt[j]
    BY DEF CountsType, CountIn
  <1>3. (n = 1 => cb[i][m] = f) /\ (n = 2 => cb[i][m] = NULL)
    <2>1. n = 1 => cb[i][m] = f
      BY DEF Tables
    <2>2. m > cnt[i]
      BY <1>1
    <2>3. n = 2 => cb[i][m] = NULL
      BY <1>1, <2>2 DEF Tables
    <2>. QED
      BY <2>1, <2>3
  <1>4. \A l \in 1..MaxCallbacks : l <= cnt1[i] <=> l <= cnt[i] \/ l = m
    BY <1>1, <1>2
  <1>5. ~(m <= cnt[i])
    BY <1>1
  <1>. HIDE DEF m
  <1>6. \A j \in Interval, l \in 1..MaxCallbacks :
          Reg(cnt1, cb, j, l) <=> Reg(cnt, cb, j, l) \/ (j = i /\ l = m /\ cb[i][m] = Handler)
    BY <1>2, <1>4 DEF Reg
  <1>7. ~Reg(cnt, cb, i, m)
    BY <1>5 DEF Reg
  <1>8. f # Handler \/ n = 2 => cb[i][m] # Handler
    BY <1>1, <1>3
  <1>9. cb[i][m] # Handler => /\ Nowhere(cnt, cb) <=> Nowhere(cnt1, cb)
                              /\ Once(cnt, cb) <=> Once(cnt1, cb)
    BY <1>6, SameSlots
  <1>10. ASSUME f = Handler, Nowhere(cnt, cb), n = 1 PROVE Once(cnt1, cb)
    <2>1. Reg(cnt1, cb, i, m)
      BY <1>1, <1>3, <1>6, <1>10
    <2>2. ASSUME NEW j \in Interval, NEW l \in 1..MaxCallbacks, Reg(cnt1, cb, j, l) PROVE j = i /\ l = m
      BY <1>6, <1>10, <2>2 DEF Nowhere
    <2>. QED
      BY <1>1, <2>1, <2>2 DEF Once
  <1>. QED
    BY <1>8, <1>9, <1>10

LEMMA ProceedHandler ==
    ASSUME TypeOK, Linked(script), PendingInv, TablesInv, HandlerInv, Proceed
    PROVE  HandlerInv'
  <1>. DEFINE a == script[1]
              b == script'[1]
              cnt == timer.count
              cb == timer.callBack
              cnt1 == timer'.count
              cb1 == timer'.callBack
              i == a.slot.interval
              k == a.slot.index
              f == a.slot.callback
              n == Len(script)
              op == a.op
              H == HandlerPending(script)
              H1 == HandlerPending(script')
              Kept == LcdInitialized /\ ~hist.reset
              Kept1 == LcdInitialized' /\ ~hist'.reset
              Ops3 == {"Register", "Store", "Count"}
  <1>1. /\ script # <<>> /\ a \in Steps /\ op \in Ops \ Deciding
        /\ script' # <<>> => b \in Steps /\ Follows(a, b) /\ b = script[2]
        /\ script' = <<>> => Final(a) /\ n = 1
        /\ n \in Nat /\ n = Len(script') + 1
    BY Proceeding
  <1>2. script' = <<>> <=> n = 1
    BY <1>1, Proceeding, EmptySeq
  <1>3. HeadOp = op
    BY <1>1 DEF HeadOp
  <1>4. Tables(cnt, cb, op, i, k, f, n)
    BY <1>3, TablesIs
  <1>5. cnt \in CountsType /\ cb \in TableType
    BY DEF TypeOK, TimerType, CountsType, TableType
  <1>6. i \in Interval
    BY <1>1 DEF Steps, Slots
  <1>7. /\ cnt1 = IF op = "Zero" THEN [j \in Interval |-> 0]
                  ELSE IF op = "Count" THEN CountIn(cnt, i) ELSE cnt
        /\ cb1 = IF op = "Wipe" THEN [j \in Interval |-> [l \in 1..MaxCallbacks |-> NULL]]
                 ELSE IF op = "Store" THEN StoreIn(cb, i, k, f) ELSE cb
    BY ProceedEffect, TimerEffect DEF CountIn, StoreIn
  <1>8. script' # <<>> =>
        /\ b.op = "Register" <=> op = "Wipe"
        /\ b.op = "Count" <=> op = "Store"
        /\ b.op = "Store" <=> op = "Count"
        /\ b.op \in {"Store", "Count"} => b.slot.callback = f
    BY <1>1, Before, BeforeSlots
  <1>9. op \in {"Store", "Count"} => n \in {1, 2}
    BY <1>4 DEF Tables
  <1>10. /\ H1 => H
         /\ H => H1 \/ (f = Handler /\ op \in {"Store", "Count"})
         /\ op \in {"Mapped"} => H
         /\ op \in {"Start", "Zero", "Wipe"} => H \/ hist.reset
         /\ f = Handler => H
    <2>1. f = Handler => H
      BY <1>1, Proceeding DEF HandlerPending
    <2>. QED
      BY <1>1, <2>1, ProceedPending DEF PendingInv, HeadIs
  <1>11. script' # <<>> /\ b.slot.callback = Handler => H1
    <2>1. script' # <<>> => 1 \in 1..Len(script')
      BY <1>1, <1>2
    <2>. QED
      BY <2>1 DEF HandlerPending
  <1>12. Kept1 => op = "Mapped" \/ Kept
    <2>1. /\ lcd'.pFB0 = IF op \in {"Fields", "Forget"} THEN NULL
                         ELSE IF op = "Mapped" THEN "fb" ELSE lcd.pFB0
          /\ lcd'.DispFile = IF op \in {"Fields", "Forget"} THEN "none" ELSE lcd.DispFile
      BY ProceedEffect, LcdEffect
    <2>2. hist'.reset = hist.reset
      BY ProceedEffect, HistEffect
    <2>. HIDE DEF op
    <2>. QED
      BY <2>1, <2>2 DEF LcdInitialized
  <1>13. hist'.reset = hist.reset
    BY ProceedEffect, HistEffect
  <1>14. /\ op \in {"Store", "Count"} /\ f = Handler => Nowhere(cnt, cb)
         /\ Kept /\ ~H => Once(cnt, cb)
    BY <1>1, HandlerIs
  <1>. HIDE DEF a, b, cnt, cb, cnt1, cb1, i, k, f, n, op, H, H1, CountsType, TableType
  <1>15. ASSUME script' # <<>>, b.op \in Ops3, b.slot.callback = Handler
         PROVE  Nowhere(cnt1, cb1)
    <2>1. CASE b.op = "Register"
      <3>1. cb1 = [j \in Interval |-> [l \in 1..MaxCallbacks |-> NULL]]
        BY <1>7, <1>8, <1>15, <2>1
      <3>. QED
        BY <3>1, NoSlotType DEF Nowhere, Reg
    <2>2. CASE b.op = "Count"
      <3>1. op = "Store" /\ f = Handler /\ n = 2 /\ cnt1 = cnt /\ cb1 = StoreIn(cb, i, k, f)
        BY <1>2, <1>7, <1>8, <1>9, <1>15, <2>2
      <3>2. Nowhere(cnt, cb) /\ Tables(cnt, cb, "Store", i, k, f, n)
        BY <1>4, <1>14, <3>1
      <3>. QED
        BY <1>5, <1>6, <3>1, <3>2, RegStore
    <2>3. CASE b.op = "Store"
      <3>1. op = "Count" /\ f = Handler /\ n = 2 /\ cb1 = cb /\ cnt1 = CountIn(cnt, i)
        BY <1>2, <1>7, <1>8, <1>9, <1>15, <2>3
      <3>2. Nowhere(cnt, cb) /\ Tables(cnt, cb, "Count", i, k, f, n)
        BY <1>4, <1>14, <3>1
      <3>. QED
        BY <1>5, <1>6, <3>1, <3>2, RegCount
    <2>. QED
      BY <1>15, <2>1, <2>2, <2>3
  <1>16. ASSUME Kept1, ~H1 PROVE Once(cnt1, cb1)
    <2>1. CASE op = "Store"
      <3>1. /\ cnt1 = cnt /\ cb1 = StoreIn(cb, i, k, f) /\ Tables(cnt, cb, "Store", i, k, f, n)
            /\ Kept
        BY <1>4, <1>7, <1>12, <1>16, <2>1
      <3>2. CASE f = Handler
        <4>2. n = 1
          BY <1>2, <1>8, <1>9, <1>11, <1>16, <2>1, <3>2, Before, <1>1
        <4>3. Nowhere(cnt, cb)
          BY <1>14, <2>1, <3>2
        <4>. QED
          BY <1>5, <1>6, <3>1, <3>2, <4>2, <4>3, RegStore
      <3>3. CASE f # Handler
        <4>1. Once(cnt, cb)
          BY <1>10, <1>14, <1>16, <3>1, <3>3
        <4>. QED
          BY <1>5, <1>6, <3>1, <3>3, <4>1, RegStore
      <3>. QED
        BY <3>2, <3>3
    <2>2. CASE op = "Count"
      <3>1. /\ cb1 = cb /\ cnt1 = CountIn(cnt, i) /\ Tables(cnt, cb, "Count", i, k, f, n)
            /\ Kept
        BY <1>4, <1>7, <1>12, <1>16, <2>2
      <3>2. CASE f = Handler
        <4>2. n = 1
          BY <1>2, <1>8, <1>9, <1>11, <1>16, <2>2, <3>2, Before, <1>1
        <4>3. Nowhere(cnt, cb)
          BY <1>14, <2>2, <3>2
        <4>. QED
          BY <1>5, <1>6, <3>1, <3>2, <4>2, <4>3, RegCount
      <3>3. CASE f # Handler
        <4>1. Once(cnt, cb)
          BY <1>10, <1>14, <1>16, <3>1, <3>3
        <4>. QED
          BY <1>5, <1>6, <3>1, <3>3, <4>1, RegCount
      <3>. QED
        BY <3>2, <3>3
    <2>3. CASE op \in {"Mapped", "Zero", "Wipe"}
      BY <1>10, <1>13, <1>16, <2>3
    <2>4. CASE op \notin {"Store", "Count", "Mapped", "Zero", "Wipe"}
      <3>1. cnt1 = cnt /\ cb1 = cb
        BY <1>7, <2>4
      <3>2. Kept /\ ~H
        BY <1>10, <1>12, <1>16, <2>4
      <3>. QED
        BY <1>14, <3>1, <3>2
    <2>. QED
      BY <2>1, <2>2, <2>3, <2>4
  <1>. QED
    BY <1>15, <1>16, HandlerIsNext DEF b, cnt1, cb1, H1

LEMMA ProceedStep ==
    ASSUME IInv, Proceed
    PROVE  IInv'
  <1>1. TypeOK'
    BY ProceedType DEF IInv
  <1>2. Linked(script') /\ crash' = "no"
    BY Proceeding DEF IInv
  <1>3. PendingInv'
    BY ProceedPendingInv DEF IInv
  <1>4. DeviceInv'
    BY ProceedDevice DEF IInv
  <1>5. TablesInv'
    BY ProceedTables DEF IInv
  <1>6. HandlerInv'
    BY ProceedHandler DEF IInv
  <1>7. ScreenInv'
    BY ProceedScreen DEF IInv
  <1>8. CrashesOnlyThere'
    BY <1>2 DEF CrashesOnlyThere
  <1>. QED
    BY <1>1, <1>2, <1>3, <1>4, <1>5, <1>6, <1>7, <1>8 DEF IInv

------------------------------------------------------------------------------
(***************************************************************************)
(* The signal, wherever it comes, preserves the invariant.                 *)
(***************************************************************************)

LEMMA TablesFrame ==
    ASSUME TablesInv, script' = script, timer'.count = timer.count, timer'.callBack = timer.callBack
    PROVE  TablesInv'
  <1>1. HeadOp' = HeadOp
    BY DEF HeadOp
  <1>2. /\ Tables(timer.count, timer.callBack, HeadOp, script[1].slot.interval,
                  script[1].slot.index, script[1].slot.callback, Len(script))
        /\ script # <<>> /\ script[1].op = "Count" /\ Len(script) = 2 =>
             script[2].slot.index = timer.count[script[1].slot.interval] + 1
    BY TablesIs DEF HeadIs
  <1>. QED
    BY <1>1, <1>2, TablesIsNext

LEMMA HandlerFrame ==
    ASSUME HandlerInv, script' = script, timer'.count = timer.count, timer'.callBack = timer.callBack,
           hist' = hist, LcdInitialized' = LcdInitialized
    PROVE  HandlerInv'
  BY HandlerIs, HandlerIsNext

\* What the handler may do to the screen.
Refreshed == /\ lcd' = [lcd EXCEPT !.hwBuffer = [c \in Cell |-> Lit(lcd.displayBuf[c])], !.Dirty = FALSE]
             /\ dev' = [dev EXCEPT !.fb = [c \in Cell |-> Lit(lcd.displayBuf[c])]]

LEMMA SignalCases ==
    ASSUME TimerSigHandler
    PROVE  /\ crash = "no" /\ script' = script /\ hist' = hist
           /\ timer' = [timer EXCEPT !.counter = (timer.counter + 1) % Wrap]
           /\ \/ crash' = "callback" /\ NULL \in Called /\ lcd' = lcd /\ dev' = dev
              \/ crash' = "frame buffer" /\ Refreshes /\ ~dev.mapped /\ lcd' = lcd /\ dev' = dev
              \/ crash' = "no" /\ Refreshed
              \/ crash' = "no" /\ lcd' = lcd /\ dev' = dev
  <1>. DEFINE N == NULL \in Called
  <1>1. /\ crash = "no" /\ script' = script /\ hist' = hist
        /\ timer' = [timer EXCEPT !.counter = (timer.counter + 1) % Wrap]
    BY DEF TimerSigHandler, Alive
  <1>2. CASE N
    BY <1>2 DEF TimerSigHandler, Alive
  <1>3. CASE ~N /\ Refreshes /\ ~dev.mapped
    <2>. HIDE DEF Refreshes
    <2>. QED
      BY <1>3 DEF TimerSigHandler, Alive
  <1>4. CASE ~N /\ Refreshes /\ dev.mapped
    <2>. HIDE DEF Refreshes
    <2>. QED
      BY <1>4 DEF TimerSigHandler, Alive, Refreshed
  <1>5. CASE ~N /\ ~Refreshes
    <2>. HIDE DEF Refreshes
    <2>. QED
      BY <1>5 DEF TimerSigHandler, Alive
  <1>. HIDE DEF N
  <1>6. \/ N \/ (~N /\ Refreshes /\ ~dev.mapped) \/ (~N /\ Refreshes /\ dev.mapped) \/ (~N /\ ~Refreshes)
    OBVIOUS
  <1>. QED
    BY <1>1, <1>2, <1>3, <1>4, <1>5, <1>6

LEMMA SignalScreen ==
    ASSUME TypeOK, ScreenInv, script' = script, hist' = hist, Refreshed
    PROVE  ScreenInv'
  <1>1. lcd \in LcdType /\ dev \in DevType
    BY DEF TypeOK
  <1>2. /\ lcd'.hwBuffer = [c \in Cell |-> Lit(lcd.displayBuf[c])]
        /\ lcd'.displayBuf = lcd.displayBuf
    BY <1>1 DEF Refreshed, LcdType
  <1>3. dev'.fb = [c \in Cell |-> Lit(lcd.displayBuf[c])]
    BY <1>1 DEF Refreshed, DevType
  <1>4. \A c \in {1, 2} : /\ dev'.fb[c] = Lit(lcd'.displayBuf[c])
                          /\ lcd'.hwBuffer[c] = Lit(lcd'.displayBuf[c])
    BY <1>2, <1>3 DEF Cell
  <1>5. (HeadIs("Open"))' => hist'.unmarked
    BY DEF ScreenInv, HeadIs
  <1>. QED
    BY <1>4, <1>5 DEF ScreenInv, HeadIs, At, Shown, Seen, Converted, Fetched

LEMMA SignalType ==
    ASSUME TypeOK, TimerSigHandler
    PROVE  TypeOK'
  <1>1. /\ script' = script /\ hist' = hist
        /\ timer' = [timer EXCEPT !.counter = (timer.counter + 1) % Wrap]
        /\ Refreshed \/ (lcd' = lcd /\ dev' = dev)
        /\ crash' \in {"callback", "frame buffer", "no"}
    BY SignalCases
  <1>2. timer' \in TimerType
    <2>1. timer \in TimerType /\ timer.counter \in Nat
      BY DEF TypeOK, TimerType
    <2>2. (timer.counter + 1) % Wrap \in Nat
      BY <2>1, LcdAssumption DEF LcdAssumption
    <2>. QED
      BY <1>1, <2>1, <2>2 DEF TimerType
  <1>3. lcd' \in LcdType /\ dev' \in DevType
    <2>1. lcd \in LcdType /\ dev \in DevType /\ lcd.displayBuf \in [Cell -> 0..7]
      BY DEF TypeOK, LcdType
    <2>. DEFINE w == [c \in Cell |-> Lit(lcd.displayBuf[c])]
    <2>2. w \in [Cell -> LitBytes]
      BY <2>1, Lits
    <2>. HIDE DEF w
    <2>3. [lcd EXCEPT !.hwBuffer = w, !.Dirty = FALSE] \in LcdType /\ [dev EXCEPT !.fb = w] \in DevType
      BY <2>1, <2>2 DEF LcdType, DevType
    <2>. QED
      BY <1>1, <2>1, <2>3 DEF Refreshed, w
  <1>. QED
    BY <1>1, <1>2, <1>3 DEF TypeOK

LEMMA SignalCrash ==
    ASSUME TypeOK, DeviceInv, TablesInv, TimerSigHandler
    PROVE  CrashesOnlyThere'
  <1>1. script' = script /\ crash = "no"
    BY SignalCases
  <1>2. script # <<>> => Head(script) = script[1]
    BY TailIs DEF TypeOK
  <1>3. CASE crash' = "callback" /\ NULL \in Called /\ lcd' = lcd
    <2>1. PICK i \in Interval : NULL \in {timer.callBack[i][k] : k \in 1..timer.count[i]}
      BY <1>3 DEF Called
    <2>2. PICK k \in 1..timer.count[i] : timer.callBack[i][k] = NULL
      BY <2>1
    <2>3. timer.count[i] \in Nat /\ timer.count[i] <= MaxCallbacks /\ MaxCallbacks \in Nat
      BY LcdAssumption DEF TypeOK, TimerType, TablesInv, LcdAssumption
    <2>4. k \in 1..MaxCallbacks /\ k <= timer.count[i]
      BY <2>2, <2>3
    <2>5. HeadIs("Store")
      BY <2>2, <2>4 DEF TablesInv
    <2>. QED
      BY <1>1, <1>2, <1>3, <2>5 DEF CrashesOnlyThere, HeadIs
  <1>4. CASE crash' = "frame buffer" /\ Refreshes /\ ~dev.mapped /\ lcd' = lcd
    <2>1. lcd.pFB0 # NULL /\ lcd.Dirty
      BY <1>4 DEF Refreshes
    <2>2. LcdInitialized
      BY <2>1 DEF DeviceInv, LcdInitialized
    <2>3. HeadIs("Forget")
      BY <1>4, <2>2 DEF DeviceInv
    <2>. QED
      BY <1>1, <1>2, <1>4, <2>1, <2>3 DEF CrashesOnlyThere, HeadIs
  <1>5. CASE crash' = "no"
    BY <1>5 DEF CrashesOnlyThere
  <1>. QED
    BY <1>3, <1>4, <1>5, SignalCases

LEMMA SignalStep ==
    ASSUME IInv, TimerSigHandler
    PROVE  IInv'
  <1>1. /\ script' = script /\ hist' = hist
        /\ timer' = [timer EXCEPT !.counter = (timer.counter + 1) % Wrap]
        /\ Refreshed \/ (lcd' = lcd /\ dev' = dev)
    BY SignalCases
  <1>2. timer'.count = timer.count /\ timer'.callBack = timer.callBack
    BY <1>1 DEF IInv, TypeOK, TimerType
  <1>3. /\ lcd'.pFB0 = lcd.pFB0 /\ lcd'.DispFile = lcd.DispFile
        /\ dev'.open = dev.open /\ dev'.mapped = dev.mapped
    BY <1>1 DEF IInv, TypeOK, LcdType, DevType, Refreshed
  <1>4. TypeOK'
    BY SignalType DEF IInv
  <1>5. Linked(script') /\ PendingInv'
    BY <1>1 DEF IInv, PendingInv, HeadIs, HandlerPending, MarkPending
  <1>6. DeviceInv'
    BY <1>1, <1>3 DEF IInv, DeviceInv, HeadIs, LcdInitialized
  <1>7. TablesInv'
    BY <1>1, <1>2, TablesFrame DEF IInv
  <1>8. HandlerInv'
    BY <1>1, <1>2, <1>3, HandlerFrame DEF IInv, LcdInitialized
  <1>9. ScreenInv'
    <2>1. CASE Refreshed
      BY <1>1, <2>1, SignalScreen DEF IInv
    <2>2. CASE lcd' = lcd /\ dev' = dev
      BY <1>1, <2>2 DEF IInv, ScreenInv, HeadIs, At, Shown, Seen, Converted, Fetched, MarkPending
    <2>. QED
      BY <1>1, <2>1, <2>2
  <1>10. CrashesOnlyThere'
    BY SignalCrash DEF IInv
  <1>. QED
    BY <1>4, <1>5, <1>6, <1>7, <1>8, <1>9, <1>10 DEF IInv

------------------------------------------------------------------------------
(***************************************************************************)
(* The calls of the program preserve the invariant.                        *)
(***************************************************************************)

LEMMA NothingPending == ~HandlerPending(<<>>) /\ ~MarkPending(<<>>)
  BY DEF HandlerPending, MarkPending

\* The steps of a call that starts with op, handed to an idle program.
LEMMA CallStep ==
    ASSUME IInv, Alive, Idle, dev' = dev, timer' = timer, crash' = crash, lcd' = lcd,
           NEW op \in {"Fields", "Close", "Paint", "Shift", "Update", "Fetch", "Start", "Register"},
           Starts(script', op),
           hist'.reset \in BOOLEAN, hist' = [hist EXCEPT !.reset = hist'.reset],
           op \notin {"Fields", "Start"} => hist'.reset = hist.reset,
           op = "Start" => hist'.reset,
           op = "Fields" => ~LcdInitialized,
           op = "Close" => LcdInitialized,
           op = "Fetch" => script'[1].cell = 1,
           op = "Register" => script'[1].slot.callback = Other,
           HandlerPending(script') <=> op = "Fields",
           MarkPending(script') <=> op = "Paint"
    PROVE  IInv'
  <1>1. /\ script = <<>> /\ script' # <<>> /\ script'[1].op = op
        /\ script' \in Seq(Steps) /\ Linked(script')
    BY DEF Idle, Starts
  <1>2. /\ hist' \in [unmarked : BOOLEAN, reset : BOOLEAN, leaks : Nat]
        /\ hist'.unmarked = hist.unmarked /\ hist'.leaks = hist.leaks
    BY DEF IInv, TypeOK
  <1>3. TypeOK'
    BY <1>1, <1>2 DEF IInv, TypeOK
  <1>4. PendingInv'
    BY <1>1, <1>2 DEF PendingInv, HeadIs
  <1>5. DeviceInv'
    <2>1. /\ dev.open = hist.leaks + (IF LcdInitialized THEN 1 ELSE 0)
          /\ dev.mapped = LcdInitialized
          /\ lcd.DispFile = "none" \/ lcd.DispFile = "static" => lcd.pFB0 = NULL
      BY <1>1 DEF IInv, DeviceInv, HeadIs, LcdInitialized
    <2>. QED
      BY <1>1, <1>2, <2>1 DEF DeviceInv, HeadIs, LcdInitialized
  <1>6. TablesInv'
    <2>1. HeadOp = "none" /\ HeadOp' = op
      BY <1>1 DEF HeadOp
    <2>2. Tables(timer.count, timer.callBack, "none", script[1].slot.interval,
                 script[1].slot.index, script[1].slot.callback, Len(script))
      BY <2>1, TablesIs DEF IInv
    <2>3. Tables(timer.count, timer.callBack, op, script'[1].slot.interval,
                 script'[1].slot.index, script'[1].slot.callback, Len(script'))
      <3>1. CASE op = "Register"
        BY <2>2, <3>1, NoSlotType DEF Tables
      <3>2. CASE op # "Register"
        <4>1. op \notin TableOps /\ "none" \notin TableOps
          BY <3>2 DEF TableOps
        <4>. QED
          BY <2>2, <4>1, TablesPlain
      <3>. QED
        BY <3>1, <3>2
    <2>. QED
      BY <1>1, <2>1, <2>3, TablesIsNext
  <1>7. HandlerInv'
    <2>1. LcdInitialized /\ ~hist.reset => Once(timer.count, timer.callBack)
      BY <1>1, HandlerIs, NothingPending DEF IInv
    <2>2. LcdInitialized' = LcdInitialized
      BY DEF LcdInitialized
    <2>. QED
      BY <1>1, <1>2, <2>1, <2>2, HandlerIsNext, NoSlotType
  <1>8. ScreenInv'
    <2>1. ~lcd.Dirty /\ ~hist.unmarked => Shown
      BY <1>1, NothingPending DEF IInv, ScreenInv
    <2>2. Shown' = Shown
      BY DEF Shown, Seen
    <2>3. ~lcd'.Dirty /\ ~hist'.unmarked /\ ~MarkPending(script') => Shown'
      BY <1>2, <2>1, <2>2
    <2>4. /\ ~At("Convert", 2)' /\ ~HeadIs("Copy")' /\ ~At("Copy", 2)' /\ ~HeadIs("Clear")'
          /\ ~At("Fetch", 2)' /\ ~At("Unconvert", 1)' /\ ~HeadIs("Unconvert")' /\ ~HeadIs("Open")'
      BY <1>1 DEF At, HeadIs
    <2>. QED
      BY <2>3, <2>4 DEF ScreenInv
  <1>9. CrashesOnlyThere'
    BY DEF CrashesOnlyThere, Alive
  <1>. QED
    BY <1>1, <1>3, <1>4, <1>5, <1>6, <1>7, <1>8, <1>9 DEF IInv

LEMMA SameHist ==
    ASSUME TypeOK
    PROVE  hist.reset \in BOOLEAN /\ hist = [hist EXCEPT !.reset = hist.reset]
  BY DEF TypeOK

LEMMA InitCallStep ==
    ASSUME IInv, LcdInit
    PROVE  IInv'
  <1>. DEFINE s == Do("Fields") \o Do("Open") \o Do("Mapped")
                     \o TimerInit \o SetTimerCallback(LcdInterval, Handler)
  <1>1. Starts(s, "Fields") /\ HandlerPending(s) /\ ~MarkPending(s)
    BY InitScript
  <1>2. script' = s
    BY DEF LcdInit
  <1>. HIDE DEF s
  <1>3. /\ Alive /\ Idle /\ ~LcdInitialized /\ hist' = [hist EXCEPT !.reset = FALSE]
        /\ lcd' = lcd /\ dev' = dev /\ timer' = timer /\ crash' = crash
    BY DEF LcdInit
  <1>4. hist'.reset \in BOOLEAN /\ hist' = [hist EXCEPT !.reset = hist'.reset]
    BY <1>3 DEF IInv, TypeOK
  <1>. QED
    BY <1>1, <1>2, <1>3, <1>4, CallStep

LEMMA TimerInitCallStep ==
    ASSUME IInv, ProgramTimerInit
    PROVE  IInv'
  <1>1. Piece(TimerInit, Plain("Start", 1), Plain("Wipe", 1))
        /\ ~HandlerPending(TimerInit) /\ ~MarkPending(TimerInit)
    BY TimerInitPiece
  <1>2. Starts(TimerInit, "Start")
    <2>1. Final(Plain("Wipe", 1)) /\ Plain("Start", 1).op = "Start"
      BY PlainIs DEF Final
    <2>. QED
      BY <1>1, <2>1, PieceStarts
  <1>3. /\ Alive /\ Idle /\ hist' = [hist EXCEPT !.reset = TRUE] /\ script' = TimerInit
        /\ lcd' = lcd /\ dev' = dev /\ timer' = timer /\ crash' = crash
    BY DEF ProgramTimerInit
  <1>4. hist'.reset = TRUE /\ hist' = [hist EXCEPT !.reset = hist'.reset]
    BY <1>3 DEF IInv, TypeOK
  <1>. QED
    BY <1>1, <1>2, <1>3, <1>4, CallStep

\* A call that changes nothing but the script.
LEMMA PlainCallStep ==
    ASSUME IInv, NEW s, Call(s),
           NEW op \in {"Close", "Paint", "Shift", "Update", "Fetch", "Register"},
           Starts(s, op),
           op = "Close" => LcdInitialized,
           op = "Fetch" => s[1].cell = 1,
           op = "Register" => s[1].slot.callback = Other,
           ~HandlerPending(s),
           MarkPending(s) <=> op = "Paint"
    PROVE  IInv'
  <1>1. /\ Alive /\ Idle /\ script' = s /\ hist' = hist
        /\ lcd' = lcd /\ dev' = dev /\ timer' = timer /\ crash' = crash
    BY DEF Call
  <1>2. /\ hist'.reset \in BOOLEAN /\ hist' = [hist EXCEPT !.reset = hist'.reset]
        /\ hist'.reset = hist.reset
    BY <1>1, SameHist DEF IInv
  <1>. QED
    BY <1>1, <1>2, CallStep

\* The sequences of cells a drawing call may paint.
PaintedCells == {<<1>>, <<2>>, <<1, 2>>}

LEMMA DrawStep ==
    ASSUME IInv, NEW cells \in PaintedCells, NEW v \in 0..7, LcdDraw(cells, v)
    PROVE  IInv'
  <1>1. cells \in Seq(Cell) /\ cells # <<>>
    <2>1. 1 \in Cell /\ 2 \in Cell
      BY DEF Cell
    <2>2. <<1>> \in Seq(Cell) /\ <<2>> \in Seq(Cell) /\ <<1, 2>> \in Seq(Cell)
      BY <2>1
    <2>3. <<1>> # <<>> /\ <<2>> # <<>> /\ <<1, 2>> # <<>>
      OBVIOUS
    <2>4. cells = <<1>> \/ cells = <<2>> \/ cells = <<1, 2>>
      BY DEF PaintedCells
    <2>. QED
      BY <2>2, <2>3, <2>4
  <1>. DEFINE s == Paint(cells, v) \o Do("Mark")
  <1>2. Starts(s, "Paint") /\ ~HandlerPending(s) /\ MarkPending(s)
    BY <1>1, DrawScript
  <1>3. Call(s)
    BY DEF LcdDraw
  <1>. HIDE DEF s
  <1>. QED
    BY <1>2, <1>3, PlainCallStep

LEMMA OtherCallStep ==
    ASSUME IInv,
           \/ LcdExit \/ LcdRefresh \/ LcdUpdate \/ LcdGetFrameBuffer
           \/ \E c \in Cell : LcdScroll(c)
           \/ \E i \in Interval : ProgramCallback(i)
    PROVE  IInv'
  <1>1. CASE LcdExit
    <2>. DEFINE s == LcdCloseDevices \o Do("NoDisplay")
    <2>1. Starts(s, "Close") /\ ~HandlerPending(s) /\ ~MarkPending(s)
      BY ExitScript
    <2>2. Call(s) /\ LcdInitialized
      BY <1>1 DEF LcdExit
    <2>. HIDE DEF s
    <2>. QED
      BY <2>1, <2>2, PlainCallStep
  <1>2. CASE LcdRefresh
    <2>. DEFINE s == Do("Update")
    <2>1. Starts(s, "Update") /\ ~HandlerPending(s) /\ ~MarkPending(s)
      BY UpdateScripts
    <2>2. Call(s)
      BY <1>2 DEF LcdRefresh
    <2>. HIDE DEF s
    <2>. QED
      BY <2>1, <2>2, PlainCallStep
  <1>3. CASE LcdUpdate
    <2>. DEFINE s == Do("Update") \o Do("Clear")
    <2>1. Starts(s, "Update") /\ ~HandlerPending(s) /\ ~MarkPending(s)
      BY UpdateScripts
    <2>2. Call(s)
      BY <1>3 DEF LcdUpdate
    <2>. HIDE DEF s
    <2>. QED
      BY <2>1, <2>2, PlainCallStep
  <1>4. CASE LcdGetFrameBuffer
    <2>. DEFINE s == Each("Fetch") \o Each("Unconvert")
    <2>1. Starts(s, "Fetch") /\ s[1].cell = 1 /\ ~HandlerPending(s) /\ ~MarkPending(s)
      BY FetchScript
    <2>2. Call(s)
      BY <1>4 DEF LcdGetFrameBuffer
    <2>. HIDE DEF s
    <2>. QED
      BY <2>1, <2>2, PlainCallStep
  <1>5. ASSUME NEW c \in Cell, LcdScroll(c) PROVE IInv'
    <2>. DEFINE s == <<Step("Shift", c, 0, NoSlot)>> \o Paint(<<3 - c>>, 0)
    <2>1. Starts(s, "Shift") /\ ~HandlerPending(s) /\ ~MarkPending(s)
      BY ScrollScript
    <2>2. Call(s)
      BY <1>5 DEF LcdScroll
    <2>. HIDE DEF s
    <2>. QED
      BY <2>1, <2>2, PlainCallStep
  <1>6. ASSUME NEW i \in Interval, ProgramCallback(i) PROVE IInv'
    <2>. DEFINE a == Step("Register", 1, 0, Slot(i, 0, Other))
                s == <<a>>
    <2>1. /\ SetTimerCallback(i, Other) = s /\ a.op = "Register" /\ a.slot.callback = Other
          /\ Piece(s, a, a) /\ ~HandlerPending(s) /\ ~MarkPending(s)
      BY RegisterStep, NoSlotType
    <2>2. s[1] = a
      OBVIOUS
    <2>3. Call(s)
      BY <1>6, <2>1 DEF ProgramCallback
    <2>. HIDE DEF a, s
    <2>4. Starts(s, "Register")
      <3>1. Final(a)
        BY <2>1 DEF Final
      <3>. QED
        BY <2>1, <3>1, PieceStarts
    <2>. QED
      BY <2>1, <2>2, <2>3, <2>4, PlainCallStep
  <1>. QED
    BY <1>1, <1>2, <1>3, <1>4, <1>5, <1>6

LEMMA AutoRefreshStep ==
    ASSUME IInv, NEW on \in BOOLEAN, LcdSetAutoRefresh(on)
    PROVE  IInv'
  <1>1. /\ lcd' = [lcd EXCEPT !.autoRefresh = on]
        /\ dev' = dev /\ timer' = timer /\ script' = script /\ hist' = hist /\ crash' = crash
        /\ crash = "no"
    BY DEF LcdSetAutoRefresh, Alive
  <1>2. /\ lcd' \in LcdType /\ lcd'.displayBuf = lcd.displayBuf /\ lcd'.hwBuffer = lcd.hwBuffer
        /\ lcd'.Dirty = lcd.Dirty /\ lcd'.pFB0 = lcd.pFB0 /\ lcd'.DispFile = lcd.DispFile
    BY <1>1 DEF IInv, TypeOK, LcdType
  <1>3. TypeOK'
    BY <1>1, <1>2 DEF IInv, TypeOK
  <1>4. Linked(script') /\ PendingInv'
    BY <1>1 DEF IInv, PendingInv, HeadIs, HandlerPending, MarkPending
  <1>5. DeviceInv'
    BY <1>1, <1>2 DEF IInv, DeviceInv, HeadIs, LcdInitialized
  <1>6. TablesInv' /\ HandlerInv'
    BY <1>1, <1>2, TablesFrame, HandlerFrame DEF IInv, LcdInitialized
  <1>7. ScreenInv'
    BY <1>1, <1>2 DEF IInv, ScreenInv, HeadIs, At, Shown, Seen, Converted, Fetched, MarkPending
  <1>8. CrashesOnlyThere'
    BY <1>1 DEF CrashesOnlyThere
  <1>. QED
    BY <1>3, <1>4, <1>5, <1>6, <1>7, <1>8 DEF IInv

LEMMA ProgramStep ==
    ASSUME IInv, Program
    PROVE  IInv'
  <1>1. CASE LcdClean
    <2>1. <<1, 2>> \in PaintedCells /\ 0 \in 0..7 /\ LcdDraw(<<1, 2>>, 0)
      BY <1>1 DEF LcdClean, PaintedCells
    <2>. QED
      BY <2>1, DrawStep
  <1>2. ASSUME NEW v \in Pictures, NEW cells \in PaintedCells, LcdDraw(cells, v) PROVE IInv'
    <2>1. v \in 0..7
      BY LcdAssumption DEF LcdAssumption
    <2>. QED
      BY <1>2, <2>1, DrawStep
  <1>. QED
    BY <1>1, <1>2, InitCallStep, TimerInitCallStep, OtherCallStep, AutoRefreshStep DEF Program, PaintedCells

------------------------------------------------------------------------------
(***************************************************************************)
(* The steps that choose how a call goes on preserve the invariant.        *)
(***************************************************************************)

LEMMA UpdateScreenStep ==
    ASSUME IInv, DoUpdateScreen
    PROVE  IInv'
  <1>. DEFINE t == Tail(script)
              u == Each("Convert") \o Each("Copy") \o Do("Clear")
  <1>1. /\ lcd' = lcd /\ dev' = dev /\ timer' = timer /\ hist' = hist /\ crash = "no" /\ crash' = "no"
        /\ script \in Seq(Steps) /\ script # <<>> /\ Linked(script)
    BY DEF DoUpdateScreen, Alive, Idle, IInv, TypeOK
  <1>2. script[1] \in Steps /\ script[1].op = "Update" /\ t \in Seq(Steps)
    BY <1>1, TailIs DEF DoUpdateScreen
  <1>3. /\ Linked(t)
        /\ t # <<>> => t[1].op = "Clear"
    <2>1. Linked(t) /\ (t # <<>> => Follows(script[1], t[1]))
      BY <1>1, LinkedTail
    <2>. QED
      BY <1>2, <2>1 DEF Follows
  <1>4. script[1].slot.callback # Handler
    <2>1. Names(script[1])
      BY <1>1, LinkedTail
    <2>. QED
      BY <1>2, <2>1, NoSlotType DEF Names
  <1>5. /\ HandlerPending(script) <=> HandlerPending(t)
        /\ MarkPending(script) <=> MarkPending(t)
    BY <1>1, <1>2, <1>4, PendingTail
  <1>6. Piece(u, Plain("Convert", 1), Plain("Clear", 1)) /\ ~HandlerPending(u) /\ ~MarkPending(u)
    BY RefreshScript
  <1>7. /\ lcd.Dirty => script' = u \o t
        /\ ~lcd.Dirty => script' = <<>> \o t
    BY DEF DoUpdateScreen
  <1>. HIDE DEF t, u
  <1>8. <<>> \o t = t
    BY <1>2
  <1>9. /\ script' \in Seq(Steps) /\ Linked(script')
        /\ HandlerPending(script') <=> HandlerPending(script)
        /\ MarkPending(script') <=> MarkPending(script)
        /\ script' # <<>> => IF lcd.Dirty THEN script'[1].op = "Convert" /\ script'[1].cell = 1
                                          ELSE script'[1].op = "Clear"
    <2>1. CASE ~lcd.Dirty
      BY <1>2, <1>3, <1>5, <1>7, <1>8, <2>1
    <2>. DEFINE a == Plain("Convert", 1)
                z == Plain("Clear", 1)
    <2>2. a.op = "Convert" /\ a.cell = 1 /\ z.op = "Clear"
      BY PlainIs
    <2>3. Piece(u, a, z)
      BY <1>6
    <2>. HIDE DEF a, z
    <2>4. Final(z)
      BY <2>2 DEF Final
    <2>5. CASE lcd.Dirty /\ t = <<>>
      <3>1. script' = u
        <4>1. u \in Seq(Steps)
          BY <2>3 DEF Piece
        <4>. QED
          BY <1>7, <2>5, <4>1
      <3>2. u \in Seq(Steps) /\ Linked(u) /\ u[1] = a
        BY <2>3, <2>4 DEF Piece, Linked
      <3>. QED
        BY <1>5, <1>6, <2>2, <2>5, <3>1, <3>2, NothingPending
    <2>6. CASE lcd.Dirty /\ t # <<>>
      <3>. DEFINE y == t[Len(t)]
                  x == t[1]
      <3>1. Piece(t, x, y) /\ Final(y)
        BY <1>2, <1>3, <2>6 DEF Piece, Linked
      <3>2. x.op = "Clear"
        BY <1>3, <2>6
      <3>. HIDE DEF x, y
      <3>3. Follows(z, x)
        BY <2>2, <3>2 DEF Follows
      <3>4. /\ Piece(u \o t, a, y)
            /\ HandlerPending(u \o t) <=> HandlerPending(u) \/ HandlerPending(t)
            /\ MarkPending(u \o t) <=> MarkPending(u) \/ MarkPending(t)
        BY <2>3, <3>1, <3>3, Join
      <3>. DEFINE w == u \o t
      <3>5. w \in Seq(Steps) /\ Linked(w) /\ w[1] = a
        BY <3>1, <3>4 DEF Piece, Linked
      <3>6. script' = w
        BY <1>7, <2>6
      <3>7. (HandlerPending(w) <=> HandlerPending(t)) /\ (MarkPending(w) <=> MarkPending(t))
        BY <1>6, <3>4
      <3>. HIDE DEF w
      <3>. QED
        BY <1>5, <2>2, <2>6, <3>5, <3>6, <3>7
    <2>. QED
      BY <2>1, <2>5, <2>6
  <1>10. TypeOK'
    BY <1>1, <1>9 DEF IInv, TypeOK
  <1>11. PendingInv'
    BY <1>9 DEF PendingInv, HeadIs
  <1>12. DeviceInv'
    <2>1. /\ dev.open = hist.leaks + (IF LcdInitialized THEN 1 ELSE 0)
          /\ dev.mapped = LcdInitialized
          /\ lcd.DispFile = "none" \/ lcd.DispFile = "static" => lcd.pFB0 = NULL
      BY <1>1, <1>2 DEF IInv, DeviceInv, HeadIs, LcdInitialized
    <2>. QED
      BY <1>1, <1>9, <2>1 DEF DeviceInv, HeadIs, LcdInitialized
  <1>13. TablesInv'
    <2>1. HeadOp = "Update" /\ HeadOp' \in {"none", "Convert", "Clear"}
      BY <1>1, <1>2, <1>9 DEF HeadOp
    <2>2. Tables(timer.count, timer.callBack, "Update", script[1].slot.interval,
                 script[1].slot.index, script[1].slot.callback, Len(script))
      BY <2>1, TablesIs DEF IInv
    <2>3. "Update" \notin TableOps /\ HeadOp' \notin TableOps
      BY <2>1 DEF TableOps
    <2>4. Tables(timer.count, timer.callBack, HeadOp', script'[1].slot.interval,
                 script'[1].slot.index, script'[1].slot.callback, Len(script'))
      BY <2>2, <2>3, TablesPlain
    <2>. QED
      BY <1>1, <1>9, <2>4, TablesIsNext
  <1>14. HandlerInv'
    <2>1. LcdInitialized /\ ~hist.reset /\ ~HandlerPending(script) => Once(timer.count, timer.callBack)
      BY HandlerIs DEF IInv
    <2>2. LcdInitialized' = LcdInitialized
      BY <1>1 DEF LcdInitialized
    <2>. QED
      BY <1>1, <1>9, <2>1, <2>2, HandlerIsNext
  <1>15. ScreenInv'
    <2>1. ~lcd.Dirty /\ ~hist.unmarked /\ ~MarkPending(script) => Shown
      BY DEF IInv, ScreenInv
    <2>2. Shown' = Shown
      BY <1>1 DEF Shown, Seen
    <2>3. ~lcd'.Dirty /\ ~hist'.unmarked /\ ~MarkPending(script') => Shown'
      BY <1>1, <1>9, <2>1, <2>2
    <2>4. /\ ~At("Convert", 2)' /\ ~HeadIs("Copy")' /\ ~At("Copy", 2)' /\ (HeadIs("Clear")' => ~lcd'.Dirty)
          /\ ~At("Fetch", 2)' /\ ~At("Unconvert", 1)' /\ ~HeadIs("Unconvert")' /\ ~HeadIs("Open")'
      BY <1>1, <1>9 DEF At, HeadIs
    <2>. QED
      BY <2>3, <2>4 DEF ScreenInv
  <1>16. CrashesOnlyThere'
    BY <1>1 DEF CrashesOnlyThere
  <1>. QED
    BY <1>9, <1>10, <1>11, <1>12, <1>13, <1>14, <1>15, <1>16 DEF IInv

LEMMA OpenStep ==
    ASSUME IInv, OpenDevice
    PROVE  IInv'
  <1>. DEFINE t == Tail(script)
  <1>1. /\ timer' = timer /\ crash = "no" /\ crash' = "no"
        /\ script \in Seq(Steps) /\ script # <<>> /\ Linked(script)
    BY DEF OpenDevice, Alive, Idle, IInv, TypeOK
  <1>2. script[1] \in Steps /\ script[1].op = "Open" /\ t \in Seq(Steps)
    BY <1>1, TailIs DEF OpenDevice
  <1>3. Linked(t) /\ t # <<>> /\ t[1].op = "Mapped"
    <2>1. /\ Linked(t) /\ (t # <<>> => Follows(script[1], t[1]))
          /\ t = <<>> => Final(script[1])
      BY <1>1, LinkedTail
    <2>2. t # <<>>
      BY <1>2, <2>1 DEF Final
    <2>. QED
      BY <1>2, <2>1, <2>2 DEF Follows
  <1>4. /\ HandlerPending(t)
        /\ MarkPending(script) <=> MarkPending(t)
    <2>1. Names(script[1])
      BY <1>1, LinkedTail
    <2>2. script[1].slot.callback # Handler
      BY <1>2, <2>1, NoSlotType DEF Names
    <2>3. HandlerPending(script)
      BY <1>1, <1>2 DEF IInv, PendingInv, HeadIs
    <2>. QED
      BY <1>1, <1>2, <2>2, <2>3, PendingTail
  <1>5. /\ lcd \in LcdType /\ dev \in DevType /\ hist \in [unmarked : BOOLEAN, reset : BOOLEAN, leaks : Nat]
        /\ dev.open \in Int /\ hist.leaks \in Nat
    BY DEF IInv, TypeOK, DevType
  <1>6. /\ dev.open = hist.leaks /\ dev.mapped = FALSE /\ lcd.pFB0 = NULL /\ hist.unmarked
    <2>1. HeadIs("Open") /\ ~HeadIs("Mapped")
      BY <1>1, <1>2 DEF HeadIs
    <2>2. lcd.pFB0 = NULL /\ hist.unmarked
      BY <2>1 DEF IInv, DeviceInv, ScreenInv
    <2>3. ~LcdInitialized
      BY <2>2 DEF LcdInitialized
    <2>4. dev.open = hist.leaks
      BY <1>5, <2>1, <2>3 DEF IInv, DeviceInv
    <2>5. dev.mapped = FALSE
      BY <2>1, <2>3 DEF IInv, DeviceInv
    <2>. QED
      BY <2>2, <2>4, <2>5
  <1>. HIDE DEF t
  <1>7. /\ lcd'.pFB0 = NULL /\ lcd'.displayBuf = lcd.displayBuf /\ lcd'.hwBuffer = lcd.hwBuffer
        /\ lcd'.Dirty = lcd.Dirty /\ dev'.fb = dev.fb
        /\ hist'.unmarked = hist.unmarked
        /\ lcd' \in LcdType /\ dev' \in DevType
        /\ hist' \in [unmarked : BOOLEAN, reset : BOOLEAN, leaks : Nat]
        /\ \/ /\ script' = <<>> /\ dev'.open = hist'.leaks /\ dev'.mapped = FALSE
           \/ /\ script' = t /\ dev'.open = hist'.leaks + 1 /\ dev'.mapped = TRUE
              /\ lcd'.DispFile = "open"
    <2>1. CASE script' = <<>> /\ UNCHANGED <<lcd, dev, hist>>
      BY <1>5, <1>6, <2>1
    <2>2. CASE /\ dev' = [dev EXCEPT !.open = dev.open + 1]
               /\ lcd' = [lcd EXCEPT !.DispFile = "open"]
               /\ hist' = [hist EXCEPT !.leaks = hist.leaks + 1]
               /\ script' = <<>>
      <3>1. lcd' \in LcdType /\ lcd'.pFB0 = NULL /\ lcd'.displayBuf = lcd.displayBuf
            /\ lcd'.hwBuffer = lcd.hwBuffer /\ lcd'.Dirty = lcd.Dirty
        BY <1>5, <1>6, <2>2 DEF LcdType
      <3>2. dev' \in DevType /\ dev'.open = dev.open + 1 /\ dev'.mapped = FALSE /\ dev'.fb = dev.fb
        BY <1>5, <1>6, <2>2 DEF DevType
      <3>3. /\ hist' \in [unmarked : BOOLEAN, reset : BOOLEAN, leaks : Nat]
            /\ hist'.leaks = hist.leaks + 1 /\ hist'.unmarked = hist.unmarked
        BY <1>5, <2>2
      <3>. QED
        BY <1>6, <2>2, <3>1, <3>2, <3>3
    <2>3. CASE /\ dev' = [dev EXCEPT !.open = dev.open + 1, !.mapped = TRUE]
               /\ lcd' = [lcd EXCEPT !.DispFile = "open"]
               /\ hist' = hist
               /\ script' = t
      <3>1. lcd' \in LcdType /\ lcd'.pFB0 = NULL /\ lcd'.displayBuf = lcd.displayBuf
            /\ lcd'.hwBuffer = lcd.hwBuffer /\ lcd'.Dirty = lcd.Dirty /\ lcd'.DispFile = "open"
        BY <1>5, <1>6, <2>3 DEF LcdType
      <3>2. dev' \in DevType /\ dev'.open = dev.open + 1 /\ dev'.mapped = TRUE /\ dev'.fb = dev.fb
        <4>1. dev'.open = dev.open + 1 /\ dev'.mapped = TRUE /\ dev'.fb = dev.fb
          BY <1>5, <2>3 DEF DevType
        <4>2. dev' \in DevType
          <5>. DEFINE e == [dev EXCEPT !.open = dev.open + 1]
          <5>1. e \in DevType
            BY <1>5 DEF DevType
          <5>2. dev' = [e EXCEPT !.mapped = TRUE]
            BY <2>3
          <5>. HIDE DEF e
          <5>. QED
            BY <5>1, <5>2 DEF DevType
        <4>. QED
          BY <4>1, <4>2
      <3>. QED
        BY <1>5, <1>6, <2>3, <3>1, <3>2
    <2>. QED
      BY <2>1, <2>2, <2>3 DEF OpenDevice, t
  <1>8. /\ script' \in Seq(Steps) /\ Linked(script')
        /\ script' # <<>> => /\ script' = t /\ script'[1].op = "Mapped" /\ HandlerPending(script')
                             /\ dev'.open = hist'.leaks + 1 /\ dev'.mapped = TRUE
                             /\ lcd'.DispFile = "open"
        /\ script' = <<>> => dev'.open = hist'.leaks /\ dev'.mapped = FALSE
    <2>1. <<>> \in Seq(Steps) /\ Len(<<>>) = 0
      OBVIOUS
    <2>2. Linked(<<>>)
      BY <2>1 DEF Linked, Chain
    <2>. QED
      BY <1>2, <1>3, <1>4, <1>7, <2>1, <2>2
  <1>9. TypeOK'
    BY <1>1, <1>7, <1>8 DEF IInv, TypeOK
  <1>10. PendingInv'
    BY <1>8 DEF PendingInv, HeadIs
  <1>11. DeviceInv'
    BY <1>7, <1>8 DEF DeviceInv, HeadIs, LcdInitialized, DevType
  <1>12. TablesInv'
    <2>1. HeadOp = "Open" /\ HeadOp' \in {"none", "Mapped"}
      BY <1>1, <1>2, <1>8 DEF HeadOp
    <2>2. Tables(timer.count, timer.callBack, "Open", script[1].slot.interval,
                 script[1].slot.index, script[1].slot.callback, Len(script))
      BY <2>1, TablesIs DEF IInv
    <2>3. "Open" \notin TableOps /\ HeadOp' \notin TableOps
      BY <2>1 DEF TableOps
    <2>4. Tables(timer.count, timer.callBack, HeadOp', script'[1].slot.interval,
                 script'[1].slot.index, script'[1].slot.callback, Len(script'))
      BY <2>2, <2>3, TablesPlain
    <2>. QED
      BY <1>1, <1>8, <2>4, TablesIsNext
  <1>13. HandlerInv'
    <2>1. ~LcdInitialized'
      BY <1>7 DEF LcdInitialized
    <2>. QED
      BY <1>8, <2>1, HandlerIsNext
  <1>14. ScreenInv'
    <2>1. /\ ~At("Convert", 2)' /\ ~HeadIs("Copy")' /\ ~At("Copy", 2)' /\ ~HeadIs("Clear")'
          /\ ~At("Fetch", 2)' /\ ~At("Unconvert", 1)' /\ ~HeadIs("Unconvert")' /\ ~HeadIs("Open")'
      BY <1>8 DEF At, HeadIs
    <2>2. hist'.unmarked
      BY <1>6, <1>7
    <2>. QED
      BY <2>1, <2>2 DEF ScreenInv
  <1>15. CrashesOnlyThere'
    BY <1>1 DEF CrashesOnlyThere
  <1>. QED
    BY <1>8, <1>9, <1>10, <1>11, <1>12, <1>13, <1>14, <1>15 DEF IInv

LEMMA RegisterStepInv ==
    ASSUME IInv, Register
    PROVE  IInv'
  <1>. DEFINE s == script[1]
              i == s.slot.interval
              n == timer.count[i]
              f == s.slot.callback
              st == Step("Store", 1, 0, [s.slot EXCEPT !.index = n + 1])
              ic == Step("Count", 1, 0, s.slot)
  <1>1. /\ lcd' = lcd /\ dev' = dev /\ timer' = timer /\ hist' = hist /\ crash = "no"
        /\ script \in Seq(Steps) /\ script # <<>> /\ Linked(script)
    BY DEF Register, Alive, Idle, IInv, TypeOK
  <1>2. s \in Steps /\ s.op = "Register" /\ Tail(script) \in Seq(Steps) /\ Head(script) = s
    BY <1>1, TailIs DEF Register
  <1>3. Tail(script) = <<>> /\ Names(s)
    BY <1>1, <1>2, LinkedTail DEF Follows
  <1>4. /\ f \in {Handler, Other} /\ i \in Interval /\ s.slot \in Slots /\ n \in Nat
        /\ MaxCallbacks \in Nat \ {0}
    <2>1. s.slot \in Slots
      BY <1>2 DEF Steps
    <2>2. i \in Interval /\ f \in Callbacks
      BY <2>1 DEF Slots
    <2>3. f # NULL
      BY <1>2, <1>3 DEF Names
    <2>4. timer.count \in [Interval -> Nat]
      BY DEF IInv, TypeOK, TimerType
    <2>. QED
      BY <2>1, <2>2, <2>3, <2>4, LcdAssumption DEF Callbacks, LcdAssumption
  <1>5. HeadOp = "Register"
    BY <1>1, <1>2 DEF HeadOp
  <1>6. Tables(timer.count, timer.callBack, "Register", i, s.slot.index, f, Len(script))
    BY <1>5, TablesIs DEF IInv
  <1>7. f = Handler => n = 0 /\ Nowhere(timer.count, timer.callBack)
    <2>1. f = Handler => n = 0
      BY <1>4, <1>6 DEF Tables
    <2>. QED
      BY <1>1, <1>2, <2>1, HandlerIs DEF IInv
  <1>8. /\ HandlerPending(script) <=> f = Handler
        /\ ~MarkPending(script)
    <2>1. HandlerPending(script) => HandlerPending(<<>>) \/ f = Handler
      BY <1>1, <1>3, PendingTail
    <2>2. f = Handler => HandlerPending(script)
      BY <1>1, TailIs DEF HandlerPending
    <2>3. MarkPending(script) => MarkPending(<<>>) \/ s.op = "Mark"
      BY <1>1, <1>3, PendingTail
    <2>. QED
      BY <1>2, <2>1, <2>2, <2>3, NothingPending
  <1>9. CASE n >= MaxCallbacks
    <2>1. crash' = "table" /\ script' = script
      BY <1>2, <1>9 DEF Register
    <2>2. f = Other
      BY <1>4, <1>7, <1>9
    <2>3. TypeOK'
      BY <1>1, <2>1 DEF IInv, TypeOK
    <2>4. Linked(script') /\ PendingInv'
      BY <1>1, <2>1 DEF IInv, PendingInv, HeadIs, HandlerPending, MarkPending
    <2>5. DeviceInv'
      BY <1>1, <2>1 DEF IInv, DeviceInv, HeadIs, LcdInitialized
    <2>6. TablesInv' /\ HandlerInv'
      BY <1>1, <2>1, TablesFrame, HandlerFrame DEF IInv, LcdInitialized
    <2>7. ScreenInv'
      BY <1>1, <2>1 DEF IInv, ScreenInv, HeadIs, At, Shown, Seen, Converted, Fetched, MarkPending
    <2>8. CrashesOnlyThere'
      BY <1>2, <2>1, <2>2 DEF CrashesOnlyThere
    <2>. QED
      BY <2>3, <2>4, <2>5, <2>6, <2>7, <2>8 DEF IInv
  <1>10. CASE n < MaxCallbacks
    <2>1. crash' = "no" /\ script' \in {<<st>> \o <<ic>> \o <<>>, <<ic>> \o <<st>> \o <<>>}
      <3>1. /\ crash' = crash
            /\ script' \in {<<Step("Store", 1, 0, [Head(script).slot EXCEPT
                                !.index = timer.count[Head(script).slot.interval] + 1])>>
                             \o <<Step("Count", 1, 0, Head(script).slot)>> \o Tail(script),
                            <<Step("Count", 1, 0, Head(script).slot)>>
                             \o <<Step("Store", 1, 0, [Head(script).slot EXCEPT
                                   !.index = timer.count[Head(script).slot.interval] + 1])>>
                             \o Tail(script)}
        <4>1. ~(timer.count[Head(script).slot.interval] >= MaxCallbacks)
          BY <1>2, <1>4, <1>10
        <4>. QED
          BY <4>1 DEF Register
      <3>2. st = Step("Store", 1, 0, [Head(script).slot EXCEPT
                                !.index = timer.count[Head(script).slot.interval] + 1])
            /\ ic = Step("Count", 1, 0, Head(script).slot)
        BY <1>2
      <3>. HIDE DEF st, ic
      <3>3. script' \in {<<st>> \o <<ic>> \o Tail(script), <<ic>> \o <<st>> \o Tail(script)}
        BY <3>1, <3>2
      <3>. QED
        BY <1>1, <1>3, <3>1, <3>3
    <2>2. /\ st \in Steps /\ st.op = "Store" /\ st.slot.interval = i /\ st.slot.index = n + 1
          /\ st.slot.callback = f
      <3>. DEFINE sl == [s.slot EXCEPT !.index = n + 1]
      <3>1. sl \in Slots /\ sl.interval = i /\ sl.index = n + 1 /\ sl.callback = f
        BY <1>4, <1>10 DEF Slots
      <3>2. st = Step("Store", 1, 0, sl)
        OBVIOUS
      <3>. HIDE DEF sl, st
      <3>3. st.op = "Store" /\ st.slot = sl /\ st \in Steps
        BY <3>1, <3>2 DEF Step, Steps, Ops, Cell
      <3>. QED
        BY <3>1, <3>3
    <2>3. ic \in Steps /\ ic.op = "Count" /\ ic.slot = s.slot
      BY <1>4 DEF Step, Steps, Ops, Cell
    <2>. HIDE DEF st, ic
    <2>4. Names(st) /\ Names(ic) /\ f # NULL
      BY <1>4, <2>2, <2>3, NoSlotType DEF Names
    <2>5. Follows(st, ic) /\ Follows(ic, st) /\ Final(st) /\ Final(ic)
      BY <2>2, <2>3 DEF Follows, Final
    <2>6. /\ <<st>> \in Seq(Steps) /\ <<ic>> \in Seq(Steps) /\ Len(<<st>>) = 1 /\ Len(<<ic>>) = 1
          /\ <<st>>[1] = st /\ <<ic>>[1] = ic
      BY <2>2, <2>3
    <2>. DEFINE p == <<st>> \o <<ic>>
                q == <<ic>> \o <<st>>
    <2>7. /\ Piece(p, st, ic) /\ (HandlerPending(p) <=> f = Handler) /\ ~MarkPending(p)
          /\ Piece(q, ic, st) /\ (HandlerPending(q) <=> f = Handler) /\ ~MarkPending(q)
      <3>1. /\ Piece(<<st>>, st, st) /\ (HandlerPending(<<st>>) <=> f = Handler) /\ ~MarkPending(<<st>>)
            /\ Piece(<<ic>>, ic, ic) /\ (HandlerPending(<<ic>>) <=> f = Handler) /\ ~MarkPending(<<ic>>)
        BY <2>2, <2>3, <2>4, Single
      <3>. DEFINE x == <<st>>
                  y == <<ic>>
      <3>. HIDE DEF x, y
      <3>2. /\ Piece(x, st, st) /\ (HandlerPending(x) <=> f = Handler) /\ ~MarkPending(x)
            /\ Piece(y, ic, ic) /\ (HandlerPending(y) <=> f = Handler) /\ ~MarkPending(y)
        BY <3>1 DEF x, y
      <3>3. /\ Piece(x \o y, st, ic) /\ (HandlerPending(x \o y) <=> f = Handler) /\ ~MarkPending(x \o y)
        BY <2>5, <3>2, Join
      <3>4. /\ Piece(y \o x, ic, st) /\ (HandlerPending(y \o x) <=> f = Handler) /\ ~MarkPending(y \o x)
        BY <2>5, <3>2, Join
      <3>. QED
        BY <3>3, <3>4 DEF x, y
    <2>8. p \in Seq(Steps) /\ Len(p) = 2 /\ p[1] = st /\ p[2] = ic
      BY <2>6
    <2>9. q \in Seq(Steps) /\ Len(q) = 2 /\ q[1] = ic /\ q[2] = st
      BY <2>6
    <2>10. script' \in {p, q}
      <3>1. p \o <<>> = p /\ q \o <<>> = q
        BY <2>8, <2>9
      <3>. QED
        BY <2>1, <3>1
    <2>. HIDE DEF p, q
    <2>11. /\ script' \in Seq(Steps) /\ Linked(script') /\ script' # <<>> /\ Len(script') = 2
           /\ HandlerPending(script') <=> f = Handler
           /\ ~MarkPending(script')
           /\ \/ script'[1] = st /\ script'[2] = ic
              \/ script'[1] = ic /\ script'[2] = st
      BY <2>5, <2>7, <2>8, <2>9, <2>10 DEF Piece, Linked
    <2>12. script'[1].op \in {"Store", "Count"} /\ script'[1].slot.callback = f
      BY <2>2, <2>3, <2>11
    <2>13. TypeOK'
      BY <1>1, <2>1, <2>11 DEF IInv, TypeOK
    <2>14. PendingInv'
      BY <2>12 DEF PendingInv, HeadIs
    <2>15. DeviceInv'
      <3>1. /\ dev.open = hist.leaks + (IF LcdInitialized THEN 1 ELSE 0)
            /\ dev.mapped = LcdInitialized
            /\ lcd.DispFile = "none" \/ lcd.DispFile = "static" => lcd.pFB0 = NULL
        BY <1>1, <1>2 DEF IInv, DeviceInv, HeadIs, LcdInitialized
      <3>. QED
        BY <1>1, <2>12, <3>1 DEF DeviceInv, HeadIs, LcdInitialized
    <2>16. TablesInv'
      <3>1. timer.callBack[i][n + 1] = NULL
        BY <1>4, <1>6, <1>10 DEF Tables
      <3>2. CASE script'[1] = st
        <4>1. HeadOp' = "Store"
          BY <2>2, <2>11, <3>2 DEF HeadOp
        <4>2. Tables(timer.count, timer.callBack, "Store", i, n + 1, f, 2)
          BY <1>4, <1>6, <1>10, <3>1 DEF Tables
        <4>. QED
          BY <1>1, <2>2, <2>11, <3>2, <4>1, <4>2, TablesIsNext
      <3>3. CASE script'[1] = ic /\ script'[2] = st
        <4>1. HeadOp' = "Count"
          BY <2>3, <2>11, <3>3 DEF HeadOp
        <4>2. Tables(timer.count, timer.callBack, "Count", i, s.slot.index, f, 2)
          BY <1>4, <1>6, <1>10, <3>1 DEF Tables
        <4>. QED
          BY <1>1, <2>2, <2>3, <2>11, <3>3, <4>1, <4>2, TablesIsNext
      <3>. QED
        BY <2>11, <3>2, <3>3
    <2>17. HandlerInv'
      <3>1. LcdInitialized /\ ~hist.reset /\ f # Handler => Once(timer.count, timer.callBack)
        BY <1>8, HandlerIs DEF IInv
      <3>2. LcdInitialized' = LcdInitialized
        BY <1>1 DEF LcdInitialized
      <3>. QED
        BY <1>1, <1>7, <2>11, <2>12, <3>1, <3>2, HandlerIsNext
    <2>18. ScreenInv'
      <3>1. ~lcd.Dirty /\ ~hist.unmarked => Shown
        BY <1>8 DEF IInv, ScreenInv
      <3>2. Shown' = Shown
        BY <1>1 DEF Shown, Seen
      <3>3. ~lcd'.Dirty /\ ~hist'.unmarked => Shown'
        BY <1>1, <3>1, <3>2
      <3>4. /\ ~At("Convert", 2)' /\ ~HeadIs("Copy")' /\ ~At("Copy", 2)' /\ ~HeadIs("Clear")'
            /\ ~At("Fetch", 2)' /\ ~At("Unconvert", 1)' /\ ~HeadIs("Unconvert")' /\ ~HeadIs("Open")'
        BY <2>12 DEF At, HeadIs
      <3>. QED
        BY <3>3, <3>4 DEF ScreenInv
    <2>19. CrashesOnlyThere'
      BY <2>1 DEF CrashesOnlyThere
    <2>. QED
      BY <2>11, <2>13, <2>14, <2>15, <2>16, <2>17, <2>18, <2>19 DEF IInv
  <1>. QED
    BY <1>4, <1>9, <1>10

------------------------------------------------------------------------------
(***************************************************************************)
(* The theorems.                                                           *)
(***************************************************************************)

LEMMA InitIInv ==
    ASSUME Init
    PROVE  IInv
  <1>1. /\ lcd = [Dirty |-> FALSE, DispFile |-> "static", pFB0 |-> NULL, pLcd |-> NULL,
                  autoRefresh |-> FALSE, displayBuf |-> [c \in Cell |-> 0],
                  hwBuffer |-> [c \in Cell |-> 0]]
        /\ timer = [callBack |-> [i \in Interval |-> [k \in 1..MaxCallbacks |-> NULL]],
                    count |-> [i \in Interval |-> 0], counter |-> 0, ticking |-> FALSE]
        /\ script = <<>> /\ crash = "no"
        /\ hist = [unmarked |-> TRUE, reset |-> FALSE, leaks |-> 0]
    BY DEF Init
  <1>2. PICK v \in Pictures : dev = [fb |-> [c \in Cell |-> Lit(v)], open |-> 0, mapped |-> FALSE]
    BY DEF Init
  <1>3. v \in 0..7 /\ Lit(v) \in LitBytes /\ 0 \in LitBytes
    <2>1. v \in 0..7 /\ 0 \in 0..7
      BY LcdAssumption DEF LcdAssumption
    <2>2. Lit(0) = 0
      BY DEF Lit, PixelTab
    <2>. QED
      BY <2>1, <2>2, Lits
  <1>4. TypeOK
    <2>1. lcd \in LcdType
      BY <1>1, <1>3 DEF LcdType
    <2>2. dev \in DevType
      BY <1>2, <1>3 DEF DevType
    <2>3. timer \in TimerType
      BY <1>1 DEF TimerType, Callbacks
    <2>4. script \in Seq(Steps)
      BY <1>1
    <2>. QED
      BY <1>1, <2>1, <2>2, <2>3, <2>4 DEF TypeOK
  <1>5. ASSUME NEW op PROVE ~HeadIs(op)
    BY <1>1 DEF HeadIs
  <1>6. Linked(script) /\ PendingInv
    <2>1. Len(<<>>) = 0
      OBVIOUS
    <2>. QED
      BY <1>1, <1>5, <2>1 DEF Linked, Chain, PendingInv
  <1>7. ~LcdInitialized
    BY <1>1 DEF LcdInitialized
  <1>8. DeviceInv
    <2>1. dev.open = 0 /\ dev.mapped = FALSE /\ hist.leaks = 0 /\ lcd.pFB0 = NULL
      BY <1>1, <1>2
    <2>2. dev.open = hist.leaks +
           (IF HeadIs("Mapped") \/ (LcdInitialized /\ ~HeadIs("Unmap") /\ ~HeadIs("Forget"))
              THEN 1 ELSE 0)
      BY <1>5, <1>7, <2>1
    <2>3. dev.mapped = (HeadIs("Mapped") \/ (LcdInitialized /\ ~HeadIs("Forget")))
      BY <1>5, <1>7, <2>1
    <2>. QED
      BY <1>5, <2>1, <2>2, <2>3 DEF DeviceInv
  <1>9. TablesInv
    BY <1>1, <1>5, LcdAssumption DEF TablesInv, LcdAssumption
  <1>10. HandlerInv
    BY <1>5, <1>7 DEF HandlerInv
  <1>11. ScreenInv
    BY <1>1, <1>5 DEF ScreenInv, At
  <1>12. CrashesOnlyThere
    BY <1>1 DEF CrashesOnlyThere
  <1>. QED
    BY <1>4, <1>6, <1>8, <1>9, <1>10, <1>11, <1>12 DEF IInv

LEMMA NextIInv ==
    ASSUME IInv, [Next]_vars
    PROVE  IInv'
  <1>1. CASE Next
    BY <1>1, SignalStep, ProceedStep, UpdateScreenStep, OpenStep, RegisterStepInv, ProgramStep DEF Next
  <1>2. CASE UNCHANGED vars
    <2>1. /\ lcd' = lcd /\ dev' = dev /\ timer' = timer /\ script' = script /\ hist' = hist
          /\ crash' = crash
      BY <1>2 DEF vars
    <2>2. TypeOK' /\ Linked(script')
      BY <2>1 DEF IInv, TypeOK
    <2>3. PendingInv' /\ CrashesOnlyThere'
      BY <2>1 DEF IInv, PendingInv, HeadIs, HandlerPending, MarkPending, CrashesOnlyThere
    <2>4. DeviceInv'
      BY <2>1 DEF IInv, DeviceInv, HeadIs, LcdInitialized
    <2>5. TablesInv' /\ HandlerInv'
      BY <2>1, TablesFrame, HandlerFrame DEF IInv, LcdInitialized
    <2>6. ScreenInv'
      BY <2>1 DEF IInv, ScreenInv, HeadIs, At, Shown, Seen, Converted, Fetched, MarkPending
    <2>. QED
      BY <2>2, <2>3, <2>4, <2>5, <2>6 DEF IInv
  <1>. QED
    BY <1>1, <1>2

LEMMA Invariant == Spec => []IInv
  <1>1. Init => IInv
    BY InitIInv
  <1>2. IInv /\ [Next]_vars => IInv'
    BY NextIInv
  <1>. QED
    BY <1>1, <1>2, PTL DEF Spec

\* The variables keep their types: in particular the frame buffer and hwBuffer
\* hold nothing but bytes of PixelTab, so that UnPixelTab loses nothing.
THEOREM TypeCorrect == Spec => []TypeOK
  <1>1. IInv => TypeOK
    BY DEF IInv
  <1>. QED
    BY <1>1, Invariant, PTL

\* However the 10 ms signal falls between the steps of the calls, it crashes
\* the program at two places only: where SetTimerCallback has counted a
\* callback it has not stored, and where LcdExit has unmapped the frame buffer
\* and not cleared pFB0.  The table overflows for the program's callbacks only.
THEOREM SignalSafe == Spec => []CrashesOnlyThere
  <1>1. IInv => CrashesOnlyThere
    BY DEF IInv
  <1>. QED
    BY <1>1, Invariant, PTL

\* Between calls the descriptors open on the frame buffer are the library's
\* one and those lost with failed mmaps, the mapping is there exactly while the
\* library is initialised, and LcdUpdateHandler is registered exactly once
\* unless the program called TimerInit.
THEOREM ResourcesCorrect == Spec => []ResourcesKept
  <1>1. ASSUME IInv PROVE ResourcesKept
    <2>1. DescriptorsCounted
      <3>1. ASSUME script = <<>>, NEW op PROVE ~HeadIs(op)
        BY <3>1 DEF HeadIs
      <3>2. ASSUME script = <<>> PROVE dev.open = hist.leaks + (IF LcdInitialized THEN 1 ELSE 0)
        BY <1>1, <3>1, <3>2 DEF IInv, DeviceInv
      <3>3. ASSUME script = <<>> PROVE dev.mapped = LcdInitialized
        BY <1>1, <3>1, <3>3 DEF IInv, DeviceInv, LcdInitialized
      <3>. QED
        BY <3>2, <3>3 DEF DescriptorsCounted, Idle
    <2>2. RegisteredOnce
      <3>. SUFFICES ASSUME script = <<>>, LcdInitialized, ~hist.reset
                    PROVE  Cardinality({s \in Interval \X (1..MaxCallbacks) :
                                          /\ s[2] <= timer.count[s[1]]
                                          /\ timer.callBack[s[1]][s[2]] = Handler}) = 1
        BY DEF RegisteredOnce, Idle
      <3>. DEFINE S == {s \in Interval \X (1..MaxCallbacks) :
                          /\ s[2] <= timer.count[s[1]]
                          /\ timer.callBack[s[1]][s[2]] = Handler}
      <3>1. PICK i \in Interval, k \in 1..MaxCallbacks :
              /\ Registered(i, k)
              /\ \A j \in Interval, l \in 1..MaxCallbacks : Registered(j, l) => j = i /\ l = k
        BY <1>1, NothingPending DEF IInv, HandlerInv
      <3>2. <<i, k>> \in S
        BY <3>1 DEF Registered
      <3>3. ASSUME NEW s \in S PROVE s = <<i, k>>
        <4>1. s[1] \in Interval /\ s[2] \in 1..MaxCallbacks /\ s = <<s[1], s[2]>> /\ Registered(s[1], s[2])
          BY DEF Registered
        <4>. QED
          BY <3>1, <4>1
      <3>4. S = {<<i, k>>}
        BY <3>2, <3>3
      <3>. HIDE DEF S
      <3>5. Cardinality(S) = 1
        BY <3>4, FS_Singleton
      <3>. QED
        BY <3>5 DEF S
    <2>. QED
      BY <2>1, <2>2 DEF ResourcesKept
  <1>. QED
    BY <1>1, Invariant, PTL

\* Between calls a display that was drawn, marked and is no longer dirty is
\* seen on the frame buffer as it stands in displayBuf, whatever the handler
\* and the program's own refreshes did to the shared hwBuffer in between.
THEOREM ScreenCorrect == Spec => []ShownUnlessDirty
  <1>1. IInv => ShownUnlessDirty
    <2>. SUFFICES ASSUME IInv, script = <<>>, ~lcd.Dirty, ~hist.unmarked, NEW c \in Cell
                  PROVE  dev.fb[c] = Lit(lcd.displayBuf[c])
      BY DEF ShownUnlessDirty, Idle
    <2>1. Shown
      BY NothingPending DEF IInv, ScreenInv
    <2>. QED
      BY <2>1 DEF Shown, Seen, Cell
  <1>. QED
    BY <1>1, Invariant, PTL

------------------------------------------------------------------------------
(***************************************************************************)
(* Drawing, from here on: arithmetic.                                      *)
(***************************************************************************)

LEMMA Quotient ==
  ASSUME NEW a \in Int, NEW b \in Nat \ {0}
  PROVE  /\ a \div b \in Int /\ a % b \in 0..b - 1
         /\ a = b * (a \div b) + (a % b)
  OBVIOUS

\* A smaller product with the same positive factor has a smaller other factor.
LEMMA Cancel ==
  ASSUME NEW x \in Int, NEW y \in Int, NEW d \in Nat \ {0}, x * d <= y * d
  PROVE  x <= y
  <1>1. SUFFICES ASSUME y + 1 <= x PROVE FALSE
    OBVIOUS
  <1>2. PICK e \in Nat : x = y + 1 + e
    <2>1. x - y - 1 \in Nat /\ x = y + 1 + (x - y - 1)
      BY <1>1
    <2>. QED
      BY <2>1
  <1>3. x * d = y * d + d + e * d
    BY <1>2
  <1>4. e * d \in Nat
    OBVIOUS
  <1>. QED
    BY <1>3, <1>4

LEMMA QuotientUnique ==
  ASSUME NEW q \in Int, NEW b \in Nat \ {0}, NEW r \in 0..b - 1
  PROVE  (r + b * q) \div b = q /\ (r + b * q) % b = r
  <1>. DEFINE a == r + b * q
              p == a \div b
              s == a % b
  <1>1. a \in Int
    OBVIOUS
  <1>2. p \in Int /\ s \in 0..b - 1 /\ a = b * p + s
    BY <1>1, Quotient
  <1>. HIDE DEF p, s
  <1>3. (p - q) * b = r - s
    BY <1>2
  <1>4. ~(p >= q + 1)
    <2>1. SUFFICES ASSUME p >= q + 1 PROVE FALSE
      OBVIOUS
    <2>2. 1 * b <= (p - q) * b
      <3>. DEFINE m == p - q
      <3>1. m \in Nat /\ m >= 1
        BY <1>2, <2>1
      <3>. HIDE DEF m
      <3>2. PICK e \in Nat : m = 1 + e
        <4>1. m - 1 \in Nat /\ m = 1 + (m - 1)
          BY <3>1
        <4>. QED
          BY <4>1
      <3>3. m * b = b + e * b /\ e * b \in Nat
        BY <3>2
      <3>. QED
        BY <3>3 DEF m
    <2>. QED
      BY <1>2, <1>3, <2>2
  <1>5. ~(q >= p + 1)
    <2>1. SUFFICES ASSUME q >= p + 1 PROVE FALSE
      OBVIOUS
    <2>2. PICK e \in Nat : q - p = 1 + e
      <3>1. q - p - 1 \in Nat /\ q - p = 1 + (q - p - 1)
        BY <1>2, <2>1
      <3>. QED
        BY <3>1
    <2>3. (q - p) * b = b + e * b /\ e * b \in Nat
      BY <2>2
    <2>4. (q - p) * b = s - r
      BY <1>2
    <2>. QED
      BY <1>2, <2>3, <2>4
  <1>6. p = q
    BY <1>2, <1>4, <1>5
  <1>. QED
    BY <1>2, <1>6 DEF p, s

\* Stretching a number of eights.
LEMMA Eights ==
  ASSUME NEW X \in Nat
  PROVE  /\ X \div 8 \in Nat /\ X % 8 \in 0..7
         /\ X = 8 * (X \div 8) + (X % 8)
  OBVIOUS

LEMMA ScreenSize ==
  /\ Width \in 1..250 /\ Height \in 1..250 /\ ShortMax \in Nat
  /\ ByteWidth \in Nat /\ ByteWidth >= 1
  /\ 8 * ByteWidth >= Width /\ Width > 8 * (ByteWidth - 1)
  /\ BufferSize \in Nat /\ BufferSize = ByteWidth * Height /\ BufferSize <= ShortMax
  <1>1. Width \in 1..250 /\ Height \in 1..250 /\ ShortMax \in Nat /\ BufferSize <= ShortMax
    BY DrawingAssumption
  <1>2. Width + 7 = 8 * ((Width + 7) \div 8) + ((Width + 7) % 8) /\ (Width + 7) % 8 \in 0..7
        /\ (Width + 7) \div 8 \in Nat
    BY <1>1
  <1>3. ByteWidth \in Nat /\ ByteWidth >= 1 /\ 8 * ByteWidth >= Width /\ Width > 8 * (ByteWidth - 1)
    BY <1>1, <1>2 DEF ByteWidth
  <1>4. BufferSize = ByteWidth * Height
    BY DEF BufferSize
  <1>. QED
    BY <1>1, <1>3, <1>4

LEMMA Choices ==
  ASSUME NEW a \in Int, NEW b \in Int
  PROVE  /\ Least(a, b) \in Int /\ Least(a, b) <= a /\ Least(a, b) <= b
         /\ Least(a, b) \in {a, b} /\ Most(a, b) \in {a, b}
         /\ Most(a, b) \in Int /\ Most(a, b) >= a /\ Most(a, b) >= b
  BY DEF Least, Most

LEMMA Capped ==
  ASSUME NEW a \in Int, NEW n \in Nat
  PROVE  Least(a, n - 1) \in Int /\ Least(a, n - 1) < n
  BY DEF Least

LEMMA NatChoices ==
  ASSUME NEW a \in Nat, NEW b \in Nat
  PROVE  Least(a, b) \in Nat /\ Most(a, b) \in Nat
  BY DEF Least, Most

------------------------------------------------------------------------------
(***************************************************************************)
(* What the primitives touch.                                              *)
(***************************************************************************)

\* The bits the screen has.
Pixels == {p \in Int \X (0..7) : p[1] \in 0..BufferSize - 1 /\ ~Spare(p)}

LEMMA CellIn ==
  ASSUME NEW c \in Nat, NEW b \in 0..7, NEW Y \in 0..Height - 1, 8 * c + b < Width
  PROVE  <<c + ByteWidth * Y, b>> \in Pixels
  <1>. DEFINE i == c + ByteWidth * Y
              p == <<i, b>>
  <1>1. c \in 0..ByteWidth - 1
    BY ScreenSize
  <1>2. i % ByteWidth = c
    <2>1. ByteWidth \in Nat \ {0} /\ Y \in Int
      BY ScreenSize
    <2>. QED
      BY <1>1, <2>1, QuotientUnique
  <1>3. i \in Nat /\ i < BufferSize
    <2>1. ByteWidth * Y \in Nat /\ ByteWidth * (Height - 1 - Y) \in Nat
      BY ScreenSize
    <2>2. ByteWidth * Height = ByteWidth * Y + ByteWidth * (Height - 1 - Y) + ByteWidth
      BY ScreenSize
    <2>. QED
      BY <1>1, <2>1, <2>2, ScreenSize
  <1>4. p \in Int \X (0..7) /\ p[1] = i /\ p[2] = b
    BY <1>3
  <1>5. i \in 0..BufferSize - 1
    BY <1>3, ScreenSize
  <1>. HIDE DEF i
  <1>6. ~Spare(p)
    BY <1>2, <1>4, <1>1, ScreenSize DEF Spare
  <1>. HIDE DEF p
  <1>7. p \in Pixels
    BY <1>4, <1>5, <1>6 DEF Pixels
  <1>. QED
    BY <1>7 DEF p, i

LEMMA BitIn ==
  ASSUME NEW X \in 0..Width - 1, NEW Y \in 0..Height - 1
  PROVE  Bit(X, Y) \in Pixels
  <1>1. X \in Nat
    BY ScreenSize
  <1>2. X \div 8 \in Nat /\ X % 8 \in 0..7 /\ 8 * (X \div 8) + (X % 8) < Width
    BY <1>1, Eights, ScreenSize
  <1>. QED
    BY <1>2, CellIn DEF Bit

LEMMA ColumnsIn ==
  ASSUME NEW X1 \in Nat, NEW X2 \in Int, X2 < Width, NEW Y \in 0..Height - 1
  PROVE  Columns(X1, X2, Y) \in SUBSET Pixels
  <1>1. SUFFICES ASSUME NEW c \in (X1 \div 8)..(X2 \div 8), NEW b \in Mask(8 * c, X1, X2)
                 PROVE  <<c + ByteWidth * Y, b>> \in Pixels
    BY DEF Columns
  <1>2. X1 \div 8 \in Nat
    BY Eights
  <1>3. c \in Nat /\ c <= X2 \div 8
    BY <1>2
  <1>4. X2 = 8 * (X2 \div 8) + (X2 % 8) /\ X2 % 8 \in 0..7 /\ X2 \div 8 \in Int
    OBVIOUS
  <1>5. b \in 0..7 /\ (X2 - 8 * c < 8 => b <= X2 % 8)
    BY DEF Mask
  <1>6. 8 * c + b <= X2
    BY <1>3, <1>4, <1>5
  <1>7. 8 * c + b < Width
    BY <1>3, <1>5, <1>6, ScreenSize
  <1>. QED
    BY <1>3, <1>5, <1>7, CellIn

LEMMA PixelIn ==
  ASSUME NEW X \in Nat, NEW Y \in Nat
  PROVE  DisplayPixel(X, Y) \in SUBSET Pixels
  <1>1. CASE X < Width /\ Y < Height
    BY <1>1, BitIn, ScreenSize DEF DisplayPixel
  <1>2. CASE ~(X < Width /\ Y < Height)
    BY <1>2 DEF DisplayPixel
  <1>. QED
    BY <1>1, <1>2

LEMMA LineXIn ==
  ASSUME NEW X1 \in Nat, NEW X2 \in Nat, NEW Y \in 0..Height - 1
  PROVE  DisplayLineX(X1, X2, Y) \in SUBSET Pixels
  <1>. DEFINE a == Least(X1, X2)
              b == Least(Most(X1, X2), Width - 1)
  <1>1. a \in Nat /\ b \in Int /\ b < Width
    <2>1. a \in Nat /\ Most(X1, X2) \in Int /\ Width \in Nat
      BY NatChoices, ScreenSize
    <2>. QED
      BY <2>1, Capped
  <1>2. Columns(a, b, Y) \in SUBSET Pixels
    BY <1>1, ColumnsIn
  <1>3. ~(Y > Height)
    BY ScreenSize
  <1>. QED
    BY <1>2, <1>3 DEF DisplayLineX

LEMMA LineYIn ==
  ASSUME NEW X \in 0..Width - 1, NEW Y1 \in Nat, NEW Y2 \in Nat
  PROVE  DisplayLineY(X, Y1, Y2) \in SUBSET Pixels
  <1>. DEFINE a == Least(Y1, Y2)
              b == Least(Most(Y1, Y2), Height - 1)
  <1>1. a \in Nat /\ b \in Int /\ b < Height
    <2>1. a \in Nat /\ Most(Y1, Y2) \in Int /\ Height \in Nat
      BY NatChoices, ScreenSize
    <2>. QED
      BY <2>1, Capped
  <1>. HIDE DEF a, b
  <1>2. \A Y \in a..b : Y \in 0..Height - 1
    BY <1>1, ScreenSize
  <1>3. {Bit(X, Y) : Y \in a..b} \in SUBSET Pixels
    BY <1>2, BitIn
  <1>4. ~(X > Width)
    BY ScreenSize
  <1>. QED
    BY <1>3, <1>4 DEF DisplayLineY, a, b

LEMMA ByteIn ==
  ASSUME NEW n \in Int
  PROVE  /\ Byte(n) \in 0..255 /\ Byte(n) \in Nat
         /\ n \in 0..255 => Byte(n) = n
  BY DEF Byte

LEMMA FillScreenIn ==
  ASSUME NEW X \in Nat, NEW Y \in Nat, NEW PixelsX \in Int, NEW PixelsY \in Int
  PROVE  DisplayFillScreen(X, Y, PixelsX, PixelsY) \in SUBSET Pixels
  <1>. DEFINE r == Least(Byte(X + PixelsX - 1), Width - 1)
              t == Least(Byte(Y + PixelsY - 1), Height - 1)
  <1>1. r \in Int /\ r < Width /\ t \in Int /\ t < Height
    <2>1. Byte(X + PixelsX - 1) \in Int /\ Byte(Y + PixelsY - 1) \in Int
      BY ByteIn
    <2>2. Width \in Nat /\ Height \in Nat
      BY ScreenSize
    <2>. QED
      BY <2>1, <2>2, Capped
  <1>. HIDE DEF r, t
  <1>2. \A row \in Y..t : row \in 0..Height - 1
    BY <1>1, ScreenSize
  <1>3. \A row \in Y..t : Columns(X, r, row) \in SUBSET Pixels
    BY <1>1, <1>2, ColumnsIn
  <1>. QED
    BY <1>3 DEF DisplayFillScreen, r, t

LEMMA PixelAtIn ==
  ASSUME NEW x \in Int, NEW y \in Int
  PROVE  PixelAt(x, y) \in SUBSET Pixels
  <1>1. Translate(y) \in Int
    BY ScreenSize DEF Translate
  <1>2. Byte(x) \in Nat /\ Byte(Translate(y)) \in Nat
    BY <1>1, ByteIn
  <1>. QED
    BY <1>2, PixelIn DEF PixelAt

LEMMA SetPixelIn ==
  ASSUME NEW x \in Int, NEW y \in Int
  PROVE  CmdSetPixel(x, y) \in Seq(SUBSET Pixels)
  <1>1. CASE OnScreen(x, Translate(y))
    <2>1. Bit(x, Translate(y)) \in Pixels
      BY <1>1, BitIn DEF OnScreen
    <2>. QED
      BY <1>1, <2>1 DEF CmdSetPixel
  <1>2. CASE ~OnScreen(x, Translate(y))
    BY <1>2, EmptySeq DEF CmdSetPixel
  <1>. QED
    BY <1>1, <1>2

------------------------------------------------------------------------------
(***************************************************************************)
(* Loops: the functions MinorSteps and Turns define by recursion.          *)
(***************************************************************************)

LEMMA Smallest ==
  ASSUME NEW T \in SUBSET Nat, T # {}
  PROVE  \E x \in T : \A y \in T : x <= y
  <1>. DEFINE R == OpToRel(<, Nat)
  <1>1. IsWellFoundedOn(R, Nat)
    BY NatLessThanWellFounded
  <1>2. \A x, y \in Nat : y < x => <<y, x>> \in R
    BY DEF OpToRel
  <1>. HIDE DEF R
  <1>3. PICK x \in T : \A y \in T : ~(<<y, x>> \in R)
    BY <1>1, WFMin
  <1>4. ASSUME NEW y \in T PROVE x <= y
    <2>1. ~(y < x)
      BY <1>2, <1>3
    <2>. QED
      BY <2>1
  <1>. QED
    BY <1>4

LEMMA UpTo ==
  ASSUME NEW n \in Nat, NEW T, 0 \in T, \A k \in 1..n : k - 1 \in T => k \in T
  PROVE  \A k \in 0..n : k \in T
  <1>. DEFINE B == {k \in 0..n : k \notin T}
  <1>1. SUFFICES ASSUME B # {} PROVE FALSE
    OBVIOUS
  <1>2. B \in SUBSET Nat
    OBVIOUS
  <1>3. PICK x \in B : \A y \in B : x <= y
    <2>. HIDE DEF B
    <2>. QED
      BY <1>1, <1>2, Smallest
  <1>4. x \in 1..n /\ x \notin T
    BY <1>3
  <1>5. x - 1 \in 0..n /\ x - 1 \notin B
    BY <1>3, <1>4
  <1>. QED
    BY <1>4, <1>5

\* Doing G again and again, from b.
Iterates(f, G, b, n) == f[0] = b /\ \A k \in 1..n : f[k] = G[f[k - 1]]

LEMMA IteratesExist ==
  ASSUME NEW S, NEW b \in S, NEW G \in [S -> S], NEW n \in Nat
  PROVE  \E f \in [0..n -> S] : Iterates(f, G, b, n)
  <1>. DEFINE T == {m \in 0..n : \E f \in [0..m -> S] : Iterates(f, G, b, m)}
  <1>1. 0 \in T
    <2>. DEFINE f == [k \in 0..0 |-> b]
    <2>1. f \in [0..0 -> S] /\ Iterates(f, G, b, 0)
      BY DEF Iterates
    <2>. HIDE DEF f
    <2>. QED
      BY <2>1
  <1>2. ASSUME NEW m \in 1..n, m - 1 \in T PROVE m \in T
    <2>1. PICK f \in [0..m - 1 -> S] : Iterates(f, G, b, m - 1)
      BY <1>2
    <2>. DEFINE g == [k \in 0..m |-> IF k < m THEN f[k] ELSE G[f[m - 1]]]
    <2>2. f[m - 1] \in S
      OBVIOUS
    <2>3. g \in [0..m -> S]
      BY <2>2
    <2>4. \A k \in 0..m : k < m => g[k] = f[k]
      OBVIOUS
    <2>5. g[m] = G[f[m - 1]]
      OBVIOUS
    <2>. HIDE DEF g
    <2>6. g[0] = b
      BY <2>1, <2>4 DEF Iterates
    <2>7. ASSUME NEW k \in 1..m PROVE g[k] = G[g[k - 1]]
      <3>1. k - 1 \in 0..m /\ k - 1 < m /\ g[k - 1] = f[k - 1]
        BY <2>4
      <3>2. CASE k = m
        BY <2>5, <3>1, <3>2
      <3>3. CASE k # m
        <4>1. k \in 1..m - 1 /\ k \in 0..m /\ k < m
          BY <3>3
        <4>. QED
          BY <2>1, <2>4, <3>1, <4>1 DEF Iterates
      <3>. QED
        BY <3>2, <3>3
    <2>8. Iterates(g, G, b, m)
      BY <2>6, <2>7 DEF Iterates
    <2>. QED
      BY <2>3, <2>8
  <1>. HIDE DEF T
  <1>3. n \in T
    <2>1. \A k \in 0..n : k \in T
      BY <1>1, <1>2, UpTo
    <2>. QED
      BY <2>1
  <1>. QED
    BY <1>3 DEF T

Counters == [at : Int, d : Int]

\* One turn of a slanted line's loop.
MinorStep(long, short, m) ==
  IF m.d >= 0 THEN [at |-> m.at + 1, d |-> m.d - 2 * long + 2 * short]
  ELSE [at |-> m.at, d |-> m.d + 2 * short]

LEMMA MinorIs ==
  ASSUME NEW long \in Nat, NEW short \in Nat
  PROVE  /\ MinorSteps(long, short)[0] = [at |-> 0, d |-> 2 * short - long]
         /\ \A k \in 1..long :
               MinorSteps(long, short)[k]
                 = MinorStep(long, short, MinorSteps(long, short)[k - 1])
  <1>. DEFINE b == [at |-> 0, d |-> 2 * short - long]
              G == [m \in Counters |-> MinorStep(long, short, m)]
              m == MinorSteps(long, short)
              R(f) == [k \in 0..long |-> IF k = 0 THEN b ELSE MinorStep(long, short, f[k - 1])]
  <1>1. b \in Counters /\ G \in [Counters -> Counters]
    BY DEF Counters, MinorStep
  <1>2. PICK f \in [0..long -> Counters] : Iterates(f, G, b, long)
    <2>. HIDE DEF G, b
    <2>. QED
      BY <1>1, IteratesExist
  <1>3. f = R(f)
    <2>1. \A k \in 1..long : f[k - 1] \in Counters
      OBVIOUS
    <2>2. \A k \in 1..long : f[k] = MinorStep(long, short, f[k - 1])
      BY <1>2, <2>1 DEF Iterates
    <2>3. f[0] = b
      BY <1>2 DEF Iterates
    <2>. HIDE DEF b
    <2>. QED
      BY <2>2, <2>3
  <1>4. m = R(m)
    BY <1>3 DEF MinorSteps, MinorStep
  <1>. HIDE DEF m
  <1>5. m[0] = b
    BY <1>4
  <1>6. \A k \in 1..long : m[k] = MinorStep(long, short, m[k - 1])
    BY <1>4
  <1>. QED
    BY <1>5, <1>6 DEF m

\* The error term tells how far the steps along the shorter side lag behind.
LEMMA MinorClose ==
  ASSUME NEW long \in Nat \ {0}, NEW short \in 0..long
  PROVE  /\ \A k \in 0..long :
               LET at == MinorSteps(long, short)[k].at IN
               /\ at \in 0..short
               /\ 2 * (long * at) - 2 * (short * k) <= long
               /\ 2 * (short * k) - 2 * (long * at) <= long
         /\ MinorSteps(long, short)[0].at = 0
         /\ MinorSteps(long, short)[long].at = short
  <1>. DEFINE m == MinorSteps(long, short)
              Fits(c, k) == /\ c \in [at : Nat, d : Int]
                            /\ c.d = 2 * short - long + 2 * (short * k) - 2 * (long * c.at)
                            /\ 2 * short - 2 * long <= c.d /\ c.d < 2 * short
              T == {k \in 0..long : Fits(m[k], k)}
  <1>0. m[0] = [at |-> 0, d |-> 2 * short - long]
        /\ \A k \in 1..long : m[k] = MinorStep(long, short, m[k - 1])
    BY MinorIs
  <1>. HIDE DEF m
  <1>1. 0 \in T
    <2>1. m[0].at = 0 /\ m[0].d = 2 * short - long /\ m[0] \in [at : Nat, d : Int]
      BY <1>0
    <2>2. short * 0 = 0 /\ long * 0 = 0
      OBVIOUS
    <2>. QED
      BY <2>1, <2>2
  <1>2. ASSUME NEW k \in 1..long, k - 1 \in T PROVE k \in T
    <2>. DEFINE c == m[k - 1]
                n == m[k]
    <2>1. /\ c \in [at : Nat, d : Int]
          /\ c.d = 2 * short - long + 2 * (short * (k - 1)) - 2 * (long * c.at)
          /\ 2 * short - 2 * long <= c.d /\ c.d < 2 * short
      BY <1>2
    <2>2. n = MinorStep(long, short, c)
      BY <1>0
    <2>. HIDE DEF c, n
    <2>3. short * k = short * (k - 1) + short
      OBVIOUS
    <2>4. CASE c.d >= 0
      <3>1. n.at = c.at + 1 /\ n.d = c.d - 2 * long + 2 * short /\ n \in [at : Nat, d : Int]
        BY <2>1, <2>2, <2>4 DEF MinorStep
      <3>2. long * n.at = long * c.at + long
        BY <2>1, <3>1
      <3>3. n.d = 2 * short - long + 2 * (short * k) - 2 * (long * n.at)
        <4>1. short * (k - 1) \in Int /\ long * c.at \in Int /\ short * k \in Int
          BY <2>1
        <4>. QED
          BY <2>1, <2>3, <3>1, <3>2, <4>1
      <3>4. 2 * short - 2 * long <= n.d /\ n.d < 2 * short
        BY <2>1, <2>4, <3>1
      <3>. QED
        BY <3>1, <3>3, <3>4 DEF n
    <2>5. CASE ~(c.d >= 0)
      <3>1. n.at = c.at /\ n.d = c.d + 2 * short /\ n \in [at : Nat, d : Int]
        BY <2>1, <2>2, <2>5 DEF MinorStep
      <3>3. n.d = 2 * short - long + 2 * (short * k) - 2 * (long * n.at)
        <4>1. short * (k - 1) \in Int /\ long * c.at \in Int /\ short * k \in Int
          BY <2>1
        <4>. QED
          BY <2>1, <2>3, <3>1, <4>1
      <3>4. 2 * short - 2 * long <= n.d /\ n.d < 2 * short
        BY <2>1, <2>5, <3>1
      <3>. QED
        BY <3>1, <3>3, <3>4 DEF n
    <2>. QED
      BY <2>4, <2>5
  <1>. HIDE DEF T
  <1>3. \A k \in 0..long : k \in T
    BY <1>1, <1>2, UpTo
  <1>4. ASSUME NEW k \in 0..long
        PROVE  /\ m[k].at \in 0..short
               /\ 2 * (long * m[k].at) - 2 * (short * k) <= long
               /\ 2 * (short * k) - 2 * (long * m[k].at) < long
    <2>. DEFINE a == m[k].at
                e == m[k].d
    <2>1. /\ a \in Nat /\ e \in Int
          /\ e = 2 * short - long + 2 * (short * k) - 2 * (long * a)
          /\ 2 * short - 2 * long <= e /\ e < 2 * short
      BY <1>3 DEF T
    <2>. HIDE DEF a, e
    <2>2. short * k \in Nat /\ long * a \in Nat
      BY <2>1
    <2>3. /\ 2 * (long * a) - 2 * (short * k) <= long
          /\ 2 * (short * k) - 2 * (long * a) < long
      BY <2>1, <2>2
    <2>4. a <= short
      <3>1. SUFFICES ASSUME short + 1 <= a PROVE FALSE
        BY <2>1
      <3>2. PICK f \in Nat : a = short + 1 + f
        <4>1. a - short - 1 \in Nat /\ a = short + 1 + (a - short - 1)
          BY <2>1, <3>1
        <4>. QED
          BY <4>1
      <3>3. long * a = long * short + long + long * f /\ long * f \in Nat /\ long * short \in Nat
        BY <3>2
      <3>4. PICK h \in Nat : long = k + h
        <4>1. long - k \in Nat /\ long = k + (long - k)
          OBVIOUS
        <4>. QED
          BY <4>1
      <3>5. long * short = short * k + short * h /\ short * h \in Nat
        BY <3>4
      <3>. QED
        BY <2>2, <2>3, <3>3, <3>5
    <2>. QED
      BY <2>1, <2>3, <2>4 DEF a
  <1>5. m[0].at = 0
    BY <1>0
  <1>6. m[long].at = short
    <2>. DEFINE a == m[long].at
    <2>1. a \in 0..short /\ 2 * (short * long) - 2 * (long * a) < long
      BY <1>4
    <2>. HIDE DEF a
    <2>2. SUFFICES ASSUME a # short PROVE FALSE
      BY DEF a
    <2>3. PICK f \in Nat : short = a + 1 + f
      <3>1. short - a - 1 \in Nat /\ short = a + 1 + (short - a - 1)
        BY <2>1, <2>2
      <3>. QED
        BY <3>1
    <2>4. short * long = long * a + long + long * f /\ long * f \in Nat /\ long * a \in Nat
      BY <2>1, <2>3
    <2>. QED
      BY <2>1, <2>4
  <1>. QED
    <2>1. \A k \in 0..long : /\ m[k].at \in 0..short
                             /\ 2 * (long * m[k].at) - 2 * (short * k) <= long
                             /\ 2 * (short * k) - 2 * (long * m[k].at) <= long
      <3>1. ASSUME NEW k \in 0..long
            PROVE  /\ m[k].at \in 0..short
                   /\ 2 * (long * m[k].at) - 2 * (short * k) <= long
                   /\ 2 * (short * k) - 2 * (long * m[k].at) <= long
        <4>. DEFINE u == long * m[k].at
                    v == short * k
        <4>1. m[k].at \in 0..short /\ 2 * u - 2 * v <= long /\ 2 * v - 2 * u < long
          BY <1>4
        <4>2. u \in Int /\ v \in Int
          BY <4>1
        <4>. HIDE DEF u, v
        <4>3. 2 * v - 2 * u <= long
          BY <4>1, <4>2
        <4>. QED
          BY <4>1, <4>3 DEF u, v
      <3>. QED
        BY <3>1
    <2>. QED
      BY <2>1, <1>5, <1>6 DEF m

------------------------------------------------------------------------------
(***************************************************************************)
(* Segments: what is left of a line when it has been clipped.              *)
(***************************************************************************)

LEMMA Sign ==
  ASSUME NEW a \in Int
  PROVE  /\ Sgn(a) \in {1, -1} /\ Abs(a) \in Nat /\ a = Sgn(a) * Abs(a)
         /\ (a # 0 => Abs(a) > 0)
         /\ Abs(-a) = Abs(a)
  BY DEF Sgn, Abs

\* The points of the slanted line, the first one is number 0.
SlantX(s, j) ==
  LET dx == Abs(s[3] - s[1])
      dy == Abs(s[4] - s[2]) IN
  IF dx > dy THEN s[1] + Sgn(s[3] - s[1]) * j
  ELSE s[1] + Sgn(s[3] - s[1]) * MinorSteps(Most(dx, dy), Least(dx, dy))[j].at
SlantY(s, j) ==
  LET dx == Abs(s[3] - s[1])
      dy == Abs(s[4] - s[2]) IN
  IF dx > dy THEN s[2] + Sgn(s[4] - s[2]) * MinorSteps(Most(dx, dy), Least(dx, dy))[j].at
  ELSE s[2] + Sgn(s[4] - s[2]) * j
SlantLength(s) == Most(Abs(s[3] - s[1]), Abs(s[4] - s[2]))

LEMMA SlantedLineIs ==
  ASSUME NEW s
  PROVE  SlantedLine(s[1], s[2], s[3], s[4])
           = [k \in 1..SlantLength(s) + 1 |-> PixelAt(SlantX(s, k - 1), SlantY(s, k - 1))]
  <1>. DEFINE dx == Abs(s[3] - s[1])
              dy == Abs(s[4] - s[2])
              at(j) == MinorSteps(Most(dx, dy), Least(dx, dy))[j].at
  <1>1. SlantedLine(s[1], s[2], s[3], s[4])
          = [k \in 1..Most(dx, dy) + 1 |->
               IF dx > dy THEN PixelAt(s[1] + Sgn(s[3] - s[1]) * (k - 1),
                                       s[2] + Sgn(s[4] - s[2]) * at(k - 1))
               ELSE PixelAt(s[1] + Sgn(s[3] - s[1]) * at(k - 1),
                            s[2] + Sgn(s[4] - s[2]) * (k - 1))]
    BY DEF SlantedLine
  <1>2. \A k : /\ SlantX(s, k) = IF dx > dy THEN s[1] + Sgn(s[3] - s[1]) * k
                                 ELSE s[1] + Sgn(s[3] - s[1]) * at(k)
               /\ SlantY(s, k) = IF dx > dy THEN s[2] + Sgn(s[4] - s[2]) * at(k)
                                 ELSE s[2] + Sgn(s[4] - s[2]) * k
    BY DEF SlantX, SlantY
  <1>3. SlantLength(s) = Most(dx, dy)
    BY DEF SlantLength
  <1>. HIDE DEF dx, dy, at
  <1>. QED
    BY <1>1, <1>2, <1>3

Segments == Int \X Int \X Int \X Int

\* The point p is where the slanted line is after j steps along its longer side.
LEMMA SlantPoint ==
  ASSUME NEW s \in Segments, s[1] # s[3], s[2] # s[4], NEW j \in 0..SlantLength(s)
  PROVE  LET p == <<SlantX(s, j), SlantY(s, j)>> IN
         /\ p \in Int \X Int
         /\ Between(p[1], s[1], s[3]) /\ Between(p[2], s[2], s[4])
         /\ Within(s, p, 1)
         /\ j = 0 => p = <<s[1], s[2]>>
         /\ j = SlantLength(s) => p = <<s[3], s[4]>>
  <1>. DEFINE x == s[3] - s[1]
              y == s[4] - s[2]
              dx == Abs(x)
              dy == Abs(y)
              a == MinorSteps(Most(dx, dy), Least(dx, dy))[j].at
              p == <<SlantX(s, j), SlantY(s, j)>>
  <1>1. /\ s[1] \in Int /\ s[2] \in Int /\ s[3] \in Int /\ s[4] \in Int
        /\ x \in Int /\ y \in Int /\ x # 0 /\ y # 0
    BY DEF Segments
  <1>2. /\ Sgn(x) \in {1, -1} /\ Sgn(y) \in {1, -1}
        /\ dx \in Nat \ {0} /\ dy \in Nat \ {0} /\ x = Sgn(x) * dx /\ y = Sgn(y) * dy
    BY <1>1, Sign
  <1>3. SlantLength(s) = Most(dx, dy)
    BY DEF SlantLength
  <1>4. p[1] = IF dx > dy THEN s[1] + Sgn(x) * j ELSE s[1] + Sgn(x) * a
    BY DEF SlantX
  <1>5. p[2] = IF dx > dy THEN s[2] + Sgn(y) * a ELSE s[2] + Sgn(y) * j
    BY DEF SlantY
  <1>6. Within(s, p, 1) <=> 2 * Abs((p[1] - s[1]) * y - (p[2] - s[2]) * x) <= Most(dx, dy)
    <2>1. Most(dx, dy) \in Int
      <3>1. dx \in Int /\ dy \in Int
        BY <1>2
      <3>. HIDE DEF dx, dy
      <3>. QED
        BY <3>1, Choices
    <2>2. 1 * Most(dx, dy) = Most(dx, dy)
      <3>. DEFINE m == Most(dx, dy)
      <3>. HIDE DEF m
      <3>1. m \in Int
        BY <2>1 DEF m
      <3>2. 1 * m = m
        BY <3>1
      <3>. QED
        BY <3>2 DEF m
    <2>. QED
      BY <2>2 DEF Within
  <1>7. p = <<p[1], p[2]>>
    OBVIOUS
  <1>. HIDE DEF x, y, p
  <1>8. s[3] = s[1] + x /\ s[4] = s[2] + y
    BY <1>1 DEF x, y
  <1>9. CASE dx > dy
    <2>1. Most(dx, dy) = dx /\ Least(dx, dy) = dy
      BY <1>2, <1>9 DEF Most, Least
    <2>2. /\ a \in 0..dy /\ 2 * (dx * a) - 2 * (dy * j) <= dx /\ 2 * (dy * j) - 2 * (dx * a) <= dx
          /\ (j = 0 => a = 0) /\ (j = dx => a = dy)
      <3>1. dx \in Nat \ {0} /\ dy \in 0..dx /\ j \in 0..dx
        BY <1>2, <1>3, <1>9, <2>1
      <3>2. a = MinorSteps(dx, dy)[j].at
        BY <2>1
      <3>. HIDE DEF a, dx, dy
      <3>. DEFINE m == MinorSteps(dx, dy)
      <3>3. /\ \A k \in 0..dx : /\ m[k].at \in 0..dy
                              /\ 2 * (dx * m[k].at) - 2 * (dy * k) <= dx
                              /\ 2 * (dy * k) - 2 * (dx * m[k].at) <= dx
            /\ m[0].at = 0 /\ m[dx].at = dy
        BY <3>1, MinorClose
      <3>. HIDE DEF m
      <3>4. a = m[j].at
        BY <3>2 DEF m
      <3>. QED
        BY <3>1, <3>3, <3>4
    <2>. HIDE DEF a
    <2>3. j \in 0..dx
      BY <1>3, <2>1
    <2>. HIDE DEF dx, dy
    <2>4. p[1] = s[1] + Sgn(x) * j /\ p[2] = s[2] + Sgn(y) * a
      BY <1>4, <1>5, <1>9
    <2>5. p[1] \in Int /\ p[2] \in Int
      BY <1>1, <1>2, <2>2, <2>3, <2>4
    <2>6. Between(p[1], s[1], s[3]) /\ Between(p[2], s[2], s[4])
      <3>1. s[3] = s[1] + Sgn(x) * dx /\ s[4] = s[2] + Sgn(y) * dy
        BY <1>2, <1>8
      <3>. QED
        BY <1>1, <1>2, <2>2, <2>3, <2>4, <3>1 DEF Between, Least, Most
    <2>7. 2 * Abs((p[1] - s[1]) * y - (p[2] - s[2]) * x) <= dx
      <3>. DEFINE u == dx * a
                  v == dy * j
      <3>1. p[1] - s[1] = Sgn(x) * j /\ p[2] - s[2] = Sgn(y) * a
        BY <1>1, <1>2, <2>2, <2>3, <2>4
      <3>2. \/ (p[1] - s[1]) * y - (p[2] - s[2]) * x = v - u
            \/ (p[1] - s[1]) * y - (p[2] - s[2]) * x = u - v
        BY <1>2, <2>2, <2>3, <3>1
      <3>3. u \in Int /\ v \in Int
        BY <1>2, <2>2, <2>3
      <3>. HIDE DEF u, v
      <3>4. 2 * u - 2 * v <= dx /\ 2 * v - 2 * u <= dx
        BY <2>2 DEF u, v
      <3>. QED
        BY <1>2, <3>2, <3>3, <3>4 DEF Abs
    <2>8. (j = 0 => p = <<s[1], s[2]>>) /\ (j = dx => p = <<s[3], s[4]>>)
      <3>1. j = 0 => p[1] = s[1] /\ p[2] = s[2]
        BY <1>1, <1>2, <2>2, <2>4
      <3>2. j = dx => p[1] = s[3] /\ p[2] = s[4]
        BY <1>1, <1>2, <1>8, <2>2, <2>4
      <3>. QED
        BY <1>7, <3>1, <3>2
    <2>. QED
      BY <1>3, <1>6, <1>7, <2>1, <2>5, <2>6, <2>7, <2>8 DEF p
  <1>10. CASE ~(dx > dy)
    <2>1. Most(dx, dy) = dy /\ Least(dx, dy) = dx
      BY <1>2, <1>10 DEF Most, Least
    <2>2. /\ a \in 0..dx /\ 2 * (dy * a) - 2 * (dx * j) <= dy /\ 2 * (dx * j) - 2 * (dy * a) <= dy
          /\ (j = 0 => a = 0) /\ (j = dy => a = dx)
      <3>1. dy \in Nat \ {0} /\ dx \in 0..dy /\ j \in 0..dy
        BY <1>2, <1>3, <1>10, <2>1
      <3>2. a = MinorSteps(dy, dx)[j].at
        BY <2>1
      <3>. HIDE DEF a, dx, dy
      <3>. DEFINE m == MinorSteps(dy, dx)
      <3>3. /\ \A k \in 0..dy : /\ m[k].at \in 0..dx
                              /\ 2 * (dy * m[k].at) - 2 * (dx * k) <= dy
                              /\ 2 * (dx * k) - 2 * (dy * m[k].at) <= dy
            /\ m[0].at = 0 /\ m[dy].at = dx
        BY <3>1, MinorClose
      <3>. HIDE DEF m
      <3>4. a = m[j].at
        BY <3>2 DEF m
      <3>. QED
        BY <3>1, <3>3, <3>4
    <2>. HIDE DEF a
    <2>3. j \in 0..dy
      BY <1>3, <2>1
    <2>. HIDE DEF dx, dy
    <2>4. p[1] = s[1] + Sgn(x) * a /\ p[2] = s[2] + Sgn(y) * j
      BY <1>4, <1>5, <1>10
    <2>5. p[1] \in Int /\ p[2] \in Int
      BY <1>1, <1>2, <2>2, <2>3, <2>4
    <2>6. Between(p[1], s[1], s[3]) /\ Between(p[2], s[2], s[4])
      <3>1. s[3] = s[1] + Sgn(x) * dx /\ s[4] = s[2] + Sgn(y) * dy
        BY <1>2, <1>8
      <3>. QED
        BY <1>1, <1>2, <2>2, <2>3, <2>4, <3>1 DEF Between, Least, Most
    <2>7. 2 * Abs((p[1] - s[1]) * y - (p[2] - s[2]) * x) <= dy
      <3>. DEFINE u == dy * a
                  v == dx * j
      <3>1. p[1] - s[1] = Sgn(x) * a /\ p[2] - s[2] = Sgn(y) * j
        BY <1>1, <1>2, <2>2, <2>3, <2>4
      <3>2. \/ (p[1] - s[1]) * y - (p[2] - s[2]) * x = v - u
            \/ (p[1] - s[1]) * y - (p[2] - s[2]) * x = u - v
        BY <1>2, <2>2, <2>3, <3>1
      <3>3. u \in Int /\ v \in Int
        BY <1>2, <2>2, <2>3
      <3>. HIDE DEF u, v
      <3>4. 2 * u - 2 * v <= dy /\ 2 * v - 2 * u <= dy
        BY <2>2 DEF u, v
      <3>. QED
        BY <1>2, <3>2, <3>3, <3>4 DEF Abs
    <2>8. (j = 0 => p = <<s[1], s[2]>>) /\ (j = dy => p = <<s[3], s[4]>>)
      <3>1. j = 0 => p[1] = s[1] /\ p[2] = s[2]
        BY <1>1, <1>2, <2>2, <2>4
      <3>2. j = dy => p[1] = s[3] /\ p[2] = s[4]
        BY <1>1, <1>2, <1>8, <2>2, <2>4
      <3>. QED
        BY <1>7, <3>1, <3>2
    <2>. QED
      BY <1>3, <1>6, <1>7, <2>1, <2>5, <2>6, <2>7, <2>8 DEF p
  <1>. QED
    BY <1>9, <1>10

Ink(ss) == UNION {ss[k] : k \in DOMAIN ss}

\* The two ends of a segment that is left when a line has been clipped.
OnColumns(s) == s \in Segments /\ s[1] \in 0..Width - 1 /\ s[3] \in 0..Width - 1
InScreen(s) == OnColumns(s) /\ s[2] \in 0..Height - 1 /\ s[4] \in 0..Height - 1

LEMMA TranslateIn ==
  ASSUME NEW y \in Int
  PROVE  /\ Translate(y) \in Int /\ Translate(Translate(y)) = y
         /\ Translate(y) \in 0..Height - 1 <=> y \in 0..Height - 1
  BY ScreenSize DEF Translate

LEMMA OnScreenByte ==
  /\ \A x \in 0..Width - 1 : x \in Int /\ Byte(x) = x
  /\ \A y \in 0..Height - 1 : y \in Int /\ Byte(Translate(y)) = Translate(y)
  <1>1. ASSUME NEW x \in 0..Width - 1 PROVE x \in Int /\ Byte(x) = x
    <2>1. x \in Int /\ x \in 0..255
      BY ScreenSize
    <2>. QED
      BY <2>1, ByteIn
  <1>2. ASSUME NEW y \in 0..Height - 1 PROVE y \in Int /\ Byte(Translate(y)) = Translate(y)
    <2>1. y \in Int /\ Translate(y) \in Int /\ Translate(y) \in 0..255
      BY ScreenSize DEF Translate
    <2>. QED
      BY <2>1, ByteIn
  <1>. QED
    BY <1>1, <1>2

\* However a line was clipped, what its segment touches are pixels of the screen, if
\* only a horizontal one lies in a row that is there.
LEMMA SegmentIn ==
  ASSUME NEW s, OnColumns(s), s[2] = s[4] => s[2] \in 0..Height - 1
  PROVE  Segment(s[1], s[2], s[3], s[4]) \in Seq(SUBSET Pixels)
  <1>1. /\ s \in Segments
        /\ s[1] \in Int /\ s[2] \in Int /\ s[3] \in Int /\ s[4] \in Int
        /\ s[1] \in 0..Width - 1 /\ s[3] \in 0..Width - 1
    BY DEF Segments, OnColumns
  <1>2. CASE s[1] = s[3] /\ s[2] = s[4]
    <2>1. PixelAt(s[1], s[2]) \in SUBSET Pixels
      BY <1>1, PixelAtIn
    <2>. QED
      BY <1>2, <2>1 DEF Segment
  <1>3. CASE s[1] = s[3] /\ s[2] # s[4]
    <2>1. Byte(s[1]) \in 0..Width - 1
      BY <1>1, OnScreenByte
    <2>2. Byte(Translate(s[2])) \in Nat /\ Byte(Translate(s[4])) \in Nat
      <3>1. Translate(s[2]) \in Int /\ Translate(s[4]) \in Int
        BY <1>1, TranslateIn
      <3>. QED
        BY <3>1, ByteIn
    <2>3. DisplayLineY(Byte(s[1]), Byte(Translate(s[2])), Byte(Translate(s[4]))) \in SUBSET Pixels
      BY <2>1, <2>2, LineYIn
    <2>. QED
      BY <1>3, <2>3 DEF Segment
  <1>4. CASE s[1] # s[3] /\ s[2] = s[4]
    <2>1. Byte(s[1]) \in Nat /\ Byte(s[3]) \in Nat
      BY <1>1, ByteIn
    <2>2. Byte(Translate(s[2])) \in 0..Height - 1
      BY <1>1, <1>4, OnScreenByte, TranslateIn
    <2>3. DisplayLineX(Byte(s[1]), Byte(s[3]), Byte(Translate(s[2]))) \in SUBSET Pixels
      BY <2>1, <2>2, LineXIn
    <2>. QED
      BY <1>4, <2>3 DEF Segment
  <1>5. CASE s[1] # s[3] /\ s[2] # s[4]
    <2>1. SlantLength(s) \in Nat
      <3>1. Abs(s[3] - s[1]) \in Nat /\ Abs(s[4] - s[2]) \in Nat
        BY <1>1, Sign
      <3>. QED
        BY <3>1, NatChoices DEF SlantLength
    <2>2. ASSUME NEW k \in 1..SlantLength(s) + 1
          PROVE  PixelAt(SlantX(s, k - 1), SlantY(s, k - 1)) \in SUBSET Pixels
      <3>1. k - 1 \in 0..SlantLength(s)
        BY <2>1
      <3>2. SlantX(s, k - 1) \in Int /\ SlantY(s, k - 1) \in Int
        BY <1>1, <1>5, <3>1, SlantPoint
      <3>. QED
        BY <3>2, PixelAtIn
    <2>. DEFINE n == SlantLength(s) + 1
                F == [k \in 1..n |-> PixelAt(SlantX(s, k - 1), SlantY(s, k - 1))]
    <2>3. n \in Nat /\ F \in [1..n -> SUBSET Pixels]
      BY <2>1, <2>2
    <2>. HIDE DEF n, F
    <2>4. F \in Seq(SUBSET Pixels)
      BY <2>3, SeqDef
    <2>5. Segment(s[1], s[2], s[3], s[4]) = SlantedLine(s[1], s[2], s[3], s[4])
      BY <1>5 DEF Segment
    <2>. QED
      BY <2>4, <2>5, SlantedLineIs DEF n, F
  <1>. QED
    BY <1>2, <1>3, <1>4, <1>5

\* Different pixels are different bits.
LEMMA BitsDiffer ==
  ASSUME NEW X \in 0..Width - 1, NEW Y \in Int, NEW c \in 0..ByteWidth - 1, NEW b \in 0..7,
         NEW Z \in Int, Bit(X, Y) = <<c + ByteWidth * Z, b>>
  PROVE  X = 8 * c + b /\ Y = Z
  <1>. DEFINE q == X \div 8
              r == X % 8
              i == q + ByteWidth * Y
              j == c + ByteWidth * Z
  <1>1. q \in Nat /\ r \in 0..7 /\ X = 8 * q + r
    BY Eights, ScreenSize
  <1>2. Bit(X, Y) = <<i, r>>
    BY DEF Bit
  <1>3. i = j /\ r = b
    BY <1>2
  <1>. HIDE DEF q, r
  <1>4. q \in 0..ByteWidth - 1 /\ ByteWidth \in Nat \ {0}
    BY <1>1, ScreenSize
  <1>5. i \div ByteWidth = Y /\ i % ByteWidth = q /\ j \div ByteWidth = Z /\ j % ByteWidth = c
    BY <1>4, QuotientUnique
  <1>. HIDE DEF i, j
  <1>. QED
    BY <1>1, <1>3, <1>5

\* The masks of the first and the last byte leave exactly the columns asked for.
LEMMA ColumnsAre ==
  ASSUME NEW X1 \in Nat, NEW X2 \in Nat, NEW Y \in Int
  PROVE  Columns(X1, X2, Y) = {Bit(X, Y) : X \in X1..X2}
  <1>. DEFINE q1 == X1 \div 8
              q2 == X2 \div 8
              r1 == X1 % 8
              r2 == X2 % 8
  <1>1. /\ q1 \in Nat /\ r1 \in 0..7 /\ X1 = 8 * q1 + r1
        /\ q2 \in Nat /\ r2 \in 0..7 /\ X2 = 8 * q2 + r2
    BY Eights
  <1>. HIDE DEF q1, q2, r1, r2
  <1>2. \A c \in Nat, b \in 0..7 : Bit(8 * c + b, Y) = <<c + ByteWidth * Y, b>>
    BY DEF Bit
  <1>3. ASSUME NEW c \in q1..q2, NEW b \in Mask(8 * c, X1, X2)
        PROVE  <<c + ByteWidth * Y, b>> \in {Bit(X, Y) : X \in X1..X2}
    <2>1. c \in Nat /\ b \in 0..7 /\ (8 * c < X1 => b >= r1) /\ (X2 - 8 * c < 8 => b <= r2)
      BY <1>1 DEF Mask, r1, r2
    <2>2. 8 * c + b \in X1..X2
      BY <1>1, <2>1
    <2>. QED
      BY <1>2, <2>1, <2>2
  <1>4. ASSUME NEW X \in X1..X2
        PROVE  \E c \in q1..q2 : \E b \in Mask(8 * c, X1, X2) : Bit(X, Y) = <<c + ByteWidth * Y, b>>
    <2>. DEFINE c == X \div 8
                b == X % 8
    <2>1. c \in Nat /\ b \in 0..7 /\ X = 8 * c + b
      BY Eights
    <2>2. Bit(X, Y) = <<c + ByteWidth * Y, b>>
      BY DEF Bit
    <2>. HIDE DEF c, b
    <2>3. c \in q1..q2
      BY <1>1, <2>1
    <2>4. b \in Mask(8 * c, X1, X2)
      <3>1. (8 * c < X1 => b >= r1) /\ (X2 - 8 * c < 8 => b <= r2)
        BY <1>1, <2>1
      <3>. QED
        BY <2>1, <3>1 DEF Mask, r1, r2
    <2>. QED
      BY <2>2, <2>3, <2>4
  <1>5. Columns(X1, X2, Y)
          = UNION {{<<c + ByteWidth * Y, b>> : b \in Mask(8 * c, X1, X2)} : c \in q1..q2}
    BY DEF Columns, q1, q2
  <1>. QED
    BY <1>3, <1>4, <1>5

LEMMA PixelAtIs ==
  ASSUME NEW x \in 0..Width - 1, NEW y \in 0..Height - 1
  PROVE  PixelAt(x, y) = {Bit(x, Translate(y))}
  <1>1. Byte(x) = x /\ Byte(Translate(y)) = Translate(y) /\ x < Width
    BY OnScreenByte, ScreenSize
  <1>2. Translate(y) < Height
    BY ScreenSize DEF Translate
  <1>. QED
    BY <1>1, <1>2 DEF PixelAt, DisplayPixel

LEMMA InkOne ==
  ASSUME NEW A
  PROVE  Ink(<<A>>) = A
  BY DEF Ink

\* On an axis-parallel segment nothing is off the line.
LEMMA WithinFlat ==
  ASSUME NEW s \in Segments, NEW p \in Int \X Int,
         \/ s[1] = s[3] /\ p[1] = s[1]
         \/ s[2] = s[4] /\ p[2] = s[2]
  PROVE  Within(s, p, 1)
  <1>. DEFINE x == s[3] - s[1]
              y == s[4] - s[2]
              c == (p[1] - s[1]) * y - (p[2] - s[2]) * x
              m == Most(Abs(x), Abs(y))
  <1>1. /\ s[1] \in Int /\ s[2] \in Int /\ s[3] \in Int /\ s[4] \in Int
        /\ p[1] \in Int /\ p[2] \in Int
    BY DEF Segments
  <1>2. c = 0
    BY <1>1
  <1>3. m \in Nat
    <2>1. Abs(x) \in Nat /\ Abs(y) \in Nat
      BY <1>1, Sign
    <2>. QED
      BY <2>1, NatChoices
  <1>4. Within(s, p, 1) <=> 2 * Abs(c) <= 1 * m
    BY DEF Within
  <1>. HIDE DEF c, m
  <1>. QED
    BY <1>2, <1>3, <1>4 DEF Abs

\* What a segment on the screen touches: its two ends, and only pixels between them
\* that are within half a pixel of it.
SegmentPixels(s, P) ==
  /\ P \in SUBSET Screen
  /\ Ink(Segment(s[1], s[2], s[3], s[4])) = Cells(P)
  /\ \A p \in P : Between(p[1], s[1], s[3]) /\ Between(p[2], s[2], s[4]) /\ Within(s, p, 1)
  /\ <<s[1], s[2]>> \in P /\ <<s[3], s[4]>> \in P

LEMMA SegmentPoint ==
  ASSUME NEW s, InScreen(s), s[1] = s[3], s[2] = s[4]
  PROVE  \E P : SegmentPixels(s, P)
  <1>. DEFINE p == <<s[1], s[2]>>
  <1>1. /\ s \in Segments /\ s[1] \in 0..Width - 1 /\ s[2] \in 0..Height - 1
        /\ p \in Screen /\ p \in Int \X Int
    BY ScreenSize DEF InScreen, OnColumns, Screen
  <1>2. Segment(s[1], s[2], s[3], s[4]) = <<{Bit(s[1], Translate(s[2]))}>>
    BY <1>1, PixelAtIs DEF Segment
  <1>3. Ink(Segment(s[1], s[2], s[3], s[4])) = Cells({p})
    BY <1>2, InkOne DEF Cells
  <1>4. Within(s, p, 1)
    BY <1>1, WithinFlat
  <1>5. Between(p[1], s[1], s[3]) /\ Between(p[2], s[2], s[4])
    BY <1>1, ScreenSize DEF Between, Least, Most
  <1>6. SegmentPixels(s, {p})
    BY <1>1, <1>3, <1>4, <1>5 DEF SegmentPixels
  <1>. QED
    BY <1>6

LEMMA SegmentUpright ==
  ASSUME NEW s, InScreen(s), s[1] = s[3], s[2] # s[4]
  PROVE  \E P : SegmentPixels(s, P)
  <1>. DEFINE a == Least(s[2], s[4])
              b == Most(s[2], s[4])
              P == {<<s[1], y>> : y \in a..b}
              t2 == Translate(s[2])
              t4 == Translate(s[4])
  <1>1. /\ s \in Segments /\ s[1] \in 0..Width - 1 /\ s[1] \in Int
        /\ s[2] \in 0..Height - 1 /\ s[4] \in 0..Height - 1 /\ s[2] \in Int /\ s[4] \in Int
    BY ScreenSize DEF InScreen, OnColumns
  <1>2. /\ a \in 0..Height - 1 /\ b \in 0..Height - 1 /\ s[2] \in a..b /\ s[4] \in a..b
    BY <1>1, ScreenSize DEF Least, Most
  <1>3. Segment(s[1], s[2], s[3], s[4]) = <<DisplayLineY(s[1], t2, t4)>>
    BY <1>1, OnScreenByte DEF Segment
  <1>4. DisplayLineY(s[1], t2, t4) = {Bit(s[1], Y) : Y \in Translate(b)..Translate(a)}
    <2>1. ~(s[1] > Width)
      BY <1>1, ScreenSize
    <2>2. Least(t2, t4) = Translate(b) /\ Least(Most(t2, t4), Height - 1) = Translate(a)
      BY <1>1, ScreenSize DEF Least, Most, Translate
    <2>. QED
      BY <2>1, <2>2 DEF DisplayLineY
  <1>5. {Bit(s[1], Y) : Y \in Translate(b)..Translate(a)} = Cells(P)
    <2>. HIDE DEF a, b
    <2>1. \A y \in a..b : Translate(y) \in Translate(b)..Translate(a)
      BY <1>2, ScreenSize DEF Translate
    <2>2. \A Y \in Translate(b)..Translate(a) : Translate(Y) \in a..b /\ Translate(Translate(Y)) = Y
      BY <1>2, ScreenSize DEF Translate
    <2>3. Cells(P) = {Bit(s[1], Translate(y)) : y \in a..b}
      <3>. DEFINE q(y) == <<s[1], y>>
      <3>1. \A y \in a..b : q(y) \in P /\ q(y)[1] = s[1] /\ q(y)[2] = y
        OBVIOUS
      <3>2. \A p \in P : \E y \in a..b : p[1] = s[1] /\ p[2] = y
        OBVIOUS
      <3>. HIDE DEF P, q
      <3>. QED
        BY <3>1, <3>2 DEF Cells
    <2>. QED
      BY <2>1, <2>2, <2>3
  <1>6. Ink(Segment(s[1], s[2], s[3], s[4])) = Cells(P)
    BY <1>3, <1>4, <1>5, InkOne
  <1>7. ASSUME NEW p \in P
        PROVE  /\ p \in Screen /\ Between(p[1], s[1], s[3]) /\ Between(p[2], s[2], s[4])
               /\ Within(s, p, 1)
    <2>1. PICK y \in a..b : p = <<s[1], y>>
      OBVIOUS
    <2>2. y \in 0..Height - 1 /\ y \in Int /\ p[1] = s[1] /\ p[2] = y
      BY <1>2, <2>1, ScreenSize
    <2>3. Between(p[1], s[1], s[3]) /\ Between(p[2], s[2], s[4])
      BY <1>1, <2>2 DEF Between, Least, Most
    <2>4. p \in Screen /\ p \in Int \X Int
      BY <1>1, <2>1, <2>2 DEF Screen
    <2>5. Within(s, p, 1)
      BY <1>1, <2>2, <2>4, WithinFlat
    <2>. QED
      BY <2>3, <2>4, <2>5
  <1>8. <<s[1], s[2]>> \in P /\ <<s[3], s[4]>> \in P
    BY <1>2
  <1>. HIDE DEF P
  <1>9. SegmentPixels(s, P)
    BY <1>6, <1>7, <1>8 DEF SegmentPixels
  <1>. QED
    BY <1>9

LEMMA SegmentLevel ==
  ASSUME NEW s, InScreen(s), s[1] # s[3], s[2] = s[4]
  PROVE  \E P : SegmentPixels(s, P)
  <1>. DEFINE a == Least(s[1], s[3])
              b == Most(s[1], s[3])
              P == {<<x, s[2]>> : x \in a..b}
              t == Translate(s[2])
  <1>1. /\ s \in Segments /\ s[1] \in 0..Width - 1 /\ s[3] \in 0..Width - 1
        /\ s[1] \in Int /\ s[3] \in Int /\ s[2] \in 0..Height - 1 /\ s[2] \in Int
    BY ScreenSize DEF InScreen, OnColumns
  <1>2. /\ a \in 0..Width - 1 /\ b \in 0..Width - 1 /\ s[1] \in a..b /\ s[3] \in a..b
        /\ a \in Nat /\ b \in Nat
    BY <1>1, ScreenSize DEF Least, Most
  <1>3. Segment(s[1], s[2], s[3], s[4]) = <<DisplayLineX(s[1], s[3], t)>>
    BY <1>1, OnScreenByte DEF Segment
  <1>4. DisplayLineX(s[1], s[3], t) = {Bit(X, t) : X \in a..b}
    <2>1. t \in Int /\ ~(t > Height)
      BY <1>1, ScreenSize DEF Translate
    <2>2. Least(b, Width - 1) = b
      BY <1>2, ScreenSize DEF Least
    <2>. HIDE DEF a, b, t
    <2>3. DisplayLineX(s[1], s[3], t) = Columns(a, b, t)
      BY <2>1, <2>2 DEF DisplayLineX, a, b
    <2>. QED
      BY <1>2, <2>1, <2>3, ColumnsAre
  <1>5. {Bit(X, t) : X \in a..b} = Cells(P)
    <2>. DEFINE q(x) == <<x, s[2]>>
    <2>1. \A x \in a..b : q(x) \in P /\ q(x)[1] = x /\ q(x)[2] = s[2]
      OBVIOUS
    <2>2. \A p \in P : \E x \in a..b : p[1] = x /\ p[2] = s[2]
      OBVIOUS
    <2>. HIDE DEF P, a, b, q
    <2>. QED
      BY <2>1, <2>2 DEF Cells
  <1>6. Ink(Segment(s[1], s[2], s[3], s[4])) = Cells(P)
    BY <1>3, <1>4, <1>5, InkOne
  <1>7. ASSUME NEW p \in P
        PROVE  /\ p \in Screen /\ Between(p[1], s[1], s[3]) /\ Between(p[2], s[2], s[4])
               /\ Within(s, p, 1)
    <2>1. PICK x \in a..b : p = <<x, s[2]>>
      OBVIOUS
    <2>2. x \in 0..Width - 1 /\ x \in Int /\ p[1] = x /\ p[2] = s[2]
      BY <1>2, <2>1, ScreenSize
    <2>3. Between(p[1], s[1], s[3]) /\ Between(p[2], s[2], s[4])
      BY <1>1, <2>2 DEF Between, Least, Most
    <2>4. p \in Screen /\ p \in Int \X Int
      BY <1>1, <2>1, <2>2 DEF Screen
    <2>5. Within(s, p, 1)
      BY <1>1, <2>2, <2>4, WithinFlat
    <2>. QED
      BY <2>3, <2>4, <2>5
  <1>8. <<s[1], s[2]>> \in P /\ <<s[3], s[4]>> \in P
    BY <1>2
  <1>. HIDE DEF P
  <1>9. SegmentPixels(s, P)
    BY <1>6, <1>7, <1>8 DEF SegmentPixels
  <1>. QED
    BY <1>9

LEMMA SegmentSlanted ==
  ASSUME NEW s, InScreen(s), s[1] # s[3], s[2] # s[4]
  PROVE  \E P : SegmentPixels(s, P)
  <1>. DEFINE n == SlantLength(s)
              p(j) == <<SlantX(s, j), SlantY(s, j)>>
              P == {p(j) : j \in 0..n}
  <1>1. /\ s \in Segments /\ s[1] \in 0..Width - 1 /\ s[3] \in 0..Width - 1
        /\ s[2] \in 0..Height - 1 /\ s[4] \in 0..Height - 1
        /\ s[1] \in Int /\ s[2] \in Int /\ s[3] \in Int /\ s[4] \in Int
    BY ScreenSize DEF InScreen, OnColumns
  <1>2. n \in Nat
    <2>1. Abs(s[3] - s[1]) \in Nat /\ Abs(s[4] - s[2]) \in Nat
      BY <1>1, Sign
    <2>. QED
      BY <2>1, NatChoices DEF SlantLength
  <1>3. \A j \in 0..n : /\ p(j) \in Int \X Int
                        /\ Between(p(j)[1], s[1], s[3]) /\ Between(p(j)[2], s[2], s[4])
                        /\ Within(s, p(j), 1)
                        /\ j = 0 => p(j) = <<s[1], s[2]>>
                        /\ j = n => p(j) = <<s[3], s[4]>>
    BY <1>1, SlantPoint
  <1>4. ASSUME NEW q \in Int \X Int, Between(q[1], s[1], s[3]), Between(q[2], s[2], s[4])
        PROVE  q[1] \in 0..Width - 1 /\ q[2] \in 0..Height - 1 /\ q \in Screen
    <2>1. q[1] \in 0..Width - 1 /\ q[2] \in 0..Height - 1
      BY <1>1, <1>4, ScreenSize DEF Between, Least, Most
    <2>. QED
      BY <2>1 DEF Screen
  <1>5. \A j \in 0..n : /\ p(j) \in Screen
                        /\ PixelAt(SlantX(s, j), SlantY(s, j)) = {Bit(SlantX(s, j), Translate(SlantY(s, j)))}
    <2>1. ASSUME NEW j \in 0..n
          PROVE  /\ p(j) \in Screen
                 /\ PixelAt(SlantX(s, j), SlantY(s, j)) = {Bit(SlantX(s, j), Translate(SlantY(s, j)))}
      <3>1. p(j) \in Screen /\ p(j)[1] \in 0..Width - 1 /\ p(j)[2] \in 0..Height - 1
        BY <1>3, <1>4
      <3>2. SlantX(s, j) \in 0..Width - 1 /\ SlantY(s, j) \in 0..Height - 1
        BY <3>1
      <3>. QED
        BY <3>1, <3>2, PixelAtIs
    <2>. QED
      BY <2>1
  <1>6. Ink(Segment(s[1], s[2], s[3], s[4])) = Cells(P)
    <2>1. Segment(s[1], s[2], s[3], s[4])
            = [k \in 1..n + 1 |-> PixelAt(SlantX(s, k - 1), SlantY(s, k - 1))]
      BY SlantedLineIs DEF Segment
    <2>2. \A k \in 1..n + 1 : k - 1 \in 0..n
      BY <1>2
    <2>3. \A j \in 0..n : j + 1 \in 1..n + 1 /\ (j + 1) - 1 = j
      BY <1>2
    <2>. HIDE DEF n
    <2>. DEFINE F == [k \in 1..n + 1 |-> PixelAt(SlantX(s, k - 1), SlantY(s, k - 1))]
                B(j) == Bit(SlantX(s, j), Translate(SlantY(s, j)))
    <2>4. \A k \in 1..n + 1 : F[k] = {B(k - 1)}
      BY <1>5, <2>2
    <2>5. DOMAIN F = 1..n + 1
      OBVIOUS
    <2>6. Cells(P) = {B(j) : j \in 0..n}
      <3>1. \A j \in 0..n : p(j) \in P /\ p(j)[1] = SlantX(s, j) /\ p(j)[2] = SlantY(s, j)
        OBVIOUS
      <3>2. \A q \in P : \E j \in 0..n : q[1] = SlantX(s, j) /\ q[2] = SlantY(s, j)
        OBVIOUS
      <3>. HIDE DEF P, p, F
      <3>. QED
        BY <3>1, <3>2 DEF Cells
    <2>. HIDE DEF F, B
    <2>7. Ink(F) = {B(j) : j \in 0..n}
      <3>1. ASSUME NEW e \in Ink(F) PROVE e \in {B(j) : j \in 0..n}
        BY <2>2, <2>4, <2>5 DEF Ink
      <3>2. ASSUME NEW j \in 0..n PROVE B(j) \in Ink(F)
        <4>1. j + 1 \in DOMAIN F /\ F[j + 1] = {B(j)}
          BY <2>3, <2>4, <2>5
        <4>. QED
          BY <4>1 DEF Ink
      <3>. QED
        BY <3>1, <3>2
    <2>. QED
      BY <2>1, <2>6, <2>7 DEF F
  <1>7. <<s[1], s[2]>> \in P /\ <<s[3], s[4]>> \in P
    <2>1. 0 \in 0..n /\ n \in 0..n
      BY <1>2
    <2>. HIDE DEF n
    <2>2. p(0) = <<s[1], s[2]>> /\ p(n) = <<s[3], s[4]>>
      BY <1>3, <2>1
    <2>. HIDE DEF p
    <2>. QED
      BY <2>1, <2>2
  <1>8. ASSUME NEW q \in P
        PROVE  /\ q \in Screen /\ Between(q[1], s[1], s[3]) /\ Between(q[2], s[2], s[4])
               /\ Within(s, q, 1)
    <2>1. PICK j \in 0..n : q = p(j)
      OBVIOUS
    <2>. HIDE DEF n, p
    <2>. QED
      BY <1>3, <1>5, <2>1
  <1>. HIDE DEF P
  <1>9. SegmentPixels(s, P)
    BY <1>6, <1>7, <1>8 DEF SegmentPixels
  <1>. QED
    BY <1>9

LEMMA SegmentInk ==
  ASSUME NEW s, InScreen(s)
  PROVE  \E P : SegmentPixels(s, P)
  BY SegmentPoint, SegmentUpright, SegmentLevel, SegmentSlanted

------------------------------------------------------------------------------
(***************************************************************************)
(* Clipping.                                                               *)
(***************************************************************************)

\* The slope may be taken from either end of the line, and mirrored.
LEMMA AlongTurned ==
  ASSUME NEW n \in Nat, NEW num \in Int, NEW den \in Int
  PROVE  /\ Along(n, num, den) \in Int
         /\ Along(n, -num, -den) = Along(n, num, den)
         /\ Along(n, -num, den) = -Along(n, num, den)
         /\ Along(n, num, -den) = -Along(n, num, den)
         /\ num = 0 \/ den = 0 => Along(n, num, den) = 0
  <1>1. CASE num = 0 \/ den = 0
    BY <1>1 DEF Along
  <1>2. CASE num # 0 /\ den # 0
    <2>. DEFINE a == n * num
                q == Abs(a) \div Abs(den)
    <2>1. a \in Int /\ n * (-num) = -a
      OBVIOUS
    <2>. HIDE DEF a
    <2>2. Abs(den) \in Nat \ {0} /\ Abs(a) \in Nat /\ Abs(-den) = Abs(den) /\ Abs(-a) = Abs(a)
      BY <1>2, <2>1, Sign
    <2>3. q \in Int
      BY <2>2, Quotient
    <2>4. /\ Along(n, num, den) = Sgn(a) * Sgn(den) * q
          /\ Along(n, -num, den) = Sgn(-a) * Sgn(den) * q
          /\ Along(n, num, -den) = Sgn(a) * Sgn(-den) * q
          /\ Along(n, -num, -den) = Sgn(-a) * Sgn(-den) * q
      <3>1. -num # 0 /\ -den # 0
        BY <1>2
      <3>. QED
        BY <1>2, <2>1, <2>2, <3>1 DEF Along, Quot, a
    <2>5. Sgn(-den) = -Sgn(den) /\ Sgn(den) \in {1, -1} /\ Sgn(a) \in {1, -1} /\ Sgn(-a) \in {1, -1}
      BY <1>2, <2>1 DEF Sgn
    <2>6. CASE a = 0
      <3>1. Abs(a) = 0
        BY <2>6 DEF Abs
      <3>2. q = 0
        BY <2>2, <3>1
      <3>. HIDE DEF q
      <3>. QED
        BY <1>2, <2>4, <2>5, <3>2
    <2>7. CASE a # 0
      <3>1. Sgn(-a) = -Sgn(a)
        BY <2>1, <2>7 DEF Sgn
      <3>. HIDE DEF q
      <3>. QED
        BY <1>2, <2>3, <2>4, <2>5, <3>1
    <2>. QED
      BY <2>6, <2>7
  <1>. QED
    BY <1>1, <1>2

\* Moving along a line: not too far, and not more than one pixel too short.
LEMMA AlongUp ==
  ASSUME NEW n \in Nat, NEW num \in Nat, NEW den \in Nat \ {0}
  PROVE  LET a == Along(n, num, den) IN
         /\ a \in Nat /\ a * den <= n * num /\ n * num - a * den < den
         /\ n <= den => a <= num
  <1>. DEFINE m == n * num
              q == m \div den
  <1>1. m \in Nat
    OBVIOUS
  <1>. HIDE DEF m
  <1>2. q \in Nat /\ m % den \in 0..den - 1 /\ m = den * q + (m % den)
    BY <1>1
  <1>3. Along(n, num, den) = q
    <2>1. CASE num = 0
      <3>1. m = 0
        BY <2>1 DEF m
      <3>2. q = 0
        BY <3>1
      <3>. QED
        BY <2>1, <3>2 DEF Along
    <2>2. CASE num # 0
      <3>1. Sgn(m) = 1 /\ Sgn(den) = 1 /\ Abs(m) = m /\ Abs(den) = den
        BY <1>1 DEF Sgn, Abs
      <3>2. Quot(m, den) = 1 * 1 * q
        BY <3>1 DEF Quot
      <3>3. Along(n, num, den) = Quot(m, den)
        BY <2>2 DEF Along, m
      <3>. HIDE DEF q
      <3>. QED
        BY <1>2, <3>2, <3>3
    <2>. QED
      BY <2>1, <2>2
  <1>. HIDE DEF q
  <1>4. q * den <= m /\ m - q * den < den
    <2>. DEFINE r == m % den
                d == den * q
    <2>1. r \in 0..den - 1 /\ m = d + r /\ d \in Int
      BY <1>2
    <2>2. q * den = d
      BY <1>2
    <2>. HIDE DEF r, d
    <2>. QED
      BY <2>1, <2>2
  <1>5. n <= den => q <= num
    <2>1. SUFFICES ASSUME n <= den PROVE q * den <= num * den
      BY <1>2, Cancel
    <2>2. PICK e \in Nat : den = n + e
      <3>1. den - n \in Nat /\ den = n + (den - n)
        BY <2>1
      <3>. QED
        BY <3>1
    <2>3. num * den = m + num * e /\ num * e \in Nat /\ m \in Nat
      BY <1>1, <2>2 DEF m
    <2>4. q * den \in Nat /\ num * den \in Nat
      BY <1>2
    <2>. QED
      BY <1>4, <2>3, <2>4
  <1>. QED
    BY <1>2, <1>3, <1>4, <1>5 DEF m

LEMMA AlongAny ==
  ASSUME NEW n \in Nat, NEW num \in Int, NEW den \in Nat \ {0}
  PROVE  LET a == Along(n, num, den) IN
         /\ a \in Int
         /\ num >= 0 => a >= 0 /\ a * den <= n * num
         /\ num <= 0 => a <= 0 /\ a * den >= n * num
         /\ Abs(a * den - n * num) < den
         /\ n <= den => Between(a, 0, num)
  <1>1. CASE num >= 0
    <2>. DEFINE a == Along(n, num, den)
                u == a * den
                v == n * num
    <2>1. num \in Nat
      BY <1>1
    <2>2. a \in Nat /\ u <= v /\ v - u < den /\ (n <= den => a <= num)
      BY <2>1, AlongUp
    <2>3. u \in Int /\ v \in Int
      BY <2>2
    <2>4. num <= 0 => num = 0 /\ a = 0
      BY <1>1, AlongTurned
    <2>. HIDE DEF a
    <2>5. num <= 0 => a <= 0 /\ u >= v
      BY <2>2, <2>4
    <2>. HIDE DEF u, v
    <2>6. Abs(u - v) < den
      BY <2>2, <2>3 DEF Abs
    <2>7. n <= den => Between(a, 0, num)
      BY <2>1, <2>2 DEF Between, Least, Most
    <2>. QED
      BY <2>2, <2>5, <2>6, <2>7 DEF a, u, v
  <1>2. CASE ~(num >= 0)
    <2>. DEFINE a == Along(n, num, den)
                b == Along(n, -num, den)
                u == a * den
                v == n * num
                w == b * den
                z == n * (-num)
    <2>1. -num \in Nat
      BY <1>2
    <2>2. b \in Nat /\ w <= z /\ z - w < den /\ (n <= den => b <= -num)
      BY <2>1, AlongUp
    <2>3. b = -a /\ a \in Int
      BY AlongTurned
    <2>. HIDE DEF a, b
    <2>4. u \in Int /\ v \in Int /\ w = -u /\ z = -v
      BY <2>3
    <2>. HIDE DEF u, v, w, z
    <2>5. v <= u /\ u - v < den /\ a <= 0
      BY <2>2, <2>3, <2>4
    <2>6. Abs(u - v) < den
      BY <2>4, <2>5 DEF Abs
    <2>7. n <= den => Between(a, 0, num)
      BY <1>2, <2>2, <2>3 DEF Between, Least, Most
    <2>. QED
      BY <1>2, <2>3, <2>5, <2>6, <2>7 DEF a, u, v
  <1>. QED
    BY <1>1, <1>2

\* An end that is outside 0..size - 1 is moved to its border, and the other coordinate
\* along the line.
CutLow(lo, u, num, den) == IF lo < 0 THEN u + Along(-lo, num, den) ELSE u
CutHigh(hi, v, num, den, size) ==
  IF hi > size - 1 THEN v - Along(hi - (size - 1), num, den) ELSE v

\* num / den is the slope of the line from <<lo, u>> to <<hi, v>>.
Slope(lo, u, hi, v, num, den) ==
  \/ num = v - u /\ den = hi - lo
  \/ num = -(v - u) /\ den = -(hi - lo)

LEMMA AlongSlope ==
  ASSUME NEW lo \in Int, NEW hi \in Int, NEW u \in Int, NEW v \in Int, NEW num, NEW den,
         Slope(lo, u, hi, v, num, den), NEW n \in Nat
  PROVE  Along(n, num, den) = Along(n, v - u, hi - lo)
  <1>1. v - u \in Int /\ hi - lo \in Int
    OBVIOUS
  <1>. QED
    BY <1>1, AlongTurned DEF Slope

\* Both ends of a line cut at once: they stay on the line, but for less than a pixel,
\* and do not pass each other.
LEMMA CutBoth ==
  ASSUME NEW lo \in Int, NEW hi \in Int, NEW u \in Int, NEW v \in Int, NEW num, NEW den,
         Slope(lo, u, hi, v, num, den), NEW size \in Nat \ {0},
         lo <= hi, 0 <= hi, lo < size
  PROVE  LET a == CutLow(lo, u, num, den)
             b == CutHigh(hi, v, num, den, size) IN
         /\ a \in Int /\ b \in Int
         /\ Between(a, u, v) /\ Between(b, u, v)
         /\ u <= v => a <= b
         /\ u >= v => a >= b
         /\ Abs((Most(lo, 0) - lo) * (v - u) - (a - u) * (hi - lo)) <= hi - lo
         /\ Abs((Least(hi, size - 1) - lo) * (v - u) - (b - u) * (hi - lo)) <= hi - lo
  <1>. DEFINE n == IF lo < 0 THEN -lo ELSE 0
              m == IF hi > size - 1 THEN hi - (size - 1) ELSE 0
              A == IF lo < 0 THEN Along(-lo, num, den) ELSE 0
              B == IF hi > size - 1 THEN Along(hi - (size - 1), num, den) ELSE 0
              d == hi - lo
              w == v - u
              a == CutLow(lo, u, num, den)
              b == CutHigh(hi, v, num, den, size)
  <1>1. /\ n \in Nat /\ m \in Nat /\ d \in Nat /\ w \in Int
        /\ n <= d /\ m <= d /\ n + m <= d
        /\ Most(lo, 0) - lo = n /\ Least(hi, size - 1) - lo = d - m
    BY DEF Most, Least
  <1>. DEFINE Moved1(k, C) == /\ C \in Int
                              /\ w >= 0 => C >= 0 /\ C * d <= k * w
                              /\ w <= 0 => C <= 0 /\ C * d >= k * w
                              /\ Abs(C * d - k * w) <= d
                              /\ Between(C, 0, w)
  <1>2. ASSUME NEW k \in Nat, k <= d, k > 0 PROVE Moved1(k, Along(k, num, den))
    <2>1. d \in Nat \ {0}
      BY <1>1, <1>2
    <2>2. Along(k, num, den) = Along(k, w, d)
      BY AlongSlope
    <2>. DEFINE C == Along(k, w, d)
                f == C * d - k * w
    <2>. HIDE DEF d, w
    <2>3. /\ C \in Int
          /\ w >= 0 => C >= 0 /\ C * d <= k * w
          /\ w <= 0 => C <= 0 /\ C * d >= k * w
          /\ Abs(f) < d /\ Between(C, 0, w)
      BY <1>1, <1>2, <2>1, AlongAny
    <2>. HIDE DEF C
    <2>4. f \in Int
      BY <1>1, <1>2, <2>3
    <2>. HIDE DEF f
    <2>5. Abs(f) <= d
      BY <1>1, <2>3, <2>4 DEF Abs
    <2>. QED
      BY <2>2, <2>3, <2>5 DEF C, f
  <1>3. Moved1(0, 0)
    <2>. HIDE DEF d, w
    <2>1. 0 * d = 0 /\ 0 * w = 0
      BY <1>1
    <2>2. Between(0, 0, w)
      BY <1>1 DEF Between, Least, Most
    <2>3. Abs(0 * d - 0 * w) <= d
      BY <1>1, <2>1 DEF Abs
    <2>. QED
      BY <2>1, <2>2, <2>3
  <1>4. Moved1(n, A) /\ Moved1(m, B)
    <2>. HIDE DEF Moved1, d
    <2>1. lo < 0 => n = -lo /\ n > 0 /\ A = Along(n, num, den)
      OBVIOUS
    <2>2. ~(lo < 0) => n = 0 /\ A = 0
      OBVIOUS
    <2>3. hi > size - 1 => m = hi - (size - 1) /\ m > 0 /\ B = Along(m, num, den)
      OBVIOUS
    <2>4. ~(hi > size - 1) => m = 0 /\ B = 0
      OBVIOUS
    <2>. HIDE DEF n, m, A, B
    <2>. QED
      BY <1>1, <1>2, <1>3, <2>1, <2>2, <2>3, <2>4
  <1>5. a = u + A /\ b = v - B
    <2>1. A \in Int /\ B \in Int
      BY <1>4
    <2>. QED
      BY <2>1 DEF CutLow, CutHigh
  <1>. HIDE DEF n, m, A, B, a, b
  <1>6. a \in Int /\ b \in Int /\ A \in Int /\ B \in Int
    BY <1>4, <1>5
  <1>7. Between(a, u, v) /\ Between(b, u, v)
    <2>1. Between(A, 0, w) /\ Between(B, 0, w)
      BY <1>4
    <2>. QED
      BY <1>5, <1>6, <2>1 DEF Between, Least, Most
  <1>8. u <= v => a <= b
    <2>1. SUFFICES ASSUME w >= 0 PROVE A + B <= w
      BY <1>5, <1>6
    <2>2. CASE d = 0
      <3>1. n = 0 /\ m = 0 /\ Between(A, 0, w) /\ Between(B, 0, w)
        BY <1>1, <1>4, <2>2
      <3>2. lo = hi /\ ~(lo < 0) /\ ~(hi > size - 1)
        BY <1>1, <2>2, <3>1 DEF n, m
      <3>. QED
        BY <2>1, <3>2, <1>1 DEF A, B
    <2>3. CASE d # 0
      <3>. HIDE DEF d, w
      <3>1. A * d <= n * w /\ B * d <= m * w
        BY <1>4, <2>1
      <3>2. PICK e \in Nat : d = n + m + e
        <4>1. d - n - m \in Nat /\ d = n + m + (d - n - m)
          BY <1>1
        <4>. QED
          BY <4>1
      <3>3. w * d = n * w + m * w + e * w /\ e * w \in Nat /\ n * w \in Int /\ m * w \in Int
        BY <1>1, <2>1, <3>2
      <3>4. (A + B) * d = A * d + B * d /\ A * d \in Int /\ B * d \in Int
        BY <1>1, <1>6
      <3>5. (A + B) * d <= w * d
        BY <3>1, <3>3, <3>4
      <3>. QED
        BY <1>1, <1>6, <2>3, <3>5, Cancel
    <2>. QED
      BY <2>2, <2>3
  <1>9. u >= v => a >= b
    <2>1. SUFFICES ASSUME w <= 0 PROVE w <= A + B
      BY <1>5, <1>6
    <2>2. CASE d = 0
      <3>1. n = 0 /\ m = 0
        BY <1>1, <2>2
      <3>2. lo = hi /\ ~(lo < 0) /\ ~(hi > size - 1)
        BY <1>1, <2>2, <3>1 DEF n, m
      <3>. QED
        BY <2>1, <3>2, <1>1 DEF A, B
    <2>3. CASE d # 0
      <3>. HIDE DEF d, w
      <3>1. A * d >= n * w /\ B * d >= m * w
        BY <1>4, <2>1
      <3>2. PICK e \in Nat : d = n + m + e
        <4>1. d - n - m \in Nat /\ d = n + m + (d - n - m)
          BY <1>1
        <4>. QED
          BY <4>1
      <3>3. w * d = n * w + m * w + e * w /\ e * w <= 0 /\ n * w \in Int /\ m * w \in Int /\ e * w \in Int
        BY <1>1, <2>1, <3>2
      <3>4. (A + B) * d = A * d + B * d /\ A * d \in Int /\ B * d \in Int
        BY <1>1, <1>6
      <3>5. w * d <= (A + B) * d
        BY <3>1, <3>3, <3>4
      <3>. QED
        BY <1>1, <1>6, <2>3, <3>5, Cancel
    <2>. QED
      BY <2>2, <2>3
  <1>10. Abs((Most(lo, 0) - lo) * w - (a - u) * d) <= d
    <2>. DEFINE f == A * d - n * w
    <2>1. Abs(f) <= d
      BY <1>4
    <2>. HIDE DEF d, w
    <2>2. a - u = A
      BY <1>5, <1>6
    <2>3. f \in Int /\ n * w - A * d = -f
      BY <1>1, <1>6
    <2>. HIDE DEF f
    <2>4. Abs(-f) = Abs(f)
      BY <2>3, Sign
    <2>. QED
      BY <1>1, <2>1, <2>2, <2>3, <2>4
  <1>11. Abs((Least(hi, size - 1) - lo) * w - (b - u) * d) <= d
    <2>. DEFINE f == B * d - m * w
    <2>1. Abs(f) <= d
      BY <1>4
    <2>2. b - u = w - B
      BY <1>5, <1>6
    <2>. HIDE DEF d, w
    <2>3. (d - m) * w - (w - B) * d = f
      BY <1>1, <1>6
    <2>. HIDE DEF f
    <2>. QED
      BY <1>1, <2>1, <2>2, <2>3
  <1>. QED
    BY <1>6, <1>7, <1>8, <1>9, <1>10, <1>11 DEF a, b

\* The direction in which a line goes while it is cut.
Rises(num, den) == (num >= 0 /\ den >= 0) \/ (num <= 0 /\ den <= 0)
Falls(num, den) == (num >= 0 /\ den <= 0) \/ (num <= 0 /\ den >= 0)

LEMMA AlongSigns ==
  ASSUME NEW n \in Nat, NEW num \in Int, NEW den \in Int
  PROVE  /\ Along(n, num, den) \in Int
         /\ Rises(num, den) => Along(n, num, den) >= 0
         /\ Falls(num, den) => Along(n, num, den) <= 0
  <1>1. CASE den = 0
    BY <1>1, AlongTurned
  <1>2. CASE den > 0
    <2>1. den \in Nat \ {0}
      BY <1>2
    <2>2. /\ Along(n, num, den) \in Int
          /\ num >= 0 => Along(n, num, den) >= 0
          /\ num <= 0 => Along(n, num, den) <= 0
      BY <2>1, AlongAny
    <2>. QED
      BY <1>2, <2>2 DEF Rises, Falls
  <1>3. CASE den < 0
    <2>1. -den \in Nat \ {0} /\ -num \in Int
      BY <1>3
    <2>2. Along(n, -num, -den) = Along(n, num, den)
      BY AlongTurned
    <2>3. /\ Along(n, -num, -den) \in Int
          /\ -num >= 0 => Along(n, -num, -den) >= 0
          /\ -num <= 0 => Along(n, -num, -den) <= 0
      BY <2>1, AlongAny
    <2>. QED
      BY <1>3, <2>2, <2>3 DEF Rises, Falls
  <1>. QED
    BY <1>1, <1>2, <1>3

\* Whatever slope is used, the ends move towards each other when it rises, and away
\* from each other when it falls.
LEMMA CutLowSigns ==
  ASSUME NEW lo \in Int, NEW u \in Int, NEW num \in Int, NEW den \in Int, NEW size \in Nat
  PROVE  LET a == CutLow(lo, u, num, den) IN
         /\ a \in Int
         /\ Rises(num, den) => a >= u
         /\ Falls(num, den) => a <= u
         /\ lo \in 0..size - 1 => a = u
  <1>1. CASE lo < 0
    <2>. DEFINE c == Along(-lo, num, den)
    <2>1. CutLow(lo, u, num, den) = u + c
      BY <1>1 DEF CutLow
    <2>2. -lo \in Nat
      BY <1>1
    <2>3. c \in Int /\ (Rises(num, den) => c >= 0) /\ (Falls(num, den) => c <= 0)
      BY <2>2, AlongSigns
    <2>. HIDE DEF c
    <2>. QED
      BY <1>1, <2>1, <2>3
  <1>2. CASE ~(lo < 0)
    <2>1. CutLow(lo, u, num, den) = u
      BY <1>2 DEF CutLow
    <2>. QED
      BY <2>1
  <1>. QED
    BY <1>1, <1>2

LEMMA CutHighSigns ==
  ASSUME NEW hi \in Int, NEW v \in Int, NEW num \in Int, NEW den \in Int, NEW size \in Nat
  PROVE  LET b == CutHigh(hi, v, num, den, size) IN
         /\ b \in Int
         /\ Rises(num, den) => b <= v
         /\ Falls(num, den) => b >= v
         /\ hi \in 0..size - 1 => b = v
  <1>1. CASE hi > size - 1
    <2>. DEFINE c == Along(hi - (size - 1), num, den)
    <2>1. CutHigh(hi, v, num, den, size) = v - c
      BY <1>1 DEF CutHigh
    <2>2. hi - (size - 1) \in Nat
      BY <1>1
    <2>3. c \in Int /\ (Rises(num, den) => c >= 0) /\ (Falls(num, den) => c <= 0)
      BY <2>2, AlongSigns
    <2>. HIDE DEF c
    <2>. QED
      BY <1>1, <2>1, <2>3
  <1>2. CASE ~(hi > size - 1)
    <2>1. CutHigh(hi, v, num, den, size) = v
      BY <1>2 DEF CutHigh
    <2>. QED
      BY <2>1
  <1>. QED
    BY <1>1, <1>2

\* A line with its ends cut to the rows of the screen, and to its columns.
RowCut(p, dx, dy) ==
  <<CutLow(p[2], p[1], dx, dy), Most(p[2], 0),
    CutHigh(p[4], p[3], dx, dy, Height), Least(p[4], Height - 1)>>
ColumnCut(r, dx, dy) ==
  <<Most(r[1], 0), CutLow(r[1], r[2], dy, dx),
    Least(r[3], Width - 1), CutHigh(r[3], r[4], dy, dx, Width)>>

RowsSeen(p) == p[4] >= 0 /\ p[2] < Height
ColumnsSeen(r) == r[3] >= 0 /\ r[1] < Width

LEMMA ClipColumnsIs ==
  ASSUME NEW r \in Segments, NEW dx, NEW dy
  PROVE  LET c == ColumnCut(r, dx, dy) IN
         ClipColumns(r, dx, dy)
           = IF ColumnsSeen(r) THEN Segment(c[1], c[2], c[3], c[4]) ELSE <<>>
  <1>1. r[1] \in Int /\ r[3] \in Int /\ Width \in Int
    BY ScreenSize DEF Segments
  <1>2. ColumnsSeen(r) <=> ~(r[3] < 0 \/ r[1] >= Width)
    BY <1>1 DEF ColumnsSeen
  <1>. QED
    BY <1>2 DEF ClipColumns, ColumnCut, CutLow, CutHigh

LEMMA ClipRowsIs ==
  ASSUME NEW p \in Segments, NEW dx, NEW dy
  PROVE  ClipRows(p, dx, dy)
           = IF RowsSeen(p) THEN ClipColumns(LeftFirst(RowCut(p, dx, dy)), dx, dy) ELSE <<>>
  <1>1. p[2] \in Int /\ p[4] \in Int /\ Height \in Int
    BY ScreenSize DEF Segments
  <1>2. RowsSeen(p) <=> ~(p[4] < 0 \/ p[2] >= Height)
    BY <1>1 DEF RowsSeen
  <1>. QED
    BY <1>2 DEF ClipRows, RowCut, CutLow, CutHigh

LEMMA Turn ==
  ASSUME NEW p \in Segments
  PROVE  /\ Turned(p) \in Segments
         /\ Turned(p)[1] = p[3] /\ Turned(p)[2] = p[4] /\ Turned(p)[3] = p[1] /\ Turned(p)[4] = p[2]
         /\ LowerFirst(p) \in {p, Turned(p)} /\ LeftFirst(p) \in {p, Turned(p)}
         /\ LowerFirst(p)[2] <= LowerFirst(p)[4]
         /\ LeftFirst(p)[1] <= LeftFirst(p)[3]
         /\ p[1] <= p[3] => LeftFirst(p) = p
         /\ p[1] > p[3] => LeftFirst(p) = Turned(p)
         /\ p[1] \in Int /\ p[2] \in Int /\ p[3] \in Int /\ p[4] \in Int
  <1>1. p[1] \in Int /\ p[2] \in Int /\ p[3] \in Int /\ p[4] \in Int
    BY DEF Segments
  <1>2. /\ Turned(p) \in Segments
        /\ Turned(p)[1] = p[3] /\ Turned(p)[2] = p[4] /\ Turned(p)[3] = p[1] /\ Turned(p)[4] = p[2]
    BY <1>1 DEF Turned, Segments
  <1>3. LowerFirst(p) = IF p[2] > p[4] THEN Turned(p) ELSE p
    BY DEF LowerFirst
  <1>4. LeftFirst(p) = IF p[1] > p[3] THEN Turned(p) ELSE p
    BY DEF LeftFirst
  <1>. QED
    BY <1>1, <1>2, <1>3, <1>4

\* dx and dy are the slope of the line p.
SlopeOf(p, dx, dy) == Slope(p[2], p[1], p[4], p[3], dx, dy)

LEMMA LineSlope ==
  ASSUME NEW g \in Segments
  PROVE  SlopeOf(LowerFirst(g), g[3] - g[1], g[4] - g[2])
  <1>1. CASE LowerFirst(g) = g
    BY <1>1 DEF SlopeOf, Slope
  <1>2. CASE LowerFirst(g) = Turned(g)
    <2>1. /\ g[3] - g[1] = -(g[1] - g[3]) /\ g[4] - g[2] = -(g[2] - g[4])
      BY Turn
    <2>. QED
      BY <1>2, <2>1, Turn DEF SlopeOf, Slope
  <1>. QED
    BY <1>1, <1>2, Turn

\* A line cut to the rows of the screen.
LEMMA RowCutFacts ==
  ASSUME NEW p \in Segments, NEW dx \in Int, NEW dy \in Int, SlopeOf(p, dx, dy),
         p[2] <= p[4], RowsSeen(p)
  PROVE  LET q == RowCut(p, dx, dy) IN
         /\ q \in Segments
         /\ q[2] \in 0..Height - 1 /\ q[4] \in 0..Height - 1 /\ q[2] <= q[4]
         /\ Between(q[1], p[1], p[3]) /\ Between(q[3], p[1], p[3])
         /\ p[1] <= p[3] => q[1] <= q[3]
         /\ p[1] >= p[3] => q[1] >= q[3]
  <1>. DEFINE a == CutLow(p[2], p[1], dx, dy)
              b == CutHigh(p[4], p[3], dx, dy, Height)
              q == RowCut(p, dx, dy)
  <1>1. p[1] \in Int /\ p[2] \in Int /\ p[3] \in Int /\ p[4] \in Int /\ Height \in Nat \ {0}
    BY ScreenSize DEF Segments
  <1>2. 0 <= p[4] /\ p[2] < Height
    BY <1>1 DEF RowsSeen
  <1>3. /\ a \in Int /\ b \in Int
        /\ Between(a, p[1], p[3]) /\ Between(b, p[1], p[3])
        /\ p[1] <= p[3] => a <= b
        /\ p[1] >= p[3] => a >= b
    BY <1>1, <1>2, CutBoth DEF SlopeOf
  <1>4. /\ Most(p[2], 0) \in 0..Height - 1 /\ Least(p[4], Height - 1) \in 0..Height - 1
        /\ Most(p[2], 0) <= Least(p[4], Height - 1)
    BY <1>1, <1>2 DEF Most, Least
  <1>5. q = <<a, Most(p[2], 0), b, Least(p[4], Height - 1)>>
    BY DEF RowCut
  <1>. HIDE DEF a, b, q
  <1>6. q[1] = a /\ q[2] = Most(p[2], 0) /\ q[3] = b /\ q[4] = Least(p[4], Height - 1)
    BY <1>5
  <1>7. q \in Segments
    <2>1. Most(p[2], 0) \in Int /\ Least(p[4], Height - 1) \in Int
      BY <1>1, <1>4
    <2>. QED
      BY <1>3, <1>5, <2>1 DEF Segments
  <1>. QED
    BY <1>3, <1>4, <1>6, <1>7 DEF q

LEMMA DrawLineIn ==
  ASSUME NEW g \in Segments
  PROVE  CmdDrawLine(g[1], g[2], g[3], g[4]) \in Seq(SUBSET Pixels)
  <1>. DEFINE dx == g[3] - g[1]
              dy == g[4] - g[2]
              p == LowerFirst(<<g[1], g[2], g[3], g[4]>>)
              q == RowCut(p, dx, dy)
              r == LeftFirst(q)
              c == ColumnCut(r, dx, dy)
  <1>1. /\ g = <<g[1], g[2], g[3], g[4]>>
        /\ g[1] \in Int /\ g[2] \in Int /\ g[3] \in Int /\ g[4] \in Int
    BY DEF Segments
  <1>2. dx \in Int /\ dy \in Int
    BY <1>1
  <1>3. p \in Segments /\ p[2] <= p[4] /\ SlopeOf(p, dx, dy)
    BY <1>1, Turn, LineSlope
  <1>4. CmdDrawLine(g[1], g[2], g[3], g[4]) = ClipRows(p, dx, dy)
    BY DEF CmdDrawLine
  <1>. HIDE DEF dx, dy, p
  <1>5. CASE ~RowsSeen(p)
    <2>1. CmdDrawLine(g[1], g[2], g[3], g[4]) = <<>>
      BY <1>3, <1>4, <1>5, ClipRowsIs
    <2>. QED
      BY <2>1, EmptySeq
  <1>6. CASE RowsSeen(p)
    <2>1. CmdDrawLine(g[1], g[2], g[3], g[4]) = ClipColumns(r, dx, dy)
      BY <1>3, <1>4, <1>6, ClipRowsIs
    <2>2. /\ q \in Segments
          /\ q[2] \in 0..Height - 1 /\ q[4] \in 0..Height - 1 /\ q[2] <= q[4]
          /\ p[1] <= p[3] => q[1] <= q[3]
          /\ p[1] >= p[3] => q[1] >= q[3]
      BY <1>2, <1>3, <1>6, RowCutFacts
    <2>. HIDE DEF q
    <2>3. r \in Segments /\ r[1] <= r[3] /\ r[2] \in 0..Height - 1 /\ r[4] \in 0..Height - 1
      BY <2>2, Turn
    <2>4. \/ r[1] = r[3]
          \/ r[2] <= r[4] /\ Rises(dy, dx)
          \/ r[2] >= r[4] /\ Falls(dy, dx)
      <3>1. p[1] \in Int /\ p[2] \in Int /\ p[3] \in Int /\ p[4] \in Int
        BY <1>3 DEF Segments
      <3>2. \/ dx = p[3] - p[1] /\ dy = p[4] - p[2]
            \/ dx = -(p[3] - p[1]) /\ dy = -(p[4] - p[2])
        BY <1>3 DEF SlopeOf, Slope
      <3>3. q[1] \in Int /\ q[3] \in Int
        BY <2>2 DEF Segments
      <3>4. CASE p[1] <= p[3]
        <4>1. r = q
          BY <2>2, <3>4, Turn
        <4>2. Rises(dy, dx)
          BY <1>2, <1>3, <3>1, <3>2, <3>4 DEF Rises
        <4>. QED
          BY <2>2, <4>1, <4>2
      <3>5. CASE p[1] > p[3]
        <4>1. q[1] >= q[3]
          BY <2>2, <3>1, <3>5
        <4>2. Falls(dy, dx)
          BY <1>2, <1>3, <3>1, <3>2, <3>5 DEF Falls
        <4>3. CASE q[1] = q[3]
          <5>1. r = q
            BY <2>2, <3>3, <4>3, Turn
          <5>. QED
            BY <4>3, <5>1
        <4>4. CASE q[1] > q[3]
          <5>1. r = Turned(q) /\ r[2] = q[4] /\ r[4] = q[2]
            BY <2>2, <4>4, Turn
          <5>. QED
            BY <2>2, <4>2, <5>1
        <4>. QED
          BY <3>3, <4>1, <4>3, <4>4
      <3>. QED
        BY <3>1, <3>4, <3>5
    <2>. HIDE DEF r
    <2>5. CASE ~ColumnsSeen(r)
      <3>1. ClipColumns(r, dx, dy) = <<>>
        BY <2>3, <2>5, ClipColumnsIs
      <3>. QED
        BY <2>1, <3>1, EmptySeq
    <2>6. CASE ColumnsSeen(r)
      <3>. DEFINE a == CutLow(r[1], r[2], dy, dx)
                  b == CutHigh(r[3], r[4], dy, dx, Width)
      <3>1. /\ r[1] \in Int /\ r[2] \in Int /\ r[3] \in Int /\ r[4] \in Int
            /\ r[3] >= 0 /\ r[1] < Width
        BY <2>3, <2>6 DEF Segments, ColumnsSeen
      <3>2. /\ a \in Int /\ b \in Int
            /\ Rises(dy, dx) => a >= r[2] /\ b <= r[4]
            /\ Falls(dy, dx) => a <= r[2] /\ b >= r[4]
            /\ r[1] \in 0..Width - 1 => a = r[2]
            /\ r[3] \in 0..Width - 1 => b = r[4]
        <4>1. Width \in Nat
          BY ScreenSize
        <4>. QED
          BY <1>2, <3>1, <4>1, CutLowSigns, CutHighSigns
      <3>3. c = <<Most(r[1], 0), a, Least(r[3], Width - 1), b>>
        BY DEF ColumnCut
      <3>4. Most(r[1], 0) \in 0..Width - 1 /\ Least(r[3], Width - 1) \in 0..Width - 1
        BY <3>1, ScreenSize DEF Most, Least
      <3>. HIDE DEF a, b, c
      <3>5. c[1] = Most(r[1], 0) /\ c[2] = a /\ c[3] = Least(r[3], Width - 1) /\ c[4] = b
        BY <3>3
      <3>6. OnColumns(c)
        <4>1. Most(r[1], 0) \in Int /\ Least(r[3], Width - 1) \in Int
          BY <3>1, ScreenSize DEF Most, Least
        <4>2. c \in Segments
          BY <3>2, <3>3, <4>1 DEF Segments
        <4>. QED
          BY <3>4, <3>5, <4>2 DEF OnColumns
      <3>7. a = b => a \in 0..Height - 1
        <4>1. CASE r[1] = r[3]
          <5>1. r[1] \in 0..Width - 1
            BY <3>1, <4>1, ScreenSize
          <5>. QED
            BY <2>3, <3>2, <5>1
        <4>2. CASE r[2] <= r[4] /\ Rises(dy, dx)
          BY <2>3, <3>2, <4>2, ScreenSize
        <4>3. CASE r[2] >= r[4] /\ Falls(dy, dx)
          BY <2>3, <3>2, <4>3, ScreenSize
        <4>. QED
          BY <2>4, <4>1, <4>2, <4>3
      <3>8. c[2] = c[4] => c[2] \in 0..Height - 1
        BY <3>5, <3>7
      <3>9. Segment(c[1], c[2], c[3], c[4]) \in Seq(SUBSET Pixels)
        BY <3>6, <3>8, SegmentIn
      <3>10. ClipColumns(r, dx, dy) = Segment(c[1], c[2], c[3], c[4])
        BY <2>3, <2>6, ClipColumnsIs DEF c
      <3>. QED
        BY <2>1, <3>9, <3>10
    <2>. QED
      BY <2>5, <2>6
  <1>. QED
    BY <1>5, <1>6

------------------------------------------------------------------------------
(***************************************************************************)
(* Rectangles and ellipses.                                                *)
(***************************************************************************)

Strokes == Seq(SUBSET Pixels)

LEMMA LineIn ==
  ASSUME NEW x1 \in Int, NEW y1 \in Int, NEW x2 \in Int, NEW y2 \in Int
  PROVE  CmdDrawLine(x1, y1, x2, y2) \in Strokes
  <1>. DEFINE g == <<x1, y1, x2, y2>>
  <1>1. g \in Segments
    BY DEF Segments
  <1>2. CmdDrawLine(g[1], g[2], g[3], g[4]) \in Strokes
    <2>. HIDE DEF g
    <2>. QED
      BY <1>1, DrawLineIn DEF Strokes
  <1>. QED
    BY <1>2

LEMMA StrokesConcat ==
  ASSUME NEW s \in Strokes, NEW t \in Strokes
  PROVE  s \o t \in Strokes
  BY ConcatProperties DEF Strokes

LEMMA NoStrokes == <<>> \in Strokes
  BY EmptySeq DEF Strokes

LEMMA FilledRectIn ==
  ASSUME NEW x1 \in Int, NEW y1 \in Int, NEW x2 \in Int, NEW y2 \in Int
  PROVE  FilledRect(x1, y1, x2, y2) \in Strokes
  <1>. DEFINE out == x2 < 0 \/ y2 < 0 \/ x1 > Width - 1 \/ y1 > Height - 1
              l == Most(x1, 0)
              b == Most(y1, 0)
              r == Least(x2, Width - 1)
              t == Least(y2, Height - 1)
              A == DisplayFillScreen(l, Translate(t), r - l + 1, t - b + 1)
  <1>1. CASE out
    BY <1>1, NoStrokes DEF FilledRect
  <1>2. CASE ~out
    <2>1. l \in Nat /\ r - l + 1 \in Int /\ t - b + 1 \in Int
      BY ScreenSize DEF Most, Least
    <2>2. Translate(t) \in Nat
      BY <1>2, ScreenSize DEF Least, Translate
    <2>3. FilledRect(x1, y1, x2, y2) = <<A>>
      BY <1>2 DEF FilledRect
    <2>. HIDE DEF l, b, r, t
    <2>4. A \in SUBSET Pixels
      BY <2>1, <2>2, FillScreenIn
    <2>. QED
      BY <2>3, <2>4 DEF Strokes
  <1>. QED
    BY <1>1, <1>2

LEMMA HollowRectIn ==
  ASSUME NEW x1 \in Int, NEW y1 \in Int, NEW x2 \in Int, NEW y2 \in Int
  PROVE  HollowRect(x1, y1, x2, y2) \in Strokes
  <1>. DEFINE rows == CmdDrawLine(x1, y1, x2, y1) \o CmdDrawLine(x1, y2, x2, y2)
              sides == CmdDrawLine(x2, y1 + 1, x2, y2 - 1) \o CmdDrawLine(x1, y1 + 1, x1, y2 - 1)
  <1>1. rows \in Strokes
    BY LineIn, StrokesConcat
  <1>2. sides \in Strokes
    <2>1. y1 + 1 \in Int /\ y2 - 1 \in Int
      OBVIOUS
    <2>2. CmdDrawLine(x2, y1 + 1, x2, y2 - 1) \in Strokes
      BY <2>1, LineIn
    <2>3. CmdDrawLine(x1, y1 + 1, x1, y2 - 1) \in Strokes
      BY <2>1, LineIn
    <2>. QED
      BY <2>2, <2>3, StrokesConcat
  <1>3. HollowRect(x1, y1, x2, y2) = rows \o (IF y2 > y1 + 1 THEN sides ELSE <<>>)
    BY DEF HollowRect
  <1>. HIDE DEF rows, sides
  <1>. QED
    BY <1>1, <1>2, <1>3, NoStrokes, StrokesConcat

LEMMA RectIn ==
  ASSUME NEW left \in Int, NEW bottom \in Int, NEW width \in Int, NEW height \in Int,
         NEW fill \in BOOLEAN
  PROVE  CmdDrawRect(left, bottom, width, height, fill) \in Strokes
  <1>. DEFINE x1 == Least(left, left + width)
              x2 == Most(left, left + width)
              y1 == Least(bottom, bottom + height)
              y2 == Most(bottom, bottom + height)
  <1>1. x1 \in Int /\ x2 \in Int /\ y1 \in Int /\ y2 \in Int
    BY DEF Least, Most
  <1>2. CmdDrawRect(left, bottom, width, height, fill)
          = IF y1 = y2 \/ x1 = x2 THEN CmdDrawLine(x1, y1, x2, y2)
            ELSE IF fill THEN FilledRect(x1, y1, x2, y2) ELSE HollowRect(x1, y1, x2, y2)
    BY DEF CmdDrawRect
  <1>. HIDE DEF x1, x2, y1, y2
  <1>. QED
    BY <1>1, <1>2, LineIn, FilledRectIn, HollowRectIn

LEMMA MirroredIn ==
  ASSUME NEW xc \in Int, NEW yc \in Int, NEW x \in Int, NEW y \in Int
  PROVE  Mirrored(xc, yc, x, y) \in Strokes
  <1>. DEFINE A == CmdSetPixel(xc + x, yc + y)
              B == IF x # 0 \/ y # 0 THEN CmdSetPixel(xc - x, yc - y) ELSE <<>>
              C == CmdSetPixel(xc + x, yc - y)
              D == CmdSetPixel(xc - x, yc + y)
              E == IF x # 0 /\ y # 0 THEN C \o D ELSE <<>>
  <1>1. xc + x \in Int /\ yc + y \in Int /\ xc - x \in Int /\ yc - y \in Int
    OBVIOUS
  <1>2. A \in Strokes /\ C \in Strokes /\ D \in Strokes /\ CmdSetPixel(xc - x, yc - y) \in Strokes
    BY <1>1, SetPixelIn DEF Strokes
  <1>3. B \in Strokes
    BY <1>2, NoStrokes
  <1>4. E \in Strokes
    <2>. HIDE DEF C, D
    <2>. QED
      BY <1>2, NoStrokes, StrokesConcat
  <1>5. Mirrored(xc, yc, x, y) = (A \o B) \o E
    BY DEF Mirrored
  <1>. HIDE DEF A, B, E
  <1>. QED
    BY <1>2, <1>3, <1>4, <1>5, StrokesConcat

\* The variables of the ellipse's loop.
LoopStates == [x : Int, y : Int, t : Int, rx : Int, ry : Int, width : Int, height : Int,
               out : Strokes]

LEMMA BandsIn ==
  ASSUME NEW xc \in Int, NEW yc \in Int, NEW s \in LoopStates, NEW twice
  PROVE  Bands(xc, yc, s, twice) \in Strokes
  <1>1. /\ xc - s.rx \in Int /\ yc - s.ry \in Int /\ yc + s.ry \in Int /\ s.width - 1 \in Int
        /\ s.height - 1 \in Int /\ -(s.height - 1) \in Int /\ 2 * s.ry \in Int
    BY DEF LoopStates
  <1>2. /\ CmdDrawRect(xc - s.rx, yc - s.ry, s.width - 1, s.height - 1, TRUE) \in Strokes
        /\ CmdDrawRect(xc - s.rx, yc + s.ry, s.width - 1, -(s.height - 1), TRUE) \in Strokes
        /\ CmdDrawRect(xc - s.rx, yc - s.ry, s.width - 1, 2 * s.ry, TRUE) \in Strokes
    BY <1>1, RectIn
  <1>. QED
    BY <1>2, StrokesConcat DEF Bands

LEMMA EllipseStepIn ==
  ASSUME NEW xc \in Int, NEW yc \in Int, NEW a \in Nat, NEW b \in Nat, NEW fill \in BOOLEAN,
         NEW s \in LoopStates
  PROVE  EllipseStep(xc, yc, a, b, fill, s) \in LoopStates
  <1>. DEFINE a2 == a * a
              b2 == b * b
              right == \/ s.t + b2 * s.x <= -((a2 \div 4) + (a % 2) + b2)
                       \/ s.t + a2 * s.y <= -((b2 \div 4) + (b % 2))
              down == s.t - a2 * s.y > -((b2 \div 4) + (b % 2) + a2)
              dxt == 2 * b2 * (s.x + 1)
              dyt == 2 * a2 * (1 - s.y)
              twice == IF right THEN 2 * s.ry + 1 > 2 * (s.height - 1)
                       ELSE 2 * s.ry + 1 > 2 * s.height
              drawn == IF ~fill THEN Mirrored(xc, yc, s.x, s.y)
                       ELSE IF (right /\ s.height = 1) \/ (~right /\ down) THEN <<>>
                       ELSE Bands(xc, yc, s, twice)
              next == CASE right ->
                             [s EXCEPT !.x = @ + 1, !.t = @ + dxt, !.rx = @ + 1, !.width = @ + 2,
                                       !.ry = IF twice THEN @ - (s.height - 1)
                                              ELSE IF s.height = 1 THEN @ ELSE 0,
                                       !.height = 1]
                        [] ~right /\ down ->
                             [s EXCEPT !.y = @ - 1, !.t = @ + dyt, !.height = @ + 1]
                        [] OTHER ->
                             [s EXCEPT !.x = @ + 1, !.y = @ - 1, !.t = @ + dxt + dyt,
                                       !.rx = @ + 1, !.width = @ + 2, !.ry = @ - s.height,
                                       !.height = 1]
  <1>1. EllipseStep(xc, yc, a, b, fill, s) = [next EXCEPT !.out = @ \o drawn]
    BY DEF EllipseStep
  <1>2. (IF twice THEN s.ry - (s.height - 1) ELSE IF s.height = 1 THEN s.ry ELSE 0) \in Int
    <2>. HIDE DEF twice
    <2>. QED
      BY DEF LoopStates
  <1>3. s.x \in Int /\ s.y \in Int /\ s.t \in Int /\ s.rx \in Int /\ s.ry \in Int
        /\ s.width \in Int /\ s.height \in Int /\ s.out \in Strokes
    BY DEF LoopStates
  <1>4. dxt \in Int /\ dyt \in Int
    <2>1. a2 \in Int /\ b2 \in Int
      OBVIOUS
    <2>. HIDE DEF a2, b2
    <2>. QED
      BY <1>3, <2>1
  <1>. HIDE DEF right, down, dxt, dyt, twice
  <1>5. drawn \in Strokes
    BY <1>3, MirroredIn, BandsIn, NoStrokes
  <1>6. next \in LoopStates
    <2>1. CASE right
      <3>. DEFINE ry == IF twice THEN s.ry - (s.height - 1)
                        ELSE IF s.height = 1 THEN s.ry ELSE 0
      <3>1. next = [s EXCEPT !.x = s.x + 1, !.t = s.t + dxt, !.rx = s.rx + 1,
                             !.width = s.width + 2, !.ry = ry, !.height = 1]
        BY <2>1
      <3>2. /\ ry \in Int /\ s.x + 1 \in Int /\ s.t + dxt \in Int /\ s.rx + 1 \in Int
            /\ s.width + 2 \in Int
        BY <1>2, <1>3, <1>4
      <3>. HIDE DEF next, ry
      <3>. DEFINE half == [s EXCEPT !.x = s.x + 1, !.t = s.t + dxt, !.rx = s.rx + 1]
      <3>3. half \in LoopStates
        BY <3>2 DEF LoopStates
      <3>4. next = [half EXCEPT !.width = s.width + 2, !.ry = ry, !.height = 1]
        BY <3>1
      <3>. HIDE DEF half
      <3>5. \A d, e, f \in Int : [half EXCEPT !.width = d, !.ry = e, !.height = f] \in LoopStates
        BY <3>3 DEF LoopStates
      <3>6. 1 \in Int
        OBVIOUS
      <3>. QED
        BY <3>2, <3>4, <3>5, <3>6, Zenon
    <2>2. CASE ~right /\ down
      <3>1. next = [s EXCEPT !.y = s.y - 1, !.t = s.t + dyt, !.height = s.height + 1]
        BY <2>2
      <3>2. s.y - 1 \in Int /\ s.t + dyt \in Int /\ s.height + 1 \in Int
        BY <1>3, <1>4
      <3>. HIDE DEF next
      <3>. QED
        BY <3>1, <3>2 DEF LoopStates
    <2>3. CASE ~right /\ ~down
      <3>1. next = [s EXCEPT !.x = s.x + 1, !.y = s.y - 1, !.t = s.t + dxt + dyt,
                             !.rx = s.rx + 1, !.width = s.width + 2, !.ry = s.ry - s.height,
                             !.height = 1]
        BY <2>3
      <3>2. /\ s.x + 1 \in Int /\ s.y - 1 \in Int /\ s.t + dxt + dyt \in Int
            /\ s.rx + 1 \in Int /\ s.width + 2 \in Int /\ s.ry - s.height \in Int
        BY <1>3, <1>4
      <3>. HIDE DEF next
      <3>. DEFINE half == [s EXCEPT !.x = s.x + 1, !.y = s.y - 1, !.t = s.t + dxt + dyt,
                                    !.rx = s.rx + 1]
      <3>3. half \in LoopStates
        BY <3>2 DEF LoopStates
      <3>4. next = [half EXCEPT !.width = s.width + 2, !.ry = s.ry - s.height, !.height = 1]
        BY <3>1
      <3>. HIDE DEF half
      <3>5. \A d, e, f \in Int : [half EXCEPT !.width = d, !.ry = e, !.height = f] \in LoopStates
        BY <3>3 DEF LoopStates
      <3>6. 1 \in Int
        OBVIOUS
      <3>. QED
        BY <3>2, <3>4, <3>5, <3>6, Zenon
    <2>. QED
      BY <2>1, <2>2, <2>3
  <1>. HIDE DEF next, drawn
  <1>7. next.out \o drawn \in Strokes
    <2>1. next.out \in Strokes
      BY <1>6 DEF LoopStates
    <2>. QED
      BY <1>5, <2>1, StrokesConcat
  <1>8. [next EXCEPT !.out = @ \o drawn] \in LoopStates
    BY <1>6, <1>7 DEF LoopStates
  <1>. QED
    BY <1>1, <1>8

LEMMA TurnsIn ==
  ASSUME NEW xc \in Int, NEW yc \in Int, NEW a \in Nat, NEW b \in Nat, NEW fill \in BOOLEAN
  PROVE  Turns(xc, yc, a, b, fill) \in [0..a + b + 2 -> LoopStates]
  <1>. DEFINE start == [x |-> 0, y |-> b, t |-> -(a * a * b), rx |-> 0, ry |-> b,
                        width |-> 1, height |-> 1, out |-> <<>>]
              Go(s) == IF s.y >= 0 /\ s.x <= a THEN EllipseStep(xc, yc, a, b, fill, s) ELSE s
              G == [s \in LoopStates |-> Go(s)]
              n == a + b + 2
              R(f) == [k \in 0..n |-> IF k = 0 THEN start ELSE Go(f[k - 1])]
              m == Turns(xc, yc, a, b, fill)
              T == {k \in 0..n : m[k] \in LoopStates}
  <1>1. start \in LoopStates
    <2>1. -(a * a * b) \in Int
      OBVIOUS
    <2>. QED
      BY <2>1, NoStrokes DEF LoopStates
  <1>2. \A s \in LoopStates : Go(s) \in LoopStates
    BY EllipseStepIn
  <1>3. G \in [LoopStates -> LoopStates]
    BY <1>2
  <1>4. n \in Nat
    OBVIOUS
  <1>5. PICK f \in [0..n -> LoopStates] : Iterates(f, G, start, n)
    <2>. HIDE DEF G, start, n
    <2>. QED
      BY <1>1, <1>3, <1>4, IteratesExist
  <1>6. f = R(f)
    <2>. HIDE DEF start, Go, n
    <2>1. \A k \in 1..n : k - 1 \in 0..n
      BY <1>4
    <2>2. \A k \in 1..n : f[k] = Go(f[k - 1])
      BY <1>5, <2>1 DEF Iterates
    <2>3. f[0] = start
      BY <1>5 DEF Iterates
    <2>4. \A k \in 0..n : f[k] = IF k = 0 THEN start ELSE Go(f[k - 1])
      BY <1>4, <2>2, <2>3
    <2>. QED
      BY <2>4
  <1>7. m = R(m)
    BY <1>6 DEF Turns
  <1>. HIDE DEF m, start, Go, n
  <1>8. 0 \in T
    BY <1>1, <1>4, <1>7
  <1>9. ASSUME NEW k \in 1..n, k - 1 \in T PROVE k \in T
    <2>1. k \in 0..n /\ k # 0
      BY <1>4
    <2>2. m[k] = Go(m[k - 1])
      BY <1>7, <2>1
    <2>. QED
      BY <1>2, <1>9, <2>1, <2>2
  <1>. HIDE DEF T
  <1>10. \A k \in 0..n : k \in T
    BY <1>4, <1>8, <1>9, UpTo
  <1>. QED
    BY <1>7, <1>10 DEF T, m, n

LEMMA EllipseIn ==
  ASSUME NEW xc \in Int, NEW yc \in Int, NEW a \in Nat, NEW b \in Nat, NEW fill \in BOOLEAN
  PROVE  CmdDrawEllipse(xc, yc, a, b, fill) \in Strokes
  <1>1. CASE b = 0
    <2>1. xc - a \in Int /\ 2 * a \in Int /\ 0 \in Int
      OBVIOUS
    <2>2. CmdDrawRect(xc - a, yc, 2 * a, 0, fill) \in Strokes
      BY <2>1, RectIn
    <2>. QED
      BY <1>1, <2>2 DEF CmdDrawEllipse
  <1>2. CASE a = 0 /\ b # 0
    <2>1. yc - b \in Int /\ 2 * b \in Int /\ 0 \in Int
      OBVIOUS
    <2>2. CmdDrawRect(xc, yc - b, 0, 2 * b, fill) \in Strokes
      BY <2>1, RectIn
    <2>. QED
      BY <1>2, <2>2 DEF CmdDrawEllipse
  <1>3. CASE a # 0 /\ b # 0
    <2>. DEFINE e == Turns(xc, yc, a, b, fill)[a + b + 2]
    <2>1. e \in LoopStates
      <3>1. a + b + 2 \in 0..(a + b + 2)
        OBVIOUS
      <3>2. Turns(xc, yc, a, b, fill) \in [0..(a + b + 2) -> LoopStates]
        BY TurnsIn
      <3>. QED
        BY <3>1, <3>2
    <2>2. CmdDrawEllipse(xc, yc, a, b, fill) = LoopDone(xc, yc, fill, e)
      BY <1>3 DEF CmdDrawEllipse
    <2>. HIDE DEF e
    <2>3. e.out \in Strokes /\ Bands(xc, yc, e, e.ry > e.height) \in Strokes
      <3>1. e.out \in Strokes
        BY <2>1 DEF LoopStates
      <3>. QED
        BY <2>1, <3>1, BandsIn
    <2>. QED
      BY <2>2, <2>3, NoStrokes, StrokesConcat DEF LoopDone
  <1>. QED
    BY <1>1, <1>2, <1>3

------------------------------------------------------------------------------
(***************************************************************************)
(* Bitmaps and characters.                                                 *)
(***************************************************************************)

LEMMA ShortIs ==
  ASSUME NEW n \in -(ShortMax + 1)..ShortMax
  PROVE  Short(n) = n
  <1>. DEFINE m == 2 * ShortMax + 2
              k == n + ShortMax + 1
  <1>1. m \in Nat \ {0} /\ k \in 0..m - 1
    BY ScreenSize
  <1>2. k % m = k
    <2>. HIDE DEF m, k
    <2>1. k + m * 0 = k /\ 0 \in Int
      BY <1>1
    <2>. QED
      BY <1>1, <2>1, QuotientUnique
  <1>. QED
    BY <1>2, ScreenSize DEF Short

LEMMA ShortInt ==
  ASSUME NEW n \in Int
  PROVE  Short(n) \in Int
  <1>. DEFINE m == 2 * ShortMax + 2
              k == n + ShortMax + 1
  <1>1. m \in Nat \ {0} /\ k \in Int
    BY ScreenSize
  <1>2. k % m \in Int
    <2>. HIDE DEF m, k
    <2>. QED
      BY <1>1, Quotient
  <1>. QED
    BY <1>2, ScreenSize DEF Short

RowIndex(X0, Y0, r) == Short(Short((X0 \div 8) + Y0 * ByteWidth) + r * ByteWidth)

\* The index of a row is what it should be while it fits a short.
LEMMA RowIndexIs ==
  ASSUME NEW X0 \in Int, NEW Y0 \in Nat, NEW r \in Nat,
         X0 >= -(ShortMax + 1), X0 < Width, (Y0 + r + 1) * ByteWidth <= ShortMax
  PROVE  /\ RowIndex(X0, Y0, r) = (X0 \div 8) + (Y0 + r) * ByteWidth
         /\ X0 \div 8 \in Int /\ (Y0 + r) * ByteWidth \in Nat
         /\ X0 = 8 * (X0 \div 8) + (X0 % 8) /\ X0 % 8 \in 0..7
  <1>. DEFINE c == X0 \div 8
              u == Y0 * ByteWidth
              v == r * ByteWidth
  <1>1. c \in Int /\ X0 % 8 \in 0..7 /\ X0 = 8 * c + (X0 % 8)
    OBVIOUS
  <1>2. u \in Nat /\ v \in Nat /\ (Y0 + r) * ByteWidth = u + v
        /\ (Y0 + r + 1) * ByteWidth = u + v + ByteWidth
    BY ScreenSize
  <1>. HIDE DEF c, u, v
  <1>3. c < ByteWidth /\ c >= -(ShortMax + 1)
    BY <1>1, ScreenSize
  <1>4. c + u \in -(ShortMax + 1)..ShortMax /\ c + u + v \in -(ShortMax + 1)..ShortMax
    BY <1>1, <1>2, <1>3, ScreenSize
  <1>5. Short(c + u) = c + u /\ Short(c + u + v) = c + u + v
    BY <1>4, ShortIs
  <1>6. RowIndex(X0, Y0, r) = Short(Short(c + u) + v)
    BY DEF RowIndex, c, u, v
  <1>7. RowIndex(X0, Y0, r) = c + (u + v)
    BY <1>1, <1>2, <1>5, <1>6
  <1>. QED
    BY <1>1, <1>2, <1>7 DEF c

\* The bits that are written lie in displayBuf.
Written(placed) == \A p \in placed : p.bit[1] \in 0..BufferSize - 1

LEMMA PlacedBit ==
  ASSUME NEW i, NEW b, NEW col, NEW row
  PROVE  Placed(<<i, b>>, col, row).bit[1] = i
  BY DEF Placed

LEMMA DrawPixelsIn ==
  ASSUME NEW X0 \in Int, NEW Y0 \in Int, NEW w \in Nat, NEW h \in Nat
  PROVE  Written(DrawPixels(X0, Y0, w, h))
  <1>1. SUFFICES ASSUME NEW t \in (0..w - 1) \X (0..h - 1), OnScreen(X0 + t[1], Y0 + t[2])
                 PROVE  Placed(Bit(X0 + t[1], Y0 + t[2]), t[1], t[2]).bit[1] \in 0..BufferSize - 1
    BY DEF Written, DrawPixels
  <1>2. Bit(X0 + t[1], Y0 + t[2]) \in Pixels
    BY <1>1, BitIn DEF OnScreen
  <1>. QED
    BY <1>2 DEF Placed, Pixels

\* The part of a bitmap that is copied byte by byte.
LEMMA DrawBytesIn ==
  ASSUME NEW X0 \in -(ShortMax + 1)..ShortMax, NEW Y0 \in Nat, NEW w \in Nat, NEW h \in Nat,
         (Y0 + h) * ByteWidth <= ShortMax
  PROVE  Written(DrawBytes(X0, Y0, w, h))
  <1>. DEFINE T == {t \in (0..h - 1) \X (0..(w \div 8) - 1) \X (0..7) :
                      RowIndex(X0, Y0, t[1]) + t[2] < BufferSize /\ X0 + 8 * t[2] \in 0..Width - 1}
              q(t) == Placed(<<RowIndex(X0, Y0, t[1]) + t[2], t[3]>>, 8 * t[2] + t[3], t[1])
  <1>0. DrawBytes(X0, Y0, w, h) = {q(t) : t \in T}
    BY DEF DrawBytes, RowIndex
  <1>1. SUFFICES ASSUME NEW t \in (0..h - 1) \X (0..(w \div 8) - 1) \X (0..7),
                        RowIndex(X0, Y0, t[1]) + t[2] < BufferSize,
                        X0 + 8 * t[2] \in 0..Width - 1
                 PROVE  RowIndex(X0, Y0, t[1]) + t[2] \in 0..BufferSize - 1
    <2>1. \A t : q(t).bit[1] = RowIndex(X0, Y0, t[1]) + t[2]
      BY PlacedBit
    <2>. HIDE DEF q
    <2>. QED
      BY <1>0, <2>1 DEF Written
  <1>. DEFINE r == t[1]
              c == t[2]
  <1>2. w \div 8 \in Int
    OBVIOUS
  <1>3. r \in Nat /\ c \in Nat /\ r + 1 <= h /\ X0 \in Int
    BY <1>2, ScreenSize
  <1>. HIDE DEF r, c
  <1>4. (Y0 + r + 1) * ByteWidth <= ShortMax
    <2>1. PICK e \in Nat : h = r + 1 + e
      <3>1. h - r - 1 \in Nat /\ h = r + 1 + (h - r - 1)
        BY <1>3
      <3>. QED
        BY <3>1
    <2>2. (Y0 + h) * ByteWidth = (Y0 + r + 1) * ByteWidth + e * ByteWidth
      BY <1>3, <2>1, ScreenSize
    <2>3. e * ByteWidth \in Nat /\ (Y0 + r + 1) * ByteWidth \in Nat /\ (Y0 + h) * ByteWidth \in Nat
      BY <1>3, ScreenSize
    <2>. QED
      BY <2>2, <2>3, ScreenSize
  <1>5. X0 >= -(ShortMax + 1) /\ X0 < Width
    BY <1>1, <1>3, ScreenSize DEF c
  <1>6. /\ RowIndex(X0, Y0, r) = (X0 \div 8) + (Y0 + r) * ByteWidth
        /\ X0 \div 8 \in Int /\ (Y0 + r) * ByteWidth \in Nat
        /\ X0 = 8 * (X0 \div 8) + (X0 % 8) /\ X0 % 8 \in 0..7
    BY <1>3, <1>4, <1>5, RowIndexIs
  <1>7. X0 + 8 * c >= 0 /\ RowIndex(X0, Y0, r) + c < BufferSize
    BY <1>1, <1>3, ScreenSize DEF c, r
  <1>8. (X0 \div 8) + c >= 0
    BY <1>3, <1>6, <1>7
  <1>9. RowIndex(X0, Y0, r) + c \in 0..BufferSize - 1
    BY <1>3, <1>6, <1>7, <1>8, ScreenSize
  <1>. QED
    BY <1>9 DEF r, c

LEMMA BitmapIn ==
  ASSUME NEW X0 \in -(ShortMax + 1)..ShortMax, NEW Y0 \in Nat, NEW w \in Nat, NEW h \in Nat,
         (Y0 + h) * ByteWidth <= ShortMax
  PROVE  Written(dLcdDrawBitmap(X0, Y0, w, h))
  <1>1. X0 \in Int
    BY ScreenSize
  <1>2. Written(DrawPixels(X0, Y0, w, h)) /\ Written(DrawBytes(X0, Y0, w, h))
    <2>1. Y0 \in Int
      OBVIOUS
    <2>. QED
      BY <1>1, <2>1, DrawPixelsIn, DrawBytesIn
  <1>. QED
    BY <1>2 DEF dLcdDrawBitmap

\* A character: the test of its first byte is enough, because LcdPrintf puts no character
\* across the right border.
LEMMA AlignedCharIn ==
  ASSUME NEW X0 \in Nat, NEW Y0 \in Nat, X0 + FontWidth <= Width, X0 % 8 = 0,
         FontWidth % 8 = 0, (Y0 + FontHeight) * ByteWidth <= ShortMax
  PROVE  Written(DrawAlignedChar(X0, Y0))
  <1>. DEFINE T == {t \in (0..FontHeight - 1) \X (0..(FontWidth \div 8) - 1) \X (0..7) :
                      RowIndex(X0, Y0, t[1]) < BufferSize}
              q(t) == Placed(<<RowIndex(X0, Y0, t[1]) + t[2], t[3]>>, 8 * t[2] + t[3], t[1])
  <1>0. DrawAlignedChar(X0, Y0) = {q(t) : t \in T}
    BY DEF DrawAlignedChar, RowIndex
  <1>1. SUFFICES ASSUME NEW t \in (0..FontHeight - 1) \X (0..(FontWidth \div 8) - 1) \X (0..7),
                        RowIndex(X0, Y0, t[1]) < BufferSize
                 PROVE  RowIndex(X0, Y0, t[1]) + t[2] \in 0..BufferSize - 1
    <2>1. \A t : q(t).bit[1] = RowIndex(X0, Y0, t[1]) + t[2]
      BY PlacedBit
    <2>. HIDE DEF q
    <2>. QED
      BY <1>0, <2>1 DEF Written
  <1>. DEFINE r == t[1]
              c == t[2]
              f == FontWidth \div 8
  <1>2. FontWidth \in Nat /\ FontHeight \in Nat /\ FontWidth >= 1
    BY DrawingAssumption, ScreenSize
  <1>3. f \in Int /\ FontWidth = 8 * f
    BY <1>2
  <1>4. r \in Nat /\ c \in Nat /\ r + 1 <= FontHeight /\ c + 1 <= f
    BY <1>2, <1>3
  <1>. HIDE DEF r, c, f
  <1>5. (Y0 + r + 1) * ByteWidth <= ShortMax
    <2>1. PICK e \in Nat : FontHeight = r + 1 + e
      <3>1. FontHeight - r - 1 \in Nat /\ FontHeight = r + 1 + (FontHeight - r - 1)
        BY <1>2, <1>4
      <3>. QED
        BY <3>1
    <2>2. (Y0 + FontHeight) * ByteWidth = (Y0 + r + 1) * ByteWidth + e * ByteWidth
      BY <1>4, <2>1, ScreenSize
    <2>3. e * ByteWidth \in Nat /\ (Y0 + r + 1) * ByteWidth \in Nat
          /\ (Y0 + FontHeight) * ByteWidth \in Nat
      BY <1>2, <1>4, ScreenSize
    <2>. QED
      BY <2>2, <2>3, ScreenSize
  <1>6. X0 < Width /\ X0 >= -(ShortMax + 1) /\ X0 \in Int
    BY <1>2, ScreenSize
  <1>7. /\ RowIndex(X0, Y0, r) = (X0 \div 8) + (Y0 + r) * ByteWidth
        /\ X0 \div 8 \in Int /\ (Y0 + r) * ByteWidth \in Nat
        /\ X0 = 8 * (X0 \div 8) + (X0 % 8) /\ X0 % 8 \in 0..7
    BY <1>4, <1>5, <1>6, RowIndexIs
  <1>8. X0 \div 8 >= 0 /\ (X0 \div 8) + c + 1 <= ByteWidth
    BY <1>2, <1>3, <1>4, <1>7, ScreenSize
  <1>9. Y0 + r <= Height - 1
    <2>1. SUFFICES ASSUME Height <= Y0 + r PROVE FALSE
      BY <1>4, ScreenSize
    <2>2. PICK e \in Nat : Y0 + r = Height + e
      <3>1. Y0 + r - Height \in Nat /\ Y0 + r = Height + (Y0 + r - Height)
        BY <1>4, <2>1, ScreenSize
      <3>. QED
        BY <3>1
    <2>3. (Y0 + r) * ByteWidth = BufferSize + e * ByteWidth /\ e * ByteWidth \in Nat
      BY <2>2, ScreenSize
    <2>4. RowIndex(X0, Y0, r) < BufferSize
      BY <1>1 DEF r
    <2>. QED
      BY <1>7, <1>8, <2>3, <2>4, ScreenSize
  <1>10. (Y0 + r) * ByteWidth + ByteWidth <= BufferSize
    <2>1. PICK e \in Nat : Height = Y0 + r + 1 + e
      <3>1. Height - Y0 - r - 1 \in Nat /\ Height = Y0 + r + 1 + (Height - Y0 - r - 1)
        BY <1>4, <1>9, ScreenSize
      <3>. QED
        BY <3>1
    <2>2. BufferSize = (Y0 + r) * ByteWidth + ByteWidth + e * ByteWidth /\ e * ByteWidth \in Nat
      BY <1>4, <2>1, ScreenSize
    <2>. QED
      BY <1>7, <2>2, ScreenSize
  <1>11. RowIndex(X0, Y0, r) + c \in 0..BufferSize - 1
    BY <1>4, <1>7, <1>8, <1>10, ScreenSize
  <1>. QED
    BY <1>11 DEF r, c

LEMMA CharIn ==
  ASSUME NEW X0 \in Nat, NEW Y0 \in Nat, X0 + FontWidth <= Width,
         (Y0 + FontHeight) * ByteWidth <= ShortMax
  PROVE  Written(dLcdDrawChar(X0, Y0))
  <1>1. FontWidth \in Nat /\ FontHeight \in Nat
    BY DrawingAssumption, ScreenSize
  <1>. QED
    BY <1>1, DrawPixelsIn, AlignedCharIn DEF dLcdDrawChar

\* A text: each of its characters fits before the right border.
LEMMA TextIn ==
  ASSUME NEW X0 \in Nat, NEW Y0 \in Nat, NEW n \in Nat,
         (Y0 + FontHeight) * ByteWidth <= ShortMax
  PROVE  Written(dLcdDrawText(X0, Y0, n))
  <1>1. ASSUME NEW x \in Columned(X0, n)
        PROVE  Written(dLcdDrawChar(x, Y0))
    <2>1. FontWidth \in Nat
      BY DrawingAssumption, ScreenSize
    <2>2. PICK k \in 0..n - 1 : x = X0 + k * FontWidth /\ x < Width - FontWidth
      BY <1>1 DEF Columned
    <2>3. k * FontWidth \in Nat
      BY <2>1
    <2>4. x \in Nat /\ x + FontWidth <= Width
      BY <2>1, <2>2, <2>3, ScreenSize
    <2>. QED
      BY <2>4, CharIn
  <1>. QED
    BY <1>1 DEF Written, dLcdDrawText

------------------------------------------------------------------------------
(***************************************************************************)
(* What is drawn lies in displayBuf.                                       *)
(***************************************************************************)

Cursors == [X0 : Int, Y0 : Int, indent : Int]

\* The bits of a row that a shape writes, whether the screen shows them or not.
InBytes(ss) == \A k \in DOMAIN ss : \A p \in ss[k] : p[1] \in 0..BufferSize - 1

LEMMA InkInPixels ==
  ASSUME NEW ss \in Strokes
  PROVE  \A k \in DOMAIN ss : \A p \in ss[k] : p[1] \in 0..BufferSize - 1 /\ ~Spare(p)
  <1>1. \A k \in DOMAIN ss : ss[k] \in SUBSET Pixels
    BY ElementOfSeq DEF Strokes
  <1>. QED
    BY <1>1 DEF Pixels

LEMMA DrawnInBuffer ==
  ASSUME NEW shape, NEW args, NEW mode, NEW fill, NEW ss \in Strokes,
         Draw(shape, args, mode, fill, ss)
  PROVE  InBuffer'
  <1>1. strokes' \in Strokes
    BY NoStrokes DEF Draw
  <1>. QED
    BY <1>1, InkInPixels DEF InBuffer, Touched

LEMMA OneStroke ==
  ASSUME NEW placed, Written(placed)
  PROVE  InBytes(<<{p.bit : p \in placed}>>)
  BY DEF InBytes, Written

LEMMA PictureInBuffer ==
  ASSUME NEW g \in Bitmaps, LcdPicture(g)
  PROVE  InBuffer'
  <1>1. SUFFICES ASSUME ~IndexUnchecked'
                 PROVE  \A p \in Touched' : p[1] \in 0..BufferSize - 1
    BY DEF InBuffer, LcdPicture, Draw, Request
  <1>2. req'.shape = "bitmap" /\ req'.args = g
    BY DEF LcdPicture, Draw, Request
  <1>3. g[1] \in -(ShortMax + 1)..ShortMax /\ g[2] \in Int /\ g[3] \in Nat /\ g[4] \in Nat
    BY DrawingAssumption
  <1>4. g[2] >= 0 /\ (g[2] + g[4]) * ByteWidth <= ShortMax
    <2>1. ~(g[2] < 0) /\ ~((g[2] + g[4]) * ByteWidth > ShortMax)
      BY <1>1, <1>2 DEF IndexUnchecked
    <2>2. (g[2] + g[4]) * ByteWidth \in Int
      BY <1>3, ScreenSize
    <2>. QED
      BY <1>3, <2>1, <2>2, ScreenSize
  <1>5. Written(dLcdDrawBitmap(g[1], g[2], g[3], g[4]))
    <2>1. g[2] \in Nat
      BY <1>3, <1>4
    <2>. QED
      BY <1>3, <1>4, <2>1, BitmapIn
  <1>6. strokes' = <<{p.bit : p \in dLcdDrawBitmap(g[1], g[2], g[3], g[4])}>>
    BY DEF LcdPicture, Draw, PixelModes
  <1>7. InBytes(strokes')
    BY <1>5, <1>6, OneStroke
  <1>. QED
    BY <1>7 DEF InBytes, Touched

LEMMA TextInBuffer ==
  ASSUME NEW g \in Texts, LcdText(g)
  PROVE  InBuffer'
  <1>1. SUFFICES ASSUME ~IndexUnchecked'
                 PROVE  \A p \in Touched' : p[1] \in 0..BufferSize - 1
    BY DEF InBuffer, LcdText, Draw, Request
  <1>2. req'.shape = "text" /\ req'.args = <<g[1], g[2], g[3], FontHeight>>
    BY DEF LcdText, Draw, Request
  <1>3. /\ g[1] \in -(ShortMax + 1)..ShortMax /\ g[2] \in Int /\ g[3] \in Nat
        /\ FontHeight \in Nat
    BY DrawingAssumption, ScreenSize
  <1>4. g[1] >= 0 /\ g[2] >= 0 /\ (g[2] + FontHeight) * ByteWidth <= ShortMax
    <2>1. ~(g[1] < 0) /\ ~(g[2] < 0) /\ ~((g[2] + FontHeight) * ByteWidth > ShortMax)
      BY <1>1, <1>2 DEF IndexUnchecked
    <2>2. (g[2] + FontHeight) * ByteWidth \in Int
      BY <1>3, ScreenSize
    <2>. QED
      BY <1>3, <2>1, <2>2, ScreenSize
  <1>5. Written(dLcdDrawText(g[1], g[2], g[3]))
    <2>1. g[1] \in Nat /\ g[2] \in Nat
      BY <1>3, <1>4, ScreenSize
    <2>. QED
      BY <1>3, <1>4, <2>1, TextIn
  <1>6. strokes' = <<{p.bit : p \in dLcdDrawText(g[1], g[2], g[3])}>>
    BY DEF LcdText, Draw, PixelModes
  <1>7. InBytes(strokes')
    BY <1>5, <1>6, OneStroke
  <1>. QED
    BY <1>7 DEF InBytes, Touched

LEMMA WrappedIn ==
  ASSUME NEW c \in Cursors
  PROVE  /\ Wrapped(c) \in Cursors
         /\ Wrapped(c).X0 \in Nat /\ Wrapped(c).X0 + FontWidth <= Width
  <1>1. FontWidth \in 1..Width /\ FontHeight \in 1..Height
    BY DrawingAssumption
  <1>2. CASE c.X0 \in 0..(Width - FontWidth - 1)
    BY <1>1, <1>2, ScreenSize DEF Wrapped, Cursors
  <1>3. CASE c.X0 \notin 0..(Width - FontWidth - 1)
    <2>1. Short(c.Y0 + FontHeight) \in Int
      BY <1>1, ScreenSize, ShortInt DEF Cursors
    <2>2. Wrapped(c) = [c EXCEPT !.X0 = 0, !.Y0 = Short(c.Y0 + FontHeight)]
      BY <1>3 DEF Wrapped
    <2>3. \A x, y \in Int : /\ [c EXCEPT !.X0 = x, !.Y0 = y] \in Cursors
                             /\ [c EXCEPT !.X0 = x, !.Y0 = y].X0 = x
      BY DEF Cursors
    <2>4. 0 \in Int /\ 0 \in Nat /\ 0 + FontWidth <= Width
      BY <1>1, ScreenSize
    <2>5. Wrapped(c) \in Cursors /\ Wrapped(c).X0 = 0
      BY <2>1, <2>2, <2>3, <2>4, Zenon
    <2>. QED
      BY <2>4, <2>5
  <1>. QED
    BY <1>2, <1>3

LEMMA MovedIn ==
  ASSUME NEW c \in Cursors, NEW char \in Chars
  PROVE  Moved(c, char) \in Cursors
  <1>1. FontWidth \in Int /\ FontHeight \in Int /\ TabSize \in Int
        /\ c.X0 \in Int /\ c.Y0 \in Int /\ c.indent \in Int
    BY DrawingAssumption, ScreenSize DEF TabSize, Cursors
  <1>2. FontWidth * (TabSize - c.indent) \in Int
    BY <1>1
  <1>3. /\ Short(c.Y0 + FontHeight + 2) \in Int /\ Short(c.X0 - FontWidth) \in Int
        /\ Short(c.Y0 + FontHeight + 1) \in Int /\ Short(c.X0 + FontWidth) \in Int
        /\ Short(c.X0 + FontWidth * (TabSize - c.indent)) \in Int
        /\ c.indent + 1 \in Int /\ 0 \in Int
    BY <1>1, <1>2, ShortInt
  <1>4. \A x, y, i \in Int : /\ [c EXCEPT !.X0 = x] \in Cursors
                             /\ [c EXCEPT !.Y0 = y] \in Cursors
                             /\ [c EXCEPT !.X0 = x, !.Y0 = y] \in Cursors
                             /\ [c EXCEPT !.X0 = x, !.indent = i] \in Cursors
    BY DEF Cursors
  <1>5. CASE char = "newline"
    <2>1. Moved(c, char) = [c EXCEPT !.X0 = 0, !.Y0 = Short(c.Y0 + FontHeight + 2)]
      BY <1>5 DEF Moved
    <2>. QED
      BY <1>3, <1>4, <2>1, Zenon
  <1>6. CASE char = "return"
    <2>1. Moved(c, char) = [c EXCEPT !.X0 = 0]
      BY <1>6 DEF Moved
    <2>. QED
      BY <1>3, <1>4, <2>1, Zenon
  <1>7. CASE char = "back"
    <2>1. Moved(c, char) = [c EXCEPT !.X0 = Short(c.X0 - FontWidth)]
      BY <1>7 DEF Moved
    <2>. QED
      BY <1>3, <1>4, <2>1, Zenon
  <1>8. CASE char = "vtab"
    <2>1. Moved(c, char) = [c EXCEPT !.Y0 = Short(c.Y0 + FontHeight + 1)]
      BY <1>8 DEF Moved
    <2>. QED
      BY <1>3, <1>4, <2>1, Zenon
  <1>9. CASE char = "feed"
    <2>1. Moved(c, char) = [c EXCEPT !.X0 = 0, !.Y0 = 0]
      BY <1>9 DEF Moved
    <2>. QED
      BY <1>3, <1>4, <2>1, Zenon
  <1>10. CASE char = "tab"
    <2>1. Moved(c, char) = [c EXCEPT !.X0 = Short(c.X0 + FontWidth * (TabSize - c.indent))]
      BY <1>10 DEF Moved
    <2>. QED
      BY <1>3, <1>4, <2>1, Zenon
  <1>11. CASE char = "glyph"
    <2>1. Moved(c, char) = [c EXCEPT !.X0 = Short(c.X0 + FontWidth), !.indent = c.indent + 1]
      BY <1>11 DEF Moved
    <2>. QED
      BY <1>3, <1>4, <2>1, Zenon
  <1>. QED
    BY <1>5, <1>6, <1>7, <1>8, <1>9, <1>10, <1>11 DEF Chars

LEMMA CharInBuffer ==
  ASSUME NEW char \in Chars, cursor \in Cursors, LcdPrintf(char)
  PROVE  cursor' \in Cursors /\ InBuffer'
  <1>. DEFINE start == [cursor EXCEPT !.indent = IF @ = TabSize THEN 0 ELSE @]
              from == Wrapped(start)
              to == Moved(from, char)
  <1>1. start \in Cursors
    BY DEF Cursors, TabSize
  <1>. HIDE DEF start
  <1>2. from \in Cursors /\ from.X0 \in Nat /\ from.X0 + FontWidth <= Width
    BY <1>1, WrappedIn
  <1>. HIDE DEF from
  <1>3. to \in Cursors
    BY <1>2, MovedIn
  <1>. HIDE DEF to
  <1>4. /\ cursor' = [to EXCEPT !.indent = @ + 1]
        /\ req' = Request(char, <<from.X0, from.Y0, FontWidth, FontHeight>>, "SET", FALSE)
        /\ strokes' = IF char = "glyph" THEN <<{p.bit : p \in dLcdDrawChar(from.X0, from.Y0)}>>
                      ELSE <<>>
    BY DEF LcdPrintf, start, from, to
  <1>5. cursor' \in Cursors
    BY <1>3, <1>4 DEF Cursors
  <1>6. CASE char # "glyph"
    <2>1. strokes' \in Strokes
      BY <1>4, <1>6, NoStrokes
    <2>. QED
      BY <1>5, <2>1, InkInPixels DEF InBuffer, Touched
  <1>7. CASE char = "glyph"
    <2>. DEFINE y == from.Y0
    <2>1. req'.shape = "glyph" /\ req'.args[2] = y /\ req'.args[4] = FontHeight
      BY <1>4, <1>7 DEF Request
    <2>2. SUFFICES ASSUME ~IndexUnchecked'
                   PROVE  \A p \in Touched' : p[1] \in 0..BufferSize - 1
      BY <1>5, <2>1 DEF InBuffer
    <2>3. y \in Int /\ FontHeight \in Int
      BY <1>2, DrawingAssumption DEF Cursors
    <2>. HIDE DEF y
    <2>4. y \in Nat /\ (y + FontHeight) * ByteWidth <= ShortMax
      <3>1. ~(y < 0) /\ ~((y + FontHeight) * ByteWidth > ShortMax)
        BY <2>1, <2>2 DEF IndexUnchecked
      <3>2. (y + FontHeight) * ByteWidth \in Int
        BY <2>3, ScreenSize
      <3>. QED
        BY <2>3, <3>1, <3>2, ScreenSize
    <2>5. Written(dLcdDrawChar(from.X0, y))
      BY <1>2, <2>4, CharIn
    <2>6. strokes' = <<{p.bit : p \in dLcdDrawChar(from.X0, y)}>>
      BY <1>4, <1>7 DEF y
    <2>7. InBytes(strokes')
      BY <2>5, <2>6, OneStroke
    <2>. QED
      BY <2>7 DEF InBytes, Touched
  <1>. QED
    BY <1>6, <1>7

\* The inductive invariant: the cursor is the only thing a later call depends on.
DrawingInv == cursor \in Cursors /\ InBuffer

LEMMA DrawingInvInit == DrawingInit => DrawingInv
  <1>1. SUFFICES ASSUME DrawingInit PROVE DrawingInv
    OBVIOUS
  <1>2. cursor \in Cursors
    BY <1>1 DEF DrawingInit, Cursors
  <1>3. strokes \in Strokes
    BY <1>1, NoStrokes DEF DrawingInit
  <1>. QED
    BY <1>2, <1>3, InkInPixels DEF DrawingInv, InBuffer, Touched

LEMMA DrawingInvNext == DrawingInv /\ [DrawingNext]_canvas => DrawingInv'
  <1>1. SUFFICES ASSUME DrawingInv, [DrawingNext]_canvas
                 PROVE  DrawingInv'
    OBVIOUS
  <1>2. cursor \in Cursors
    BY <1>1 DEF DrawingInv
  <1>0. ASSUME NEW g \in Ellipses
        PROVE  Short(g[1]) \in Int /\ Short(g[2]) \in Int /\ g[3] \in Nat /\ g[4] \in Nat
    BY DrawingAssumption, ShortInt
  <1>3. ASSUME NEW g \in Lines, LineOutEx(g, "INVERT") PROVE DrawingInv'
    <2>1. CmdDrawLine(g[1], g[2], g[3], g[4]) \in Strokes
      BY DrawingAssumption, LineIn
    <2>. QED
      BY <1>2, <1>3, <2>1, DrawnInBuffer DEF LineOutEx, Draw, DrawingInv
  <1>4. ASSUME NEW g \in Rects, NEW mode, NEW fill \in BOOLEAN, RectOutEx(g, mode, fill)
        PROVE  DrawingInv'
    <2>1. CmdDrawRect(g[1], g[2], g[3], g[4], fill) \in Strokes
      BY DrawingAssumption, RectIn
    <2>. QED
      BY <1>2, <1>4, <2>1, DrawnInBuffer DEF RectOutEx, Draw, DrawingInv
  <1>5. ASSUME NEW g \in Ellipses, NEW fill \in BOOLEAN, EllipseOutEx(g, "INVERT", fill)
        PROVE  DrawingInv'
    <2>1. CmdDrawEllipse(Short(g[1]), Short(g[2]), g[3], g[4], fill) \in Strokes
      BY <1>0, EllipseIn
    <2>. QED
      BY <1>2, <1>5, <2>1, DrawnInBuffer DEF EllipseOutEx, Draw, DrawingInv
  <1>6. ASSUME NEW g \in Ellipses, CircleOutEx(g, "CLEAR", TRUE) PROVE DrawingInv'
    <2>1. CmdDrawEllipse(Short(g[1]), Short(g[2]), g[3], g[3], TRUE) \in Strokes
      BY <1>0, EllipseIn
    <2>. QED
      BY <1>2, <1>6, <2>1, DrawnInBuffer DEF CircleOutEx, Draw, DrawingInv
  <1>7. ASSUME NEW g \in Ellipses, PointOutEx(g, "INVERT") PROVE DrawingInv'
    <2>1. CmdSetPixel(g[1], g[2]) \in Strokes
      BY DrawingAssumption, SetPixelIn DEF Strokes
    <2>. QED
      BY <1>2, <1>7, <2>1, DrawnInBuffer DEF PointOutEx, Draw, DrawingInv
  <1>8. ASSUME NEW g \in Bitmaps, LcdPicture(g) PROVE DrawingInv'
    BY <1>2, <1>8, PictureInBuffer DEF LcdPicture, Draw, DrawingInv
  <1>9. CASE DisplayErase
    <2>1. strokes' \in Strokes /\ cursor' = cursor
      BY <1>9, NoStrokes DEF DisplayErase
    <2>2. InBuffer'
      BY <2>1, InkInPixels DEF InBuffer, Touched
    <2>. QED
      BY <1>2, <2>1, <2>2 DEF DrawingInv
  <1>10. ASSUME NEW char \in Chars, LcdPrintf(char) PROVE DrawingInv'
    BY <1>2, <1>10, CharInBuffer DEF DrawingInv
  <1>11. ASSUME NEW g \in Rects, RectOut(g) PROVE DrawingInv'
    <2>0. g[1] \in Int /\ g[2] \in Int /\ g[3] \in Int /\ FALSE \in BOOLEAN
      BY DrawingAssumption
    <2>1. CmdDrawRect(g[1], g[2], g[3], g[2], FALSE) \in Strokes
      BY <2>0, RectIn
    <2>. QED
      BY <1>2, <1>11, <2>1, DrawnInBuffer DEF RectOut, Draw, DrawingInv
  <1>12. ASSUME NEW g \in Texts, LcdText(g) PROVE DrawingInv'
    BY <1>2, <1>12, TextInBuffer DEF LcdText, Draw, DrawingInv
  <1>13. CASE UNCHANGED canvas
    BY <1>1, <1>13 DEF canvas, DrawingInv, InBuffer, IndexUnchecked, Touched
  <1>. QED
    BY <1>1, <1>3, <1>4, <1>5, <1>6, <1>7, <1>8, <1>9, <1>10, <1>11, <1>12, <1>13
    DEF DrawingNext

\* Whatever the size of the screen and the font and whatever is drawn, inside the screen,
\* across its borders or beyond them, only bytes of displayBuf are written, and lines,
\* rectangles and ellipses leave the spare bits of a row alone.
THEOREM DrawingStaysInBuffer == DrawingSpec => []InBuffer
  <1>1. DrawingSpec => []DrawingInv
    BY DrawingInvInit, DrawingInvNext, PTL DEF DrawingSpec
  <1>2. DrawingInv => InBuffer
    BY DEF DrawingInv
  <1>. QED
    BY <1>1, <1>2, PTL

------------------------------------------------------------------------------
(***************************************************************************)
(* A slanted line stays close to the segment between its ends.             *)
(***************************************************************************)

LEMMA Product ==
  ASSUME NEW M \in Nat, NEW n \in Nat, NEW k \in -M..M, NEW y \in -n..n
  PROVE  k * y \in Int /\ M * n \in Nat /\ -(M * n) <= k * y /\ k * y <= M * n
  <1>. DEFINE c == k * y
              m == M * n
              a1 == (M - k) * (n + y)
              a2 == (M + k) * (n - y)
              b1 == (M - k) * (n - y)
              b2 == (M + k) * (n + y)
  <1>1. k \in Int /\ y \in Int /\ c \in Int /\ m \in Nat
    BY DEF c, m
  <1>2. a1 \in Nat /\ a2 \in Nat /\ b1 \in Nat /\ b2 \in Nat
    <2>1. M - k \in Nat /\ M + k \in Nat /\ n - y \in Nat /\ n + y \in Nat
      OBVIOUS
    <2>. QED
      BY <2>1
  <1>3. a1 + a2 = 2 * m - 2 * c /\ b1 + b2 = 2 * m + 2 * c
    BY <1>1
  <1>. HIDE DEF c, m, a1, a2, b1, b2
  <1>4. -m <= c /\ c <= m
    BY <1>1, <1>2, <1>3
  <1>. QED
    BY <1>1, <1>4 DEF c, m

\* A mean of two small errors, and half a pixel.
LEMMA Blend ==
  ASSUME NEW n \in Nat \ {0}, NEW t \in 0..n, NEW M \in Nat, NEW e1 \in -M..M, NEW e3 \in -M..M,
         NEW k \in -M..M, NEW z \in Int, 2 * Abs(z) <= n, NEW w \in Int,
         n * w = (n - t) * e1 + t * e3 + k * z
  PROVE  2 * Abs(w) <= 3 * M
  <1>. DEFINE a == (n - t) * e1
              b == t * e3
              c == k * z
              m == M * n
              d == n * w
              ma == M * (n - t)
              mb == M * t
  <1>1. /\ t \in Nat /\ n - t \in Nat /\ t \in -t..t /\ n - t \in -(n - t)..(n - t)
        /\ 2 * z \in -n..n
    <2>1. 2 * z \in -n..n
      BY DEF Abs
    <2>. QED
      BY <2>1
  <1>2. a \in Int /\ -ma <= a /\ a <= ma /\ ma \in Nat
    <2>. DEFINE f == n - t
    <2>1. f \in Nat /\ f \in -f..f
      BY <1>1
    <2>. HIDE DEF f
    <2>2. e1 * f \in Int /\ M * f \in Nat /\ -(M * f) <= e1 * f /\ e1 * f <= M * f
      BY <2>1, Product
    <2>3. e1 * f = f * e1
      BY <2>1
    <2>. QED
      BY <2>2, <2>3 DEF f
  <1>3. b \in Int /\ -mb <= b /\ b <= mb /\ mb \in Nat
    <2>1. e3 * t \in Int /\ M * t \in Nat /\ -(M * t) <= e3 * t /\ e3 * t <= M * t
      BY <1>1, Product
    <2>2. e3 * t = t * e3
      BY <1>1
    <2>. QED
      BY <2>1, <2>2
  <1>4. 2 * c \in Int /\ -m <= 2 * c /\ 2 * c <= m /\ m \in Nat /\ c \in Int
    <2>1. k * (2 * z) \in Int /\ M * n \in Nat /\ -(M * n) <= k * (2 * z) /\ k * (2 * z) <= M * n
      BY <1>1, Product
    <2>2. k * (2 * z) = 2 * c /\ c \in Int
      OBVIOUS
    <2>. QED
      BY <2>1, <2>2
  <1>5. ma + mb = m
    BY <1>1
  <1>6. d = a + b + c /\ d \in Int
    OBVIOUS
  <1>7. (2 * w) * n = 2 * d /\ (2 * (-w)) * n = -(2 * d) /\ (3 * M) * n = 3 * m
    OBVIOUS
  <1>. HIDE DEF a, b, c, m, d, ma, mb
  <1>8. 2 * d <= 3 * m /\ -(2 * d) <= 3 * m
    BY <1>2, <1>3, <1>4, <1>5, <1>6
  <1>9. 2 * w <= 3 * M /\ 2 * (-w) <= 3 * M
    <2>1. (2 * w) * n <= (3 * M) * n /\ (2 * (-w)) * n <= (3 * M) * n
      BY <1>7, <1>8
    <2>2. 2 * w \in Int /\ 2 * (-w) \in Int /\ 3 * M \in Int
      OBVIOUS
    <2>. QED
      BY <2>1, <2>2, Cancel
  <1>. QED
    BY <1>9 DEF Abs

\* The same where the steps are negative.
LEMMA BlendEither ==
  ASSUME NEW n \in Int, n # 0, NEW t \in Int, Between(t, 0, n), NEW M \in Nat,
         NEW e1 \in -M..M, NEW e3 \in -M..M, NEW k \in -M..M, NEW z \in Int,
         2 * Abs(z) <= Abs(n), NEW w \in Int, n * w = (n - t) * e1 + t * e3 + k * z
  PROVE  2 * Abs(w) <= 3 * M
  <1>1. CASE n > 0
    <2>1. n \in Nat \ {0} /\ t \in 0..n /\ Abs(n) = n
      BY <1>1 DEF Between, Least, Most, Abs
    <2>. QED
      BY <2>1, Blend
  <1>2. CASE n < 0
    <2>. DEFINE N == -n
                T == -t
                K == -k
    <2>1. N \in Nat \ {0} /\ T \in 0..N /\ Abs(n) = N /\ K \in -M..M
      BY <1>2 DEF Between, Least, Most, Abs
    <2>2. N * w = (N - T) * e1 + T * e3 + K * z
      <3>1. e1 \in Int /\ e3 \in Int /\ k \in Int
        OBVIOUS
      <3>2. N * w = -(n * w) /\ (N - T) * e1 = -((n - t) * e1) /\ T * e3 = -(t * e3) /\ K * z = -(k * z)
        BY <3>1
      <3>3. (n - t) * e1 \in Int /\ t * e3 \in Int /\ k * z \in Int
        BY <3>1
      <3>. QED
        BY <3>2, <3>3
    <2>. HIDE DEF N, T, K
    <2>. QED
      BY <2>1, <2>2, Blend
  <1>. QED
    BY <1>1, <1>2

\* How far <<x, y>> is from the line through the ends of s, times its length.
Cross(s, x, y) == (x - s[1]) * (s[4] - s[2]) - (y - s[2]) * (s[3] - s[1])

LEMMA WithinIs ==
  ASSUME NEW s, NEW p, NEW n
  PROVE  Within(s, p, n) <=> 2 * Abs(Cross(s, p[1], p[2])) <= n * SlantLength(s)
  BY DEF Within, Cross, SlantLength

LEMMA CrossTurned ==
  ASSUME NEW s \in Segments, NEW x \in Int, NEW y \in Int
  PROVE  /\ Cross(s, x, y) \in Int /\ Cross(Turned(s), x, y) = -Cross(s, x, y)
         /\ Abs(Cross(Turned(s), x, y)) = Abs(Cross(s, x, y))
         /\ SlantLength(s) \in Nat /\ SlantLength(Turned(s)) = SlantLength(s)
         /\ Abs(s[3] - s[1]) <= SlantLength(s) /\ Abs(s[4] - s[2]) <= SlantLength(s)
  <1>. DEFINE a == x - s[1]
              b == y - s[2]
              X == s[3] - s[1]
              Y == s[4] - s[2]
  <1>1. s[1] \in Int /\ s[2] \in Int /\ s[3] \in Int /\ s[4] \in Int
    BY DEF Segments
  <1>2. a \in Int /\ b \in Int /\ X \in Int /\ Y \in Int
    BY <1>1
  <1>3. Cross(s, x, y) = a * Y - b * X
    BY DEF Cross
  <1>4. Cross(Turned(s), x, y) = (a - X) * (-Y) - (b - Y) * (-X)
    <2>1. Cross(Turned(s), x, y) = (x - s[3]) * (s[2] - s[4]) - (y - s[4]) * (s[1] - s[3])
      BY Turn DEF Cross
    <2>2. x - s[3] = a - X /\ s[2] - s[4] = -Y /\ y - s[4] = b - Y /\ s[1] - s[3] = -X
      BY <1>1
    <2>. HIDE DEF a, b, X, Y
    <2>. QED
      BY <2>1, <2>2
  <1>5. SlantLength(s) = Most(Abs(X), Abs(Y)) /\ SlantLength(Turned(s)) = Most(Abs(-X), Abs(-Y))
    <2>1. SlantLength(Turned(s)) = Most(Abs(s[1] - s[3]), Abs(s[2] - s[4]))
      BY Turn DEF SlantLength
    <2>2. s[1] - s[3] = -X /\ s[2] - s[4] = -Y
      BY <1>1
    <2>. HIDE DEF X, Y
    <2>. QED
      BY <2>1, <2>2 DEF SlantLength, X, Y
  <1>. HIDE DEF a, b, X, Y
  <1>6. Cross(s, x, y) \in Int /\ Cross(Turned(s), x, y) = -Cross(s, x, y)
    BY <1>2, <1>3, <1>4
  <1>7. Abs(Cross(Turned(s), x, y)) = Abs(Cross(s, x, y))
    BY <1>6, Sign
  <1>8. Abs(X) \in Nat /\ Abs(Y) \in Nat /\ Abs(-X) = Abs(X) /\ Abs(-Y) = Abs(Y)
    BY <1>2, Sign
  <1>9. /\ SlantLength(s) \in Nat /\ SlantLength(Turned(s)) = SlantLength(s)
        /\ Abs(X) <= SlantLength(s) /\ Abs(Y) <= SlantLength(s)
    BY <1>5, <1>8 DEF Most
  <1>. QED
    BY <1>6, <1>7, <1>9 DEF X, Y

LEMMA AbsRange ==
  ASSUME NEW a \in Int, NEW M \in Nat
  PROVE  /\ Abs(a) <= M => a \in -M..M
         /\ Abs(-a) = Abs(a)
  BY DEF Abs

\* A segment whose ends are less than a pixel off the line r is drawn within one and a half.
LEMMA WithinCut ==
  ASSUME NEW r \in Segments, NEW s \in Segments, NEW p \in Int \X Int,
         Abs(Cross(r, s[1], s[2])) <= SlantLength(r),
         Abs(Cross(r, s[3], s[4])) <= SlantLength(r),
         Between(p[1], s[1], s[3]), Between(p[2], s[2], s[4]), Within(s, p, 1)
  PROVE  Within(r, p, 3)
  <1>. DEFINE X == r[3] - r[1]
              Y == r[4] - r[2]
              x == s[3] - s[1]
              y == s[4] - s[2]
              t == p[1] - s[1]
              u == p[2] - s[2]
              M == SlantLength(r)
              m == SlantLength(s)
              e1 == Cross(r, s[1], s[2])
              e3 == Cross(r, s[3], s[4])
              w == Cross(r, p[1], p[2])
              z == Cross(s, p[1], p[2])
  <1>1. /\ s[1] \in Int /\ s[2] \in Int /\ s[3] \in Int /\ s[4] \in Int
        /\ r[1] \in Int /\ r[2] \in Int /\ r[3] \in Int /\ r[4] \in Int
        /\ p[1] \in Int /\ p[2] \in Int
    BY DEF Segments
  <1>2. X \in Int /\ Y \in Int /\ x \in Int /\ y \in Int /\ t \in Int /\ u \in Int
    BY <1>1
  <1>3. /\ M \in Nat /\ m \in Nat /\ e1 \in Int /\ e3 \in Int /\ w \in Int /\ z \in Int
        /\ Abs(X) <= M /\ Abs(Y) <= M
    BY <1>1, CrossTurned
  <1>4. z = t * y - u * x
    BY DEF Cross
  <1>5. w = e1 + t * Y - u * X /\ e3 = e1 + x * Y - y * X
    <2>. DEFINE i == s[1] - r[1]
                j == s[2] - r[2]
    <2>1. i \in Int /\ j \in Int /\ p[1] - r[1] = i + t /\ p[2] - r[2] = j + u
          /\ s[3] - r[1] = i + x /\ s[4] - r[2] = j + y
      BY <1>1
    <2>2. w = (i + t) * Y - (j + u) * X /\ e3 = (i + x) * Y - (j + y) * X /\ e1 = i * Y - j * X
      BY <2>1 DEF Cross
    <2>. HIDE DEF i, j, X, Y, t, u, x, y, w, e1, e3
    <2>. QED
      BY <1>2, <2>1, <2>2
  <1>6. /\ e1 \in -M..M /\ e3 \in -M..M /\ X \in -M..M /\ Y \in -M..M
    <2>. HIDE DEF X, Y, M, e1, e3
    <2>1. Abs(e1) <= M /\ Abs(e3) <= M
      BY DEF e1, e3, M
    <2>. QED
      BY <1>2, <1>3, <2>1, AbsRange
  <1>7. 2 * Abs(z) <= m
    <2>1. 2 * Abs(z) <= 1 * m
      BY WithinIs
    <2>. HIDE DEF z, m
    <2>. QED
      BY <1>3, <2>1
  <1>8. m = Most(Abs(x), Abs(y))
    BY DEF SlantLength
  <1>9. Between(t, 0, x) /\ Between(u, 0, y)
    BY <1>1 DEF Between, Least, Most
  <1>10. Abs(x) \in Nat /\ Abs(y) \in Nat /\ (x # 0 => Abs(x) > 0) /\ (y # 0 => Abs(y) > 0)
         /\ (x = 0 => Abs(x) = 0) /\ (y = 0 => Abs(y) = 0)
    BY <1>2, Sign DEF Abs
  <1>. HIDE DEF X, Y, x, y, t, u, M, m, e1, e3, w, z
  <1>11. 2 * Abs(w) <= 3 * M
    <2>1. CASE Abs(x) >= Abs(y) /\ x # 0
      <3>1. 2 * Abs(z) <= Abs(x)
        BY <1>7, <1>8, <1>10, <2>1 DEF Most
      <3>2. x * w = (x - t) * e1 + t * e3 + X * z
        BY <1>2, <1>3, <1>4, <1>5
      <3>. QED
        BY <1>2, <1>3, <1>6, <1>9, <2>1, <3>1, <3>2, BlendEither
    <2>2. CASE Abs(y) > Abs(x)
      <3>1. 2 * Abs(z) <= Abs(y)
        BY <1>7, <1>8, <1>10, <2>2 DEF Most
      <3>2. y * w = (y - u) * e1 + u * e3 + Y * z
        BY <1>2, <1>3, <1>4, <1>5
      <3>3. y # 0
        BY <1>10, <2>2
      <3>. QED
        BY <1>2, <1>3, <1>6, <1>9, <3>1, <3>2, <3>3, BlendEither
    <2>3. CASE x = 0 /\ y = 0
      <3>1. t = 0 /\ u = 0
        BY <1>2, <1>9, <2>3 DEF Between, Least, Most
      <3>2. w = e1
        BY <1>2, <1>3, <1>5, <3>1
      <3>. QED
        BY <1>3, <1>6, <3>2 DEF Abs
    <2>. QED
      BY <1>2, <1>10, <2>1, <2>2, <2>3
  <1>. QED
    BY <1>11, WithinIs DEF w, M

\* ss draws the line r: nothing farther than n / 2 pixels from it, and its ends.
LineFollows(r, ss, n) ==
  \E P \in SUBSET Screen :
    /\ Ink(ss) = Cells(P)
    /\ \A p \in P : Within(r, p, n)
    /\ Ends(r) \cap Screen \subseteq P

LEMMA FollowsTurned ==
  ASSUME NEW r \in Segments, NEW ss, NEW n, LineFollows(Turned(r), ss, n)
  PROVE  LineFollows(r, ss, n)
  <1>1. PICK P \in SUBSET Screen : /\ Ink(ss) = Cells(P)
                                   /\ \A p \in P : Within(Turned(r), p, n)
                                   /\ Ends(Turned(r)) \cap Screen \subseteq P
    BY DEF LineFollows
  <1>2. ASSUME NEW p \in P PROVE Within(r, p, n)
    <2>1. p[1] \in Int /\ p[2] \in Int
      BY ScreenSize DEF Screen
    <2>2. /\ Abs(Cross(Turned(r), p[1], p[2])) = Abs(Cross(r, p[1], p[2]))
          /\ SlantLength(Turned(r)) = SlantLength(r)
      BY <2>1, CrossTurned
    <2>3. 2 * Abs(Cross(Turned(r), p[1], p[2])) <= n * SlantLength(Turned(r))
      BY <1>1, WithinIs
    <2>. QED
      BY <2>2, <2>3, WithinIs
  <1>3. Ends(Turned(r)) = Ends(r)
    BY Turn DEF Ends
  <1>. QED
    BY <1>1, <1>2, <1>3 DEF LineFollows

\* What is left of a line follows it, if the ends that were moved are less than a pixel off.
LEMMA CutFollows ==
  ASSUME NEW r \in Segments, NEW s, InScreen(s),
         Abs(Cross(r, s[1], s[2])) <= SlantLength(r),
         Abs(Cross(r, s[3], s[4])) <= SlantLength(r),
         <<r[1], r[2]>> \in Screen => s[1] = r[1] /\ s[2] = r[2],
         <<r[3], r[4]>> \in Screen => s[3] = r[3] /\ s[4] = r[4]
  PROVE  LineFollows(r, Segment(s[1], s[2], s[3], s[4]), 3)
  <1>1. PICK P : SegmentPixels(s, P)
    BY SegmentInk
  <1>2. s \in Segments
    BY DEF InScreen, OnColumns
  <1>3. ASSUME NEW p \in P PROVE Within(r, p, 3)
    <2>1. p \in Screen /\ Between(p[1], s[1], s[3]) /\ Between(p[2], s[2], s[4]) /\ Within(s, p, 1)
      BY <1>1 DEF SegmentPixels
    <2>2. p \in Int \X Int
      BY <2>1, ScreenSize DEF Screen
    <2>. QED
      BY <1>2, <2>1, <2>2, WithinCut
  <1>4. Ends(r) \cap Screen \subseteq P
    BY <1>1 DEF SegmentPixels, Ends
  <1>. QED
    BY <1>1, <1>3, <1>4 DEF LineFollows, SegmentPixels

LEMMA WholeFollows ==
  ASSUME NEW r, InScreen(r)
  PROVE  LineFollows(r, Segment(r[1], r[2], r[3], r[4]), 1)
  <1>1. PICK P : SegmentPixels(r, P)
    BY SegmentInk
  <1>. QED
    BY <1>1 DEF LineFollows, SegmentPixels, Ends

LEMMA NothingFollows ==
  ASSUME NEW r, NEW n, <<r[1], r[2]>> \notin Screen, <<r[3], r[4]>> \notin Screen
  PROVE  LineFollows(r, <<>>, n)
  <1>1. Ink(<<>>) = Cells({})
    BY DEF Ink, Cells
  <1>. QED
    BY <1>1 DEF LineFollows, Ends

LEMMA InScreenIs ==
  ASSUME NEW x \in Int, NEW y \in Int
  PROVE  <<x, y>> \in Screen <=> x \in 0..Width - 1 /\ y \in 0..Height - 1
  BY DEF Screen

\* A line that is in the rows of the screen, cut to its columns.
LEMMA ColumnCutFollows ==
  ASSUME NEW r \in Segments, NEW dx \in Int, NEW dy \in Int,
         Slope(r[1], r[2], r[3], r[4], dy, dx), r[1] < r[3],
         r[2] \in 0..Height - 1, r[4] \in 0..Height - 1,
         NEW n, n = IF r[1] \in 0..Width - 1 /\ r[3] \in 0..Width - 1 THEN 1 ELSE 3
  PROVE  LineFollows(r, ClipColumns(r, dx, dy), n)
  <1>. DEFINE a == CutLow(r[1], r[2], dy, dx)
              b == CutHigh(r[3], r[4], dy, dx, Width)
              c == ColumnCut(r, dx, dy)
              l == Most(r[1], 0)
              h == Least(r[3], Width - 1)
  <1>1. /\ r[1] \in Int /\ r[2] \in Int /\ r[3] \in Int /\ r[4] \in Int
        /\ Width \in Nat \ {0} /\ Height \in Nat \ {0}
    BY ScreenSize DEF Segments
  <1>2. CASE ~ColumnsSeen(r)
    <2>1. ClipColumns(r, dx, dy) = <<>>
      BY <1>2, ClipColumnsIs
    <2>2. r[1] \notin 0..Width - 1 /\ r[3] \notin 0..Width - 1
      BY <1>1, <1>2 DEF ColumnsSeen
    <2>3. <<r[1], r[2]>> \notin Screen /\ <<r[3], r[4]>> \notin Screen
      BY <1>1, <2>2, InScreenIs
    <2>. QED
      BY <2>1, <2>3, NothingFollows
  <1>3. CASE ColumnsSeen(r)
    <2>1. 0 <= r[3] /\ r[1] < Width /\ r[1] <= r[3]
      BY <1>1, <1>3 DEF ColumnsSeen
    <2>2. /\ a \in Int /\ b \in Int
          /\ Between(a, r[2], r[4]) /\ Between(b, r[2], r[4])
          /\ Abs((l - r[1]) * (r[4] - r[2]) - (a - r[2]) * (r[3] - r[1])) <= r[3] - r[1]
          /\ Abs((h - r[1]) * (r[4] - r[2]) - (b - r[2]) * (r[3] - r[1])) <= r[3] - r[1]
      BY <1>1, <2>1, CutBoth
    <2>3. l \in 0..Width - 1 /\ h \in 0..Width - 1 /\ l \in Int /\ h \in Int
          /\ (r[1] \in 0..Width - 1 => l = r[1]) /\ (r[3] \in 0..Width - 1 => h = r[3])
      BY <1>1, <2>1 DEF Most, Least
    <2>4. (r[1] \in 0..Width - 1 => a = r[2]) /\ (r[3] \in 0..Width - 1 => b = r[4])
      BY <1>1 DEF CutLow, CutHigh
    <2>5. a \in 0..Height - 1 /\ b \in 0..Height - 1
      BY <1>1, <2>2 DEF Between, Least, Most
    <2>6. c = <<l, a, h, b>>
      BY DEF ColumnCut
    <2>7. ClipColumns(r, dx, dy) = Segment(c[1], c[2], c[3], c[4])
      BY <1>3, ClipColumnsIs
    <2>8. /\ Abs(Cross(r, l, a)) <= r[3] - r[1]
          /\ Abs(Cross(r, h, b)) <= r[3] - r[1]
      BY <2>2 DEF Cross
    <2>. HIDE DEF a, b, c, l, h
    <2>9. c[1] = l /\ c[2] = a /\ c[3] = h /\ c[4] = b
      BY <2>6
    <2>10. InScreen(c)
      BY <2>2, <2>3, <2>5, <2>6, <2>9 DEF InScreen, OnColumns, Segments
    <2>11. CASE n = 1
      <3>1. r[1] \in 0..Width - 1 /\ r[3] \in 0..Width - 1
        BY <2>11
      <3>2. InScreen(r)
        BY <3>1 DEF InScreen, OnColumns
      <3>3. c[1] = r[1] /\ c[2] = r[2] /\ c[3] = r[3] /\ c[4] = r[4]
        BY <2>3, <2>4, <2>9, <3>1
      <3>. QED
        BY <2>7, <2>11, <3>2, <3>3, WholeFollows
    <2>12. CASE n = 3
      <3>1. r[3] - r[1] <= SlantLength(r) /\ SlantLength(r) \in Nat
            /\ Cross(r, l, a) \in Int /\ Cross(r, h, b) \in Int
        <4>1. /\ Abs(r[3] - r[1]) <= SlantLength(r) /\ SlantLength(r) \in Nat
              /\ Cross(r, l, a) \in Int /\ Cross(r, h, b) \in Int
          BY <2>2, <2>3, CrossTurned
        <4>2. Abs(r[3] - r[1]) = r[3] - r[1]
          BY <1>1 DEF Abs
        <4>. QED
          BY <4>1, <4>2
      <3>2. /\ Abs(Cross(r, c[1], c[2])) <= SlantLength(r)
            /\ Abs(Cross(r, c[3], c[4])) <= SlantLength(r)
        <4>1. Abs(Cross(r, l, a)) \in Int /\ Abs(Cross(r, h, b)) \in Int
          BY <3>1, Sign
        <4>. QED
          BY <1>1, <2>8, <2>9, <3>1, <4>1
      <3>3. /\ <<r[1], r[2]>> \in Screen => c[1] = r[1] /\ c[2] = r[2]
            /\ <<r[3], r[4]>> \in Screen => c[3] = r[3] /\ c[4] = r[4]
        BY <1>1, <2>3, <2>4, <2>9, InScreenIs
      <3>. QED
        BY <2>7, <2>10, <2>12, <3>2, <3>3, CutFollows
    <2>. QED
      BY <2>11, <2>12
  <1>. QED
    BY <1>2, <1>3

\* A line that is in the columns of the screen, cut to its rows.
LEMMA RowCutFollows ==
  ASSUME NEW p \in Segments, NEW dx \in Int, NEW dy \in Int, SlopeOf(p, dx, dy), p[2] <= p[4],
         p[1] \in 0..Width - 1, p[3] \in 0..Width - 1
  PROVE  LineFollows(p, ClipRows(p, dx, dy), 3)
  <1>. DEFINE q == RowCut(p, dx, dy)
              r == LeftFirst(q)
              a == CutLow(p[2], p[1], dx, dy)
              b == CutHigh(p[4], p[3], dx, dy, Height)
              l == Most(p[2], 0)
              h == Least(p[4], Height - 1)
              x == p[3] - p[1]
              y == p[4] - p[2]
  <1>1. /\ p[1] \in Int /\ p[2] \in Int /\ p[3] \in Int /\ p[4] \in Int
        /\ Width \in Nat \ {0} /\ Height \in Nat \ {0}
    BY ScreenSize DEF Segments
  <1>2. CASE ~RowsSeen(p)
    <2>1. ClipRows(p, dx, dy) = <<>>
      BY <1>2, ClipRowsIs
    <2>2. p[2] \notin 0..Height - 1 /\ p[4] \notin 0..Height - 1
      BY <1>1, <1>2 DEF RowsSeen
    <2>3. <<p[1], p[2]>> \notin Screen /\ <<p[3], p[4]>> \notin Screen
      BY <1>1, <2>2, InScreenIs
    <2>. QED
      BY <2>1, <2>3, NothingFollows
  <1>3. CASE RowsSeen(p)
    <2>1. 0 <= p[4] /\ p[2] < Height /\ p[2] <= p[4]
      BY <1>1, <1>3 DEF RowsSeen
    <2>2. /\ a \in Int /\ b \in Int
          /\ Between(a, p[1], p[3]) /\ Between(b, p[1], p[3])
          /\ Abs((l - p[2]) * x - (a - p[1]) * y) <= y
          /\ Abs((h - p[2]) * x - (b - p[1]) * y) <= y
      BY <1>1, <2>1, CutBoth DEF SlopeOf
    <2>3. l \in 0..Height - 1 /\ h \in 0..Height - 1 /\ l \in Int /\ h \in Int
          /\ (p[2] \in 0..Height - 1 => l = p[2]) /\ (p[4] \in 0..Height - 1 => h = p[4])
      BY <1>1, <2>1 DEF Most, Least
    <2>4. (p[2] \in 0..Height - 1 => a = p[1]) /\ (p[4] \in 0..Height - 1 => b = p[3])
      BY <1>1 DEF CutLow, CutHigh
    <2>5. a \in 0..Width - 1 /\ b \in 0..Width - 1
      BY <1>1, <2>2 DEF Between, Least, Most
    <2>6. q = <<a, l, b, h>>
      BY DEF RowCut
    <2>7. /\ Abs(Cross(p, a, l)) <= y /\ Abs(Cross(p, b, h)) <= y
          /\ y <= SlantLength(p) /\ SlantLength(p) \in Nat
      <3>1. /\ Cross(p, a, l) = (a - p[1]) * y - (l - p[2]) * x
            /\ Cross(p, b, h) = (b - p[1]) * y - (h - p[2]) * x
        BY DEF Cross
      <3>2. x \in Int /\ y \in Int
        BY <1>1
      <3>. HIDE DEF a, b, l, h, x, y
      <3>3. /\ (l - p[2]) * x - (a - p[1]) * y = -Cross(p, a, l)
            /\ (h - p[2]) * x - (b - p[1]) * y = -Cross(p, b, h)
        BY <1>1, <2>2, <2>3, <3>1, <3>2
      <3>4. /\ Cross(p, a, l) \in Int /\ Cross(p, b, h) \in Int
            /\ SlantLength(p) \in Nat /\ Abs(p[4] - p[2]) <= SlantLength(p)
        BY <2>2, <2>3, CrossTurned
      <3>5. /\ Abs(-Cross(p, a, l)) = Abs(Cross(p, a, l))
            /\ Abs(-Cross(p, b, h)) = Abs(Cross(p, b, h))
        BY <3>4, Sign
      <3>6. Abs(p[4] - p[2]) = y
        BY <1>1, <2>1 DEF Abs, y
      <3>. QED
        BY <2>2, <3>3, <3>4, <3>5, <3>6
    <2>. HIDE DEF a, b, l, h, q
    <2>8. q[1] = a /\ q[2] = l /\ q[3] = b /\ q[4] = h
      BY <2>6
    <2>9. InScreen(q) /\ q \in Segments
      BY <2>2, <2>3, <2>5, <2>6, <2>8 DEF InScreen, OnColumns, Segments
    <2>10. /\ Abs(Cross(p, q[1], q[2])) <= SlantLength(p)
           /\ Abs(Cross(p, q[3], q[4])) <= SlantLength(p)
      <3>1. /\ Cross(p, a, l) \in Int /\ Cross(p, b, h) \in Int
        BY <2>2, <2>3, CrossTurned
      <3>2. /\ Abs(Cross(p, a, l)) \in Int /\ Abs(Cross(p, b, h)) \in Int /\ y \in Int
        BY <1>1, <3>1, Sign
      <3>. QED
        BY <2>7, <2>8, <3>2
    <2>11. /\ <<p[1], p[2]>> \in Screen => q[1] = p[1] /\ q[2] = p[2]
           /\ <<p[3], p[4]>> \in Screen => q[3] = p[3] /\ q[4] = p[4]
      BY <1>1, <2>3, <2>4, <2>8, InScreenIs
    <2>12. ClipRows(p, dx, dy) = ClipColumns(r, dx, dy)
      BY <1>3, ClipRowsIs DEF q
    <2>13. r \in {q, Turned(q)} /\ r \in Segments
      BY <2>9, Turn
    <2>. HIDE DEF r
    <2>14. InScreen(r)
      BY <2>9, <2>13, Turn DEF InScreen, OnColumns
    <2>15. ClipColumns(r, dx, dy) = Segment(r[1], r[2], r[3], r[4])
      <3>1. r[1] \in Int /\ r[2] \in Int /\ r[3] \in Int /\ r[4] \in Int
            /\ r[1] \in 0..Width - 1 /\ r[3] \in 0..Width - 1
        BY <2>14 DEF InScreen, OnColumns, Segments
      <3>2. ColumnsSeen(r)
        BY <1>1, <3>1 DEF ColumnsSeen
      <3>3. ColumnCut(r, dx, dy) = <<r[1], r[2], r[3], r[4]>>
        BY <1>1, <3>1 DEF ColumnCut, CutLow, CutHigh, Most, Least
      <3>. QED
        BY <2>13, <3>2, <3>3, ClipColumnsIs
    <2>16. CASE r = q
      BY <2>10, <2>11, <2>12, <2>14, <2>15, <2>16, CutFollows
    <2>17. CASE r = Turned(q)
      <3>. DEFINE o == Turned(p)
      <3>1. /\ o \in Segments /\ o[1] = p[3] /\ o[2] = p[4] /\ o[3] = p[1] /\ o[4] = p[2]
            /\ r[1] = q[3] /\ r[2] = q[4] /\ r[3] = q[1] /\ r[4] = q[2]
        BY <2>9, <2>17, Turn
      <3>2. /\ q[1] \in Int /\ q[2] \in Int /\ q[3] \in Int /\ q[4] \in Int
        BY <2>9 DEF Segments
      <3>3. /\ Abs(Cross(o, r[1], r[2])) <= SlantLength(o)
            /\ Abs(Cross(o, r[3], r[4])) <= SlantLength(o)
        <4>1. /\ Abs(Cross(o, q[3], q[4])) = Abs(Cross(p, q[3], q[4]))
              /\ Abs(Cross(o, q[1], q[2])) = Abs(Cross(p, q[1], q[2]))
              /\ SlantLength(o) = SlantLength(p)
          BY <3>2, CrossTurned
        <4>. QED
          BY <2>10, <3>1, <4>1
      <3>4. /\ <<o[1], o[2]>> \in Screen => r[1] = o[1] /\ r[2] = o[2]
            /\ <<o[3], o[4]>> \in Screen => r[3] = o[3] /\ r[4] = o[4]
        BY <2>11, <3>1
      <3>. HIDE DEF o
      <3>5. LineFollows(o, Segment(r[1], r[2], r[3], r[4]), 3)
        BY <2>14, <3>1, <3>3, <3>4, CutFollows
      <3>. QED
        BY <2>12, <2>15, <3>5, FollowsTurned DEF o
    <2>. QED
      BY <2>13, <2>16, <2>17
  <1>. QED
    BY <1>2, <1>3

LEMMA DrawLineFollows ==
  ASSUME NEW g \in Segments, g[1] # g[3], g[2] # g[4], NEW inX, NEW inY,
         inX <=> (g[1] \in 0..Width - 1 /\ g[3] \in 0..Width - 1),
         inY <=> (g[2] \in 0..Height - 1 /\ g[4] \in 0..Height - 1),
         inX \/ inY
  PROVE  LineFollows(g, CmdDrawLine(g[1], g[2], g[3], g[4]), IF inX /\ inY THEN 1 ELSE 3)
  <1>. DEFINE dx == g[3] - g[1]
              dy == g[4] - g[2]
              p == LowerFirst(g)
              line == CmdDrawLine(g[1], g[2], g[3], g[4])
  <1>1. /\ g = <<g[1], g[2], g[3], g[4]>>
        /\ g[1] \in Int /\ g[2] \in Int /\ g[3] \in Int /\ g[4] \in Int
    BY DEF Segments
  <1>2. dx \in Int /\ dy \in Int
    BY <1>1
  <1>3. /\ p \in Segments /\ p \in {g, Turned(g)} /\ p[2] <= p[4] /\ SlopeOf(p, dx, dy)
        /\ p[1] \in Int /\ p[2] \in Int /\ p[3] \in Int /\ p[4] \in Int
    <2>1. p \in Segments /\ p \in {g, Turned(g)} /\ p[2] <= p[4]
      BY Turn
    <2>. QED
      BY <2>1, LineSlope DEF Segments
  <1>4. line = ClipRows(p, dx, dy)
    BY <1>1 DEF CmdDrawLine
  <1>. HIDE DEF dx, dy, p, line
  <1>5. CASE inY
    <2>. DEFINE r == LeftFirst(p)
    <2>1. p[2] \in 0..Height - 1 /\ p[4] \in 0..Height - 1
      BY <1>3, <1>5, Turn
    <2>2. RowCut(p, dx, dy) = p
      <3>1. RowCut(p, dx, dy) = <<p[1], p[2], p[3], p[4]>>
        BY <1>3, <2>1, ScreenSize DEF RowCut, CutLow, CutHigh, Most, Least
      <3>. QED
        BY <1>3, <3>1 DEF Segments
    <2>3. RowsSeen(p)
      BY <1>3, <2>1, ScreenSize DEF RowsSeen
    <2>4. line = ClipColumns(r, dx, dy)
      BY <1>3, <1>4, <2>2, <2>3, ClipRowsIs
    <2>5. r \in {p, Turned(p)} /\ r[1] <= r[3] /\ r \in Segments
      BY <1>3, Turn
    <2>6. r \in {g, Turned(g)}
      <3>1. CASE p = g
        BY <2>5, <3>1
      <3>2. CASE p = Turned(g)
        <4>1. Turned(p) = g
          BY <1>1, <3>2 DEF Turned
        <4>. QED
          BY <2>5, <3>2, <4>1
      <3>. QED
        BY <1>3, <3>1, <3>2
    <2>. HIDE DEF r
    <2>7. /\ r[1] < r[3] /\ r[2] \in 0..Height - 1 /\ r[4] \in 0..Height - 1
          /\ Slope(r[1], r[2], r[3], r[4], dy, dx)
          /\ (r[1] \in 0..Width - 1 /\ r[3] \in 0..Width - 1) <=> inX
      <3>1. CASE r = g
        BY <1>1, <1>5, <2>5, <3>1 DEF Slope, dx, dy
      <3>2. CASE r = Turned(g)
        <4>1. r[1] = g[3] /\ r[2] = g[4] /\ r[3] = g[1] /\ r[4] = g[2]
          BY <3>2, Turn
        <4>2. dx = -(r[3] - r[1]) /\ dy = -(r[4] - r[2])
          BY <1>1, <4>1 DEF dx, dy
        <4>. QED
          BY <1>1, <1>5, <2>5, <4>1, <4>2 DEF Slope
      <3>. QED
        BY <2>6, <3>1, <3>2
    <2>8. LineFollows(r, line, IF inX /\ inY THEN 1 ELSE 3)
      BY <1>2, <1>5, <2>4, <2>5, <2>7, ColumnCutFollows
    <2>. QED
      BY <2>6, <2>8, FollowsTurned DEF line
  <1>6. CASE ~inY
    <2>1. p[1] \in 0..Width - 1 /\ p[3] \in 0..Width - 1
      BY <1>3, <1>6, Turn
    <2>2. LineFollows(p, line, 3)
      BY <1>2, <1>3, <1>4, <2>1, RowCutFollows
    <2>3. LineFollows(g, line, 3)
      BY <1>3, <2>2, FollowsTurned
    <2>. QED
      BY <1>6, <2>3 DEF line
  <1>. QED
    BY <1>5, <1>6

\* Two pixels are not the same bit.
LEMMA PixelsDiffer ==
  ASSUME NEW p \in Screen, NEW q \in Screen, Bit(p[1], Translate(p[2])) = Bit(q[1], Translate(q[2]))
  PROVE  p = q
  <1>1. /\ p[1] \in 0..Width - 1 /\ q[1] \in 0..Width - 1 /\ p[2] \in Int /\ q[2] \in Int
        /\ p = <<p[1], p[2]>> /\ q = <<q[1], q[2]>>
    BY ScreenSize DEF Screen
  <1>2. /\ Translate(p[2]) \in Int /\ Translate(q[2]) \in Int
        /\ Translate(Translate(p[2])) = p[2] /\ Translate(Translate(q[2])) = q[2]
    BY <1>1, TranslateIn
  <1>. DEFINE c == q[1] \div 8
              b == q[1] % 8
  <1>3. c \in Nat /\ b \in 0..7 /\ q[1] = 8 * c + b
    BY <1>1, Eights, ScreenSize
  <1>4. Bit(p[1], Translate(p[2])) = <<c + ByteWidth * Translate(q[2]), b>>
    BY DEF Bit
  <1>. HIDE DEF c, b
  <1>5. c \in 0..ByteWidth - 1
    BY <1>1, <1>3, ScreenSize
  <1>6. p[1] = 8 * c + b /\ Translate(p[2]) = Translate(q[2])
    BY <1>1, <1>2, <1>3, <1>4, <1>5, BitsDiffer
  <1>. QED
    BY <1>1, <1>2, <1>3, <1>6

\* What the last call has drawn, if it was a line.
LineDrawn ==
  req.shape = "line" =>
    /\ req.args \in Segments
    /\ strokes = CmdDrawLine(req.args[1], req.args[2], req.args[3], req.args[4])

LEMMA LineDrawnClose == LineDrawn => LinesClose
  <1>. DEFINE g == req.args
              cutX == \E p \in Ends(g) : p[1] \notin 0..Width - 1
              cutY == \E p \in Ends(g) : p[2] \notin 0..Height - 1
              n == IF cutX \/ cutY THEN 3 ELSE 1
              line == CmdDrawLine(g[1], g[2], g[3], g[4])
  <1>1. SUFFICES ASSUME LineDrawn, req.shape = "line", ~AxisParallel(g), ~(cutX /\ cutY)
                 PROVE  /\ \A p \in Drawn : Within(g, p, n)
                        /\ Ends(g) \cap Screen \subseteq Drawn
    BY DEF LinesClose
  <1>2. g \in Segments /\ g[1] # g[3] /\ g[2] # g[4]
    BY <1>1 DEF LineDrawn, AxisParallel
  <1>3. /\ ~cutX <=> (g[1] \in 0..Width - 1 /\ g[3] \in 0..Width - 1)
        /\ ~cutY <=> (g[2] \in 0..Height - 1 /\ g[4] \in 0..Height - 1)
    BY DEF Ends
  <1>4. LineFollows(g, line, n)
    <2>. HIDE DEF g, cutX, cutY
    <2>1. LineFollows(g, line, IF ~cutX /\ ~cutY THEN 1 ELSE 3)
      BY <1>1, <1>2, <1>3, DrawLineFollows
    <2>2. (IF ~cutX /\ ~cutY THEN 1 ELSE 3) = n
      OBVIOUS
    <2>. QED
      BY <2>1, <2>2
  <1>5. PICK P \in SUBSET Screen : /\ Ink(line) = Cells(P)
                                   /\ \A p \in P : Within(g, p, n)
                                   /\ Ends(g) \cap Screen \subseteq P
    BY <1>4 DEF LineFollows
  <1>6. Touched = Cells(P)
    BY <1>1, <1>5 DEF LineDrawn, Touched, Ink
  <1>7. ASSUME NEW p \in Drawn PROVE p \in P
    <2>1. p \in Screen /\ Bit(p[1], Translate(p[2])) \in Cells(P)
      BY <1>6 DEF Drawn
    <2>2. PICK q \in P : Bit(p[1], Translate(p[2])) = Bit(q[1], Translate(q[2]))
      BY <2>1 DEF Cells
    <2>. QED
      BY <2>1, <2>2, PixelsDiffer
  <1>8. ASSUME NEW p \in P PROVE p \in Drawn
    BY <1>6 DEF Drawn, Cells
  <1>. QED
    BY <1>5, <1>7, <1>8

LEMMA LineDrawnNext == LineDrawn /\ [DrawingNext]_canvas => LineDrawn'
  <1>1. SUFFICES ASSUME LineDrawn, [DrawingNext]_canvas
                 PROVE  LineDrawn'
    OBVIOUS
  <1>2. ASSUME NEW g \in Lines, LineOutEx(g, "INVERT") PROVE LineDrawn'
    <2>1. g \in Segments
      BY DrawingAssumption DEF Segments
    <2>2. req' = Request("line", g, "INVERT", FALSE) /\ strokes' = CmdDrawLine(g[1], g[2], g[3], g[4])
      BY <1>2 DEF LineOutEx, Draw, PixelModes
    <2>3. req'.args = g
      BY <2>2 DEF Request
    <2>. QED
      BY <2>1, <2>2, <2>3 DEF LineDrawn
  <1>3. ASSUME NEW shape, NEW args, NEW mode, NEW fill, req' = Request(shape, args, mode, fill),
               shape # "line"
        PROVE  LineDrawn'
    BY <1>3 DEF LineDrawn, Request
  <1>4. ASSUME NEW g, NEW mode, NEW fill, RectOutEx(g, mode, fill) PROVE LineDrawn'
    BY <1>3, <1>4 DEF RectOutEx, Draw
  <1>5. ASSUME NEW g, NEW mode, NEW fill, EllipseOutEx(g, mode, fill) PROVE LineDrawn'
    BY <1>3, <1>5 DEF EllipseOutEx, Draw
  <1>6. ASSUME NEW g, NEW mode, NEW fill, CircleOutEx(g, mode, fill) PROVE LineDrawn'
    BY <1>3, <1>6 DEF CircleOutEx, Draw
  <1>7. ASSUME NEW g, NEW mode, PointOutEx(g, mode) PROVE LineDrawn'
    BY <1>3, <1>7 DEF PointOutEx, Draw
  <1>8. ASSUME NEW g, LcdPicture(g) PROVE LineDrawn'
    BY <1>3, <1>8 DEF LcdPicture, Draw
  <1>9. CASE DisplayErase
    BY <1>3, <1>9 DEF DisplayErase, NoRequest
  <1>10. ASSUME NEW char \in Chars, LcdPrintf(char) PROVE LineDrawn'
    <2>1. char # "line"
      BY DEF Chars
    <2>. QED
      BY <1>3, <1>10, <2>1 DEF LcdPrintf
  <1>11. CASE UNCHANGED canvas
    BY <1>1, <1>11 DEF canvas, LineDrawn
  <1>12. ASSUME NEW g, RectOut(g) PROVE LineDrawn'
    BY <1>3, <1>12 DEF RectOut, Draw
  <1>13. ASSUME NEW g, LcdText(g) PROVE LineDrawn'
    BY <1>3, <1>13 DEF LcdText, Draw
  <1>. QED
    BY <1>1, <1>2, <1>4, <1>5, <1>6, <1>7, <1>8, <1>9, <1>10, <1>11, <1>12, <1>13
    DEF DrawingNext

\* A slanted line with both ends on the screen is drawn within half a pixel of the segment
\* between them, one that is clipped on one axis within one and a half, for every pair of
\* ends: the error of the loop and the error of the moved ends do not add up to more.  The
\* ends that are on the screen are drawn.
THEOREM LinesFollowSegment == DrawingSpec => []LinesClose
  <1>1. DrawingInit => LineDrawn
    BY DEF DrawingInit, LineDrawn, NoRequest, Request
  <1>. QED
    BY <1>1, LineDrawnNext, LineDrawnClose, PTL DEF DrawingSpec
=============================================================================
