--------------------------------- MODULE Lcd ---------------------------------
(***************************************************************************)
(* The display library of util/cat (ev3_lcd.c) and the callback timer it   *)
(* relies on (ev3_timer.c).  The program draws into displayBuf, marks it   *)
(* dirty and goes on; every 10 ms SIGALRM interrupts it, wherever it is,   *)
(* and the handler calls what is registered: every 250 ms the function     *)
(* that converts a dirty displayBuf and copies it to the frame buffer.     *)
(*                                                                         *)
(* A call of the program is a sequence of steps the signal may come        *)
(* between; the handler itself is not interrupted.  The screen is two      *)
(* cells of three pixels each, so that a copy takes two steps.             *)
(***************************************************************************)
EXTENDS Integers, Sequences, FiniteSets

CONSTANTS Pictures,      \* what a cell may show: three pixels as 0..7
          Interval,      \* the callback intervals that are used
          Ticks,         \* Ticks[i]: interval i in timer ticks
          LcdInterval,   \* ti250ms
          MaxCallbacks,  \* MAX_CALLBACKS
          Wrap,          \* the tick counter's range, 2^32 in the build
          MaxLeaks       \* bound: failing mmaps

ASSUME LcdAssumption ==
    /\ Pictures \subseteq 0..7 /\ 0 \in Pictures
    /\ Ticks \in [Interval -> Nat \ {0}] /\ LcdInterval \in Interval
    /\ MaxCallbacks \in Nat \ {0} /\ MaxLeaks \in Nat /\ Wrap \in Nat \ {0}

VARIABLES
    lcd,     \* LCDInstance and hwBuffer
    dev,     \* the frame buffer, descriptors open on it, is it mapped?
    timer,   \* the callback tables, their counts, the tick counter, does it tick?
    script,  \* the steps of the call in progress
    hist,    \* unmarked: displayBuf was scrolled or reopened and not marked since;
             \* reset: the program called TimerInit; leaks: mmaps that failed
    crash    \* where the program crashed, if it did

vars == <<lcd, dev, timer, script, hist, crash>>

Cell == {1, 2}
NULL == "NULL"
Handler == "LcdUpdateHandler"
Other == "callback of the program"

\* PixelTab: three pixels of displayBuf to a byte of the frame buffer.
PixelTab == <<0, 224, 28, 252, 3, 227, 31, 255>>
Lit(v) == PixelTab[v + 1]

\* UnPixelTab: zero for every byte PixelTab does not hold.
UnPixelTab(b) ==
    IF \E v \in 0..7 : Lit(v) = b THEN CHOOSE v \in 0..7 : Lit(v) = b ELSE 0

Idle == script = <<>>
Alive == crash = "no"

LcdInitialized == lcd.DispFile # "none" /\ lcd.pFB0 # NULL

------------------------------------------------------------------------------
(* The signal. *)

\* Mutant: the loop over the callbacks ends one too early.
CalledButLast == UNION {{timer.callBack[i][k] : k \in 1..(timer.count[i] - 1)} :
                           i \in {j \in Interval : timer.counter % Ticks[j] = 0}}

\* The callbacks a tick calls: those of the intervals that divide the counter.
Called == UNION {{timer.callBack[i][k] : k \in 1..timer.count[i]} :
                    i \in {j \in Interval : timer.counter % Ticks[j] = 0}}

\* Does LcdUpdateHandler, if called, pass the tests up to doUpdateScreen's body?
Refreshes == /\ Handler \in Called /\ lcd.autoRefresh
             /\ lcd.Dirty /\ lcd.pFB0 # NULL /\ lcd.pLcd # NULL

TimerSigHandler ==
    /\ Alive /\ timer.ticking
    /\ timer' = [timer EXCEPT !.counter = (@ + 1) % Wrap]
    /\ LET shown == [c \in Cell |-> Lit(lcd.displayBuf[c])] IN
       CASE NULL \in Called -> crash' = "callback" /\ UNCHANGED <<lcd, dev>>
         [] NULL \notin Called /\ Refreshes /\ ~dev.mapped ->
               crash' = "frame buffer" /\ UNCHANGED <<lcd, dev>>
         [] NULL \notin Called /\ Refreshes /\ dev.mapped ->
               /\ lcd' = [lcd EXCEPT !.hwBuffer = shown, !.Dirty = FALSE]
               /\ dev' = [dev EXCEPT !.fb = shown]
               /\ UNCHANGED crash
         [] OTHER -> UNCHANGED <<lcd, dev, crash>>
    /\ UNCHANGED <<script, hist>>

------------------------------------------------------------------------------
(* The steps the calls are made of. *)

Step(op, cell, pic, slot) == [op |-> op, cell |-> cell, pic |-> pic, slot |-> slot]
Slot(i, k, callback) == [interval |-> i, index |-> k, callback |-> callback]
NoSlot == Slot(LcdInterval, 0, NULL)
Do(op) == <<Step(op, 1, 0, NoSlot)>>
Each(op) == <<Step(op, 1, 0, NoSlot), Step(op, 2, 0, NoSlot)>>
Paint(cells, v) == [k \in 1..Len(cells) |-> Step("Paint", cells[k], v, NoSlot)]

\* What a step changes in LCDInstance and hwBuffer ...
OnLcd(s) ==
    CASE s.op = "Paint"     -> [lcd EXCEPT !.displayBuf[s.cell] = s.pic]
      [] s.op = "Shift"     -> [lcd EXCEPT !.displayBuf[s.cell] = lcd.displayBuf[3 - s.cell]]
      [] s.op = "Unconvert" -> [lcd EXCEPT !.displayBuf[s.cell] = UnPixelTab(lcd.hwBuffer[s.cell])]
      [] s.op = "Convert"   -> [lcd EXCEPT !.hwBuffer[s.cell] = Lit(lcd.displayBuf[s.cell])]
      [] s.op = "Fetch"     -> [lcd EXCEPT !.hwBuffer[s.cell] = dev.fb[s.cell]]
      [] s.op = "Mark"      -> [lcd EXCEPT !.Dirty = TRUE]
      [] s.op = "Clear"     -> [lcd EXCEPT !.Dirty = FALSE]
      [] s.op = "Fields"    -> [lcd EXCEPT !.Dirty = FALSE, !.autoRefresh = TRUE, !.pFB0 = NULL,
                                           !.DispFile = "none", !.pLcd = NULL]
      [] s.op = "Mapped"    -> [lcd EXCEPT !.pFB0 = "fb", !.pLcd = "displayBuf"]
      [] s.op = "Forget"    -> [lcd EXCEPT !.pFB0 = NULL, !.DispFile = "none"]
      [] s.op = "NoDisplay" -> [lcd EXCEPT !.pLcd = NULL]
      [] OTHER -> lcd

\* ... in the device ...
OnDev(s) ==
    CASE s.op = "Copy"  -> [dev EXCEPT !.fb[s.cell] = lcd.hwBuffer[s.cell]]
      [] s.op = "Close" -> [dev EXCEPT !.open = @ - 1]
      [] s.op = "Unmap" -> [dev EXCEPT !.mapped = FALSE]
      [] OTHER -> dev

\* ... and in the timer's tables.
OnTimer(s) ==
    CASE s.op = "Start" -> [timer EXCEPT !.ticking = TRUE]
      [] s.op = "Zero"  -> [timer EXCEPT !.count = [i \in Interval |-> 0]]
      [] s.op = "Wipe"  -> [timer EXCEPT !.callBack =
                               [i \in Interval |-> [k \in 1..MaxCallbacks |-> NULL]]]
      [] s.op = "Store" -> [timer EXCEPT !.callBack[s.slot.interval][s.slot.index] = s.slot.callback]
      [] s.op = "Count" -> [timer EXCEPT !.count[s.slot.interval] = @ + 1]
      [] OTHER -> timer

OnHist(s) ==
    CASE s.op \in {"Shift", "Fields"} -> [hist EXCEPT !.unmarked = TRUE]
      [] s.op = "Mark" -> [hist EXCEPT !.unmarked = FALSE]
      [] OTHER -> hist

\* Steps that choose how the call goes on.
Deciding == {"Update", "Open", "Register"}

Proceed ==
    /\ Alive /\ ~Idle /\ Head(script).op \notin Deciding
    /\ lcd' = OnLcd(Head(script)) /\ dev' = OnDev(Head(script))
    /\ timer' = OnTimer(Head(script)) /\ hist' = OnHist(Head(script))
    /\ script' = Tail(script)
    /\ UNCHANGED crash

\* doUpdateScreen as the program runs it.
DoUpdateScreen ==
    /\ Alive /\ ~Idle /\ Head(script).op = "Update"
    /\ script' = (IF lcd.Dirty THEN Each("Convert") \o Each("Copy") \o Do("Clear") ELSE <<>>)
                   \o Tail(script)
    /\ UNCHANGED <<lcd, dev, timer, hist, crash>>

\* open and mmap of LcdInit.  Where mmap fails, LcdCloseDevices takes the
\* library for not initialised and returns at once: the descriptor stays open.
OpenDevice ==
    /\ Alive /\ ~Idle /\ Head(script).op = "Open"
    /\ \/ script' = <<>> /\ UNCHANGED <<lcd, dev, hist>>
       \/ /\ dev' = [dev EXCEPT !.open = @ + 1]
          /\ lcd' = [lcd EXCEPT !.DispFile = "open"]
          /\ hist.leaks < MaxLeaks /\ hist' = [hist EXCEPT !.leaks = @ + 1]
          /\ script' = <<>>
       \/ /\ dev' = [dev EXCEPT !.open = @ + 1, !.mapped = TRUE]
          /\ lcd' = [lcd EXCEPT !.DispFile = "open"]
          /\ script' = Tail(script)
          /\ UNCHANGED hist
    /\ UNCHANGED <<timer, crash>>

\* callBack[count++] = callback: two stores, in an order C leaves open, and no
\* test of the table's size.
Register ==
    /\ Alive /\ ~Idle /\ Head(script).op = "Register"
    /\ LET s == Head(script)
           n == timer.count[s.slot.interval]
           store == <<Step("Store", 1, 0, [s.slot EXCEPT !.index = n + 1])>>
           inc == <<Step("Count", 1, 0, s.slot)>> IN
       IF n >= MaxCallbacks THEN crash' = "table" /\ UNCHANGED script
       ELSE /\ script' \in {store \o inc \o Tail(script), inc \o store \o Tail(script)}
            /\ UNCHANGED crash
    /\ UNCHANGED <<lcd, dev, timer, hist>>

------------------------------------------------------------------------------
(* The calls of the program. *)

Call(steps) ==
    /\ Alive /\ Idle
    /\ script' = steps
    /\ UNCHANGED <<lcd, dev, timer, hist, crash>>

SetTimerCallback(i, callback) == <<Step("Register", 1, 0, Slot(i, 0, callback))>>

\* Mutant: the tables are cleared before the counts.
TimerInitWipesFirst == Do("Start") \o Do("Wipe") \o Do("Zero")

\* _timerCallbackInit; the user's timers it also resets are left out.
TimerInit == Do("Start") \o Do("Zero") \o Do("Wipe")

\* Mutant: an initialised library is initialised again.
LcdInitAgain ==
    /\ Alive /\ Idle /\ dev.open < 3
    /\ script' = Do("Fields") \o Do("Open") \o Do("Mapped")
                   \o TimerInit \o SetTimerCallback(LcdInterval, Handler)
    /\ hist' = [hist EXCEPT !.reset = FALSE]
    /\ UNCHANGED <<lcd, dev, timer, crash>>

LcdInit ==
    /\ Alive /\ Idle /\ ~LcdInitialized
    /\ script' = Do("Fields") \o Do("Open") \o Do("Mapped")
                   \o TimerInit \o SetTimerCallback(LcdInterval, Handler)
    /\ hist' = [hist EXCEPT !.reset = FALSE]
    /\ UNCHANGED <<lcd, dev, timer, crash>>

LcdCloseDevices == Do("Close") \o Do("Unmap") \o Do("Forget")

LcdExit == LcdInitialized /\ Call(LcdCloseDevices \o Do("NoDisplay"))

\* Mutant: the mark comes first.
LcdMarkThenDraw(cells, v) == LcdInitialized /\ Call(Do("Mark") \o Paint(cells, v))

\* LcdText, LcdIcon, LcdPicture and the like: pixels, then the mark.
LcdDraw(cells, v) == LcdInitialized /\ Call(Paint(cells, v) \o Do("Mark"))

LcdClean == LcdDraw(<<1, 2>>, 0)

\* Up or down by one cell; nothing is marked.
LcdScroll(c) == LcdInitialized /\ Call(<<Step("Shift", c, 0, NoSlot)>> \o Paint(<<3 - c>>, 0))

LcdRefresh == LcdInitialized /\ Call(Do("Update"))
LcdUpdate  == LcdInitialized /\ Call(Do("Update") \o Do("Clear"))

LcdGetFrameBuffer == LcdInitialized /\ Call(Each("Fetch") \o Each("Unconvert"))

LcdSetAutoRefresh(on) ==
    /\ Alive /\ Idle
    /\ lcd' = [lcd EXCEPT !.autoRefresh = on]
    /\ UNCHANGED <<dev, timer, script, hist, crash>>

ProgramTimerInit ==
    /\ Alive /\ Idle
    /\ script' = TimerInit
    /\ hist' = [hist EXCEPT !.reset = TRUE]
    /\ UNCHANGED <<lcd, dev, timer, crash>>

ProgramCallback(i) == Call(SetTimerCallback(i, Other))

Init ==
    /\ lcd = [Dirty |-> FALSE, DispFile |-> "static", pFB0 |-> NULL, pLcd |-> NULL,
              autoRefresh |-> FALSE, displayBuf |-> [c \in Cell |-> 0],
              hwBuffer |-> [c \in Cell |-> 0]]
    /\ \E v \in Pictures : dev = [fb |-> [c \in Cell |-> Lit(v)], open |-> 0, mapped |-> FALSE]
    /\ timer = [callBack |-> [i \in Interval |-> [k \in 1..MaxCallbacks |-> NULL]],
                count |-> [i \in Interval |-> 0], counter |-> 0, ticking |-> FALSE]
    /\ script = <<>> /\ crash = "no"
    /\ hist = [unmarked |-> TRUE, reset |-> FALSE, leaks |-> 0]

Program ==
    \/ LcdInit \/ LcdExit \/ LcdClean \/ LcdRefresh \/ LcdUpdate \/ LcdGetFrameBuffer
    \/ \E v \in Pictures, cells \in {<<1>>, <<2>>, <<1, 2>>} : LcdDraw(cells, v)
    \/ \E c \in Cell : LcdScroll(c)
    \/ \E on \in BOOLEAN : LcdSetAutoRefresh(on)
    \/ ProgramTimerInit
    \/ \E i \in Interval : ProgramCallback(i)

Next == TimerSigHandler \/ Proceed \/ DoUpdateScreen \/ OpenDevice \/ Register \/ Program

Spec == /\ Init /\ [][Next]_vars
        /\ WF_vars(TimerSigHandler)
        /\ WF_vars(Proceed \/ DoUpdateScreen \/ OpenDevice \/ Register)

------------------------------------------------------------------------------
(* Properties *)

\* The signal crashes the program at two places only: between the two stores
\* that register a callback, when the count comes first, and in LcdExit between
\* the munmap and pFB0 = NULL.  In particular neither TimerInit's clearing of
\* tables that are in use, nor a failing LcdInit, nor one that follows LcdExit,
\* lets the handler call or write through a stale pointer.  The third crash is
\* a program's own: one callback more than the table holds.
CrashesOnlyThere ==
    /\ crash = "callback" => Head(script).op = "Store"
    /\ crash = "frame buffer" => Head(script).op = "Forget" /\ lcd.Dirty
    /\ crash = "table" => Head(script).op = "Register" /\ Head(script).slot.callback = Other

\* Descriptors are accounted for: one while the library is initialised, and
\* one lost for ever with every mmap that failed.
DescriptorsCounted ==
    Idle => /\ dev.open = hist.leaks + (IF LcdInitialized THEN 1 ELSE 0)
            /\ dev.mapped = LcdInitialized

\* The handler is in the tables exactly once while the display is in use,
\* unless the program called TimerInit, which drops it.
RegisteredOnce ==
    Idle /\ LcdInitialized /\ ~hist.reset =>
        Cardinality({s \in Interval \X (1..MaxCallbacks) :
                        /\ s[2] <= timer.count[s[1]]
                        /\ timer.callBack[s[1]][s[2]] = Handler}) = 1

\* The resources of the display are what the library believes them to be, when
\* no call is in progress.
ResourcesKept == DescriptorsCounted /\ RegisteredOnce

\* Between calls, a display that is not marked as dirty is seen as it was
\* drawn: whatever the handler copied half way through a drawing, and however
\* the program's own refreshes, or reading the frame buffer back into
\* displayBuf through the shared hwBuffer, were interrupted.
ShownUnlessDirty ==
    Idle /\ Alive /\ LcdInitialized /\ ~lcd.Dirty /\ ~hist.unmarked =>
        \A c \in Cell : dev.fb[c] = Lit(lcd.displayBuf[c])

\* What has been drawn and marked is seen in the end, or drawn over, as long as
\* the display stays open with automatic refresh and the timer is left alone.
DrawnIsShown ==
    \A c \in Cell, v \in Pictures :
        (lcd.displayBuf[c] = v /\ lcd.Dirty)
            ~> (\/ dev.fb[c] = Lit(v) \/ lcd.displayBuf[c] # v
                \/ ~lcd.autoRefresh \/ ~LcdInitialized \/ hist.reset \/ ~Alive)
==============================================================================
