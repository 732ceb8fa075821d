------------------------------- MODULE Drawing -------------------------------
(***************************************************************************)
(* What the drawing functions of util/cat (ev3_lcd.c) paint: lines, clipped *)
(* to the screen, rectangles, ellipses, bitmaps, lines of text, and         *)
(* LcdPrintf with its cursor.  displayBuf is an array of bytes, rows of ByteWidth of them; a  *)
(* bit is named by <<byte index, bit>>, and what a function touches is a   *)
(* sequence of sets of bits, one set for each call of DisplayDraw.         *)
(*                                                                         *)
(* A program is one that draws shapes or one that prints text; the two do  *)
(* not share any state but displayBuf.  No name here is one of Lcd's, the  *)
(* other half of ev3_lcd.c, so that one module can extend both.            *)
(***************************************************************************)
EXTENDS Integers, Sequences, FiniteSets

CONSTANTS Width, Height,       \* LCD_WIDTH, LCD_HEIGHT
          ShortMax,            \* the largest short: 2^15 - 1 in the build
          FontWidth, FontHeight,
          Lines, Rects, Ellipses, Bitmaps, Texts,   \* arguments the program passes
          Backgrounds,         \* what is on the screen before
          MaxIndent            \* bound: LcdPrintf's indent

ByteWidth == (Width + 7) \div 8
BufferSize == ByteWidth * Height

ASSUME DrawingAssumption ==
    /\ Width \in 1..250 /\ Height \in 1..250 /\ ShortMax \in Nat
    /\ BufferSize <= ShortMax
    /\ FontWidth \in 1..Width /\ FontHeight \in 1..Height
    /\ \A s \in Lines \cup Rects : s \in Int \X Int \X Int \X Int
    /\ Ellipses \subseteq Int \X Int \X Nat \X Nat
    /\ Bitmaps \subseteq (-(ShortMax + 1)..ShortMax) \X Int \X Nat \X Nat
    /\ Texts \subseteq (-(ShortMax + 1)..ShortMax) \X Int \X Nat

VARIABLES program,  \* "shapes" or "text"
          req,      \* the last call: shape, arguments, pixel and fill mode
          strokes,  \* the bits it touched
          image,    \* the bits that are set in displayBuf
          cursor    \* LcdPrintf's X0, Y0 and indent

canvas == <<program, req, strokes, image, cursor>>

------------------------------------------------------------------------------
(* Arithmetic of C. *)

Abs(n) == IF n < 0 THEN -n ELSE n
Sgn(n) == IF n < 0 THEN -1 ELSE 1
Least(a, b) == IF a < b THEN a ELSE b
Most(a, b) == IF a > b THEN a ELSE b
Quot(a, b) == Sgn(a) * Sgn(b) * (Abs(a) \div Abs(b))     \* truncates
Byte(n) == n % 256
Short(n) == ((n + ShortMax + 1) % (2 * ShortMax + 2)) - ShortMax - 1

Translate(y) == Height - 1 - y                             \* TRANSLATE_Y

------------------------------------------------------------------------------
(* The primitives under DisplayDraw; their arguments are bytes. *)

Bit(X, Y) == <<(X \div 8) + ByteWidth * Y, X % 8>>
OnScreen(x, y) == x \in 0..Width - 1 /\ y \in 0..Height - 1

DisplayPixel(X, Y) == IF X < Width /\ Y < Height THEN {Bit(X, Y)} ELSE {}

\* Masks: the bits of the byte at column X (a multiple of 8) from X1 to X2.
Mask(X, X1, X2) == {b \in 0..7 : /\ X < X1 => b >= X1 % 8
                                 /\ X2 - X < 8 => b <= X2 % 8}

\* The bits from column X1 to X2 in row Y.
Columns(X1, X2, Y) ==
    UNION {{<<c + ByteWidth * Y, b>> : b \in Mask(8 * c, X1, X2)} : c \in (X1 \div 8)..(X2 \div 8)}

DisplayLineX(X1, X2, Y) ==
    IF Y > Height THEN {}
    ELSE Columns(Least(X1, X2), Least(Most(X1, X2), Width - 1), Y)

DisplayLineY(X, Y1, Y2) ==
    IF X > Width THEN {}
    ELSE {Bit(X, Y) : Y \in Least(Y1, Y2)..Least(Most(Y1, Y2), Height - 1)}

DisplayFillScreen(X, Y, PixelsX, PixelsY) ==
    UNION {Columns(X, Least(Byte(X + PixelsX - 1), Width - 1), row) :
              row \in Y..Least(Byte(Y + PixelsY - 1), Height - 1)}

------------------------------------------------------------------------------
(* Lines. *)

CmdSetPixel(x, y) == IF OnScreen(x, Translate(y)) THEN <<{Bit(x, Translate(y))}>> ELSE <<>>

PixelAt(x, y) == DisplayPixel(Byte(x), Byte(Translate(y)))

\* The loop of a slanted line: n steps along the longer side, and for each of
\* them the steps along the shorter one, with the error term d.
MinorSteps(long, short) ==
    LET minor[k \in 0..long] ==
            IF k = 0 THEN [at |-> 0, d |-> 2 * short - long]
            ELSE LET m == minor[k - 1] IN
                 IF m.d >= 0 THEN [at |-> m.at + 1, d |-> m.d - 2 * long + 2 * short]
                 ELSE [at |-> m.at, d |-> m.d + 2 * short]
    IN minor

SlantedLine(x1, y1, x2, y2) ==
    LET dx == Abs(x2 - x1)
        dy == Abs(y2 - y1)
        minor == MinorSteps(Most(dx, dy), Least(dx, dy))
        sx == Sgn(x2 - x1)
        sy == Sgn(y2 - y1)
    IN [k \in 1..Most(dx, dy) + 1 |->
           IF dx > dy THEN PixelAt(x1 + sx * (k - 1), y1 + sy * minor[k - 1].at)
           ELSE PixelAt(x1 + sx * minor[k - 1].at, y1 + sy * (k - 1))]

Segment(x1, y1, x2, y2) ==
    CASE x1 = x2 /\ y1 = y2 -> <<PixelAt(x1, y1)>>
      [] x1 = x2 /\ y1 # y2 ->
             <<DisplayLineY(Byte(x1), Byte(Translate(y1)), Byte(Translate(y2)))>>
      [] x1 # x2 /\ y1 = y2 -> <<DisplayLineX(Byte(x1), Byte(x2), Byte(Translate(y1)))>>
      [] OTHER -> SlantedLine(x1, y1, x2, y2)

\* Mutant: a clipped end is put on the border without moving it along the line.
AlongMutant(n, num, den) == 0

\* How far a line moves in one direction when it is cut by n in the other.  The product
\* is taken to fit an int: abstracted from ends so far away that it would overflow.
Along(n, num, den) == IF num # 0 /\ den # 0 THEN Quot(n * num, den) ELSE 0

Turned(p) == <<p[3], p[4], p[1], p[2]>>

\* Then horizontally, with the left end first.
ClipColumns(r, dx, dy) ==
    IF r[3] < 0 \/ r[1] >= Width THEN <<>>
    ELSE Segment(Most(r[1], 0), IF r[1] < 0 THEN r[2] + Along(-r[1], dy, dx) ELSE r[2],
                 Least(r[3], Width - 1),
                 IF r[3] > Width - 1 THEN r[4] - Along(r[3] - (Width - 1), dy, dx) ELSE r[4])

LeftFirst(q) == IF q[1] > q[3] THEN Turned(q) ELSE q

\* Clipped vertically, with the lower end first.
ClipRows(p, dx, dy) ==
    IF p[4] < 0 \/ p[2] >= Height THEN <<>>
    ELSE ClipColumns(
           LeftFirst(<<IF p[2] < 0 THEN p[1] + Along(-p[2], dx, dy) ELSE p[1], Most(p[2], 0),
                       IF p[4] > Height - 1 THEN p[3] - Along(p[4] - (Height - 1), dx, dy)
                                            ELSE p[3],
                       Least(p[4], Height - 1)>>), dx, dy)

LowerFirst(p) == IF p[2] > p[4] THEN Turned(p) ELSE p

CmdDrawLine(x1, y1, x2, y2) == ClipRows(LowerFirst(<<x1, y1, x2, y2>>), x2 - x1, y2 - y1)

------------------------------------------------------------------------------
(* Rectangles and ellipses. *)

FilledRect(x1, y1, x2, y2) ==
    IF x2 < 0 \/ y2 < 0 \/ x1 > Width - 1 \/ y1 > Height - 1 THEN <<>>
    ELSE LET l == Most(x1, 0)
             b == Most(y1, 0)
             r == Least(x2, Width - 1)
             t == Least(y2, Height - 1)
         IN <<DisplayFillScreen(l, Translate(t), r - l + 1, t - b + 1)>>

\* Mutant: the sides are drawn over the corners.
HollowRectMutant(x1, y1, x2, y2) ==
    CmdDrawLine(x1, y1, x2, y1) \o CmdDrawLine(x1, y2, x2, y2)
      \o CmdDrawLine(x2, y1, x2, y2) \o CmdDrawLine(x1, y1, x1, y2)

HollowRect(x1, y1, x2, y2) ==
    CmdDrawLine(x1, y1, x2, y1) \o CmdDrawLine(x1, y2, x2, y2)
      \o IF y2 > y1 + 1 THEN CmdDrawLine(x2, y1 + 1, x2, y2 - 1)
                             \o CmdDrawLine(x1, y1 + 1, x1, y2 - 1)
         ELSE <<>>

CmdDrawRect(left, bottom, width, height, fill) ==
    LET x1 == Least(left, left + width)
        x2 == Most(left, left + width)
        y1 == Least(bottom, bottom + height)
        y2 == Most(bottom, bottom + height)
    IN IF y1 = y2 \/ x1 = x2 THEN CmdDrawLine(x1, y1, x2, y2)
       ELSE IF fill THEN FilledRect(x1, y1, x2, y2) ELSE HollowRect(x1, y1, x2, y2)

\* The four images of a point of the first quadrant, none twice.
Mirrored(xc, yc, x, y) ==
    CmdSetPixel(xc + x, yc + y)
      \o (IF x # 0 \/ y # 0 THEN CmdSetPixel(xc - x, yc - y) ELSE <<>>)
      \o (IF x # 0 /\ y # 0 THEN CmdSetPixel(xc + x, yc - y) \o CmdSetPixel(xc - x, yc + y)
          ELSE <<>>)

\* The two bands of a filled ellipse above and below its centre, or the one in
\* its middle.
Bands(xc, yc, s, twice) ==
    IF twice THEN CmdDrawRect(xc - s.rx, yc - s.ry, s.width - 1, s.height - 1, TRUE)
                  \o CmdDrawRect(xc - s.rx, yc + s.ry, s.width - 1, -(s.height - 1), TRUE)
    ELSE CmdDrawRect(xc - s.rx, yc - s.ry, s.width - 1, 2 * s.ry, TRUE)

\* One turn of the loop: the contour goes right, down, or both.
EllipseStep(xc, yc, a, b, fill, s) ==
    LET a2 == a * a
        b2 == b * b
        right == \/ s.t + b2 * s.x <= -((a2 \div 4) + (a % 2) + b2)
                 \/ s.t + a2 * s.y <= -((b2 \div 4) + (b % 2))
        down == s.t - a2 * s.y > -((b2 \div 4) + (b % 2) + a2)
        dxt == 2 * b2 * (s.x + 1)
        dyt == 2 * a2 * (1 - s.y)
        twice == IF right THEN 2 * s.ry + 1 > 2 * (s.height - 1) ELSE 2 * s.ry + 1 > 2 * s.height
        drawn == IF ~fill THEN Mirrored(xc, yc, s.x, s.y)
                 ELSE IF (right /\ s.height = 1) \/ (~right /\ down) THEN <<>>
                 ELSE Bands(xc, yc, s, twice)
        next == CASE right ->
                       [s EXCEPT !.x = @ + 1, !.t = @ + dxt, !.rx = @ + 1, !.width = @ + 2,
                                 !.ry = IF twice THEN @ - (s.height - 1)
                                        ELSE IF s.height = 1 THEN @ ELSE 0,
                                 !.height = 1]
                  [] ~right /\ down ->
                       [s EXCEPT !.y = @ - 1, !.t = @ + dyt, !.height = @ + 1]
                  [] OTHER ->
                       [s EXCEPT !.x = @ + 1, !.y = @ - 1, !.t = @ + dxt + dyt,
                                 !.rx = @ + 1, !.width = @ + 2, !.ry = @ - s.height, !.height = 1]
    IN [next EXCEPT !.out = @ \o drawn]

\* The states of that loop, from its beginning to its end.
Turns(xc, yc, a, b, fill) ==
    LET start == [x |-> 0, y |-> b, t |-> -(a * a * b), rx |-> 0, ry |-> b,
                  width |-> 1, height |-> 1, out |-> <<>>]
        turn[k \in 0..a + b + 2] ==
            IF k = 0 THEN start
            ELSE LET s == turn[k - 1] IN
                 IF s.y >= 0 /\ s.x <= a THEN EllipseStep(xc, yc, a, b, fill, s) ELSE s
    IN turn

\* What is left to fill when the loop has ended.
LoopDone(xc, yc, fill, end) ==
    end.out \o IF fill THEN Bands(xc, yc, end, end.ry > end.height) ELSE <<>>

CmdDrawEllipse(xc, yc, a, b, fill) ==
    CASE b = 0 -> CmdDrawRect(xc - a, yc, 2 * a, 0, fill)
      [] a = 0 /\ b # 0 -> CmdDrawRect(xc, yc - b, 0, 2 * b, fill)
      [] OTHER -> LoopDone(xc, yc, fill, Turns(xc, yc, a, b, fill)[a + b + 2])

------------------------------------------------------------------------------
(* Bitmaps and characters.  The result tells for every bit of displayBuf that *)
(* is written which column and row of the bitmap it shows.                    *)

Placed(bit, col, row) == [bit |-> bit, col |-> col, row |-> row]

\* Pixel by pixel, through dLcdDrawPixel.
DrawPixels(X0, Y0, w, h) ==
    {Placed(Bit(X0 + p[1], Y0 + p[2]), p[1], p[2]) :
        p \in {t \in (0..w - 1) \X (0..h - 1) : OnScreen(X0 + t[1], Y0 + t[2])}}

\* Byte by byte, where the position and the width are multiples of 8.
DrawBytes(X0, Y0, w, h) ==
    LET index(r) == Short(Short((X0 \div 8) + Y0 * ByteWidth) + r * ByteWidth) IN
    {Placed(<<index(p[1]) + p[2], p[3]>>, 8 * p[2] + p[3], p[1]) :
        p \in {t \in (0..h - 1) \X (0..(w \div 8) - 1) \X (0..7) :
                  index(t[1]) + t[2] < BufferSize /\ X0 + 8 * t[2] \in 0..Width - 1}}

dLcdDrawBitmap(X0, Y0, w, h) ==
    IF X0 % 8 # 0 \/ w % 8 # 0 THEN DrawPixels(X0, Y0, w, h) ELSE DrawBytes(X0, Y0, w, h)

\* Mutant: the row of a character is not compared with the end of the buffer.
DrawAlignedCharMutant(X0, Y0) ==
    LET index(r) == (X0 \div 8) + (Y0 + r) * ByteWidth IN
    {Placed(<<index(p[1]) + p[2], p[3]>>, 8 * p[2] + p[3], p[1]) :
        p \in (0..FontHeight - 1) \X (0..(FontWidth \div 8) - 1) \X (0..7)}

\* A character of an aligned font: no test of the column, and one of the row
\* by its first byte only.
DrawAlignedChar(X0, Y0) ==
    LET index(r) == Short(Short((X0 \div 8) + Y0 * ByteWidth) + r * ByteWidth) IN
    {Placed(<<index(p[1]) + p[2], p[3]>>, 8 * p[2] + p[3], p[1]) :
        p \in {t \in (0..FontHeight - 1) \X (0..(FontWidth \div 8) - 1) \X (0..7) :
                  index(t[1]) < BufferSize}}

dLcdDrawChar(X0, Y0) ==
    IF FontWidth % 8 = 0 /\ X0 % 8 = 0 THEN DrawAlignedChar(X0, Y0)
    ELSE DrawPixels(X0, Y0, FontWidth, FontHeight)

\* Where the characters of a text begin: the ones that do not fit are dropped, and
\* only the right border is looked at.
Columned(X0, length) ==
    {X0 + k * FontWidth : k \in {n \in 0..length - 1 : X0 + n * FontWidth < Width - FontWidth}}

dLcdDrawText(X0, Y0, length) == UNION {dLcdDrawChar(x, Y0) : x \in Columned(X0, length)}

------------------------------------------------------------------------------
(* The program that draws shapes. *)

\* CmdResolveDrawingMode: the combinations that do something.
PixelModes == {"SET", "CLEAR", "INVERT"}

CmdResolveDrawingMode(white, op) ==
    CASE white /\ op \in {"COPY", "AND"} -> "CLEAR"
      [] ~white /\ op \in {"COPY", "OR"} -> "SET"
      [] ~white /\ op = "XOR" -> "INVERT"
      [] OTHER -> "nothing"

\* What one call of DisplayDraw after the other leaves of an image.
Painted(bg, mode, ss) ==
    LET touched == UNION {ss[k] : k \in DOMAIN ss}
        odd(b) == Cardinality({k \in DOMAIN ss : b \in ss[k]}) % 2 = 1
    IN CASE mode = "SET"    -> bg \cup touched
         [] mode = "CLEAR"  -> bg \ touched
         [] mode = "INVERT" -> (bg \ touched) \cup {b \in touched : odd(b) # (b \in bg)}
         [] OTHER -> bg

Request(shape, args, mode, fill) == [shape |-> shape, args |-> args, mode |-> mode, fill |-> fill]
NoRequest == Request("none", <<0, 0, 0, 0>>, "SET", FALSE)

\* One shape at a time; what is on the screen already is the background.
NothingDrawn == program = "shapes" /\ req.shape = "none"

Draw(shape, args, mode, fill, ss) ==
    /\ NothingDrawn
    /\ req' = Request(shape, args, mode, fill)
    /\ strokes' = IF mode \in PixelModes THEN ss ELSE <<>>
    /\ image' = Painted(image, mode, strokes')
    /\ UNCHANGED <<program, cursor>>

LineOutEx(g, mode) == Draw("line", g, mode, FALSE, CmdDrawLine(g[1], g[2], g[3], g[4]))
RectOutEx(g, mode, fill) == Draw("rect", g, mode, fill, CmdDrawRect(g[1], g[2], g[3], g[4], fill))
\* The macro RectOut gives y for the height, whatever the caller asked for;
\* DRAW_OPT_NORMAL is a hollow shape, set.
RectOut(g) == Draw("rectout", g, "SET", FALSE, CmdDrawRect(g[1], g[2], g[3], g[2], FALSE))
PointOutEx(g, mode) ==
    Draw("point", <<g[1], g[2], 0, 0>>, mode, FALSE, CmdSetPixel(g[1], g[2]))
\* The centre is an int for the caller and a short for CmdDrawEllipse.
EllipseOutEx(g, mode, fill) ==
    Draw("ellipse", g, mode, fill, CmdDrawEllipse(Short(g[1]), Short(g[2]), g[3], g[4], fill))
CircleOutEx(g, mode, fill) ==
    Draw("ellipse", [g EXCEPT ![4] = g[3]], mode, fill,
         CmdDrawEllipse(Short(g[1]), Short(g[2]), g[3], g[3], fill))

\* A bitmap, and a font, of set pixels.
LcdPicture(g) ==
    Draw("bitmap", g, "SET", FALSE, <<{p.bit : p \in dLcdDrawBitmap(g[1], g[2], g[3], g[4])}>>)
LcdText(g) ==
    Draw("text", <<g[1], g[2], g[3], FontHeight>>, "SET", FALSE,
         <<{p.bit : p \in dLcdDrawText(g[1], g[2], g[3])}>>)

DisplayErase ==
    /\ program = "shapes"
    /\ req' = NoRequest /\ strokes' = <<>> /\ image' = {}
    /\ UNCHANGED <<program, cursor>>

------------------------------------------------------------------------------
(* The program that prints: LcdPrintf, one character at a time. *)

TabSize == 2

\* The next line is begun before a character that would not fit.
Wrapped(c) == IF c.X0 \in 0..(Width - FontWidth - 1) THEN c
              ELSE [c EXCEPT !.X0 = 0, !.Y0 = Short(@ + FontHeight)]

Moved(c, char) ==
    CASE char = "newline" -> [c EXCEPT !.X0 = 0, !.Y0 = Short(@ + FontHeight + 2)]
      [] char = "return"  -> [c EXCEPT !.X0 = 0]
      [] char = "back"    -> [c EXCEPT !.X0 = Short(@ - FontWidth)]
      [] char = "vtab"    -> [c EXCEPT !.Y0 = Short(@ + FontHeight + 1)]
      [] char = "feed"    -> [c EXCEPT !.X0 = 0, !.Y0 = 0]
      [] char = "tab"     -> [c EXCEPT !.X0 = Short(@ + FontWidth * (TabSize - c.indent))]
      [] char = "glyph"   -> [c EXCEPT !.X0 = Short(@ + FontWidth), !.indent = @ + 1]

Chars == {"glyph", "newline", "return", "back", "vtab", "feed", "tab"}

LcdPrintf(char) ==
    LET from == Wrapped([cursor EXCEPT !.indent = IF @ = TabSize THEN 0 ELSE @])
        to == Moved(from, char) IN
    /\ program = "text" /\ to.indent < MaxIndent
    /\ cursor' = [to EXCEPT !.indent = @ + 1]
    /\ req' = Request(char, <<from.X0, from.Y0, FontWidth, FontHeight>>, "SET", FALSE)
    /\ strokes' = IF char = "glyph" THEN <<{p.bit : p \in dLcdDrawChar(from.X0, from.Y0)}>> ELSE <<>>
    /\ UNCHANGED <<program, image>>

DrawingInit ==
    /\ program \in {"shapes", "text"}
    /\ req = NoRequest /\ strokes = <<>>
    /\ cursor = [X0 |-> 0, Y0 |-> 0, indent |-> 0]
    /\ image \in IF program = "shapes" THEN Backgrounds ELSE {{}}

DrawingNext ==
    \/ /\ NothingDrawn
       /\ \/ \E g \in Lines : LineOutEx(g, "INVERT")
          \/ \E g \in Rects, white, fill \in BOOLEAN, op \in {"COPY", "AND", "OR", "XOR"} :
                RectOutEx(g, CmdResolveDrawingMode(white, op), fill)
          \/ \E g \in Ellipses, fill \in BOOLEAN : EllipseOutEx(g, "INVERT", fill)
          \/ \E g \in Ellipses : CircleOutEx(g, "CLEAR", TRUE) \/ PointOutEx(g, "INVERT")
          \/ \E g \in Rects : RectOut(g)
          \/ \E g \in Bitmaps : LcdPicture(g)
          \/ \E g \in Texts : LcdText(g)
    \/ DisplayErase
    \/ \E char \in Chars : LcdPrintf(char)

DrawingSpec == DrawingInit /\ [][DrawingNext]_canvas

------------------------------------------------------------------------------
(* What the drawing functions promise. *)

Touched == UNION {strokes[k] : k \in DOMAIN strokes}

\* A bitmap or a character that begins above the screen, or so far below it that its
\* index, a short, wraps, and a text that begins left of the screen: the aligned paths
\* check the upper bound only, and write before displayBuf.
IndexUnchecked ==
    \/ /\ req.shape \in {"bitmap", "glyph", "text"}
       /\ req.args[2] < 0 \/ (req.args[2] + req.args[4]) * ByteWidth > ShortMax
    \/ req.shape = "text" /\ req.args[1] < 0

\* The bits of a row's last byte that the screen does not have.
Spare(p) == 8 * (p[1] % ByteWidth) + p[2] >= Width

\* Whatever is drawn, wherever it lies and however the clipping moved its ends,
\* only bytes of displayBuf are written, and lines, rectangles and ellipses
\* never reach the spare bits.
InBuffer ==
    ~IndexUnchecked =>
      \A p \in Touched :
         /\ p[1] \in 0..BufferSize - 1
         /\ req.shape \in {"line", "rect", "rectout", "ellipse"} => ~Spare(p)

Screen == (0..Width - 1) \X (0..Height - 1)
Between(n, a, b) == n \in Least(a, b)..Most(a, b)
Cells(area) == {Bit(p[1], Translate(p[2])) : p \in area}

RectArea(g, fill) ==
    LET right == g[1] + g[3]
        top == g[2] + g[4] IN
    {p \in Screen : /\ Between(p[1], g[1], right) /\ Between(p[2], g[2], top)
                    /\ fill \/ p[1] \in {g[1], right} \/ p[2] \in {g[2], top}}

\* The rows of an ellipse are as wide as the widest point of its contour there.
EllipseArea(g) ==
    LET turns == Turns(g[1], g[2], g[3], g[4], FALSE)
        contour == {<<turns[k].x, turns[k].y>> : k \in {n \in DOMAIN turns : turns[n].y >= 0 /\ turns[n].x <= g[3]}}
    IN {p \in Screen : \E q \in contour : Abs(p[2] - g[2]) = q[2] /\ Abs(p[1] - g[1]) <= q[1]}

AxisParallel(g) == g[1] = g[3] \/ g[2] = g[4]

Exactly(area) ==
    image' = CASE req'.mode = "SET"    -> image \cup Cells(area)
               [] req'.mode = "CLEAR"  -> image \ Cells(area)
               [] req'.mode = "INVERT" -> (image \ Cells(area)) \cup (Cells(area) \ image)
               [] OTHER -> image

\* What the code takes the arguments for, which is not what ev3_lcd.h:193-203 documents:
\* there x and y are the top left corner of a rectangle of the given width and height,
\* here they are its left lower corner, and there is one column and one row more.  The
\* centre of an ellipse is the one cast to shorts.  So understood,
\* a rectangle, hollow or filled, a point, and a horizontal or vertical line change
\* exactly the visible part of what is asked for, and a filled ellipse exactly the
\* rows between the sides of the hollow one.  With INVERT this says that no pixel is
\* drawn twice, where the border lines of a slim rectangle or two bands of the
\* ellipse meet.  A bitmap that does not begin above the screen, and whose index fits a
\* short, shows the same pixels copied byte by byte as it would pixel by pixel.
ShapesExact ==
    [][/\ req'.shape \in {"rect", "point"} => Exactly(RectArea(req'.args, req'.fill))
       /\ req'.shape = "line" /\ AxisParallel(req'.args) =>
             Exactly(RectArea([req'.args EXCEPT ![3] = @ - req'.args[1],
                                                ![4] = @ - req'.args[2]], TRUE))
       /\ req'.shape = "ellipse" /\ req'.fill /\ req'.args[3] * req'.args[4] # 0 =>
             Exactly(EllipseArea([req'.args EXCEPT ![1] = Short(@), ![2] = Short(@)]))
       /\ req'.shape = "bitmap" /\ ~IndexUnchecked' =>
             LET g == req'.args IN
             {p \in dLcdDrawBitmap(g[1], g[2], g[3], g[4]) : ~Spare(p.bit)}
               = DrawPixels(g[1], g[2], g[3], g[4])]_canvas

Ends(g) == {<<g[1], g[2]>>, <<g[3], g[4]>>}

\* A pixel is within n / 2 pixels of the line through the ends of g, measured along
\* its shorter side.
Within(g, p, n) ==
    2 * Abs((p[1] - g[1]) * (g[4] - g[2]) - (p[2] - g[2]) * (g[3] - g[1]))
      <= n * Most(Abs(g[3] - g[1]), Abs(g[4] - g[2]))

Drawn == {p \in Screen : Bit(p[1], Translate(p[2])) \in Touched}

\* LineOutEx: a slanted line with both ends on the screen stays within half a
\* pixel of the segment between them, one that is clipped on one axis within one and
\* a half; the ends that are on the screen are drawn.  Nothing is said of a line
\* that leaves the screen on both axes: clipping first in y and then in x, with
\* truncated slopes, can move an end off the screen again, and the byte it is then
\* cast to makes the line a whole column.
LinesClose ==
    LET g == req.args
        cutX == \E p \in Ends(g) : p[1] \notin 0..Width - 1
        cutY == \E p \in Ends(g) : p[2] \notin 0..Height - 1 IN
    req.shape = "line" /\ ~AxisParallel(g) /\ ~(cutX /\ cutY) =>
      /\ \A p \in Drawn : Within(g, p, IF cutX \/ cutY THEN 3 ELSE 1)
      /\ Ends(g) \cap Screen \subseteq Drawn
==============================================================================
