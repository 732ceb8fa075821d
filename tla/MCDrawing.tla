------------------------------ MODULE MCDrawing ------------------------------
(***************************************************************************)
(* A screen of 20 by 6 pixels, three bytes a row with four bits to spare,  *)
(* and shapes inside it, across each of its borders and beyond them.  A     *)
(* short has six bits: 69 and -62 are centres that do not fit one.          *)
(***************************************************************************)
EXTENDS Drawing

MCXs == {-13, -3, -1, 0, 3, 8, 13, 18, 19, 20, 27}
MCYs == {-4, -3, -1, 0, 1, 2, 4, 5, 6, 8}
MCLines == MCXs \X MCYs \X MCXs \X MCYs
MCRects == {-2, 0, 7, 16, 19} \X {-2, 0, 3, 5} \X {-9, -1, 0, 1, 2, 12, 30} \X {-7, -1, 0, 1, 2, 9}
MCEllipses == {-1, 5, 9, 19, 69} \X {-62, -1, 2, 5} \X (0..6) \X (0..6)
MCBitmaps == {-8, -3, 0, 3, 8, 16, 24} \X {-2, 0, 4, 6, 12} \X {3, 8, 16} \X (0..3)
MCTexts == {-16, -8, -3, 0, 3, 4, 8, 16, 24} \X {-2, 0, 1, 4, 6, 12} \X (0..3)
MCBackgrounds == {{}, {<<i, b>> \in (0..17) \X (0..7) : (i + b) % 2 = 0}}
==============================================================================
