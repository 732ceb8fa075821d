SPECIFICATION DrawingSpec
CONSTANTS
    Width = 20
    Height = 6
    ShortMax = 31
    FontWidth = 8
    FontHeight = 3
    MaxIndent = 6
    Lines <- MCLines
    Rects <- MCRects
    Ellipses <- MCEllipses
    Bitmaps <- MCBitmaps
    Texts <- MCTexts
    Backgrounds <- MCBackgrounds
INVARIANTS
    InBuffer
    LinesClose
PROPERTIES
    ShapesExact
\* the program that prints may end at any time
CHECK_DEADLOCK FALSE
