------------------------------ MODULE MCBridge ------------------------------
(***************************************************************************)
(* Two clients that follow each other, each with a request of two bytes    *)
(* after the length field, which may be read in pieces, and one of one.    *)
(***************************************************************************)
EXTENDS Bridge

CONSTANTS c1, c2

MCBodyLen == <<2, 1>>

\* The clients are alike, so it is enough to look at the behaviours in which
\* c1 is the first to connect; the others are these with the names exchanged.
c1First == there[c1] = "new" => there'[c2] = "new"
=============================================================================
