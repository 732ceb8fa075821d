----------------------------- MODULE MCDownload -----------------------------
(***************************************************************************)
(* Headers of 12 and 8 bytes become 3 and 2, so that a CONTINUE reply has  *)
(* room for one byte more than the first; contents of no byte, of exactly  *)
(* the first reply, and of several.                                        *)
(***************************************************************************)
EXTENDS Download

MCContents == {<< >>, <<1>>, <<1, 2>>, <<2, 1, 1>>, <<1, 2, 2, 1, 2>>,
               <<2, 1, 2, 2, 1, 1, 2>>}
MCHeader == [o \in Ops |-> 3]
MCContHeader == [o \in Ops |-> 2]
MCFirstMax == [dl |-> 2, ls |-> 3]
MCContinues == [dl |-> TRUE, ls |-> FALSE]
=============================================================================
