------------------------------ MODULE MCSession ------------------------------
(***************************************************************************)
(* Two bricks, one with a space in its name, another sender of datagrams,  *)
(* two invocations.                                                        *)
(***************************************************************************)
EXTENDS Session

MCSelections == {{}, {"tcp"}}
==============================================================================
