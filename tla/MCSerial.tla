------------------------------ MODULE MCSerial ------------------------------
(***************************************************************************)
(* Bytes of two values, so that a length field of two bytes counts to 3.   *)
(* Replies with one and two bytes, and one that is longer than twice the   *)
(* buffer of two bytes.                                                    *)
(***************************************************************************)
EXTENDS Serial

MCRequests == {<<1>>}
MCReplies == {<<0, 1>>, <<1, 1, 0>>}
MCListBody == <<0, 1>>
=============================================================================
