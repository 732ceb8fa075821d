----------------------------- MODULE MCFirmware -----------------------------
(***************************************************************************)
(* A flash of three cells written in blocks of two, and files that are     *)
(* shorter than a block, exactly a block, exactly the flash and longer.    *)
(* The checksum is a remainder by 5 that, like CRC-32, depends on every    *)
(* single byte and is invertible step by step.                             *)
(***************************************************************************)
EXTENDS Firmware

MCFirmwares == {<<1>>, <<1, 0>>, <<1, 0, 1>>, <<0, 1, 1, 1>>}
MCCrcStep(c, b) == (2 * c + b) % 5
MCComplement(c) == 4 - c
=============================================================================
