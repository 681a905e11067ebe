------------------------------ MODULE MCDevData ------------------------------
(***************************************************************************)
(* A buffer of two bytes, and reads and writes that stay in it, overflow   *)
(* it, and need whole buffers besides.                                     *)
(***************************************************************************)
EXTENDS DevData

SmallStrings == {<<1>>, <<0, 1>>, <<0, 0, 1, 0, 1>>}
RawFlags     == {{"read", "write", "raw"}}
SmallFlags   == RawFlags \cup {{"read", "write", "text", "raw"}}
=============================================================================
