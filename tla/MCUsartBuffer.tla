---------------------------- MODULE MCUsartBuffer ----------------------------
(***************************************************************************)
(* An instance of UsartBuffer for TLC: rings of four slots and one value   *)
(* of a byte, which an untouched slot does not hold.  That the order of    *)
(* different bytes is kept is proved for every size in UsartBufferProofs.  *)
(***************************************************************************)
EXTENDS UsartBuffer

MCOneByte == {1}
=============================================================================
