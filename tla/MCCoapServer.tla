---------------------------- MODULE MCCoapServer ----------------------------
(***************************************************************************)
(* Instances of CoapServer for TLC.                                        *)
(***************************************************************************)
EXTENDS CoapServer, TLC

MCSlot    == 1 .. 2
MCMid     == 1 .. 6
Symmetry  == Permutations(Client) \union Permutations(Block)
=============================================================================
