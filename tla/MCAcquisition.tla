---------------------------- MODULE MCAcquisition ----------------------------
(***************************************************************************)
(* Instances of Acquisition for TLC: a second of three ticks, so a packet  *)
(* of three samples, and the acquisition as the only timeout channel.      *)
(***************************************************************************)
EXTENDS Acquisition

MCChannel == {0}
=============================================================================
