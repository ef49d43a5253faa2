----------------------------- MODULE MCTimebase -----------------------------
(***************************************************************************)
(* Instances of Timebase for TLC: a second of three ticks, one or two      *)
(* timeout channels.                                                       *)
(***************************************************************************)
EXTENDS Timebase

MCChannel    == 0 .. 1
MCOneChannel == {0}
=============================================================================
