------------------------------- MODULE MCCard -------------------------------
EXTENDS Card, TLC
CONSTANTS s1, p1, p2

MCSlot   == {s1}
MCPacket == {p1, p2}
=============================================================================
