------------------------------ MODULE MCFraming ------------------------------
EXTENDS Framing

MCPreamble == <<0, 0, 6, 0>>
=============================================================================
