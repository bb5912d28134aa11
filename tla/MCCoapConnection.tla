-------------------------- MODULE MCCoapConnection --------------------------
\* CoapConnection for TLC.
EXTENDS CoapConnection

\* the reference accessory, and one that recognises retransmissions
MCAccessories == [dedup : BOOLEAN]
MCBlocks == {1, 2}

=============================================================================
