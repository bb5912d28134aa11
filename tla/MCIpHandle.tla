----------------------------- MODULE MCIpHandle -----------------------------
\* IpHandle for TLC: characteristics are small numbers, 0 being none.
EXTENDS IpHandle

MCChars == {1}

=============================================================================
