--------------------------- MODULE MCBridgeStream ---------------------------
EXTENDS BridgeStream

ShortAndLong == [short |-> 2, long |-> 3]

\* A value that encode() makes shorter than the router did (float32 22 as an integer).
BothShort == [short |-> 2, long |-> 2]
=============================================================================
