--------------------------- MODULE MCBridgeStreams ---------------------------
(* BridgeStreams for TLC: which requests share the session. *)
EXTENDS BridgeStreams

CONSTANTS r1, r2

Pair(a, b) == [r \in Viewers |-> IF r = r1 THEN a ELSE b]

\* Two viewers of the raw stream, or one request with a child process beside a PATCH.
MCMixes == {Pair("raw", "raw"), Pair("muxed", "patch"), Pair("snapshot", "patch")}

\* A stream of either kind and a PATCH.
MCOne == {Pair("raw", "patch"), Pair("muxed", "patch")}
=============================================================================
