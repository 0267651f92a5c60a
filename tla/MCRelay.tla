------------------------------ MODULE MCRelay ------------------------------
(* Relay for TLC: one stream, and a Worker that reconnects.                *)
EXTENDS Relay, TLC

CONSTANTS s1

OneStream == {s1}
=============================================================================
