--------------------------- MODULE MCSigPingPong ---------------------------
(* SigPingPong for TLC. *)
EXTENDS SigPingPong, TLC
=============================================================================
