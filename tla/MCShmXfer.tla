----------------------------- MODULE MCShmXfer -----------------------------
(* ShmXfer for TLC. *)
EXTENDS ShmXfer
=============================================================================
