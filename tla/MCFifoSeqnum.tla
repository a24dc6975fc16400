---------------------------- MODULE MCFifoSeqnum ----------------------------
(* FifoSeqnum for TLC. *)
EXTENDS FifoSeqnum
=============================================================================
