-------------------------- MODULE MCMsgQueueSeqnum --------------------------
(* MsgQueueSeqnum for TLC. *)
EXTENDS MsgQueueSeqnum
=============================================================================
