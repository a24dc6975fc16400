---------------------------- MODULE MCDictStream ----------------------------
(* DictStream for TLC. *)
EXTENDS DictStream
=============================================================================
