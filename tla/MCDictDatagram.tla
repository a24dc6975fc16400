--------------------------- MODULE MCDictDatagram ---------------------------
(* DictDatagram for TLC. *)
EXTENDS DictDatagram
=============================================================================
