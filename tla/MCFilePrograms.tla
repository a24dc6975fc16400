--------------------------- MODULE MCFilePrograms ---------------------------
(* FilePrograms for TLC. *)
EXTENDS FilePrograms
=============================================================================
