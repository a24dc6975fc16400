----------------------------- MODULE MCSysVSignal -----------------------------
(* SysVSignal for TLC. *)
EXTENDS SysVSignal
=============================================================================
