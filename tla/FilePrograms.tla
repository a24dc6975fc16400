---------------------------- MODULE FilePrograms ----------------------------
(***************************************************************************)
(* The programs of TailBuffer and ProcScan, one of which runs.              *)
(***************************************************************************)
EXTENDS TailBuffer, ProcScan

\* tail has come to the end of an empty file.
TailIdle ==
    /\ file_size = 0 /\ file = <<>> /\ lines = 0 /\ pos = 0 /\ seek_size = 0
    /\ line_count = 0 /\ offset = 0 /\ step = "done" /\ start = 0
    /\ skipped = FALSE /\ overlap = FALSE

ProgramsInit == (TailInit /\ ScanIdle) \/ (ScanInit /\ TailIdle)

ProgramsNext ==
    \/ TailNext /\ UNCHANGED scanVars
    \/ ScanNext /\ UNCHANGED tailVars

ProgramsSpec == ProgramsInit /\ [][ProgramsNext]_<<tailVars, scanVars>>
=============================================================================
