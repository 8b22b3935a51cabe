--------------------------- MODULE MCProcTracking ---------------------------
(* Small instances of ProcTracking for TLC. *)
EXTENDS ProcTracking, TLC

OnePid     == {1}
TwoTids    == {1, 2}
MCStatuses == {1, 256}

CPUSymmetry == Permutations(CPUs)
=============================================================================
