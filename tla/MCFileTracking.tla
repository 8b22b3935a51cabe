--------------------------- MODULE MCFileTracking ---------------------------
(***************************************************************************)
(* Files for the TLC runs of FileTracking: a file, the one that replaces   *)
(* it under its path, a named pipe, and precd's own log.                   *)
(***************************************************************************)
EXTENDS FileTracking, TLC

FileA    == [path |-> "a", ino |-> 1, regular |-> TRUE]
FileA2   == [path |-> "a", ino |-> 2, regular |-> TRUE]
FileB    == [path |-> "b", ino |-> 3, regular |-> TRUE]
Fifo     == [path |-> "fifo", ino |-> 4, regular |-> FALSE]
Replaced == {FileA, FileA2, Fifo}
OneFile  == {FileB}
OwnLog   == {<<1, "b">>}

\* The CPUs are alike.
Alike    == Permutations(CPUs)
=============================================================================
