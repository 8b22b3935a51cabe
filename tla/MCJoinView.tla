------------------------------ MODULE MCJoinView ------------------------------
(***************************************************************************)
(* Queries for the TLC run of JoinView: everything with its end, one kind  *)
(* of command without, the commands that failed; and logs it begins with:  *)
(* empty, behind what was rotated away, of an older version, with a start  *)
(* without an id.                                                          *)
(***************************************************************************)
EXTENDS JoinView

AnyResult == Results \cup {NoResult}

MCQueries ==
    {[cmds |-> Commands, results |-> AnyResult, ends |-> TRUE],
     [cmds |-> {"a"}, results |-> AnyResult, ends |-> FALSE],
     [cmds |-> Commands, results |-> {"failed"}, ends |-> TRUE]}

Old(type, id) ==
    <<[type |-> type, id |-> id, cmd |-> "a",
       result |-> IF type = "proc_start" THEN NoResult ELSE "ok"]>>

MCOldLogs ==
    {<<>>, Old("proc_end", <<1, 1>>), Old("proc", NoId), Old("proc_start", NoId)}
=============================================================================
