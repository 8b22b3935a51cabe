--------------------------- MODULE CaptureProcess ---------------------------
(***************************************************************************)
(* The early filter of precd when capture_filter has rules: the eBPF       *)
(* programs of capture_filter_linux.go and capture_process_linux.go.  A    *)
(* program that is attached to exec, open, dup and write compares the      *)
(* credentials of the thread with the identities allowed at that moment,   *)
(* registers the process in a bounded hash map, and emits; a program       *)
(* attached to exit emits for the processes of the map alone, and the one  *)
(* attached to the end of a thread takes the leader's process out of it.   *)
(* Programs of threads on different CPUs interleave map call by map call.  *)
(***************************************************************************)
EXTENDS Integers, FiniteSets

CONSTANTS
    Pids,        \* process ids, also the ids of their leading threads
    Workers,     \* ids of further threads
    Identities,  \* credentials a process may have
    MapCap,      \* captureProcessMax
    MaxEvents    \* programs started in a behaviour (bound)

ASSUME CaptureAssumption ==
    /\ Pids \cap Workers = {}
    /\ 0 \notin Pids \cup Workers
    /\ MapCap \in Nat \ {0}
    /\ MaxEvents \in Nat

VARIABLES
    group,    \* thread -> its process, Nobody when the id is free
    pc,       \* thread -> the program it is in and the call due next
    creds,    \* process -> its credentials
    allowed,  \* credentials the identity map and the rules accept
    tracked,  \* keys of the process map
    matched,  \* processes that matched the filter at some time (history)
    early,    \* processes sampled before their leader's end (history)
    ended,    \* processes whose leader's end was sampled (history)
    leaked,   \* processes with an exit sample and no match (history)
    orphans,  \* processes whose leader ended before a worker (history)
    events    \* programs started (bound)

vars == <<group, pc, creds, allowed, tracked, matched, early, ended, leaked,
          orphans, events>>

Nobody == 0
Tids   == Pids \cup Workers

\* free; running user code; a trace program about to look up, to register or
\* to emit; a status program; an exit program; a leader that has ended.
States == {"free", "user", "trace", "register", "emit",
           "status", "emitStatus", "exit", "remove", "emitExit", "zombie"}

TypeOK ==
    /\ group \in [Tids -> Pids \cup {Nobody}]
    /\ pc \in [Tids -> States]
    /\ creds \in [Pids -> Identities]
    /\ allowed \subseteq Identities
    /\ tracked \subseteq Pids
    /\ {matched, early, ended, leaked, orphans} \subseteq SUBSET Pids
    /\ events \in Nat

Init ==
    /\ group = [t \in Tids |-> Nobody]
    /\ pc = [t \in Tids |-> "free"]
    /\ creds \in [Pids -> Identities]
    /\ allowed \in SUBSET Identities
    /\ tracked = {}
    /\ matched = {}
    /\ early = {}
    /\ ended = {}
    /\ leaked = {}
    /\ orphans = {}
    /\ events = 0

Members(p) == {t \in Tids : group[t] = p}
Goto(t, s) == pc' = [pc EXCEPT ![t] = s]
history    == <<matched, early, ended, leaked, orphans>>

-----------------------------------------------------------------------------
(* Processes and accounts.                                                 *)

Fork(p) ==
    /\ pc[p] = "free"
    /\ events < MaxEvents
    /\ events' = events + 1
    /\ group' = [group EXCEPT ![p] = p]
    /\ Goto(p, "user")
    /\ \E i \in Identities : creds' = [creds EXCEPT ![p] = i]
    /\ matched' = matched \ {p}
    /\ early' = early \ {p}
    /\ ended' = ended \ {p}
    /\ leaked' = leaked \ {p}
    /\ UNCHANGED <<allowed, tracked, orphans>>

Clone(t, w) ==
    /\ pc[t] = "user"
    /\ w \in Workers
    /\ pc[w] = "free"
    /\ group' = [group EXCEPT ![w] = group[t]]
    /\ Goto(w, "user")
    /\ UNCHANGED <<creds, allowed, tracked, history, events>>

Setuid(p, i) ==
    /\ pc[p] = "user"
    /\ creds' = [creds EXCEPT ![p] = i]
    /\ UNCHANGED <<group, pc, allowed, tracked, history, events>>

Reap(p) ==
    /\ pc[p] = "zombie"
    /\ Members(p) = {p}
    /\ group' = [group EXCEPT ![p] = Nobody]
    /\ Goto(p, "free")
    /\ UNCHANGED <<creds, allowed, tracked, history, events>>

\* captureIdentityRefresher publishes a new snapshot.
Refresh(ids) ==
    /\ allowed' = ids
    /\ UNCHANGED <<group, pc, creds, tracked, history, events>>

-----------------------------------------------------------------------------
(* The programs.                                                           *)

Start(t, s) ==
    /\ pc[t] = "user"
    /\ events < MaxEvents
    /\ events' = events + 1
    /\ Goto(t, s)

\* guardInstructions: a traced event of a process that matches; the others
\* are dropped.
Trace(t) ==
    /\ Start(t, "trace")
    /\ creds[group[t]] \in allowed
    /\ matched' = matched \cup {group[t]}
    /\ UNCHANGED <<group, creds, allowed, tracked, early, ended, leaked, orphans>>

\* trackProcessInstructions: map lookup.
TraceLookup(t) ==
    /\ pc[t] = "trace"
    /\ Goto(t, IF group[t] \in tracked THEN "emit" ELSE "register")
    /\ UNCHANGED <<group, creds, allowed, tracked, history, events>>

\* map update with BPF_NOEXIST: EEXIST is as good as success, any other error
\* drops the sample.
Register(t) ==
    /\ pc[t] = "register"
    /\ IF group[t] \in tracked \/ Cardinality(tracked) < MapCap
       THEN tracked' = tracked \cup {group[t]} /\ Goto(t, "emit")
       ELSE UNCHANGED tracked /\ Goto(t, "user")
    /\ UNCHANGED <<group, creds, allowed, history, events>>

\* perf_event_output of the traced event.
EmitTrace(t) ==
    /\ pc[t] = "emit"
    /\ Goto(t, "user")
    /\ early' = IF pc[group[t]] \in {"remove", "emitExit", "zombie"}
                THEN early ELSE early \cup {group[t]}
    /\ UNCHANGED <<group, creds, allowed, tracked, matched, ended, leaked, orphans,
                   events>>

\* sys_enter_exit and sys_enter_exit_group; exit follows.
ExitStatus(t) ==
    /\ Start(t, "status")
    /\ orphans' = IF t \in Pids /\ Members(t) # {t} THEN orphans \cup {t} ELSE orphans
    /\ UNCHANGED <<group, creds, allowed, tracked, matched, early, ended, leaked>>

\* startCaptureExitInstructions without cleanup.
StatusLookup_ByCreds(t) ==
    /\ pc[t] = "status"
    /\ Goto(t, IF creds[group[t]] \in allowed THEN "emitStatus" ELSE "exit")
    /\ UNCHANGED <<group, creds, allowed, tracked, history, events>>

StatusLookup(t) ==
    /\ pc[t] = "status"
    /\ Goto(t, IF group[t] \in tracked THEN "emitStatus" ELSE "exit")
    /\ UNCHANGED <<group, creds, allowed, tracked, history, events>>

EmitStatus(t) ==
    /\ pc[t] = "emitStatus"
    /\ Goto(t, "exit")
    /\ leaked' = leaked \cup ({group[t]} \ matched)
    /\ UNCHANGED <<group, creds, allowed, tracked, matched, early, ended, orphans,
                   events>>

\* sched_process_exit after a fatal signal.
Killed(t) ==
    /\ Start(t, "exit")
    /\ orphans' = IF t \in Pids /\ Members(t) # {t} THEN orphans \cup {t} ELSE orphans
    /\ UNCHANGED <<group, creds, allowed, tracked, matched, early, ended, leaked>>

\* The thread is gone; a leader stays until its process is reaped.
ThreadEnds(t) ==
    /\ Goto(t, IF group[t] = t THEN "zombie" ELSE "free")
    /\ group' = [group EXCEPT ![t] = IF @ = t THEN @ ELSE Nobody]

\* startCaptureExitInstructions with cleanup: nothing for an untracked process;
\* the leader takes its process out of the map first.
ExitLookup_Refiltered(t) ==
    /\ pc[t] = "exit"
    /\ IF group[t] \in tracked /\ creds[group[t]] \in allowed
       THEN /\ Goto(t, IF t = group[t] THEN "remove" ELSE "emitExit")
            /\ UNCHANGED group
       ELSE ThreadEnds(t)
    /\ UNCHANGED <<creds, allowed, tracked, history, events>>

ExitLookup_AnyThread(t) ==
    /\ pc[t] = "exit"
    /\ IF group[t] \in tracked
       THEN Goto(t, "remove") /\ UNCHANGED group
       ELSE ThreadEnds(t)
    /\ UNCHANGED <<creds, allowed, tracked, history, events>>

ExitLookup(t) ==
    /\ pc[t] = "exit"
    /\ IF group[t] \in tracked
       THEN /\ Goto(t, IF t = group[t] THEN "remove" ELSE "emitExit")
            /\ UNCHANGED group
       ELSE ThreadEnds(t)
    /\ UNCHANGED <<creds, allowed, tracked, history, events>>

Remove_Nothing(t) ==
    /\ pc[t] = "remove"
    /\ Goto(t, "emitExit")
    /\ UNCHANGED <<group, creds, allowed, tracked, history, events>>

Remove(t) ==
    /\ pc[t] = "remove"
    /\ tracked' = tracked \ {group[t]}
    /\ Goto(t, "emitExit")
    /\ UNCHANGED <<group, creds, allowed, history, events>>

EmitExit(t) ==
    LET p == group[t] IN
    /\ pc[t] = "emitExit"
    /\ ThreadEnds(t)
    /\ ended' = IF t = p THEN ended \cup {p} ELSE ended
    /\ leaked' = leaked \cup ({p} \ matched)
    /\ UNCHANGED <<creds, allowed, tracked, matched, early, orphans, events>>

Next ==
    \/ \E p \in Pids : Fork(p) \/ Reap(p) \/ \E i \in Identities : Setuid(p, i)
    \/ \E ids \in SUBSET Identities : Refresh(ids)
    \/ \E t \in Tids :
          \/ \E w \in Workers : Clone(t, w)
          \/ Trace(t) \/ TraceLookup(t) \/ Register(t) \/ EmitTrace(t)
          \/ ExitStatus(t) \/ StatusLookup(t) \/ EmitStatus(t)
          \/ Killed(t) \/ ExitLookup(t) \/ Remove(t) \/ EmitExit(t)

Spec == Init /\ [][Next]_vars

-----------------------------------------------------------------------------
(* Properties.                                                             *)

\* README: "Matching processes are tracked before samples are sent. Exit
\* status and exit notifications remain available after account changes": the
\* end of every leader whose process was sampled before is sampled too.
ExitNotified ==
    \A p \in Pids : pc[p] = "zombie" /\ p \in early => p \in ended

\* While a sample of a trace program is about to be sent, its process is in
\* the map, unless its leader has begun to end (register before emit).
RegisteredBeforeSample ==
    \A t \in Tids :
        pc[t] = "emit" /\ pc[group[t]] \notin {"emitExit", "zombie"} =>
            group[t] \in tracked

\* README: "Untracked processes do not bypass the filter": no exit sample of a
\* process that never matched, not even of one that reuses the pid of one that
\* did (as long as the main threads of the pid's users end last).
NoBypass == leaked \subseteq orphans

\* The map does not grow with the processes seen: it holds none that is gone
\* (main threads end last).
MapFreed ==
    \A p \in Pids \ orphans : pc[p] \in {"zombie", "free"} => p \notin tracked

\* README: "Untracked processes do not bypass the filter", whatever the order
\* the threads of the earlier users of a pid ended in.
NeverBypassed == leaked = {}
=============================================================================
