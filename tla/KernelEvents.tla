---------------------------- MODULE KernelEvents ----------------------------
(***************************************************************************)
(* What precd's process tracepoints see and emit.  The thread life cycle   *)
(* is the kernel's (external to the repository); the samples are those of  *)
(* the eBPF programs of collector_linux.go: one perf_event_output per      *)
(* traced event, on the CPU the thread happens to run on.  Every CPU has   *)
(* its own bounded perf ring: a sample that does not fit is dropped and    *)
(* counted, and the count reaches the reader as a lost record in front of  *)
(* the next sample of that ring that fits.                                 *)
(*                                                                         *)
(* Thread ids and process ids share one number space: the process (thread  *)
(* group) led by thread p is process p, and p is reused only after every   *)
(* thread of the group is gone.                                            *)
(***************************************************************************)
EXTENDS Integers, Sequences, FiniteSets

CONSTANTS
    Tids,       \* thread ids (positive numbers)
    Pids,       \* those among them that processes get (bound)
    CPUs,       \* CPUs, one perf ring each
    RingCap,    \* records a ring holds (bound)
    Statuses,   \* raw arguments of exit(2) and exit_group(2)
    MaxThreads, \* threads one process may have (bound)
    MaxClock,   \* samples emitted in a behaviour (bound)
    MaxDropped  \* samples dropped in a behaviour (bound)

ASSUME KernelAssumption ==
    /\ Tids \subseteq Nat \ {0}
    /\ Pids \subseteq Tids
    /\ CPUs # {}
    /\ RingCap \in Nat \ {0}
    /\ Statuses \subseteq Int
    /\ MaxThreads \in Nat \ {0}
    /\ MaxClock \in Nat
    /\ MaxDropped \in Nat

VARIABLES
    phase,   \* thread -> where it is in its life
    group,   \* thread -> the process it belongs to (NoTid when free)
    code,    \* thread -> the exit code the kernel holds for it
    doomed,  \* threads with a fatal signal pending
    born,    \* process id -> clock of the fork of its current process
    clock,   \* kernel monotonic time: samples emitted so far
    ring,    \* CPU -> perf ring, oldest record first
    lost,    \* CPU -> samples dropped and not yet announced in the ring
    dropped  \* samples dropped in all (history)

threads == <<phase, group, code, doomed, born>>
rings   == <<clock, ring, lost, dropped>>
kernel  == <<phase, group, code, doomed, born, clock, ring, lost, dropped>>

NoTid    == 0
NoStatus == -1

Phases == {"free", "user", "execve", "dethread", "execed", "exitgroup",
           "exiting", "zombie"}

SampleTypes == {"Exec", "ExecEnter", "ExecResult", "ExitGroup", "ExitStatus",
                "ProcessExit"}

\* A raw sample.  inc (the fork its process descends from) and code (the exit
\* code the kernel holds) are history, never read by the collector.
Samples == [type : SampleTypes, tgid : Pids, tid : Tids, status : Int,
            mono : Nat, inc : Nat, code : Int]

\* A lost record announces `status' samples dropped before its place.
LostRecords == [type : {"Lost"}, tgid : {NoTid}, tid : {NoTid}, status : Nat,
                mono : {0}, inc : {0}, code : {NoStatus}]

Record == Samples \cup LostRecords

KernelTypeOK ==
    /\ phase \in [Tids -> Phases]
    /\ group \in [Tids -> Pids \cup {NoTid}]
    /\ code \in [Tids -> Int]
    /\ doomed \subseteq Tids
    /\ born \in [Pids -> Nat]
    /\ clock \in Nat
    /\ ring \in [CPUs -> Seq(Record)]
    /\ lost \in [CPUs -> Nat]
    /\ dropped \in Nat

KernelInit ==
    /\ phase = [t \in Tids |-> "free"]
    /\ group = [t \in Tids |-> NoTid]
    /\ code = [t \in Tids |-> NoStatus]
    /\ doomed = {}
    /\ born = [p \in Pids |-> 0]
    /\ clock = 0
    /\ ring = [c \in CPUs |-> <<>>]
    /\ lost = [c \in CPUs |-> 0]
    /\ dropped = 0

Members(p)  == {t \in Tids : group[t] = p}
Living(p)   == {t \in Members(p) : phase[t] # "zombie"}
Exists(t)   == phase[t] # "free"   \* /proc/<t> can be read
Running(t)  == phase[t] = "user" /\ t \notin doomed

Sample(type, p, t, status, exitCode) ==
    [type |-> type, tgid |-> p, tid |-> t, status |-> status,
     mono |-> clock + 1, inc |-> born[p], code |-> exitCode]

LostRecord(n) ==
    [type |-> "Lost", tgid |-> NoTid, tid |-> NoTid, status |-> n,
     mono |-> 0, inc |-> 0, code |-> NoStatus]

\* perf_event_output on CPU c: a record fits with the pending lost record in
\* front of it, or it is dropped and counted.
Output(c, sample) ==
    LET records == IF lost[c] > 0 THEN <<LostRecord(lost[c]), sample>>
                                  ELSE <<sample>>
    IN  /\ clock < MaxClock
        /\ clock' = clock + 1
        /\ \/ /\ Len(ring[c]) + Len(records) <= RingCap
              /\ ring' = [ring EXCEPT ![c] = @ \o records]
              /\ lost' = [lost EXCEPT ![c] = 0]
              /\ UNCHANGED dropped
           \/ /\ Len(ring[c]) + Len(records) > RingCap
              /\ dropped < MaxDropped
              /\ lost' = [lost EXCEPT ![c] = @ + 1]
              /\ dropped' = dropped + 1
              /\ UNCHANGED ring

-----------------------------------------------------------------------------
(* Thread life cycle.                                                      *)

\* fork: a new single-threaded process, no sample.
Fork(p) ==
    /\ phase[p] = "free"
    /\ clock < MaxClock
    /\ phase' = [phase EXCEPT ![p] = "user"]
    /\ group' = [group EXCEPT ![p] = p]
    /\ born' = [born EXCEPT ![p] = clock]
    /\ code' = [code EXCEPT ![p] = NoStatus]
    /\ UNCHANGED <<doomed, rings>>

\* pthread_create by thread t.
Clone(t, w) ==
    /\ Running(t)
    /\ phase[w] = "free"
    /\ Cardinality(Members(group[t])) < MaxThreads
    /\ phase' = [phase EXCEPT ![w] = "user"]
    /\ group' = [group EXCEPT ![w] = group[t]]
    /\ code' = [code EXCEPT ![w] = NoStatus]
    /\ UNCHANGED <<doomed, born, rings>>

\* sys_enter_execve.
EnterExecve(t, c) ==
    /\ Running(t)
    /\ phase' = [phase EXCEPT ![t] = "execve"]
    /\ Output(c, Sample("ExecEnter", group[t], t, 0, NoStatus))
    /\ UNCHANGED <<group, code, doomed, born>>

\* sys_exit_execve with an error; a thread with a fatal signal pending gives
\* up, even while it waits for the other threads to die.
ExecveFails(t, c) ==
    /\ phase[t] = "execve" \/ (phase[t] = "dethread" /\ t \in doomed)
    /\ phase' = [phase EXCEPT ![t] = "user"]
    /\ Output(c, Sample("ExecResult", group[t], t, -2, NoStatus))
    /\ UNCHANGED <<group, code, doomed, born>>

\* A fatal signal for the threads in ts: the exit code of those that are not
\* exiting already is s.  A thread inside execve dies after its return.
Doom(ts, s) ==
    LET hit == {u \in ts : phase[u] # "exiting"} IN
    /\ doomed' = doomed \cup hit
    /\ code' = [u \in Tids |-> IF u \in hit THEN s ELSE code[u]]

\* The exec is certain to succeed: the other threads are killed.
DeThread(t) ==
    /\ phase[t] = "execve"
    /\ t \notin doomed
    /\ phase' = [phase EXCEPT ![t] = "dethread"]
    /\ Doom(Living(group[t]) \ {t}, NoStatus)
    /\ UNCHANGED <<group, born, rings>>

\* sched_process_exec: the caller, alone by now, takes over the leader's id.
ExecveCommits(t, c) ==
    LET p == group[t] IN
    /\ phase[t] = "dethread"
    /\ Living(p) = {t}
    /\ phase' = [u \in Tids |-> IF u = p THEN "execed"
                                ELSE IF u = t THEN "free" ELSE phase[u]]
    /\ group' = [u \in Tids |-> IF u = t /\ u # p THEN NoTid ELSE group[u]]
    /\ code' = [code EXCEPT ![p] = code[t]]
    /\ doomed' = IF t \in doomed THEN (doomed \ {t}) \cup {p} ELSE doomed \ {p}
    /\ Output(c, Sample("Exec", p, p, 0, NoStatus))
    /\ UNCHANGED born

\* sys_exit_execve with result 0, now under the leader's id.
ExecveReturns(t, c) ==
    /\ phase[t] = "execed"
    /\ phase' = [phase EXCEPT ![t] = "user"]
    /\ Output(c, Sample("ExecResult", group[t], t, 0, NoStatus))
    /\ UNCHANGED <<group, code, doomed, born>>

\* sys_enter_exit: only the calling thread ends.
Exit(t, s, c) ==
    /\ Running(t)
    /\ phase' = [phase EXCEPT ![t] = "exiting"]
    /\ code' = [code EXCEPT ![t] = s]
    /\ Output(c, Sample("ExitStatus", group[t], t, s, s))
    /\ UNCHANGED <<group, doomed, born>>

\* sys_enter_exit_group: the sample precedes the kernel's decision.
EnterExitGroup(t, s, c) ==
    /\ Running(t)
    /\ phase' = [phase EXCEPT ![t] = "exitgroup"]
    /\ code' = [code EXCEPT ![t] = s]
    /\ Output(c, Sample("ExitGroup", group[t], t, s, s))
    /\ UNCHANGED <<group, doomed, born>>

\* The first exit_group to get here decides the code of the whole process.
DoExitGroup(t) ==
    /\ phase[t] = "exitgroup"
    /\ t \notin doomed
    /\ Doom(Living(group[t]), code[t])
    /\ UNCHANGED <<phase, group, born, rings>>

\* A fatal signal for process p, which then has no exit status of its own.
Kill(p) ==
    /\ \E t \in Living(p) : t \notin doomed /\ phase[t] # "exiting"
    /\ Doom(Living(p) \ doomed, NoStatus)
    /\ UNCHANGED <<phase, group, born, rings>>

\* sched_process_exit of thread t.  A leader stays as a zombie.
Exited(t, c) ==
    LET p == group[t] IN
    /\ \/ phase[t] = "exiting"
       \/ phase[t] \in {"user", "exitgroup"} /\ t \in doomed
    /\ phase' = [phase EXCEPT ![t] = IF t = p THEN "zombie" ELSE "free"]
    /\ group' = [group EXCEPT ![t] = IF t = p THEN p ELSE NoTid]
    /\ doomed' = doomed \ {t}
    /\ Output(c, Sample("ProcessExit", p, t, 0, code[t]))
    /\ UNCHANGED <<code, born>>

\* The parent reaps a zombie whose threads are all gone: its id is free again.
Reap(p) ==
    /\ phase[p] = "zombie"
    /\ Living(p) = {}
    /\ phase' = [phase EXCEPT ![p] = "free"]
    /\ group' = [group EXCEPT ![p] = NoTid]
    /\ UNCHANGED <<code, doomed, born, rings>>

KernelNext ==
    \/ \E p \in Pids : Fork(p) \/ Kill(p) \/ Reap(p)
    \/ \E t, w \in Tids : Clone(t, w)
    \/ \E t \in Tids : DeThread(t) \/ DoExitGroup(t)
    \/ \E t \in Tids, c \in CPUs :
          \/ EnterExecve(t, c) \/ ExecveFails(t, c)
          \/ ExecveCommits(t, c) \/ ExecveReturns(t, c)
          \/ Exited(t, c)
          \/ \E s \in Statuses : Exit(t, s, c) \/ EnterExitGroup(t, s, c)
=============================================================================
