---------------------------- MODULE FileTracking ----------------------------
(***************************************************************************)
(* The event loop of precd (Service.Run of collector_linux.go) for file    *)
(* records.  openat, dup and write are seen as pairs of samples, enter and *)
(* result; the service pairs them by thread id, keeps what it believes to  *)
(* be open under every (process, descriptor) in openFiles, and turns them  *)
(* into file_open and file_save rows.  It looks descriptors up in /proc    *)
(* when it handles a sample, which may be long after the sample was taken; *)
(* close, open(2), socket, pipe and fcntl are not traced at all.           *)
(*                                                                         *)
(* Every CPU has a perf ring of its own, which the service reads in order; *)
(* it may read those of the other CPUs before or after, so that samples    *)
(* of several CPUs overtake each other, and some may be lost.              *)
(***************************************************************************)
EXTENDS SaveDedup, FiniteSets

CONSTANTS
    CPUs,           \* CPUs, one perf ring each
    Pids,           \* process ids, also the ids of their leading threads
    Workers,        \* ids of further threads
    Fds,            \* file descriptors
    Files,          \* records [path, ino, regular]
    TrackedPaths,   \* paths shouldTrackFilePath accepts
    CollectOpen,    \* config collect_file_open
    ReadOpens,      \* captureReadOpens: read-only opens are traced too
    RecordResults,  \* results shouldRecordFileEvent and the filter may give
    WriteResults,   \* results WriteEvent may give (TRUE: no error)
    SelfWrites,     \* pairs (process, path) of precd writing its own log
    CheckInterval,  \* fileIdentityCheckInterval, in clock ticks
    QueueCap,       \* samples under way (bound)
    MaxDropped,     \* samples lost in a behaviour (bound)
    MaxCalls        \* starts and file system calls in a behaviour (bound)

ASSUME FileAssumption ==
    /\ CPUs # {}
    /\ Pids \subseteq Nat \ {0}
    /\ Workers \subseteq Nat \ {0}
    /\ Pids \cap Workers = {}
    /\ SavePids = Pids
    /\ Fds \subseteq Nat
    /\ \A f \in Files : f.path \in Paths /\ f.ino \in Nat \ {0} /\ f.regular \in BOOLEAN
    /\ TrackedPaths \subseteq Paths
    /\ {CollectOpen, ReadOpens} \subseteq BOOLEAN
    /\ RecordResults \subseteq BOOLEAN
    /\ WriteResults \subseteq BOOLEAN
    /\ SelfWrites \subseteq Keys
    /\ {CheckInterval, QueueCap, MaxDropped, MaxCalls} \subseteq Nat
    /\ MaxMono >= 1

VARIABLES
    group,     \* thread -> its process, 0 when the id is free
    call,      \* thread -> the system call it is in, or Idle
    zombie,    \* processes whose leader has exited
    inc,       \* process id -> how many processes had it (history)
    fdt,       \* process id -> descriptor -> open file and since when
    had,       \* every (process id, inc, fd, entry) of fdt (history)
    orphaned,  \* a worker has outlived its leader (history)
    clock,     \* kernel monotonic time
    queue,     \* samples in the rings, in the order they were taken in
    dropped,   \* samples lost
    overtaken, \* a sample was handled before an older related one (history)
    calls,     \* starts and file system calls made (bound)
    serving,   \* Run has not returned
    known,     \* processes whose start event is in pendingEvents
    pendingOpen, pendingDup, pendingWrite, \* thread -> attempt, or NoAttempt
    openFiles, \* (process, fd) -> what is believed open there, or NoState
    rows       \* file_open and file_save rows written

kernel  == <<group, call, zombie, inc, fdt, had, orphaned, clock, calls>>
channel == <<queue, dropped, overtaken>>
pending == <<pendingOpen, pendingDup, pendingWrite>>
service == <<serving, known, pendingOpen, pendingDup, pendingWrite, openFiles,
             rows, newest, recentFileSaves, lastFileSaveGC, saves>>
vars    == <<kernel, channel, service>>

Tids == Pids \cup Workers

NoFile    == [path |-> "none", ino |-> 0, regular |-> FALSE]
Closed    == [file |-> NoFile, from |-> 0, nth |-> 0]
Idle      == [op |-> "idle"]
NoAttempt == [tgid |-> 0]
NoState   == [path |-> "none", ino |-> 0, check |-> 0]
NoIno     == 0  \* fileIdentity that is not valid

\* An open file, the time and, in the order of calls, the turn it got there.
Entries  == [file : Files \cup {NoFile}, from : Nat, nth : Nat]
Attempts == {NoAttempt} \cup [tgid : Pids, file : Files]
                \cup [tgid : Pids, old : Fds, new : Fds] \cup [tgid : Pids, fd : Fds]
States   == [path : Paths \cup {NoFile.path}, ino : Nat, check : Nat]

RowSet == [kind : {"file_open", "file_save"}, pid : Pids, fd : Fds, path : Paths,
           ino : Nat, mono : Nat, inc : Nat, real : Entries, live : BOOLEAN]

TypeOK ==
    /\ DedupTypeOK
    /\ group \in [Tids -> Pids \cup {0}]
    /\ zombie \subseteq Pids
    /\ fdt \in [Pids -> [Fds -> Entries]]
    /\ {serving, orphaned, overtaken} \subseteq BOOLEAN
    /\ known \subseteq Pids
    /\ \A t \in Tids : {pendingOpen[t], pendingDup[t], pendingWrite[t]} \subseteq Attempts
    /\ openFiles \in [Pids \X Fds -> States]
    /\ rows \in Seq(RowSet)

Init ==
    /\ group = [t \in Tids |-> 0]
    /\ call = [t \in Tids |-> Idle]
    /\ zombie = {}
    /\ inc = [p \in Pids |-> 0]
    /\ fdt = [p \in Pids |-> [d \in Fds |-> Closed]]
    /\ had = {}
    /\ orphaned = FALSE
    /\ clock = 1
    /\ queue = <<>>
    /\ dropped = 0
    /\ overtaken = FALSE
    /\ calls = 0
    /\ serving = TRUE
    /\ known = {}
    /\ pendingOpen = [t \in Tids |-> NoAttempt]
    /\ pendingDup = [t \in Tids |-> NoAttempt]
    /\ pendingWrite = [t \in Tids |-> NoAttempt]
    /\ openFiles = [k \in Pids \X Fds |-> NoState]
    /\ rows = <<>>
    /\ DedupInit

-----------------------------------------------------------------------------
(* The traced processes.                                                   *)

Members(p) == {t \in Tids : group[t] = p}
Exists(p)  == p \in Pids /\ group[p] = p  \* /proc/<p> can be read
Free(t)    == group[t] = 0
Ready(t)   == group[t] # 0 /\ call[t] = Idle /\ t \notin zombie
Open(p)    == {d \in Fds : fdt[p][d] # Closed}

\* A sample of thread t, which runs on CPU c: `a' and `b' are status and
\* status2, `file' the path argument of an open.  inc, fd and real say whose
\* sample it is and what a write was really made to (history).
Sample(c, type, t, a, b, file) ==
    [cpu |-> c, type |-> type, tgid |-> group[t], tid |-> t, a |-> a, b |-> b,
     file |-> file, mono |-> clock, inc |-> inc[group[t]],
     fd |-> 0, real |-> Closed]

\* A sample goes into the ring of its CPU or, when that is full, is lost.
Emit(sample) ==
    /\ \/ Len(queue) < QueueCap /\ queue' = Append(queue, sample) /\ UNCHANGED dropped
       \/ dropped < MaxDropped /\ dropped' = dropped + 1 /\ UNCHANGED queue
    /\ UNCHANGED overtaken

Silent == UNCHANGED channel

Entry(f) == [file |-> f, from |-> clock, nth |-> calls]

\* The descriptors of process p become those of `table'.
Install(p, n, table) ==
    /\ fdt' = [fdt EXCEPT ![p] = table]
    /\ had' = had \cup {[pid |-> p, inc |-> n, fd |-> d, entry |-> table[d]] :
                            d \in {e \in Fds : table[e] # Closed}}

FileCall == calls < MaxCalls /\ calls' = calls + 1

\* fork and exec of a process, maybe with a descriptor it inherits.  Whether
\* its proc_start event is remembered is up to ProcTracking.
Start(c, p) ==
    /\ Free(p)
    /\ FileCall
    /\ group' = [group EXCEPT ![p] = p]
    /\ inc' = [inc EXCEPT ![p] = @ + 1]
    /\ \E f \in Files \cup {NoFile} :
          Install(p, inc[p] + 1,
                  [d \in Fds |-> IF f # NoFile /\ \A e \in Fds : d <= e
                                 THEN Entry(f) ELSE Closed])
    /\ Emit([cpu |-> c, type |-> "Exec", tgid |-> p, tid |-> p, a |-> 0, b |-> 0,
             file |-> NoFile, mono |-> clock, inc |-> inc'[p],
             fd |-> 0, real |-> Closed])
    /\ UNCHANGED <<call, zombie, clock, orphaned>>

Clone(t, w) ==
    /\ Ready(t)
    /\ w \in Workers
    /\ Free(w)
    /\ group' = [group EXCEPT ![w] = group[t]]
    /\ UNCHANGED <<call, zombie, inc, fdt, had, clock, calls, orphaned>>
    /\ Silent

\* sched_process_exit of a thread between two calls.
ThreadExit(c, t) ==
    LET p == group[t] IN
    /\ Ready(t)
    /\ Emit(Sample(c, "ProcessExit", t, 0, 0, NoFile))
    /\ IF t = p THEN zombie' = zombie \cup {p} /\ UNCHANGED group
                ELSE group' = [group EXCEPT ![t] = 0] /\ UNCHANGED zombie
    /\ IF Members(p) \ zombie = {t}
       THEN fdt' = [fdt EXCEPT ![p] = [d \in Fds |-> Closed]]
       ELSE UNCHANGED fdt
    /\ orphaned' = (orphaned \/ (t = p /\ Members(p) # {p}))
    /\ UNCHANGED <<call, inc, had, clock, calls>>

Reap(p) ==
    /\ Members(p) = {p}
    /\ p \in zombie
    /\ group' = [group EXCEPT ![p] = 0]
    /\ zombie' = zombie \ {p}
    /\ UNCHANGED <<call, inc, fdt, had, clock, calls, orphaned>>
    /\ Silent

\* sys_enter_openat: read-only opens are dropped in the kernel unless an early
\* filter bounds them.
OpenEnter(c, t, f, writes) ==
    /\ Ready(t)
    /\ FileCall
    /\ call' = [call EXCEPT ![t] = [op |-> "open", file |-> f]]
    /\ IF writes \/ ReadOpens THEN Emit(Sample(c, "OpenEnter", t, 0, 0, f)) ELSE Silent
    /\ UNCHANGED <<group, zombie, inc, fdt, had, clock, orphaned>>

\* sys_exit_openat: a descriptor or an error.
OpenReturn(c, t) ==
    LET p == group[t] IN
    /\ call[t].op = "open"
    /\ call' = [call EXCEPT ![t] = Idle]
    /\ \/ \E d \in Fds \ Open(p) :
             /\ \A e \in Fds : e < d => e \in Open(p)
             /\ Install(p, inc[p], [fdt[p] EXCEPT ![d] = Entry(call[t].file)])
             /\ Emit(Sample(c, "OpenResult", t, d, 0, NoFile))
       \/ UNCHANGED <<fdt, had>> /\ Emit(Sample(c, "OpenResult", t, -1, 0, NoFile))
    /\ UNCHANGED <<group, zombie, inc, clock, calls, orphaned>>

\* dup2 and dup3, of an open descriptor unless another thread closes it.
DupEnter(c, t, old, new) ==
    /\ Ready(t)
    /\ FileCall
    /\ old \in Open(group[t]) \ {new}
    /\ call' = [call EXCEPT ![t] = [op |-> "dup", old |-> old, new |-> new]]
    /\ Emit(Sample(c, "DupEnter", t, old, new, NoFile))
    /\ UNCHANGED <<group, zombie, inc, fdt, had, clock, orphaned>>

DupReturn(c, t) ==
    LET p == group[t] IN
    /\ call[t].op = "dup"
    /\ call' = [call EXCEPT ![t] = Idle]
    /\ IF call[t].old \in Open(p)
       THEN /\ Install(p, inc[p], [fdt[p] EXCEPT ![call[t].new] =
                              Entry(fdt[p][call[t].old].file)])
            /\ Emit(Sample(c, "DupResult", t, call[t].new, 0, NoFile))
       ELSE UNCHANGED <<fdt, had>> /\ Emit(Sample(c, "DupResult", t, -1, 0, NoFile))
    /\ UNCHANGED <<group, zombie, inc, clock, calls, orphaned>>

\* The write family, on an open descriptor looked up on entry.
WriteEnter(c, t, d) ==
    /\ Ready(t)
    /\ FileCall
    /\ d \in Open(group[t])
    /\ call' = [call EXCEPT ![t] = [op |-> "write", fd |-> d, entry |-> fdt[group[t]][d]]]
    /\ Emit(Sample(c, "WriteEnter", t, d, 0, NoFile))
    /\ UNCHANGED <<group, zombie, inc, fdt, had, clock, orphaned>>

\* What was written to counts as known when the descriptor still holds it.
WriteReturn(c, t) ==
    LET d == call[t].fd IN
    /\ call[t].op = "write"
    /\ call' = [call EXCEPT ![t] = Idle]
    /\ \E bytes \in {-1, 1} :
          Emit([Sample(c, "WriteResult", t, bytes, 0, NoFile) EXCEPT
                   !.fd = d,
                   !.real = IF fdt[group[t]][d] = call[t].entry THEN call[t].entry ELSE Closed])
    /\ UNCHANGED <<group, zombie, inc, fdt, had, clock, calls, orphaned>>

\* close: not traced.
Close(t, d) ==
    LET p == group[t] IN
    /\ Ready(t)
    /\ FileCall
    /\ d \in Open(p)
    /\ Install(p, inc[p], [fdt[p] EXCEPT ![d] = Closed])
    /\ UNCHANGED <<group, call, zombie, inc, clock, orphaned>>
    /\ Silent

\* open(2), openat2, socket, pipe, fcntl(F_DUPFD)...: not traced either.
OpenUntraced(t, f) ==
    LET p == group[t] IN
    /\ Ready(t)
    /\ FileCall
    /\ \E d \in Fds \ Open(p) :
          /\ \A e \in Fds : e < d => e \in Open(p)
          /\ Install(p, inc[p], [fdt[p] EXCEPT ![d] = Entry(f)])
    /\ UNCHANGED <<group, call, zombie, inc, clock, orphaned>>
    /\ Silent

Tick ==
    /\ clock < MaxMono
    /\ clock' = clock + 1
    /\ UNCHANGED <<group, call, zombie, inc, fdt, had, calls, orphaned>>
    /\ Silent

KernelNext ==
    \/ Tick
    \/ \E p \in Pids : Reap(p) \/ \E c \in CPUs : Start(c, p)
    \/ \E t, w \in Tids : Clone(t, w)
    \/ \E c \in CPUs, t \in Tids :
          ThreadExit(c, t) \/ OpenReturn(c, t) \/ DupReturn(c, t) \/ WriteReturn(c, t)
    \/ \E t \in Tids, f \in Files :
          OpenUntraced(t, f) \/ \E c \in CPUs, writes \in BOOLEAN : OpenEnter(c, t, f, writes)
    \/ \E t \in Tids, d \in Fds :
          \/ Close(t, d)
          \/ \E c \in CPUs : WriteEnter(c, t, d) \/ \E e \in Fds : DupEnter(c, t, d, e)

-----------------------------------------------------------------------------
(* The service.                                                            *)

\* Samples of one process or of one thread; the ids may have been used again.
Related(r, s) == r.tgid = s.tgid \/ r.tid = s.tid

\* rd.Read returns the oldest sample of some ring: queue[i], of the given type.
Take(i, type) ==
    /\ serving
    /\ queue[i].type = type
    /\ \A j \in 1 .. i - 1 : queue[j].cpu # queue[i].cpu
    /\ queue' = [j \in 1 .. Len(queue) - 1 |-> IF j < i THEN queue[j] ELSE queue[j + 1]]
    /\ overtaken' = (overtaken \/ \E j \in 1 .. i - 1 : Related(queue[j], queue[i]))
    /\ UNCHANGED <<kernel, dropped>>

\* shouldTrackFilePath
ShouldTrack(path) == path \in TrackedPaths

\* resolveRegularFile: what /proc says is open now; the descriptors of a
\* leader that has exited cannot be read.
Resolvable(p, d) == Exists(p) /\ p \notin zombie /\ fdt[p][d].file.regular
Resolved(p, d) == fdt[p][d].file

\* buildFileBaseEvent: the remembered start event, or else /proc.
HasBase(p) == p \in known \/ Exists(p)

\* matchesConfiguredFileScope and -Source, the log file of precd itself, the
\* filter; then WriteEvent, whose error makes Run return.
Record(row) ==
    \/ /\ FALSE \in RecordResults \/ <<row.pid, row.path>> \in SelfWrites
       /\ UNCHANGED <<rows, serving>>
    \/ /\ TRUE \in RecordResults /\ <<row.pid, row.path>> \notin SelfWrites
       /\ \/ TRUE \in WriteResults /\ rows' = Append(rows, row) /\ UNCHANGED serving
          \/ FALSE \in WriteResults /\ serving' = FALSE /\ UNCHANGED rows

Row(kind, r, p, d, path, ino) ==
    [kind |-> kind, pid |-> p, fd |-> d, path |-> path, ino |-> ino,
     mono |-> r.mono, inc |-> r.inc, real |-> r.real,
     live |-> group[p] = p /\ inc[p] = r.inc]

\* rememberExecEvent; an exec that is filtered or cannot be built changes nothing.
HandleExec(i) ==
    /\ Take(i, "Exec")
    /\ known' \in {known, known \cup {queue[i].tgid}}
    /\ UNCHANGED <<serving, pending, openFiles, rows, dedup>>

HandleOpenEnter(i) ==
    LET r == queue[i] IN
    /\ Take(i, "OpenEnter")
    /\ pendingOpen' = [pendingOpen EXCEPT ![r.tid] = [tgid |-> r.tgid, file |-> r.file]]
    /\ UNCHANGED <<serving, known, pendingDup, pendingWrite, openFiles, rows, dedup>>

\* Every openat result ends the thread's attempt.
TakeOpen(i) ==
    /\ Take(i, "OpenResult")
    /\ pendingOpen' = [pendingOpen EXCEPT ![queue[i].tid] = NoAttempt]
    /\ UNCHANGED <<known, pendingDup, pendingWrite, dedup>>

\* The open failed, or its process is gone and nothing is known of it.
OpenDropped(i) ==
    LET r == queue[i] IN
    /\ TakeOpen(i)
    /\ r.a >= 0 => /\ pendingOpen[r.tid] # NoAttempt
                   /\ ~HasBase(pendingOpen[r.tid].tgid)
    /\ UNCHANGED <<serving, openFiles, rows>>

\* rememberOpenFileFallback: without an attempt or with a path that is not
\* tracked, the descriptor is looked up.
Fallback(k) ==
    IF Resolvable(k[1], k[2]) /\ HasBase(k[1])
    THEN openFiles' = [openFiles EXCEPT ![k] =
                          [path |-> Resolved(k[1], k[2]).path,
                           ino |-> Resolved(k[1], k[2]).ino, check |-> 0]]
    ELSE UNCHANGED openFiles

OpenFallback(i) ==
    LET r == queue[i] IN
    /\ TakeOpen(i)
    /\ r.a >= 0
    /\ \/ pendingOpen[r.tid] = NoAttempt
       \/ HasBase(pendingOpen[r.tid].tgid) /\ ~ShouldTrack(pendingOpen[r.tid].file.path)
    /\ Fallback(<<r.tgid, r.a>>)
    /\ UNCHANGED <<serving, rows>>

\* rememberOpenFile: the path is the argument of the call, the identity is the
\* one /proc shows.
RememberOpenFile(k, path, ino) ==
    openFiles' = [openFiles EXCEPT ![k] = [path |-> path, ino |-> ino, check |-> 0]]

OpenTracked(i) ==
    LET r       == queue[i]
        attempt == pendingOpen[r.tid]
        ino     == IF Resolvable(attempt.tgid, r.a)
                   THEN Resolved(attempt.tgid, r.a).ino ELSE NoIno
    IN  /\ TakeOpen(i)
        /\ r.a >= 0
        /\ attempt # NoAttempt
        /\ HasBase(attempt.tgid)
        /\ ShouldTrack(attempt.file.path)
        /\ RememberOpenFile(<<r.tgid, r.a>>, attempt.file.path, ino)
        /\ IF CollectOpen
           THEN Record(Row("file_open", r, attempt.tgid, r.a, attempt.file.path, ino))
           ELSE UNCHANGED <<rows, serving>>

HandleDupEnter(i) ==
    LET r == queue[i] IN
    /\ Take(i, "DupEnter")
    /\ pendingDup' = [pendingDup EXCEPT ![r.tid] =
                         [tgid |-> r.tgid, old |-> r.a, new |-> r.b]]
    /\ UNCHANGED <<serving, known, pendingOpen, pendingWrite, openFiles, rows, dedup>>

\* rememberDuplicatedFile: the state of the old descriptor, or a lookup of it.
RememberDuplicatedFile(attempt) ==
    LET p == attempt.tgid
        old == openFiles[<<p, attempt.old>>]
        new == <<p, attempt.new>>
        f == Resolved(p, attempt.old)
    IN  IF old # NoState
        THEN openFiles' = [openFiles EXCEPT ![new] = old]
        ELSE IF Resolvable(p, attempt.old) /\ HasBase(p)
        THEN openFiles' = [openFiles EXCEPT ![new] =
                              [path |-> f.path, ino |-> f.ino, check |-> 0]]
        ELSE UNCHANGED openFiles

HandleDupResult(i) ==
    LET r == queue[i] IN
    /\ Take(i, "DupResult")
    /\ pendingDup' = [pendingDup EXCEPT ![r.tid] = NoAttempt]
    /\ IF r.a >= 0 /\ pendingDup[r.tid] # NoAttempt
       THEN RememberDuplicatedFile(pendingDup[r.tid])
       ELSE UNCHANGED openFiles
    /\ UNCHANGED <<serving, known, pendingOpen, pendingWrite, rows, dedup>>

HandleWriteEnter(i) ==
    LET r == queue[i] IN
    /\ Take(i, "WriteEnter")
    /\ pendingWrite' = [pendingWrite EXCEPT ![r.tid] = [tgid |-> r.tgid, fd |-> r.a]]
    /\ UNCHANGED <<serving, known, pendingOpen, pendingDup, openFiles, rows, dedup>>

TakeWrite(i) ==
    /\ Take(i, "WriteResult")
    /\ pendingWrite' = [pendingWrite EXCEPT ![queue[i].tid] = NoAttempt]
    /\ UNCHANGED <<known, pendingOpen, pendingDup>>

\* resolveTrackedRegularFilePath: what is believed open under k is trusted
\* until its identity is due for a check, forever if it has none.
NeedsCheck_Scheduled(state, mono) ==
    /\ state.ino # NoIno
    /\ state.check # 0
    /\ mono < state.check \/ mono - state.check >= CheckInterval

NeedsCheck(state, mono) ==
    /\ state.ino # NoIno
    /\ \/ state.check = 0 \/ mono < state.check
       \/ mono - state.check >= CheckInterval

Trusted(k, mono) ==
    /\ openFiles[k] # NoState
    /\ ShouldTrack(openFiles[k].path)
    /\ ~NeedsCheck(openFiles[k], mono)

\* The file a write is attributed to: none or one.
Target(k, mono) ==
    LET f == Resolved(k[1], k[2]) IN
    IF Trusted(k, mono) THEN {[path |-> openFiles[k].path, ino |-> openFiles[k].ino]}
    ELSE IF Resolvable(k[1], k[2]) /\ ShouldTrack(f.path)
    THEN {[path |-> f.path, ino |-> f.ino]} ELSE {}

\* A successful check of a state with an identity renews the state.
Renew(k, mono) ==
    IF ~Trusted(k, mono) /\ openFiles[k].ino # NoIno
    THEN openFiles' = [openFiles EXCEPT ![k] =
             IF Target(k, mono) = {} THEN @
             ELSE [path |-> Resolved(k[1], k[2]).path,
                   ino |-> Resolved(k[1], k[2]).ino, check |-> mono]]
    ELSE UNCHANGED openFiles

\* A write that failed, has no attempt or cannot be attributed, and one of
\* precd to its own log.
WriteDropped(i) ==
    LET r       == queue[i]
        attempt == pendingWrite[r.tid]
        k       == <<attempt.tgid, attempt.fd>>
    IN  /\ TakeWrite(i)
        /\ IF r.a <= 0 \/ attempt = NoAttempt
           THEN UNCHANGED openFiles
           ELSE /\ \/ Target(k, r.mono) = {}
                   \/ ~HasBase(attempt.tgid)
                   \/ \E f \in Target(k, r.mono) : <<attempt.tgid, f.path>> \in SelfWrites
                /\ Renew(k, r.mono)
        /\ UNCHANGED <<serving, rows, dedup>>

\* A write that is attributed to a file: it is judged for repetition first,
\* for scope, source and filter afterwards.
WriteSaved(i) ==
    LET r       == queue[i]
        attempt == pendingWrite[r.tid]
        k       == <<attempt.tgid, attempt.fd>>
    IN  /\ TakeWrite(i)
        /\ r.a > 0
        /\ attempt # NoAttempt
        /\ HasBase(attempt.tgid)
        /\ Renew(k, r.mono)
        /\ \E f \in Target(k, r.mono) :
              LET save == <<attempt.tgid, f.path>> IN
              /\ save \notin SelfWrites
              /\ \/ /\ Suppress(save, r.mono)
                    /\ UNCHANGED <<rows, serving>>
                 \/ /\ PassAll(save, r.mono) \/ Accept(save, r.mono)
                    /\ Record(Row("file_save", r, attempt.tgid, attempt.fd, f.path, f.ino))

\* handleProcessExit, file part: dropFileStateByTGID.
DropFileState_KeepsOpen(p) ==
    /\ pendingOpen' = [t \in Tids |-> IF pendingOpen[t].tgid = p THEN NoAttempt ELSE pendingOpen[t]]
    /\ pendingDup' = [t \in Tids |-> IF pendingDup[t].tgid = p THEN NoAttempt ELSE pendingDup[t]]
    /\ pendingWrite' = [t \in Tids |-> IF pendingWrite[t].tgid = p THEN NoAttempt ELSE pendingWrite[t]]
    /\ Forget(p)
    /\ UNCHANGED openFiles

DropFileState_KeepsSaves(p) ==
    /\ pendingOpen' = [t \in Tids |-> IF pendingOpen[t].tgid = p THEN NoAttempt ELSE pendingOpen[t]]
    /\ pendingDup' = [t \in Tids |-> IF pendingDup[t].tgid = p THEN NoAttempt ELSE pendingDup[t]]
    /\ pendingWrite' = [t \in Tids |-> IF pendingWrite[t].tgid = p THEN NoAttempt ELSE pendingWrite[t]]
    /\ openFiles' = [k \in Pids \X Fds |-> IF k[1] = p THEN NoState ELSE openFiles[k]]
    /\ UNCHANGED dedup

DropFileState(p) ==
    /\ pendingOpen' = [t \in Tids |-> IF pendingOpen[t].tgid = p THEN NoAttempt ELSE pendingOpen[t]]
    /\ pendingDup' = [t \in Tids |-> IF pendingDup[t].tgid = p THEN NoAttempt ELSE pendingDup[t]]
    /\ pendingWrite' = [t \in Tids |-> IF pendingWrite[t].tgid = p THEN NoAttempt ELSE pendingWrite[t]]
    /\ openFiles' = [k \in Pids \X Fds |-> IF k[1] = p THEN NoState ELSE openFiles[k]]
    /\ Forget(p)

HandleProcessExit(i) ==
    LET r == queue[i] IN
    /\ Take(i, "ProcessExit")
    /\ IF r.tid = r.tgid
       THEN DropFileState(r.tgid) /\ known' = known \ {r.tgid}
       ELSE UNCHANGED <<known, pending, openFiles, dedup>>
    /\ UNCHANGED <<serving, rows>>

ServiceNext ==
    \E i \in DOMAIN queue :
        \/ HandleExec(i) \/ HandleOpenEnter(i)
        \/ OpenDropped(i) \/ OpenFallback(i) \/ OpenTracked(i)
        \/ HandleDupEnter(i) \/ HandleDupResult(i)
        \/ HandleWriteEnter(i) \/ WriteDropped(i) \/ WriteSaved(i)
        \/ HandleProcessExit(i)

\* Once Run has returned nothing is traced any more.
Next == (serving /\ KernelNext /\ UNCHANGED service) \/ ServiceNext

Spec == Init /\ [][Next]_vars

-----------------------------------------------------------------------------
(* Properties.                                                             *)

Saves == {i \in DOMAIN rows : rows[i].kind = "file_save"}

\* What the process incarnation rows[i] is about has had open under d.
HadOpen(i, d) ==
    {h.entry : h \in {g \in had : /\ g.pid = rows[i].pid /\ g.inc = rows[i].inc
                                  /\ g.fd = d}}

\* What the file records of a process rest on: none of its samples was lost, and
\* those of one process or thread were handled in the order they were taken in,
\* as they are on one CPU; those of different processes may be in any order.
Heard == dropped = 0 /\ ~overtaken

\* A file_save row of a process that still lives names a path this very process
\* has had open: never one of an earlier user of the pid, however late the
\* samples are handled (dropFileStateByTGID; main threads end last, no sample
\* lost, none handled before an older one of its process or thread).
AttributedToOwnFile ==
    ~orphaned /\ Heard =>
        \A i \in Saves : rows[i].live =>
            \E d \in Fds : \E e \in HadOpen(i, d) : e.file.path = rows[i].path

\* When nothing the service knows of a descriptor is older than the check
\* interval, a file_save row identifies the file written, or one opened there
\* since (fileIdentityCheckInterval; no sample lost, none handled before an
\* older one of its process or thread, no other thread replaced the descriptor
\* during the write).
FreshAfterInterval ==
    Heard =>
        \A i \in Saves :
            /\ rows[i].live
            /\ rows[i].ino # NoIno
            /\ rows[i].real # Closed
            /\ rows[i].mono - rows[i].real.from >= CheckInterval
            => \E e \in HadOpen(i, rows[i].fd) :
                  /\ e.file.path = rows[i].path /\ e.file.ino = rows[i].ino
                  /\ e.nth >= rows[i].real.nth

\* Nothing to handle and no process left.
Quiet == serving /\ queue = <<>> /\ \A t \in Tids : Free(t)

\* When every process is gone and its samples are handled, nothing is kept of
\* its files: the maps do not grow with the processes seen (main threads end
\* last, no sample lost, none handled before an older one of its process or
\* thread: an open read after the exit of its process is kept for good).
NothingKept ==
    ~orphaned /\ Heard /\ Quiet =>
        /\ known = {}
        /\ \A t \in Tids : {pendingOpen[t], pendingDup[t], pendingWrite[t]} = {NoAttempt}
        /\ \A k \in Pids \X Fds : openFiles[k] = NoState
        /\ \A k \in Keys : recentFileSaves[k] = Absent
=============================================================================
