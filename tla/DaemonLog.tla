------------------------------ MODULE DaemonLog ------------------------------
(***************************************************************************)
(* The life of precd around its log: run of cmd/precd/main.go with the     *)
(* lock of singleton_lock.go, its signal goroutine and its deferred calls, *)
(* and JSONLWriter of logger/jsonl.go, which the event loop writes through *)
(* and the signal goroutine reopens.  A method of JSONLWriter holds its    *)
(* mutex from beginning to end and is one step, but a crash may cut a      *)
(* write short.                                                            *)
(*                                                                         *)
(* Around it (external): logrotate renames the log, creates a new one and  *)
(* sends SIGHUP to the service; other processes send SIGHUP and SIGTERM;   *)
(* daemons are started while others run, crash, and are started again.     *)
(***************************************************************************)
EXTENDS Integers, Sequences, FiniteSets

CONSTANTS
    Daemons,     \* precd processes, one at a time under each name
    Service,     \* the one that systemd starts and logrotate signals
    MaxRecords,  \* records written (bound)
    MaxFiles,    \* log files (bound)
    MaxStarts,   \* starts of daemons (bound)
    MaxSignals,  \* signals that are not logrotate's (bound)
    MaxFailures  \* crashes and calls that fail (bound)

Nobody == "nobody"

ASSUME DaemonAssumption ==
    /\ Service \in Daemons
    /\ Nobody \notin Daemons
    /\ {MaxRecords, MaxFiles, MaxStarts, MaxSignals, MaxFailures} \subseteq Nat

VARIABLES
    pc,        \* daemon -> where run is
    handler,   \* daemon -> its signal goroutine
    sigs,      \* daemon -> sigCh
    stop,      \* daemons whose stop channel is closed
    holder,    \* daemon that holds the flock, or Nobody
    fd,        \* daemon -> the file its writer has open, or NoFile
    recent,    \* daemons whose lastSyncAt is less than logSyncInterval ago
    files,     \* log files in the order they were made
    name,      \* the file log_path names, or NoFile
    rotating,  \* logrotate has yet to create a file or to signal
    starts, signals, failures, \* so far (bounds)
    written,   \* records written so far
    acked,     \* records whose WriteEvent succeeded (history)
    dirty,     \* files whose writer crashed or could not sync (history)
    stuck      \* the service could not open the log for a SIGHUP (history)

daemon  == <<pc, handler, sigs, stop>>
writer  == <<fd, recent, files>>
history == <<acked, dirty, stuck>>
vars    == <<daemon, holder, writer, name, rotating, starts, signals, failures,
             written, history>>

NoFile  == 0
SigCap  == 2

\* What an interrupted write leaves: a part of a line or, in the gz and zstd
\* formats, of a frame.  What it costs a reader is ReadableLines, ReadableFrames.
Fragment == 0
Entries  == 0 .. MaxRecords

TypeOK ==
    /\ pc \in [Daemons -> {"off", "lock", "open", "notify", "running", "close", "unlock",
                        "exit"}]
    /\ handler \in [Daemons -> {"none", "select", "reopen", "done"}]
    /\ sigs \in [Daemons -> Seq({"HUP", "TERM"})]
    /\ \A d \in Daemons : Len(sigs[d]) <= SigCap
    /\ stop \subseteq Daemons
    /\ holder \in Daemons \cup {Nobody}
    /\ files \in Seq([data : Seq(Entries), synced : Nat])
    /\ \A f \in DOMAIN files : files[f].synced <= Len(files[f].data)
    /\ {name} \cup {fd[d] : d \in Daemons} \subseteq DOMAIN files \cup {NoFile}
    /\ recent \subseteq Daemons
    /\ rotating \in {"no", "create", "signal"}
    /\ acked \subseteq 1 .. written
    /\ dirty \subseteq DOMAIN files
    /\ stuck \in BOOLEAN

Init ==
    /\ pc = [d \in Daemons |-> "off"]
    /\ handler = [d \in Daemons |-> "none"]
    /\ sigs = [d \in Daemons |-> <<>>]
    /\ stop = {}
    /\ holder = Nobody
    /\ fd = [d \in Daemons |-> NoFile]
    /\ recent = {}
    /\ files = <<>>
    /\ name = NoFile
    /\ rotating = "no"
    /\ starts = 0
    /\ signals = 0
    /\ failures = 0
    /\ written = 0
    /\ acked = {}
    /\ dirty = {}
    /\ stuck = FALSE

Goto(d, where) == pc' = [pc EXCEPT ![d] = where]
Fails == failures < MaxFailures /\ failures' = failures + 1

EmptyFile == [data |-> <<>>, synced |-> 0]
Synced(f) == [files EXCEPT ![f].synced = Len(files[f].data)]

-----------------------------------------------------------------------------
(* The environment.                                                        *)

IntervalPasses(d) ==
    /\ d \in recent
    /\ recent' = recent \ {d}
    /\ UNCHANGED <<daemon, holder, fd, files, name, rotating, starts, signals, failures, written,
                   history>>

\* logrotate: rename, then create, then SIGHUP.
Rename ==
    /\ rotating = "no"
    /\ name # NoFile
    /\ Len(files) < MaxFiles
    /\ name' = NoFile
    /\ rotating' = "create"
    /\ UNCHANGED <<daemon, holder, writer, starts, signals, failures, written, history>>

Create ==
    /\ rotating = "create"
    /\ rotating' = "signal"
    /\ IF name = NoFile
       THEN files' = Append(files, EmptyFile) /\ name' = Len(files) + 1
       ELSE UNCHANGED <<files, name>>
    /\ UNCHANGED <<daemon, holder, fd, recent, starts, signals, failures, written, history>>

\* The process is gone: its goroutines, its files and its lock with it.
Die(d) ==
    /\ Goto(d, "off")
    /\ handler' = [handler EXCEPT ![d] = "none"]
    /\ sigs' = [sigs EXCEPT ![d] = <<>>]
    /\ stop' = stop \ {d}
    /\ fd' = [fd EXCEPT ![d] = NoFile]
    /\ recent' = recent \ {d}
    /\ holder' = IF holder = d THEN Nobody ELSE holder

\* A signal is put into sigCh if it has room; while no channel is registered
\* it ends the process.
Deliver(d, sig) ==
    CASE pc[d] = "running" ->
            /\ sigs' = IF Len(sigs[d]) < SigCap
                       THEN [sigs EXCEPT ![d] = Append(@, sig)] ELSE sigs
            /\ UNCHANGED <<pc, handler, stop, fd, recent, holder>>
      [] pc[d] \in {"lock", "open", "notify", "close", "unlock", "exit"} -> Die(d)
      [] OTHER -> UNCHANGED <<daemon, fd, recent, holder>>

\* What the files of a daemon that ends without closing them are.
Abandoned(d) == {fd[d]} \ {NoFile}

Signal(d, sig) ==
    /\ pc[d] # "off"
    /\ signals < MaxSignals
    /\ signals' = signals + 1
    /\ Deliver(d, sig)
    /\ dirty' = IF pc'[d] = "off" THEN dirty \cup Abandoned(d) ELSE dirty
    /\ UNCHANGED <<files, name, rotating, starts, failures, written, acked, stuck>>

PostRotate ==
    /\ rotating = "signal"
    /\ rotating' = "no"
    /\ Deliver(Service, "HUP")
    /\ dirty' = IF pc'[Service] = "off" THEN dirty \cup Abandoned(Service) ELSE dirty
    /\ UNCHANGED <<files, name, starts, signals, failures, written, acked, stuck>>

\* SIGKILL, a panic: a write under way leaves a fragment.
Crash(d) ==
    /\ pc[d] # "off"
    /\ Fails
    /\ Die(d)
    /\ dirty' = dirty \cup Abandoned(d)
    /\ \/ UNCHANGED files
       \/ /\ pc[d] = "running"
          /\ files' = [files EXCEPT ![fd[d]].data = Append(@, Fragment)]
    /\ UNCHANGED <<name, rotating, starts, signals, written, acked, stuck>>

-----------------------------------------------------------------------------
(* run: the start.                                                         *)

Start(d) ==
    /\ pc[d] = "off"
    /\ starts < MaxStarts
    /\ starts' = starts + 1
    /\ Goto(d, "lock")
    /\ UNCHANGED <<handler, sigs, stop, holder, writer, name, rotating, signals, failures,
                   written, history>>

\* acquireSingletonLock: LOCK_EX without waiting.
Acquire_Shared(d) ==
    /\ pc[d] = "lock"
    /\ Goto(d, "open")
    /\ holder' = IF holder = Nobody THEN d ELSE holder
    /\ UNCHANGED <<handler, sigs, stop, writer, name, rotating, starts, signals, failures,
                   written, history>>

Acquire(d) ==
    /\ pc[d] = "lock"
    /\ IF holder = Nobody THEN holder' = d /\ Goto(d, "open")
                          ELSE UNCHANGED holder /\ Goto(d, "off")
    /\ UNCHANGED <<handler, sigs, stop, writer, name, rotating, starts, signals, failures,
                   written, history>>

\* safefile.OpenAppend creates the file if there is none.
OpenAppend(d) ==
    /\ fd' = [fd EXCEPT ![d] = IF name = NoFile THEN Len(files) + 1 ELSE name]
    /\ name' = fd'[d]

\* NewJSONLWriter; an error ends run.
OpenLog_Truncates(d) ==
    /\ pc[d] = "open"
    /\ OpenAppend(d)
    /\ files' = IF name = NoFile THEN Append(files, EmptyFile)
                                 ELSE [files EXCEPT ![name] = EmptyFile]
    /\ Goto(d, "notify")
    /\ UNCHANGED <<handler, sigs, stop, holder, recent, rotating, starts, signals, failures,
                   written, history>>

OpenLog(d) ==
    /\ pc[d] = "open"
    /\ \/ /\ OpenAppend(d)
          /\ files' = IF name = NoFile THEN Append(files, EmptyFile) ELSE files
          /\ Goto(d, "notify")
          /\ UNCHANGED failures
       \/ /\ Fails
          /\ Goto(d, "unlock")
          /\ UNCHANGED <<fd, name, files>>
    /\ UNCHANGED <<handler, sigs, stop, holder, recent, rotating, starts, signals,
                   written, history>>

\* signal.Notify and the signal goroutine; NewService may fail before.
Notify(d) ==
    /\ pc[d] = "notify"
    /\ \/ /\ Goto(d, "running")
          /\ handler' = [handler EXCEPT ![d] = "select"]
          /\ UNCHANGED failures
       \/ Fails /\ Goto(d, "close") /\ UNCHANGED handler
    /\ UNCHANGED <<sigs, stop, holder, writer, name, rotating, starts, signals, written, history>>

-----------------------------------------------------------------------------
(* The writer.                                                             *)

\* syncIfDue
Due(d) == d \notin recent

\* WriteEvent by the event loop: an error makes Run return.
WriteEvent(d) ==
    LET f    == fd[d]
        more == [files EXCEPT ![f].data = Append(@, written + 1)]
    IN  /\ pc[d] = "running"
        /\ written < MaxRecords
        /\ written' = written + 1
        /\ files' = IF Due(d) THEN [more EXCEPT ![f].synced = Len(more[f].data)] ELSE more
        /\ recent' = recent \cup {d}
        /\ acked' = acked \cup {written + 1}
        /\ UNCHANGED <<daemon, holder, fd, name, rotating, starts, signals, failures, dirty, stuck>>

\* Nothing of the line or frame is written, or a part, or all of it and the sync
\* fails.
WriteEventFails(d) ==
    LET f == fd[d] IN
    /\ pc[d] = "running"
    /\ written < MaxRecords
    /\ written' = written + 1
    /\ Fails
    /\ Goto(d, "close")
    /\ \/ UNCHANGED files
       \/ files' = [files EXCEPT ![f].data = Append(@, Fragment)]
       \/ Due(d) /\ files' = [files EXCEPT ![f].data = Append(@, written + 1)]
    /\ UNCHANGED <<handler, sigs, stop, holder, fd, recent, name, rotating, starts, signals,
                   history>>

\* Reopen by the signal goroutine.  A writer that is closed stays closed; one
\* that cannot open the log keeps its file.
Reopen_Closed(d) ==
    /\ name # NoFile
    /\ OpenAppend(d)
    /\ files' = IF fd[d] = NoFile THEN files ELSE Synced(fd[d])
    /\ recent' = recent \ {d}
    /\ UNCHANGED <<failures, dirty, stuck>>

Reopen_Unsynced(d) ==
    /\ fd[d] # NoFile
    /\ OpenAppend(d)
    /\ files' = IF name = NoFile THEN Append(files, EmptyFile) ELSE files
    /\ recent' = recent \ {d}
    /\ UNCHANGED <<failures, dirty, stuck>>

Reopen(d) ==
    \/ /\ fd[d] = NoFile
       /\ UNCHANGED <<writer, name, failures, dirty, stuck>>
    \/ /\ fd[d] # NoFile
       /\ OpenAppend(d)
       /\ \/ /\ files' = IF name = NoFile THEN Append(Synced(fd[d]), EmptyFile)
                                          ELSE Synced(fd[d])
             /\ UNCHANGED <<failures, dirty>>
          \/ /\ Fails
             /\ files' = IF name = NoFile THEN Append(files, EmptyFile) ELSE files
             /\ dirty' = dirty \cup {fd[d]}
       /\ recent' = recent \ {d}
       /\ UNCHANGED stuck
    \/ /\ fd[d] # NoFile
       /\ Fails
       /\ stuck' = (stuck \/ d = Service)
       /\ UNCHANGED <<writer, name, dirty>>

-----------------------------------------------------------------------------
(* The signal goroutine.                                                   *)

Take(d) ==
    /\ handler[d] = "select"
    /\ sigs[d] # <<>>
    /\ sigs' = [sigs EXCEPT ![d] = Tail(@)]
    /\ IF Head(sigs[d]) = "HUP"
       THEN handler' = [handler EXCEPT ![d] = "reopen"] /\ UNCHANGED stop
       ELSE handler' = [handler EXCEPT ![d] = "done"] /\ stop' = stop \cup {d}
    /\ UNCHANGED <<pc, holder, writer, name, rotating, starts, signals, failures, written, history>>

HandleHup_Once(d) ==
    /\ handler[d] = "reopen"
    /\ handler' = [handler EXCEPT ![d] = "done"]
    /\ Reopen(d)
    /\ UNCHANGED <<pc, sigs, stop, holder, rotating, starts, signals, written, acked>>

HandleHup(d) ==
    /\ handler[d] = "reopen"
    /\ handler' = [handler EXCEPT ![d] = "select"]
    /\ Reopen(d)
    /\ UNCHANGED <<pc, sigs, stop, holder, rotating, starts, signals, written, acked>>

\* signalDone is closed.
HandlerReturns(d) ==
    /\ handler[d] = "select"
    /\ pc[d] \in {"close", "unlock", "exit"}
    /\ handler' = [handler EXCEPT ![d] = "done"]
    /\ UNCHANGED <<pc, sigs, stop, holder, writer, name, rotating, starts, signals, failures,
                   written, history>>

-----------------------------------------------------------------------------
(* run: the end.                                                           *)

\* Run returns because stop is closed, or for an error of its own; signalDone
\* is closed and sigCh is no longer registered.
RunReturns(d) ==
    /\ pc[d] = "running"
    /\ \/ d \in stop /\ UNCHANGED failures
       \/ Fails
    /\ Goto(d, "close")
    /\ UNCHANGED <<handler, sigs, stop, holder, writer, name, rotating, starts, signals,
                   written, history>>

\* w.Close, deferred after the lock and so called before it.
CloseLog(d) ==
    /\ pc[d] = "close"
    /\ Goto(d, "unlock")
    /\ fd' = [fd EXCEPT ![d] = NoFile]
    /\ \/ files' = Synced(fd[d]) /\ UNCHANGED <<dirty, failures>>
       \/ Fails /\ dirty' = dirty \cup {fd[d]} /\ UNCHANGED files
    /\ UNCHANGED <<handler, sigs, stop, holder, recent, name, rotating, starts, signals,
                   written, acked, stuck>>

\* lock.Close
Unlock(d) ==
    /\ pc[d] = "unlock"
    /\ Goto(d, "exit")
    /\ holder' = Nobody
    /\ UNCHANGED <<handler, sigs, stop, writer, name, rotating, starts, signals, failures,
                   written, history>>

\* os.Exit, whatever the signal goroutine does.
Exit(d) ==
    /\ pc[d] = "exit"
    /\ Die(d)
    /\ UNCHANGED <<files, name, rotating, starts, signals, failures, written, history>>

Shutdown(d) ==
    \/ Take(d) \/ HandleHup(d)
    \/ (d \in stop /\ RunReturns(d)) \/ CloseLog(d) \/ Unlock(d) \/ Exit(d)

Next ==
    \/ Rename \/ Create \/ PostRotate
    \/ \E d \in Daemons :
          \/ \E sig \in {"HUP", "TERM"} : Signal(d, sig)
          \/ IntervalPasses(d) \/ Crash(d) \/ Start(d) \/ Acquire(d) \/ OpenLog(d) \/ Notify(d)
          \/ WriteEvent(d) \/ WriteEventFails(d)
          \/ Take(d) \/ HandleHup(d) \/ HandlerReturns(d)
          \/ RunReturns(d) \/ CloseLog(d) \/ Unlock(d) \/ Exit(d)

Spec == Init /\ [][Next]_vars

\* Goroutines run, and logrotate finishes what it began.
FairSpec ==
    /\ Spec
    /\ WF_vars(Create) /\ WF_vars(PostRotate)
    /\ \A d \in Daemons : WF_vars(Shutdown(d))

-----------------------------------------------------------------------------
(* Properties.                                                             *)

\* README: "precd takes an exclusive flock": whoever has the log open holds
\* the lock, whatever SIGHUP does while a daemon ends (deferred calls of run,
\* "logger is closed" of Reopen).
OneWriter == \A d \in Daemons : fd[d] # NoFile => holder = d

\* Across rotations, restarts and daemons started at the same time, the files
\* in the order they were made hold the records in the order they were
\* written, none of them twice.
LogInOrder ==
    \A f, g \in DOMAIN files :
        \A i \in DOMAIN files[f].data, j \in DOMAIN files[g].data :
            /\ f < g \/ (f = g /\ i < j)
            /\ files[f].data[i] # Fragment
            /\ files[g].data[j] # Fragment
            => files[f].data[i] < files[g].data[j]

TornIn(f) == {i \in DOMAIN files[f].data : files[f].data[i] = Fragment}

\* What a list of file f shows.  A line with a fragment on it is no record, and
\* the record behind the fragment is on its line.  With a part of a frame in it
\* a stream cannot be decoded, and the list, of other files with it too, fails.
ReadableLines(f) ==
    {files[f].data[i] : i \in {j \in DOMAIN files[f].data \ TornIn(f) : j - 1 \notin TornIn(f)}}

ReadableFrames(f) ==
    IF TornIn(f) = {} THEN {files[f].data[i] : i \in DOMAIN files[f].data} ELSE {}

\* A record WriteEvent has acknowledged is not lost to a list for anything but a
\* fragment.  In an uncompressed log (compress = no) a fragment costs no more
\* than the one record behind it in its file; in the gz and zstd formats (zstd
\* is the default) it costs all that its file holds, but nothing of a file that
\* is read without it.
AckedKept ==
    LET torn  == UNION {{f} \X TornIn(f) : f \in DOMAIN files}
        plain == acked \ UNION {ReadableLines(f) : f \in DOMAIN files}
        coded == acked \ UNION {ReadableFrames(f) : f \in DOMAIN files}
    IN  /\ Cardinality(plain) <= Cardinality(torn)
        /\ \A r \in coded : \E f \in DOMAIN files :
              TornIn(f) # {} /\ \E i \in DOMAIN files[f].data : files[f].data[i] = r

\* README: "The log writer syncs approximately once per second, on close, and
\* during rotation": what a power failure could take is at the end of a file
\* that a daemon still writes to, behind the first record it wrote there; of a
\* file left for another by a SIGHUP, nothing.
LossBounded ==
    \A f \in DOMAIN files \ dirty :
        files[f].synced < Len(files[f].data) =>
            \E d \in Daemons :
                /\ fd[d] = f
                /\ pc[d] = "running" => files[f].synced > 0

\* main.go installs one channel for SIGINT, SIGTERM and SIGHUP, and a handler
\* that closes stop for the first two: once a SIGTERM is in the channel, behind
\* whatever SIGHUPs, the daemon closes its log and ends.  One that finds the
\* channel full is dropped by signal.Notify, and nothing is promised of it.
TermEnds ==
    \A d \in Daemons :
        (\E i \in DOMAIN sigs[d] : sigs[d][i] = "TERM") ~> pc[d] = "off"

\* A service that goes on running ends up writing to the file log_path names:
\* a SIGHUP that finds the channel full is not missed, as one behind it in the
\* channel is handled later (unless the log could not be opened for one).
EndsUpCurrent ==
    <>[](\/ pc[Service] # "running" \/ fd[Service] = name \/ stuck)
=============================================================================
