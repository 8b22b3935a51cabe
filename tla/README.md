# A verification project for prec

[prec](../src/README.md) records what processes do on a Linux host.  `precd` is a daemon that
attaches eBPF programs to tracepoints, reads their samples from perf rings, builds events and appends
them to a JSONL log; `prec` is a command that lists, follows and queries that log.  This directory
holds TLA+ models of both, TLC configurations that check them on small instances, and TLAPS proofs
that hold for every instance.

    tlc -workers 2 -config daemon.cfg DaemonLog     # model-check one run
    tlapm ProcTrackingProofs.tla                    # check the proofs of a module

`PROJECT.json` is the index: components, runs with their properties, the source lines every
definition models, the hazards, the mutants (plausible bugs, defined beside the definition they
replace, that make a property fail) and the theorems.  Abbreviations below: `collector` is
`internal/collector/collector_linux.go`, `event` is `internal/events/event.go`.

## 1. Inventory

### 1.1 The parts and how they interact

    kernel: threads, files ──> eBPF programs ──> perf rings ──> Service.Run ──> JSONLWriter ──> log
                                │    ▲                             │   │            ▲            │
                       process map  identity map            /proc ─┘   └─ matcher   │ Reopen     │
                                     ▲                                              │            ▼
                          refresher goroutine ── name service          signal goroutine     prec list,
                                                                         ▲   (SIGHUP)       --follow
                                                                     logrotate

| Part | Source | State it keeps | Operations |
| --- | --- | --- | --- |
| Process records | `collector`, `event` | `pendingEvents`, `pendingStatuses`, `pendingStartMono` by pid; `pendingExecve` by thread; the event sequence | handle exec, execve enter/result, exit_group/exit, process exit, lost samples |
| File records | `collector`, `event` | attempts for open, dup, write by thread; `openFiles` by (pid, fd) | handle openat, dup2/3, write pairs; drop a process |
| Suppression of repeated saves | `collector` 1667-1707 | `recentFileSaves`, `lastFileSaveGC` | judge one save; sweep; forget a process |
| Loss accounting | `collector` 900-945 | total, `pendingLostLog`, `lastLostLogAt` | handle a lost record under `log`, `ignore`, `stop` |
| Early filter, process map | `capture_filter_linux.go`, `capture_process_linux.go` | eBPF hash of tracked processes | register, look up, remove, from programs on all CPUs |
| Early filter, names | `capture_filter_refresh_linux.go`, `identity_cache.go` | identity map, current ids, cache generations | refresh, look up and store, shut down |
| Early filter, rule compiler | `capture_filter_linux.go` | none (pure) | parse rules, make a policy, emit the guards' instructions |
| Event construction | `event`, `source.go`, `event_json.go` | none | build from /proc, classify, encode |
| User-space filter and queries | `filter/`, `query/` | none (pure) | compile and match rules |
| Log writer | `logger/jsonl.go`, `safefile/` | open file, encoder, `lastSyncAt`, under one mutex | write, sync when due, reopen, close |
| Daemon life cycle | `cmd/precd` | singleton lock, signal channel, `stop` | start, SIGHUP, SIGTERM, deferred closing |
| Joining and collecting | `event_merge.go`, `event_collection.go` | `commandJoinState`, the row window | list, start-only list, compressed tail |
| Following | `tail.go`, `log_reader.go` | offset, pending line, join state | print last n, read, reopen, rewind |
| Configuration | `config/` | none at run time | load a file and those it includes, merge, validate |
| CLI, packaging | `cli/`, `packaging/` | none at run time | turn flags into queries, format, install |

`Service.Run` is one goroutine; it shares the log writer with the signal goroutine (a mutex), the name
caches with the refresher goroutine (atomic generations), and its eBPF maps with the kernel.  The log
is shared with `prec`, which only reads it, and with logrotate, which renames it.

### 1.2 Behaviours that are hard to test

* **Order.**  Samples of one CPU arrive in order, those of several CPUs do not; a full ring drops them.
* **Identifiers are reused.**  pids, thread ids, descriptors, even event ids, while the samples about
  their earlier users are still under way.
* **Half a picture.**  close, open(2), chdir and more are not traced; a descriptor that is looked up in
  /proc is looked up late.
* **Concurrent programs.**  Registration, lookup and removal in the process map interleave on all CPUs.
* **Refresh against lookup.**  Names are resolved while the caches are cleared, and Run may return.
* **Signals, rotation, restarts.**  SIGHUP at any moment of a daemon's life, several daemons started at
  once, crashes in the middle of a record.
* **Several views of one log.**  A list, a follow and two fast paths must show the same rows.
* **A log that moves while it is read.**  The follower meets renames, truncations, records that are
  half written and goroutines that decode what it has already left.
* **Rules in three dialects.**  The same text is split by one parser for precd's filter and prec's
  queries and by another for the early filter, which runs as eBPF instructions without joins, names or
  an event's end.

Each is in PROJECT.json under `hazards`, at the line where it bites, with the properties that would
catch it or the reason why none does.

## 2. The modules

| Module | Models | Composes | Lines of code behind it |
| --- | --- | --- | --- |
| `KernelEvents` | threads and processes, the exec/exit tracepoint programs, per-CPU rings with loss | | `collector` 947-1107 (programs); the kernel is external |
| `ProcTracking` | `Service.Run` for process records | extends `KernelEvents` | `collector` 513-667, 879-928, 1335-1372, 2059-2111; `event` 68-285 |
| `MCProcTracking` | instances | extends `ProcTracking` | |
| `ProcTrackingProofs` | theorems, whatever is lost or reordered, and on one CPU without loss | extends `ProcTracking` | |
| `SaveDedup` | `shouldSuppressDuplicateFileSave` | | `collector` 1667-1707, 1842-1846 |
| `FileTracking` | `Service.Run` for file records | extends `SaveDedup` | `collector` 576-667, 1109-1257, 1374-2004 |
| `MCFileTracking` | instances | extends `FileTracking` | |
| `FileTrackingProofs` | theorems on `SaveDedup` and `FileTracking` | extends `FileTracking` | |
| `LossAccounting` | loss rows under every `lost_samples_action` | | `collector` 900-945 |
| `CaptureProcess` | the eBPF process map under interleaved programs | | `capture_process_linux.go`, `capture_filter_linux.go` 203-307 |
| `IdentityRefresh` | refresher goroutine, caches, shutdown | | `capture_filter_refresh_linux.go`, `identity_cache.go` |
| `DaemonLog` | life of precd around its log: lock, writer, signals, rotation, crashes | | `cmd/precd`, `logger/jsonl.go`, `safefile` |
| `JoinView` | what prec makes of the log | | `event_merge.go`, `event_collection.go`, `tail.go` 43-86, 315-342 |
| `MCJoinView` | queries and logs | extends `JoinView` | |
| `JoinViewProofs` | theorems | extends `JoinView` | |
| `LogStream` | abstract: what a follower promises | | README 396; the contract of `tail.go` |
| `FollowLog` | `prec --follow` against rotation, truncation, torn writes, dead daemons | implements `LogStream` | `tail.go`, `log_reader.go` |
| `ConfigInclude` | loading of configuration files | | `config/config.go`, `config/include.go` |
| `QueryFilter` | the query language, the filter's rule list, prec's own queries | | `query/filter.go`, `filter/filter.go`, `cli/app.go` 132-161 |
| `CaptureProgram` | `capture_filter` rules, their policy, the instructions and their execution | extends `QueryFilter` | `capture_filter_linux.go` |
| `RulePath` | a rule from its file to the screen | extends `ConfigInclude`, `CaptureProgram` | `collector` 254-282, 541-575; `cli/app.go` 85-89 |
| `MCDecisions` | instances | extends `RulePath`, `LossAccounting`, `SaveDedup` | |
| `LossAccountingProofs`, `CaptureProcessProofs`, `IdentityRefreshProofs`, `DaemonLogProofs`, `FollowLogProofs` | theorems | extend their module and TLAPS | |

### 2.1 KernelEvents and ProcTracking

The kernel half has one action per tracepoint (`EnterExecve`, `ExecveFails`, `ExecveReturns`,
`ExecveCommits`, `Exit`, `EnterExitGroup`, `Exited`) and the thread life cycle between them (`Fork`,
`Clone`, `Kill`, `Reap`; an execve of one thread first ends the others).  Every program emits one
sample into the ring of some CPU; `Output` drops it when the ring is full and announces the number
lost with the next sample, as `perf_event_output` does.  `Poll` and `Take` are perf.Reader: it notes
how much each ring held at a wake-up and drains them one after the other.

The service half has an action for every branch of the `switch` of `Service.Run`, each with the whole
handler: `HandleExec` / `BuildFails` / `StartFiltered` / `StartWritten` (with the retries of
`buildFromPIDWithRetry`, during which the process may end), `HandleExecEnter`, `HandleExecResult`,
`HandleExitGroup`, `HandleExitStatus`, `IgnoreThreadExit`, `HandleProcessExit`, `HandleLost`, `Stop`.
The filter's verdict and the writer's error are nondeterministic.  A row keeps the id, the pid, the
times and the status; `by`, `at`, `code` and `inc` are history: whose sample caused the row.

### 2.2 SaveDedup and FileTracking

`SaveDedup` is the function `shouldSuppressDuplicateFileSave`, with Go's unsigned subtraction
(`% Word`).  Its history `saves` keeps, for every pair of process and path, the times of its saves and
whether the function accepted them, in the order judged, until the process ends.  *Accepted* is not
recorded: scope, source and filter decide behind it.  The module can be run alone (`DedupNext`, samples
out of order by up to `Skew`) or inside `FileTracking`, which EXTENDS it and uses `PassAll`, `Accept`,
`Suppress` and `Forget` as parts of its actions.

`FileTracking` has a ring per CPU: a sample carries the CPU of its call, and the next one handled is the
oldest of any ring (`Take`), so those of one CPU keep their order and those of several do not.  The
history variable `overtaken` says that some sample was handled before an older one of the same process
or thread.  The module has traced calls as two steps of a thread (enter and return), untraced calls
as one silent step, and the handlers of the samples: `OpenDropped`, `OpenFallback`, `OpenTracked`,
`HandleDupResult`, `WriteDropped`, `WriteSaved`, `HandleProcessExit`.  A lookup in /proc sees the
descriptor table as it is when the sample is *handled*.  Scope, source and filter are one
nondeterministic verdict (`RecordResults`).  History: `had`, everything a process has had open, `real` in
a row, the file really written (`Closed` when another thread replaced the descriptor during the write),
`fd` in the sample of a write's result, the descriptor that was written to, and `orphaned`, a thread
has outlived the leader of its process.  `Heard`, the condition of the properties, is that no sample was
lost and none overtaken.

### 2.3 LossAccounting

One state variable per field that `consumeLostSamplesForLog` touches and a clock.  The three branches
of the code are `LostIgnored`, `LostDeferred` and `LostLogged`; the action is chosen in `Init`.

### 2.4 CaptureProcess and IdentityRefresh

`CaptureProcess` splits a program into its map calls: a trace program is in state `trace` (compare
and look up), `register`, `emit`; a status program in `status`, `emitStatus`; an exit program in
`exit`, `remove`, `emitExit` (the leader's process is removed before its sample is sent).  Between two
calls, every other thread, a refresh and a setuid may run.  The guards' comparison is an abstract set
of accepted credentials.

`IdentityRefresh` has the refresher's pass name by name, with an error of the name service possible at
each; the event loop's lookup as three steps (it loads a generation, asks, stores); and the end of
Run: `Return` signals the worker and waits, then the map is closed.

### 2.5 DaemonLog

`pc` follows `run` of `cmd/precd/main.go` from the lock to `os.Exit` with the deferred calls in their
order; `handler` is the signal goroutine, `sigs` the channel of two.  `WriteEvent` and `Reopen` each
hold the writer's mutex and are one step, so they interleave as wholes.  A crash, or a write that
fails, may leave a `Fragment` that the record behind it runs into.  Time is what `syncIfDue` sees of
it: whether the last sync is less than an interval ago.  External actions: `Rename`, `Create` and
`PostRotate` of logrotate, `Signal`, `Crash`.  A signal before `signal.Notify` or after `signal.Stop`
ends the process.  `files` holds records and fragments in every format; what a fragment costs a reader
depends on the format.  In an uncompressed log it spoils its line and the record behind it
(`ReadableLines`); with a part of a gzip or zstd frame in it (zstd is the default), a file cannot be
decoded and a list that reads it fails (`ReadableFrames`).

### 2.6 JoinView

The operators carry the functions' names.  `MergeEventsForList` keeps the in-place compaction of the
code (one array read and written at once), `Add` and `Events` the ring of `eventWindow`,
`CollectTail` the doubling window over compressed frames.  The actions write a log the way daemons do
(sequence numbers from one, prefixes of one second, restarts, torn records) and run a follower:
`FollowLists`, `FollowOpens`, `FollowReads`.  Loops over a sequence are recursive functions, so that
`JoinViewProofs` can reason about them; a loop that keeps some elements is `Picked`, with the set of
places it keeps, and one round of the loop of mergeEventsForList is `Merge`.

### 2.7 FollowLog and LogStream

A record is two cells of a file, the second of which ends it, so that a reader can meet a part of it;
precd writes through its own descriptor, logrotate renames, creates and has precd reopen, copytruncate
empties the file in place, a dying precd leaves a first cell behind.  `pc` is where the follower's loop
is: it waits at the end of its file, reads, looks whether the name still is its file, drains and
reopens (`runTailPlain`), or hands what it polled to a decoder goroutine (`runTailCompressed`).
`decoders` are those goroutines: they print on their own, and one that belongs to a file already left
is not waited for.  `printed` holds the numbers of the records shown, and `garbled` says that a row was
shown that is no record.  `LogStream` is the abstract reader: of numbered records, each written into a generation of the
log, it shows some, none twice and none behind a newer one, except that a reader of the next
generation may overtake it when `overtake` holds.

### 2.8 ConfigInclude, QueryFilter, CaptureProgram, RulePath, MCDecisions

`ConfigInclude` has the recursion of `loadConfig` as a stack: `LoadRoot`, `LoadNext` (cycles are found
among the parents, a file may be loaded twice by two others), `LoadReturns`, `Finish` (defaults and
validation after the merge).  Rules append, scalars override; one scalar of each kind is kept.

`QueryFilter` and `CaptureProgram` are operators without variables: texts are sequences of tokens
(words, the characters of operators, `&&` and `||`), and so are the names of users, groups and
programs: the parser of the early filter takes any text as a user or group, and as a program any that
is not too long.  Texts are split and searched for operators the way each of the two parsers does it.  `CaptureProgram` compiles rules into a policy and the policy into a sequence of
instructions on words of twice `IdBits` bits, which `Execute` runs one by one with their forward
jumps; it reads uid and gid, pid and tid out of one word each, as the helpers return them, and a name
in two words of eight characters.

`RulePath` composes them: `precd` loads, compiles and starts or refuses (`PrecdNext`), one call of one
process passes the guard and then the filter (a record is logged or dropped), and `prec` joins it with
its end and shows or hides it (`Ask`, `Look`).  `MCDecisions` enumerates configurations, callers,
accounts, ends of commands and flags, and runs `LossAccounting` and `SaveDedup` beside them: three
parts without common state, of which a behaviour uses one.

## 3. The runs

All runs stop somewhere because of their bounds, hence `CHECK_DEADLOCK FALSE`.  State counts are
distinct states.

| Run | Question | Bounds, and why they suffice | States |
| --- | --- | --- | --- |
| `proc_reliable` | Are rows about the right process, with exact status and duration? | One pid reused by one-threaded processes, one CPU, a ring of 3, statuses 1 and 256 (a status whose low byte is 0), 8 clock ticks: enough for two processes with two execs each, and for a filter that rejects either | 234,890 |
| `proc_threads` | Do statuses or attempts cross from one user of a pid to the next? Is every start ended? | Two thread ids, exec, exit, exit_group and kill from either; fairness of the read loop | 1,040,212 |
| `proc_lossy` | What survives loss and reordering? | Two CPUs with rings of 2, two lost samples, failing writes; one pid, so that every reordering meets pid reuse | 2,942,882 |
| `decisions` | Are rules loaded in order, recorded as configured, shown as asked?  Is every loss counted once and logged no faster than allowed?  Are accepted saves a window apart? | Every graph of includes over three files, one of which may be a link, a dangling one or invalid; pairs of rules of every kind of field, every operator, and a program name that holds one; callers on either side of each. Losses: an interval of 2 in 7 ticks and six lost samples. Saves: a window of 3, samples up to 2 out of order, 3 saves of each of two pairs, so that a sweep comes with a save on either side | 474,176 |
| `files` | Are writes attributed to a file the process had open? | One CPU, one process, two descriptors, three files: one that replaces another under its path, and a named pipe; four calls, one lost sample: enough to open, replace, dup and write | 4,745,955 |
| `files_dedup` | Is nothing kept of processes that are gone? | Two CPUs, whose rings are read in any order, two pids and a worker thread, failing writes, a filter, precd's own log, three calls | 1,149,305 |
| `capture` | Does the process map notify every end, forget every process, let nobody bypass? | Two pids with a worker, two credentials, a map for one process, six programs | 155,056 |
| `capture_bypass` | The README's unconditional claim (violated, section 6) | the same | |
| `refresh` | Are published names true, do changes arrive, does Run return? | Two names, one account, one change, one error; fairness of the ticker | 100,712 |
| `daemon` | One writer, ordered and kept records, termination? | Two daemons, two starts, one rotation, two more signals (with logrotate's, one more than the channel holds), one crash or failure, two records | 196,533 |
| `follow` | Does a follower show each record once, in order, and come to the end of every file? | Plain and compressed; three records in two parts each, one rotation, one truncation, one daemon that dies: the record before, during and after each of them | 1,477,129 |
| `joinview` | Do all views agree? | Every log of four records by two daemons, some starting behind old records; three queries, limits 0 and 2; windows of 1 and 2 frames, so that doubling and giving up both happen | 2,127,744 |

Every property has a mutant, named in PROJECT.json: an operator defined just before the definition it
replaces, changed the way a bug would change the code.  TLC finds the property violated with it.

### 3.1 What the properties say

* *Process records.*  `EndJoinsStart`: proc_end rows pair one to one with proc_start rows whatever is
  lost.  `EndOfSameProcess`, `StatusNotStale`, `EndExact`: with in-order samples a row is about one
  process, its status the low byte of what the kernel holds, its duration the time since its exec.
  `NothingKept`, `NoStatusKept`: the maps forget.  `ExitReported`: every remembered start whose process
  is gone is ended.
* *File records.*  `AttributedToOwnFile`: never a file of an earlier process with the pid.
  `FreshAfterInterval`: a descriptor whose state is older than the check interval is looked up, so the row
  names the file written or a later one.  `NothingKept`: the maps forget.  All three hold where no
  sample was lost and none was handled before an older one of its process or thread (`Heard`).  One
  CPU guarantees the order, which `OneRingKeepsOrder` proves; several do not, and section 6 says what then
  happens.  The first and the third also need that leaders end last.
* *Suppression.*  `AcceptedApart`: accepted saves are a window apart, so rows are.
  `SuppressedForAnAccepted`: a save is suppressed only for one that was accepted (not: recorded) within the
  window.  `MapSwept`: entries are forgotten.
* *Losses.*  `LossesAggregated`: totals, the rate limit, and that nothing is forgotten while running.
* *Early filter.*  `ExitNotified`, `RegisteredBeforeSample`, `NoBypass`, `MapFreed`; `NamesFollowIds`,
  `SnapshotTrue`, `MapOpenWhileUsed`, `ChangesTakeEffect`, `ReturnCompletes`.
* *Log.*  `OneWriter`, `LogInOrder`.  `AckedKept`: an acknowledged record is lost to a reader only for
  a fragment; of an uncompressed log a fragment costs one record, of a compressed log the file it is in
  and no other.  `LossBounded`: what is not synced is at the end of a file still open; in a quiet period
  it may be so for any length of time.  `TermEnds`: a SIGTERM that is in the channel ends the daemon (one
  that finds the channel full is dropped).  `EndsUpCurrent`: a SIGHUP in the channel has the daemon
  write to the file with the log's name in the end, unless its `Reopen` failed.
* *Views.*  `ListIsOneRowPerCommand` compares the merge with a definition of a command's row by
  positions in the log; `ViewsAgree` the ring and the backward scan with a full list, and the list
  with and without ends; `FollowerShowsList`, follower and list.
* *Following.*  `ImplementsLogStream` is the refinement.  `PlainIsDrained`: a plain
  file is left only when every record written into it before the follower last woke up has been shown,
  unless the follower has missed a truncation (`cut`): a file that has grown past its offset again is
  left with what stands before the offset unread.  `OnlySpoiltStreamsFail`: wrong rows and
  decoding errors come of files truncated unseen or of records left unfinished, of nothing else.
  `CatchesUp`: whatever happened, the end of the current file is reached again and again.
* *Rules.*  `LoadedAsWritten` states the order of rules and the values of scalars by paths in the graph of
  includes, not by a recursion.  `RecordedAsConfigured` and `ShownAsAsked` keep rules as their writer means
  them, OR of AND of comparisons, and compare what the three programs do with the *texts* of the
  rules with what the README's tables say of the comparisons.  The first expects rules whose values hold
  no text that makes another operator of theirs (section 6); a value such as `comm=ab>1`, which the early
  filter reads as written, is among those compared.

### 3.2 Fairness

* `ProcTracking!FairSpec`: weak fairness of `ServiceNext`; the goroutine of Run does nothing but read
  and handle.  Nothing is assumed of processes.
* `IdentityRefresh!FairSpec`: weak fairness of the ticker and of the refresher's steps (a name service
  that answers), *strong* fairness of `WorkerQuits`, since a Go `select` picks among ready cases at
  random and so cannot ignore the stop channel for ever while the ticker keeps ticking.
* `DaemonLog!FairSpec`: weak fairness of each daemon's signal goroutine and of its shutdown once `stop`
  is closed, and of logrotate between rename and signal (one script).  Starting, writing, crashing
  and failing are never assumed.
* `FollowLog!FairSpec`: weak fairness of the follower's loop, which nothing blocks for good, and of every
  decoder goroutine.  Nothing is assumed of writers and of logrotate; their bounds make them pause.

## 4. What is proved

`ProcTrackingProofs` proves, for every number of processes, threads, CPUs, ring
slots and retries, assuming only `KernelAssumption` and `ServiceAssumption` (types of the constants):

* `TypeCorrect == Spec => []TypeOK`.  `TypeOK` is not inductive: that a thread emits samples with a
  process id needs `GroupsOK` (a thread in use belongs to a process).  `TypeInv == TypeOK /\ GroupsOK`
  is; the kernel half (`KernelNextInv`) and the service half (`NextType`) are separate lemmas, with
  one step per action.
* `EndsJoinStarts == Spec => []EndJoinsStart`, under any loss and reordering.  The inductive invariant
  `PairInv` adds to it that ids in rows never exceed `eventSeq` (`IdInv`, so the next id is new) and that
  every remembered start has its row in the log, for its pid, not ended yet, and is remembered for
  no other pid (`PendingInv`, so ending it makes a pair that did not exist).
* `EventIdsDistinct == Spec => []IdsDistinct`, from the same invariant.

The argument in one sentence: an id is written twice at most, once by the exec that takes it from
the sequence and once by the exit that takes it out of `pendingEvents`.

The second half of the module, from the same two assumptions, is about one CPU that loses nothing (`InOrder`), where
rows say which process they are about: `EndsOfSameProcess`, `StatusesNotStale`, `EndsExact`,
`NothingIsKept`, `NoStatusIsKept`.  The samples that wait are one set (`Waiting`) ordered by time: a step
of the kernel adds a sample later than all others, a step of the service removes the earliest.  What the
service remembers is then what the processes were at the earliest waiting sample, and `OrderedInv` says so of
each thing it remembers: a start is of the process that still lives or whose exit waits, and an exit
status kept beside it was set by that process (`StartInv`); of an attempt the thread is still in
its execve, the process lives, or the sample of the return or of the exit waits (`AttemptInv`).  For
processes of one thread `SoloInv` adds which value the status has, and that an exit still follows every
status.  With nothing waiting and nobody left (`Quiet`), each of these says that nothing is remembered.

`LossAccountingProofs`, from `LossAssumption` alone: `LossesAreAggregated == Spec => []LossesAggregated`.
The invariant adds the types and `LastRowIsOld`: no row is younger than `lastLostLogAt`, which is what
the next row is measured against (a row that could not be written sets the time all the same).

`DaemonLogProofs`, from `DaemonAssumption`: `OneWriterAtATime == Spec => []OneWriter`.  The invariant
`LockInv` says where `run` holds the lock (from the opening of the log to the deferred unlock) and
that a writer has a file only between opening and closing.  It rests on the order of the deferred
calls and on `Reopen` leaving a closed writer closed.  Every way a daemon dies is one lemma, `DieInv`.

It goes on from there to the files: `RecordsStayInOrder == Spec => []LogInOrder`,
`AcknowledgedAreKept == Spec => []AckedKept`, `OnlyTheEndIsAtRisk == Spec => []LossBounded`.  `FilesInv` adds to `LockInv`:
the files behind the one a daemon has open are empty (`LaterEmpty`: after a rename precd goes on
writing to the old file, and only because nobody else can write does order survive), no number in a
file is larger than `written`, and what is not synced belongs to a daemon that runs or is about to
close (`SyncInv`).  The steps are described by what they do to the data: nothing (`NoData`) or one
entry at the end of a file with only empty files behind it (`OneEntry`), and every action is shown to
be of one of these kinds.  `AckedKept` rests on every acknowledged record being stored.  Of lines it
counts: a record that cannot be read has a fragment right before it, its own, so the lost records inject
into the fragments.  Of frames: a record that cannot be read is stored in a file with a fragment.

`CaptureProcessProofs`, from `CaptureAssumption`: `EndsAreNotified`, `SamplesAreRegistered`,
`NobodyBypasses`, `MapIsFreed`.  `CaptureInv` has two halves.  `EarlyTracked`: what was sampled stays in the
map until its leader takes it out, which is what lets the end through.  `MatchedOnly`, with
`LastOut`: where main threads end last, nobody is left who could register the process again once its
leader is past its last lookup, so that whatever is in the map has matched.  `orphans` carries the
exception (section 6).

`IdentityRefreshProofs`, from `RefreshAssumption`: `NamesAreNotOlderThanIds`, `SnapshotsWereTrue`,
`MapOutlivesWorker`.  `RefreshInv` follows a pass: an answer was true between its beginning and its last
question (`TrueAnswers`), and once a cache is cleared neither it nor a lookup that may still be stored
in it is older than the last answer (`ClearedCaches`), so publishing afterwards cannot put names
behind ids.

`FileTrackingProofs` has two parts.  The first, from `DedupAssumption`, is about the suppression alone:
`SavesAreAcceptedApart`, `SuppressionNeedsAnAccepted`, `MapStaysSwept`, for every window and skew.  `MinusValue`
settles the unsigned subtraction (it wraps exactly when the sample is older, which makes a sweep due).
`DedupInv` says that every entry is an accepted save, that every accepted save is a window old or covered
by an entry that is not older (`AcceptedCovered`), and how far entries, last sweep and newest sample may
be apart (`MapTimes`).

The second, from `FileAssumption` as well, is about the whole event loop for file records, for every
number of CPUs, processes, threads, descriptors, files and samples under way: `SavesAreOfOwnFiles`,
`SavesAreFresh`, `NothingOfFilesIsKept`, `RunSuppressesAsPromised` (and `TypesCorrect`).  The first three
carry the condition `Heard`, and `OneRingKeepsOrder` says that one CPU gives its half: nothing is overtaken.  A step of the
kernel is summed up by `Life`, what it does to the queue, the descriptors, the processes and the call of
each thread (`KernelLife`); a step of the service by `Handles`, what it does to attempts, to what is
remembered of a process, to what is believed open and to the rows (`ServiceLife`).  Every part of
`FileInv` then has one lemma for a pushed and one for a popped sample, which may be popped from the middle
of the queue; where `Heard` holds, nothing related stood before it:

* `SealedInv`: the exit of its leader comes behind every other sample of a process, so what is remembered
  of a process is of one that lives or whose exit waits (`KeptInv`).  Hence `NothingKept`.
* `PairInv`: the attempt a result meets when it is handled, which may be in a waiting enter sample or in
  the maps already, is that of the same call (`ResultPaired`, `EnterPaired`, `AttemptPaired`).
* `OwnInv`: when no exit of an earlier user of the pid waits (`Clean`), what is believed open under a
  process is a file this process has had open.  With the two above, `AttributedToOwnFile`.
* `NewerInv`, `AfterDup`: the table a lookup meets is not older than the write it is made for, nor than
  a dup whose result waits; `CheckTimes`: no state was checked later than a waiting sample was taken;
  `CheckedInv`: a state that was checked after an entry got to its descriptor has the identity of that
  entry or of a later one.  Together, `FreshAfterInterval`.

`RunSuppressesAsPromised` composes the two parts: as long as no sample that waits is older than the
newest judged save by more than `Skew` (`WithinSkew`, an assumption on how far the rings are apart), what is
promised of `shouldSuppressDuplicateFileSave` alone holds of the saves precd decides on, with any loss of
samples and any interleaving, and though Run forgets a process when its leader ends (`SaveTimes`,
`ServiceJudges`).

`FollowLogProofs`, from `FollowAssumption`: `FollowImplementsLogStream == Spec => ImplementsLogStream`,
`PlainFollowerDrains == Spec => PlainIsDrained`, `OnlySpoiltFail == Spec => []OnlySpoiltStreamsFail`, for
every number of records, files, truncations, restarts and goroutines.  The cells of a file, and the
files among themselves, are in the order of writing (`Ordered`), and the generation of a record never falls (`Numbered`).  `FollowInv` then says what may still
come: the rest of the open file (`Unread`; all of it, if it has shrunk) and the later files (`Behind`).
What a decoder was fed is older than all that (`Seen`), what a decoder that is left holds is of an older
generation (`Passed`), and a shown record is `Done`: only a decoder of an older generation can still show
one before it.  Those are the premises of Show of `LogStream`; every other step of the follower
stutters.  `DrainedInv` adds that between the end of a file and the look at its name only cells written
since the last wake-up are unread, and `ShownInv` that, unless a truncation was missed, every record that
stands before the offset, since the follower began, has been shown or is its pending line (`ReadSoFar`).

`FormedInv` adds the form of what is read: in every file a second cell follows its first (`Paired`) and,
unless precd died within a record, a first cell is followed by its second (`Ended`).  As long as a
stream is not spoilt, what a decoder was fed ends where the follower is in its file (`Follows`), so the
next cell continues it, and the decoder meets nothing that is no frame.

`JoinViewProofs`, from `JoinAssumption` (which now also gives the types of queries and old logs, and says
that a proc_end record has a result): `ListsAreExact == Spec => []ListIsOneRowPerCommand`,
`ViewsDoAgree == Spec => []ViewsAgree`, `FollowersShowTheList == Spec => []FollowerShowsList`, for every log,
query, limit, window and number of daemons and records.  These are about what loops compute, so the
argument is an induction over places in the log.  The library states induction with an operator as
parameter; `NatSetInduction` is the same for a *set* of numbers and is proved here from the well-founded
strict inclusion of finite sets.  From it: a function whose value at i is a step from its value
at i - 1 exists (`RecursionExists`) and has the value its body says, and `Picked(s, I)` has the element of place `a` at
`Rank(I, a)`, the number of places of `I` up to `a` (`PickedRanks`, `PickedOnly`, `PickedTwice`).  Then

* *The list.*  `RowAt` says by positions in the log which row an id has after n records, `PendingAt` what is
  pending.  `MergedAt` is the invariant of the loop: the output so far has, for each place of `Firsts`
  (where an id, or a record that is no command's, appears first), its row as of now, the rest of the array
  is unread, and the index is right.  That the output never overtakes the input is `Firsts` being a subset
  of the readable places.
* *The log.*  `LogInv`: it is a sequence of records, an end has a result, and a command that still runs
  has an id of the present daemon, with a start in the log that no other record with this id follows.
* *The follower.*  `ReaderInv`: what it awaits is `PendingAt` of what it has read, and what it has printed
  of an id since it began ends with the row as of now (`Shown`).
* *The ring.*  `WindowAt`: after i rows the k-th oldest of the last n is at `Slot(start, k, n)`; the
  rotation by `%` is settled by `ModuloOnce`.
* *The backward scan.*  `BackAt`: behind record i it holds the last n rows seen there; what a window
  decodes is a suffix of the readable rest (`DecodedSuffix`), so its last rows are those of the whole
  (`SuffixSeen`, `LaterScan`), and a window that finds too little is widened (`TailShows`).
* *With and without ends.*  `StartsShown` and `SameShown`: where ids are not used twice the first
  place of an id is its only start, so both lists pick the same places.

Only model-checked: the liveness properties (`ExitReported`, `ChangesTakeEffect`, `ReturnCompletes`,
`TermEnds`, `EndsUpCurrent`, `CatchesUp`), which are beyond the prover, and those of the rules
(`LoadedAsWritten`, `RecordedAsConfigured`, `ShownAsAsked`), whose definitions go through tokenizers and a
machine that runs instructions.

## 5. What could come next

The components the code is built of are modelled; what is left, ordered by what it would show:

1. *Proofs* about the rules, by the same induction over a set of numbers: that loading a file visits the
   includes in the order of their lines, and that a policy's instructions decide what the policy says.
2. *Hazards without a property* (PROJECT.json gives the reason at each): an open result that is lost
   and whose attempt a later one consumes (`collector` 583), a working directory that has changed (1487), a
   descriptor reused between stat and readlink (1946), an error of the name service that is cached as an
   empty name until the next successful pass (`identity_cache.go` 42).
3. *Refinements*: `ProcTracking` on one CPU without loss implements a recorder that writes one start
   and one end per exec; `CaptureProcess` implements a set of processes with atomic programs.

## 6. Where the code and its documentation differ

`capture_bypass` finds `NeverBypassed` violated.  The README (253) says "Untracked processes do not
bypass the filter" and that tracking ends when the leader exits.  A worker thread that opens a file
after its leader has ended registers the process again; nobody removes the entry, and when the pid
is reused, the exit samples of a process that never matched pass.  `NoBypass` is the claim with the
condition under which it holds: main threads end last.

Met while modelling, confirmed on the models, and now stated as conditions of the properties above:

* README 77, "proc_end when the process exits": `handleProcessExit` (collector 652) ends a record when the
  *leader* exits, although other threads may run on; and a second exec overwrites the remembered start
  (1339), so that the earlier proc_start row never gets a proc_end row.
* collector 2065, "exit_group is the process exit status source. Keep it authoritative.": `exit` of a
  worker thread (2069) also sets the status, which is reported if a signal kills the process later.
  the status in `EndExact` is about one-threaded processes, `StatusNotStale` about all.
* collector 271, "Keep start event details until the process exits": with two rings the exit of a pid's
  previous process may be read after the exec of the next, and ends it.  Hence `InOrder`.
* README 78, "aggregated and logged": a loss within a second of the last row waits for the next loss;
  none comes, none is logged; a stop forgets it.
* A thread that opens a tracked file after the leader of its process has ended is remembered
  under the process id (1508, 1521) although the exit that would remove the state has been handled.  A
  state without an identity is trusted for ever (1621), so a later process with the pid is reported with
  the file of the earlier one.  Hence `~orphaned` in `AttributedToOwnFile` and `NothingKept`; the early filter has the
  same gap, see above.
* A `dup2` of another thread while a write is under way: the result of the write is handled with the
  state copied by the dup, check time included, and names the copied file.  Hence `real # Closed` in
  `FreshAfterInterval`: the row is exact only of writes whose descriptor was left alone.
* README 82, "`file_save` records writes to regular files": a named pipe opened by `openat` is remembered
  without an identity and trusted for ever (1621).  A descriptor closed and reused by untraced calls is
  reported with the earlier file for up to the check interval; hence `FreshAfterInterval`.
* README 83 and 236, "Suppress repeated records": the window is armed before the filter decides (1601,
  628), so a save that is not recorded suppresses the next, which would be.  Hence *accepted* in the
  properties.
* Perf rings are per CPU and read one after the other (332, 502).  When the leader's exit is handled before an
  older open or write of the process on another CPU, what that sample leaves is inherited by the next
  process with the pid, or kept for good; and a write handled before an older dup is checked against the
  wrong state.  Hence `~overtaken` in `Heard`.
* README 226: with zstd, the default, a daemon that dies within a frame leaves a file in which the
  decoder fails, and a list that reads the file ends with the error (`AckedKept`).  It is the one restart
  appends to.
* A SIGTERM that arrives while the channel of two is full of SIGHUPs is dropped by `signal.Notify`: the
  daemon goes on.
* `prec -f -n 0` begins without join state (tail 316): ends of commands that were started before are not
  shown.  Records written between the list and the opening of the file at its end are shown by neither.
* A SIGHUP before `signal.Notify` ends a starting daemon; systemd counts that as a clean exit.
* README 396, "follows rotation like `tail -F`": a compressed follower looks for a replacement before it
  drains its file, and what was written since its last poll is not shown.  It does not wait for the
  decoder of the old file, whose rows those of the new one may overtake; both use one join state
  without a lock.  It ends when it began within a frame.  prec ends as well when the name vanishes
  between reopening and `detectLogCompression`.
* A log that is truncated and grows past the follower's offset before it looks again goes unnoticed
  (tail 306): it goes on in the middle of a record.
* A value that holds operator characters can make a rule or a query refused, although the README's tables
  allow any text: `argv=x>y` and `argv~=x!=y` are, since the parser takes the first operator of its list that
  the text holds; in a `capture_filter`, `user=a!=b` is.
* README 301, filter "Syntax matches `prec --query`": a rule on `record_type=proc_command` never matches, since
  the record is still a proc_start when the matcher sees it (`collector` 548); rules on `exit_status`,
  `duration` and `end_timestamp` are accepted, and find the field missing.
* `FormatDurationValue` prints 360 to 364 remaining days as month 12, which `ParseDurationValue` refuses.
* A dangling link as the main configuration file loads the defaults without a word.
* README 386 has `--all-logs` read compressed rotated logs; the packaged logrotate rule says they
  "cannot be read".

## 7. What is not modelled, and why

* Text: argv normalisation, JSON, output formatting, parsing of /proc files.  Paths are atoms.
* The permission checks of `safefile` and of directories: a sequence of system calls without state.
* `chdir` between exec and a relative open; splitting of a /proc lookup into stat and readlink.
* Compressed streams below the frame: a torn frame is an error of whatever decodes it.
* In the process map: execve by a thread that is not the leader, which takes the leader's place.
* In rules and queries: the texts of times and durations (small numbers here), and all but one field of
  each kind.  In the configuration: all but one scalar of each kind, legacy keys.
* The resolution of `log_path` (one directory listing, sorted), formatting of rows and the tree of `--tree`.
* Packaging scripts; systemd's restarts are `Start` at any time.
