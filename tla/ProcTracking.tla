---------------------------- MODULE ProcTracking ----------------------------
(***************************************************************************)
(* The event loop of precd (Service.Run of collector_linux.go) for process *)
(* records: one goroutine reads perf records and turns exec, execve and    *)
(* exit samples into proc_start, proc_fail, proc_end and proc_loss rows of *)
(* the log, pairing samples through the maps keyed by process or thread    *)
(* id.  File samples are the subject of FileTracking; capture_filter of    *)
(* CaptureProcess (here it is empty: every sample is emitted).             *)
(*                                                                         *)
(* perf.Reader (external) wakes up with the rings that hold data, notes    *)
(* how much each one holds, and drains them one ring after the other: the  *)
(* samples of one process come in order only if they share a CPU.          *)
(***************************************************************************)
EXTENDS KernelEvents

CONSTANTS
    MatchResults,  \* results the user's filter may give (subset of BOOLEAN)
    WriteResults,  \* results WriteEvent may give (TRUE: no error)
    LossAction,    \* config lost_samples_action: "log", "ignore" or "stop"
    BuildAttempts  \* buildFromPIDMaxAttempts

ASSUME ServiceAssumption ==
    /\ MatchResults \subseteq BOOLEAN
    /\ WriteResults \subseteq BOOLEAN
    /\ LossAction \in {"log", "ignore", "stop"}
    /\ BuildAttempts \in Nat \ {0}

VARIABLES
    unread,           \* CPU -> records of the current wake-up not read yet
    current,          \* the ring being drained
    service,          \* "reading", "building" or "stopped"
    work,             \* the exec being built: sample, event id, attempts left
    pendingEvents,    \* process id -> its proc_start event, or NoEvent
    pendingStatuses,  \* process id -> exit status waiting for the exit
    pendingStartMono, \* process id -> time of its exec
    pendingExecve,    \* thread id -> its execve attempt, or NoAttempt
    eventSeq,         \* last event id given out
    lostTotal,        \* samples announced as lost so far
    log               \* rows written, in order

reader  == <<unread, current>>
pending == <<pendingEvents, pendingStatuses, pendingStartMono, pendingExecve>>
daemon  == <<unread, current, service, work, pendingEvents, pendingStatuses,
             pendingStartMono, pendingExecve, eventSeq, lostTotal, log>>
vars    == <<kernel, daemon>>

NoEvent   == [id |-> 0, pid |-> NoTid, inc |-> 0, mono |-> 0]
NoAttempt == [tgid |-> NoTid, mono |-> 0, inc |-> 0]
NoWork    == [id |-> 0]

Events   == [id : Nat \ {0}, pid : Pids, inc : Nat, mono : Nat]
\* Besides its value, a status holds the sample it came from (history).
Status   == [value : 0..255, inc : Nat, tid : Tids, type : SampleTypes]
Attempts == [tgid : Pids, mono : Nat, inc : Nat]
\* The status of a process or a row is a set: empty, or the one status known.
StatusSets == SUBSET Status

Works == [id : Nat \ {0}, sample : Samples, left : Nat \ {0}]

Row == [kind : {"proc_start", "proc_end", "proc_fail", "proc_loss"},
        id : Nat, pid : Pids \cup {NoTid}, inc : Nat, mono : Nat,
        status : StatusSets, duration : Nat, by : Nat, at : Nat, code : Int]

\* A row of event `ev' written because of sample r.  inc and mono are those of
\* the sample the event was built from; by, at and code, those of r (history).
NewRow(kind, ev, r) ==
    [kind |-> kind, id |-> ev.id, pid |-> ev.pid, inc |-> ev.inc,
     mono |-> ev.mono, status |-> {}, duration |-> 0,
     by |-> r.inc, at |-> r.mono, code |-> r.code]

\* What the events built from /proc keep of a sample: BuildFromPID of an exec,
\* BuildExecFailureEvent of a failed attempt (it gets no id).
BuildFromPID(r, id) ==
    [id |-> id, pid |-> r.tgid, inc |-> r.inc, mono |-> r.mono]

BuildExecFailureEvent(attempt) ==
    [id |-> 0, pid |-> attempt.tgid, inc |-> attempt.inc, mono |-> attempt.mono]

\* normalizeExitStatus
Normalize_Raw(status)  == status
Normalize_Wait(status) == (status \div 256) % 256

Normalize(status) == status % 256

\* computeDurationNS
ComputeDuration(start, end) ==
    IF start = 0 \/ end < start THEN 0 ELSE end - start

TypeOK ==
    /\ KernelTypeOK
    /\ unread \in [CPUs -> Nat]
    /\ current \in CPUs
    /\ service \in {"reading", "building", "stopped"}
    /\ work \in Works \cup {NoWork}
    /\ service = "building" => work \in Works
    /\ pendingEvents \in [Pids -> Events \cup {NoEvent}]
    /\ pendingStatuses \in [Pids -> StatusSets]
    /\ pendingStartMono \in [Pids -> Nat]
    /\ pendingExecve \in [Tids -> Attempts \cup {NoAttempt}]
    /\ eventSeq \in Nat
    /\ lostTotal \in Nat
    /\ log \in Seq(Row)

Init ==
    /\ KernelInit
    /\ unread = [c \in CPUs |-> 0]
    /\ current \in CPUs
    /\ service = "reading"
    /\ work = NoWork
    /\ pendingEvents = [p \in Pids |-> NoEvent]
    /\ pendingStatuses = [p \in Pids |-> {}]
    /\ pendingStartMono = [p \in Pids |-> 0]
    /\ pendingExecve = [t \in Tids |-> NoAttempt]
    /\ eventSeq = 0
    /\ lostTotal = 0
    /\ log = <<>>

-----------------------------------------------------------------------------
(* perf.Reader.                                                            *)

\* The reader wakes up and notes what every ring holds.
Poll ==
    /\ service = "reading"
    /\ \A c \in CPUs : unread[c] = 0
    /\ \E c \in CPUs : ring[c] # <<>>
    /\ unread' = [c \in CPUs |-> Len(ring[c])]
    /\ UNCHANGED <<kernel, current, service, work, pending, eventSeq,
                   lostTotal, log>>

\* rd.Read returns the next record of ring c, one of the given type.
Take(c, type) ==
    /\ service = "reading"
    /\ unread[c] > 0
    /\ c = current \/ unread[current] = 0
    /\ ring[c] # <<>>
    /\ Head(ring[c]).type = type
    /\ ring' = [ring EXCEPT ![c] = Tail(@)]
    /\ unread' = [unread EXCEPT ![c] = @ - 1]
    /\ current' = c
    /\ UNCHANGED <<threads, clock, lost, dropped>>

\* WriteEvent: an error makes Run return.
Write(row, ok) ==
    IF ok THEN log' = Append(log, row) /\ service' = "reading"
          ELSE UNCHANGED log /\ service' = "stopped"

-----------------------------------------------------------------------------
(* The cases of Run's switch.                                              *)

\* perfEventTypeExec: an id is taken, then /proc/<tgid> is read.
HandleExec(c) ==
    /\ Take(c, "Exec")
    /\ eventSeq' = eventSeq + 1
    /\ work' = [id |-> eventSeq + 1, sample |-> Head(ring[c]),
                left |-> BuildAttempts]
    /\ service' = "building"
    /\ UNCHANGED <<pending, lostTotal, log>>

\* buildFromPIDWithRetry: no such process; after the last attempt the sample
\* is given up and the maps stay as they are.
BuildFails ==
    /\ service = "building"
    /\ ~Exists(work.sample.tgid)
    /\ IF work.left > 1
       THEN work' = [work EXCEPT !.left = @ - 1] /\ UNCHANGED service
       ELSE work' = NoWork /\ service' = "reading"
    /\ UNCHANGED <<kernel, reader, pending, eventSeq, lostTotal, log>>

\* The event is built but the filter rejects it: the maps stay as they are.
StartFiltered ==
    /\ service = "building"
    /\ Exists(work.sample.tgid)
    /\ FALSE \in MatchResults
    /\ work' = NoWork
    /\ service' = "reading"
    /\ UNCHANGED <<kernel, reader, pending, eventSeq, lostTotal, log>>

\* rememberExecEvent
RememberExecEvent_KeepsStatus(p, ev) ==
    /\ pendingEvents' = [pendingEvents EXCEPT ![p] = ev]
    /\ pendingStartMono' = [pendingStartMono EXCEPT ![p] = ev.mono]
    /\ UNCHANGED pendingStatuses

RememberExecEvent_KeepsStart(p, ev) ==
    /\ pendingEvents' = [pendingEvents EXCEPT ![p] = ev]
    /\ pendingStatuses' = [pendingStatuses EXCEPT ![p] = {}]
    /\ pendingStartMono' = [pendingStartMono EXCEPT ![p] = IF @ = 0 THEN ev.mono ELSE @]

RememberExecEvent(p, ev) ==
    /\ pendingEvents' = [pendingEvents EXCEPT ![p] = ev]
    /\ pendingStatuses' = [pendingStatuses EXCEPT ![p] = {}]
    /\ pendingStartMono' = [pendingStartMono EXCEPT ![p] = ev.mono]

\* The proc_start row is written and remembered.
StartWritten ==
    LET r  == work.sample
        p  == r.tgid
        ev == BuildFromPID(r, work.id)
    IN  /\ service = "building"
        /\ Exists(p)
        /\ TRUE \in MatchResults
        /\ work' = NoWork
        /\ \E ok \in WriteResults :
              /\ Write(NewRow("proc_start", ev, r), ok)
              /\ IF ok
                 THEN RememberExecEvent(p, ev)
                 ELSE UNCHANGED <<pendingEvents, pendingStatuses, pendingStartMono>>
        /\ UNCHANGED <<kernel, reader, pendingExecve, eventSeq, lostTotal>>

\* perfEventTypeExecEnter: rememberExecAttempt.
HandleExecEnter(c) ==
    LET r == Head(ring[c]) IN
    /\ Take(c, "ExecEnter")
    /\ pendingExecve' = [pendingExecve EXCEPT ![r.tid] =
                            [tgid |-> r.tgid, mono |-> r.mono, inc |-> r.inc]]
    /\ UNCHANGED <<service, work, pendingEvents, pendingStatuses,
                   pendingStartMono, eventSeq, lostTotal, log>>

\* perfEventTypeExecResult: the attempt of that thread is over; a failed one
\* is a proc_fail row if its process can still be read.
HandleExecResult(c) ==
    LET r       == Head(ring[c])
        attempt == pendingExecve[r.tid]
        ev      == BuildExecFailureEvent(attempt)
        built   == r.status < 0 /\ attempt # NoAttempt /\ Exists(attempt.tgid)
    IN  /\ Take(c, "ExecResult")
        /\ pendingExecve' = [pendingExecve EXCEPT ![r.tid] = NoAttempt]
        /\ \/ /\ built => FALSE \in MatchResults
              /\ UNCHANGED <<log, service>>
           \/ /\ built
              /\ TRUE \in MatchResults
              /\ \E ok \in WriteResults : Write(NewRow("proc_fail", ev, r), ok)
        /\ UNCHANGED <<work, pendingEvents, pendingStatuses, pendingStartMono,
                       eventSeq, lostTotal>>

StatusOf(r) == {[value |-> Normalize(r.status), inc |-> r.inc, tid |-> r.tid,
                 type |-> r.type]}

\* perfEventTypeExitGroup: rememberExitStatus, overwriting.
HandleExitGroup(c) ==
    LET r == Head(ring[c]) IN
    /\ Take(c, "ExitGroup")
    /\ pendingStatuses' = [pendingStatuses EXCEPT ![r.tgid] = StatusOf(r)]
    /\ UNCHANGED <<service, work, pendingEvents, pendingStartMono,
                   pendingExecve, eventSeq, lostTotal, log>>

\* perfEventTypeExitStatus: rememberExitStatus, only if there is none yet.
HandleExitStatus(c) ==
    LET r == Head(ring[c]) IN
    /\ Take(c, "ExitStatus")
    /\ pendingStatuses' = [pendingStatuses EXCEPT ![r.tgid] =
                              IF @ # {} THEN @ ELSE StatusOf(r)]
    /\ UNCHANGED <<service, work, pendingEvents, pendingStartMono,
                   pendingExecve, eventSeq, lostTotal, log>>

\* The proc_end row of process p's remembered start (BuildCommandEndEvent).
EndRow(p, r) ==
    [NewRow("proc_end", pendingEvents[p], r) EXCEPT
        !.status = pendingStatuses[p],
        !.duration = ComputeDuration(pendingStartMono[p], r.mono)]

\* perfEventTypeProcessExit of a thread that is not the leader.
IgnoreThreadExit(c) ==
    /\ Take(c, "ProcessExit")
    /\ Head(ring[c]).tid # Head(ring[c]).tgid
    /\ UNCHANGED <<service, work, pending, eventSeq, lostTotal, log>>

\* dropExecAttemptsByTGID
DropExecAttempts_None(p) == UNCHANGED pendingExecve

DropExecAttempts(p) ==
    pendingExecve' = [t \in Tids |-> IF pendingExecve[t].tgid = p
                                    THEN NoAttempt ELSE pendingExecve[t]]

\* finalizeEvent: the maps forget process p, whether or not it has a start.
FinalizeEvent_KeepsEvent(p) ==
    /\ pendingStatuses' = [pendingStatuses EXCEPT ![p] = {}]
    /\ pendingStartMono' = [pendingStartMono EXCEPT ![p] = 0]
    /\ UNCHANGED pendingEvents

FinalizeEvent_KeepsStatus(p) ==
    /\ pendingEvents' = [pendingEvents EXCEPT ![p] = NoEvent]
    /\ pendingStartMono' = [pendingStartMono EXCEPT ![p] = 0]
    /\ IF pendingEvents[p] = NoEvent THEN UNCHANGED pendingStatuses
       ELSE pendingStatuses' = [pendingStatuses EXCEPT ![p] = {}]

FinalizeEvent_NeedsStatus(p) ==
    IF pendingStatuses[p] = {}
    THEN UNCHANGED <<pendingEvents, pendingStatuses, pendingStartMono>>
    ELSE /\ pendingEvents' = [pendingEvents EXCEPT ![p] = NoEvent]
         /\ pendingStatuses' = [pendingStatuses EXCEPT ![p] = {}]
         /\ pendingStartMono' = [pendingStartMono EXCEPT ![p] = 0]

FinalizeEvent(p) ==
    /\ pendingEvents' = [pendingEvents EXCEPT ![p] = NoEvent]
    /\ pendingStatuses' = [pendingStatuses EXCEPT ![p] = {}]
    /\ pendingStartMono' = [pendingStartMono EXCEPT ![p] = 0]

\* handleProcessExit: everything remembered of the process is dropped, and a
\* remembered start gets its proc_end row.
HandleProcessExit(c) ==
    LET r == Head(ring[c])
        p == r.tgid
    IN  /\ Take(c, "ProcessExit")
        /\ r.tid = p
        /\ DropExecAttempts(p)
        /\ FinalizeEvent(p)
        /\ IF pendingEvents[p] = NoEvent
           THEN UNCHANGED <<log, service>>
           ELSE \E ok \in WriteResults : Write(EndRow(p, r), ok)
        /\ UNCHANGED <<work, eventSeq, lostTotal>>

\* BuildCollectorLossEvent, under an id of its own.
LossEvent(r) == [id |-> eventSeq + 1, pid |-> NoTid, inc |-> 0, mono |-> r.status]

\* handleLostSamples.  Whether the interval since the last proc_loss row has
\* elapsed is left open here; LossAccounting has the details.
HandleLost(c) ==
    LET r  == Head(ring[c])
        ev == LossEvent(r)
    IN  /\ Take(c, "Lost")
        /\ lostTotal' = lostTotal + r.status
        /\ \/ /\ LossAction # "ignore"
              /\ eventSeq' = eventSeq + 1
              /\ \E ok \in WriteResults :
                    IF ok /\ LossAction = "stop"
                    THEN log' = Append(log, NewRow("proc_loss", ev, r)) /\ service' = "stopped"
                    ELSE Write(NewRow("proc_loss", ev, r), ok)
           \/ /\ LossAction = "ignore" \/ (LossAction = "log" /\ lostTotal > 0)
              /\ UNCHANGED <<eventSeq, log, service>>
        /\ UNCHANGED <<work, pending>>

\* The stop channel is closed: the next Read returns ErrClosed.
Stop ==
    /\ service = "reading"
    /\ service' = "stopped"
    /\ UNCHANGED <<kernel, reader, work, pending, eventSeq, lostTotal, log>>

ServiceNext ==
    \/ Poll \/ BuildFails \/ StartFiltered \/ StartWritten
    \/ \E c \in CPUs :
          \/ HandleExec(c) \/ HandleExecEnter(c) \/ HandleExecResult(c)
          \/ HandleExitGroup(c) \/ HandleExitStatus(c)
          \/ IgnoreThreadExit(c) \/ HandleProcessExit(c) \/ HandleLost(c)

\* Once Run has returned nothing is traced any more.
Traced == service # "stopped" /\ KernelNext /\ UNCHANGED daemon

Next == Traced \/ ServiceNext \/ Stop

Spec == Init /\ [][Next]_vars

\* The read loop runs for as long as the daemon does.
FairSpec == Spec /\ WF_vars(ServiceNext)

-----------------------------------------------------------------------------
(* Properties.                                                             *)

Rows(kind) == {i \in DOMAIN log : log[i].kind = kind}
Starts == Rows("proc_start")
Ends   == Rows("proc_end")

\* Every proc_end row joins exactly one proc_start row, written before it for
\* the same pid, and a proc_start row is ended at most once: the pairing of
\* rememberExecEvent and finalizeEvent, whatever was lost or reordered.
EndJoinsStart ==
    \A j \in Ends :
        /\ \E i \in Starts : i < j /\ log[i].id = log[j].id /\ log[i].pid = log[j].pid
        /\ \A k \in Ends : log[k].id = log[j].id => k = j

\* No event id is given to two proc_start or proc_loss rows (nextEventID).
IdsDistinct ==
    \A i, j \in Starts \cup Rows("proc_loss") : log[i].id = log[j].id => i = j

\* Samples reach the service in the order and number they were taken in.
InOrder == (\E c \in CPUs : CPUs = {c}) /\ dropped = 0

\* A proc_end row is written for the exit of the very process whose exec its
\* proc_start row recorded, although pids are reused (in-order samples).
EndOfSameProcess == InOrder => \A j \in Ends : log[j].inc = log[j].by

\* A proc_end row of a process that exited by itself carries the low byte of
\* the code the kernel holds (in-order samples, single-threaded processes).
ExitStatusExact ==
    InOrder /\ MaxThreads = 1 =>
        \A j \in Ends : log[j].code # NoStatus =>
            \E s \in log[j].status : s.value = log[j].code % 256

\* The status of a proc_end row was passed to exit by the process that ended,
\* never by an earlier user of the pid (in-order samples).
StatusNotStale ==
    InOrder => \A j \in Ends : \A s \in log[j].status : s.inc = log[j].by

\* The duration of a proc_end row is the time from the exec of its start row
\* to the exit (in-order samples).
DurationExact ==
    InOrder => \A j \in Ends : log[j].duration = log[j].at - log[j].mono

\* What a proc_end row says of an exit is exact: status and duration.
EndExact == ExitStatusExact /\ DurationExact

\* Nothing to read and no process left.
Quiet ==
    /\ service = "reading"
    /\ \A c \in CPUs : ring[c] = <<>>
    /\ \A t \in Tids : phase[t] = "free"

\* When every process is gone and its samples are handled, no start event and
\* no execve attempt is still remembered: the maps do not grow with the
\* processes seen (in-order samples).
NothingKept ==
    InOrder /\ Quiet =>
        /\ \A p \in Pids : pendingEvents[p] = NoEvent
        /\ \A t \in Tids : pendingExecve[t] = NoAttempt

\* Nor is an exit status (in-order samples, single-threaded processes).
NoStatusKept ==
    InOrder /\ Quiet /\ MaxThreads = 1 =>
        \A p \in Pids : pendingStatuses[p] = {} /\ pendingStartMono[p] = 0

\* A remembered start whose process is gone is ended in the end, unless the
\* daemon stops or samples were dropped first (in-order samples).
ExitReported ==
    \A p \in Pids :
        pendingEvents[p] # NoEvent /\ phase[p] = "free"
            ~> pendingEvents[p] = NoEvent \/ service = "stopped" \/ dropped > 0
=============================================================================
