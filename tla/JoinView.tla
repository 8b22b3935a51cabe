------------------------------- MODULE JoinView -------------------------------
(***************************************************************************)
(* What prec makes of the log of precd: event_merge.go joins proc_start    *)
(* and proc_end records by their event id into one row per command, and    *)
(* event_collection.go collects the rows a query asks for.  There are four *)
(* ways to the same rows: a list merged in memory, a list of starts alone  *)
(* for queries that need no ends, the last rows of a compressed log read   *)
(* backwards, and the stream of --follow, which goes on from a list with   *)
(* the list's own join state.                                              *)
(*                                                                         *)
(* The log is written by precd daemons, one after the other; each numbers  *)
(* its events from one, under a prefix that has the second it started in.  *)
(* The files the log is kept in are the subject of later modules.          *)
(***************************************************************************)
EXTENDS Integers, Sequences, FiniteSets

CONSTANTS
    Commands,      \* what start fields a query may tell apart
    Results,       \* what end fields a query may tell apart
    Queries,       \* records [cmds, results, ends]
    OldLogs,       \* logs the first daemon may find
    Limits,        \* numbers of rows asked for, 0 for no limit
    InitialWindow, \* initialWindowBytes, in compressed frames
    MaxWindow,     \* maxSuffixWindowBytes, in compressed frames
    MaxDaemons,    \* daemons that write the log (bound)
    MaxRecords     \* records in the log (bound)

NoResult == "running"
NoId     == <<0, 0>>
Torn     == [type |-> "torn", id |-> NoId, cmd |-> "none", result |-> NoResult]

Ids     == {NoId} \cup ((1 .. MaxDaemons) \X (1 .. MaxRecords))
Record  == [type : {"proc_start", "proc_end", "proc", "other"}, id : Ids,
            cmd : Commands, result : Results \cup {NoResult}] \cup {Torn}

\* requiresCommandEndProcessing: a query about results needs the ends.  An end
\* says how its command ended.
ASSUME JoinAssumption ==
    /\ NoResult \notin Results
    /\ Queries \subseteq [cmds : SUBSET Commands, ends : BOOLEAN,
                          results : SUBSET (Results \cup {NoResult})]
    /\ \A q \in Queries : q.results = Results \cup {NoResult} \/ q.ends
    /\ {InitialWindow, MaxWindow, MaxDaemons, MaxRecords} \subseteq Nat
    /\ MaxDaemons > 0
    /\ Limits \subseteq Nat
    /\ OldLogs \subseteq Seq(Record)
    /\ \A old \in OldLogs : \A i \in DOMAIN old :
          old[i].type = "proc_end" => old[i].result \in Results

VARIABLES
    log,       \* the records, in order
    prefix,    \* id prefix of the daemon
    seq,       \* last number it gave out
    alive,     \* commands it has started and not ended
    follower,  \* prec --follow: "none", "listed" or "following"
    query,     \* its query
    limit,     \* its limit
    joinState, \* id -> row of a command whose end is awaited
    opened,    \* length of the log when the follower began to read behind it
    missed,    \* records written between its list and that (history)
    pos,       \* records the follower has passed
    printed    \* rows it has printed

daemon == <<prefix, seq, alive>>
reader == <<follower, query, limit, joinState, opened, missed, pos, printed>>
vars   == <<log, daemon, reader>>

Row     == [type : {"proc", "other"}, id : Ids, cmd : Commands,
            result : Results \cup {NoResult}]
NoQuery == [cmds |-> {}, results |-> {}, ends |-> FALSE]

-----------------------------------------------------------------------------
(* event_merge.go.                                                         *)

MergedCommandFromStart(ev) == [ev EXCEPT !.type = "proc", !.result = NoResult]

ApplyCommandEnd(start, end) == [start EXCEPT !.result = end.result]

\* Start-only views: one row per start, ends and old records are dropped.
MergedEventWithoutCommandEnd_All(ev) ==
    IF ev.type \in {"proc_start", "proc_end"} THEN <<MergedCommandFromStart(ev)>>
    ELSE IF ev.type = "other" THEN <<ev>> ELSE <<>>

MergedEventWithoutCommandEnd(ev) ==
    IF ev.type = "proc_start" THEN <<MergedCommandFromStart(ev)>>
    ELSE IF ev.type = "other" THEN <<ev>> ELSE <<>>

With(f, id, x)       == [i \in DOMAIN f \cup {id} |-> IF i = id THEN x ELSE f[i]]
Without(pending, id) == [i \in DOMAIN pending \ {id} |-> pending[i]]

\* The rows (none or one) record ev makes, and what is pending afterwards.
MergeEventForStreaming(pending, ev, ends) ==
    CASE ends /\ ev.type = "proc_end" /\ ev.id \in DOMAIN pending ->
            [pending |-> Without(pending, ev.id),
             rows    |-> <<ApplyCommandEnd(pending[ev.id], ev)>>]
      [] ends /\ ev.type = "proc_start" /\ ev.id # NoId ->
            LET row == MergedCommandFromStart(ev) IN
            [pending |-> With(pending, ev.id, row), rows |-> <<row>>]
      [] ends /\ ev.type = "other" -> [pending |-> pending, rows |-> <<ev>>]
      [] ~ends -> [pending |-> pending, rows |-> MergedEventWithoutCommandEnd(ev)]
      [] OTHER -> [pending |-> pending, rows |-> <<>>]

\* mergeEventsForList compacts raw in place: `buf' is the array, its first
\* `len' elements are the output, `index' says where an id has its row.
Place_Again(m, row) ==
    [m EXCEPT !.buf[m.len + 1] = row, !.len = @ + 1,
              !.index = IF row.type = "proc" THEN With(@, row.id, m.len + 1) ELSE @]

Place(m, row) ==
    IF row.type = "proc" /\ row.id \in DOMAIN m.index
    THEN [m EXCEPT !.buf[m.index[row.id]] = row]
    ELSE [m EXCEPT !.buf[m.len + 1] = row, !.len = @ + 1,
                   !.index = IF row.type = "proc" THEN With(@, row.id, m.len + 1) ELSE @]

Merge(m, ev) ==
    LET step == MergeEventForStreaming(m.pending, ev, TRUE)
        next == [m EXCEPT !.pending = step.pending]
    IN  IF step.rows = <<>> THEN next ELSE Place(next, step.rows[1])

MergeEventsForList(raw, pending) ==
    LET merge[i \in 0 .. Len(raw)] ==
            IF i = 0
            THEN [buf |-> raw, len |-> 0, index |-> <<>>, pending |-> pending]
            ELSE Merge(merge[i - 1], merge[i - 1].buf[i])
        last == merge[Len(raw)]
    IN  [rows |-> SubSeq(last.buf, 1, last.len), pending |-> last.pending]

-----------------------------------------------------------------------------
(* event_collection.go.                                                    *)

\* matchFilter
Matches(row, q) == row.cmd \in q.cmds /\ row.result \in q.results

\* The elements of s at the places in I, in order.
Picked(s, I) ==
    LET picked[i \in 0 .. Len(s)] ==
            IF i = 0 THEN <<>>
            ELSE IF i \in I THEN Append(picked[i - 1], s[i]) ELSE picked[i - 1]
    IN  picked[Len(s)]

Matching(rows, q) == Picked(rows, {i \in DOMAIN rows : Matches(rows[i], q)})

\* Lines that are no JSON are passed over.
Parsed(records) == Picked(records, {i \in DOMAIN records : records[i] # Torn})

\* eventWindow: the newest n rows in a ring, all of them when n is 0.
NewEventWindow(n) == [rows |-> <<>>, start |-> 0, count |-> 0, limit |-> n]

Add(w, row) ==
    IF w.limit = 0 THEN [w EXCEPT !.rows = Append(@, row)]
    ELSE IF w.count < w.limit THEN [w EXCEPT !.rows = Append(@, row), !.count = @ + 1]
    ELSE [w EXCEPT !.rows[w.start + 1] = row, !.start = (@ + 1) % w.limit]

Events(w) ==
    IF w.limit = 0 \/ w.start = 0 THEN w.rows
    ELSE [i \in 1 .. w.count |-> w.rows[((w.start + i - 1) % w.limit) + 1]]

Windowed(rows, n) ==
    LET add[i \in 0 .. Len(rows)] ==
            IF i = 0 THEN NewEventWindow(n) ELSE Add(add[i - 1], rows[i])
    IN  Events(add[Len(rows)])

\* The rows of the start-only view, before filtering.
StartRows(records) ==
    LET rows[i \in 0 .. Len(records)] ==
            IF i = 0 THEN <<>>
            ELSE rows[i - 1] \o MergedEventWithoutCommandEnd(records[i])
    IN  rows[Len(records)]

CollectFilteredEventsStreaming(records, n, q) ==
    Windowed(Matching(StartRows(Parsed(records)), q), n)

\* collectFilteredEventsWithJoin of an uncompressed log.
CollectFilteredEvents(records, n, q, pending) ==
    IF q.ends
    THEN LET list == MergeEventsForList(Parsed(records), pending)
         IN  [rows |-> Windowed(Matching(list.rows, q), n), pending |-> list.pending]
    ELSE [rows |-> CollectFilteredEventsStreaming(records, n, q), pending |-> pending]

\* decodeCompressedSuffixFromFrameBoundary, every record being a frame: the
\* suffix decodes from the frame behind the last torn one.
TornAt(records) == {i \in DOMAIN records : records[i] = Torn}

Decoded(records, from) ==
    LET last == CHOOSE i \in {from - 1} \cup TornAt(records) :
                    \A j \in TornAt(records) : j <= i
    IN  SubSeq(records, IF last < from THEN from ELSE last + 1, Len(records))

\* Backwards from the end of the decoded suffix until there are n matches.
ScanBack(part, n, q) ==
    LET found[i \in 0 .. Len(part)] ==
            IF i = Len(part) THEN <<>>
            ELSE LET newer == found[i + 1] IN
                 IF Len(newer) >= n THEN newer
                 ELSE Matching(MergedEventWithoutCommandEnd(part[i + 1]), q) \o newer
    IN  found[0]

\* collectTailEventsFromCompressedLog: windows that double until they hold n
\* matches or the whole file; a list of no more than one element, empty when
\* the caller must fall back to a full scan.
CollectTail_FirstWindow(records, n, q) ==
    LET size == Len(records)
        rows == ScanBack(Decoded(records, 1 + size - InitialWindow), n, q)
    IN  IF size = 0 THEN <<(<<>>)>> ELSE IF InitialWindow > size THEN <<>> ELSE <<rows>>

CollectTail(records, n, q) ==
    LET size == Len(records)
        try[w \in 0 .. size] ==
            LET part == Decoded(records, size - w + 1)
                rows == ScanBack(part, n, q)
            IN  IF part # <<>> /\ (Len(rows) >= n \/ w = size) THEN <<rows>>
                ELSE IF w = size \/ w >= MaxWindow THEN <<>>
                ELSE try[IF w = 0 THEN 1 ELSE IF 2 * w > size THEN size ELSE 2 * w]
    IN  IF size = 0 THEN <<(<<>>)>>
        ELSE try[IF InitialWindow > size THEN size ELSE InitialWindow]

-----------------------------------------------------------------------------
(* The log.                                                                *)

TypeOK ==
    /\ log \in Seq(Record)
    /\ <<prefix, seq>> \in (1 .. MaxDaemons) \X (0 .. MaxRecords)
    /\ alive \subseteq Ids
    /\ follower \in {"none", "listed", "following"}
    /\ query \in Queries \cup {NoQuery}
    /\ limit \in Limits \cup {0}
    /\ DOMAIN joinState \subseteq Ids
    /\ \A id \in DOMAIN joinState : joinState[id] \in Row
    /\ {opened, missed, pos} \subseteq 0 .. Len(log)
    /\ printed \in Seq(Row)

Init ==
    /\ log \in OldLogs
    /\ prefix = 1
    /\ seq = 0
    /\ alive = {}
    /\ follower = "none"
    /\ query = NoQuery
    /\ limit = 0
    /\ joinState = <<>>
    /\ opened = 0
    /\ missed = 0
    /\ pos = 0
    /\ printed = <<>>

Write(ev) ==
    /\ Len(log) < MaxRecords
    /\ log' = Append(log, ev)
    /\ missed' = IF follower = "listed" THEN missed + 1 ELSE missed
    /\ UNCHANGED <<follower, query, limit, joinState, opened, pos, printed>>

WriteStart(c) ==
    LET id == <<prefix, seq + 1>> IN
    /\ Write([type |-> "proc_start", id |-> id, cmd |-> c, result |-> NoResult])
    /\ seq' = seq + 1
    /\ alive' = alive \cup {id}
    /\ UNCHANGED prefix

\* BuildCommandEndEvent copies the start event.
WriteEnd(id, r) ==
    LET start == CHOOSE i \in DOMAIN log :
                     /\ log[i].type = "proc_start" /\ log[i].id = id
                     /\ \A j \in i + 1 .. Len(log) : log[j].id # id
    IN  /\ id \in alive
        /\ Write([log[start] EXCEPT !.type = "proc_end", !.result = r])
        /\ alive' = alive \ {id}
        /\ UNCHANGED <<prefix, seq>>

\* file_open, file_save, proc_fail and proc_loss records.
WriteOther(c) ==
    /\ Write([type |-> "other", id |-> NoId, cmd |-> c, result |-> NoResult])
    /\ UNCHANGED daemon

\* The daemon ends, maybe in the middle of a record; the next one gets another
\* prefix unless it starts within the same second.
Restart ==
    /\ prefix' \in {prefix, prefix + 1} \cap (1 .. MaxDaemons)
    /\ seq' = 0
    /\ alive' = {}
    /\ seq > 0
    /\ Write(Torn) \/ UNCHANGED <<log, reader>>

-----------------------------------------------------------------------------
(* prec --follow: runTail and emitMergedEvent.                             *)

\* printLastN: no rows are asked for, then nothing is read; else the list and
\* its join state.
FollowLists_OwnState ==
    /\ follower = "none"
    /\ follower' = "listed"
    /\ query' \in Queries
    /\ limit' \in Limits
    /\ printed' = IF limit' = 0 THEN <<>>
                  ELSE CollectFilteredEvents(log, limit', query', <<>>).rows
    /\ UNCHANGED <<log, daemon, joinState, opened, missed, pos>>

FollowLists ==
    /\ follower = "none"
    /\ follower' = "listed"
    /\ query' \in Queries
    /\ limit' \in Limits
    /\ LET list == CollectFilteredEvents(log, limit', query', <<>>) IN
       IF limit' = 0 THEN UNCHANGED <<printed, joinState>>
       ELSE printed' = list.rows /\ joinState' = list.pending
    /\ UNCHANGED <<log, daemon, opened, missed, pos>>

\* The file is opened again, at its end.
FollowOpens ==
    /\ follower = "listed"
    /\ follower' = "following"
    /\ opened' = Len(log)
    /\ pos' = Len(log)
    /\ UNCHANGED <<log, daemon, query, limit, joinState, missed, printed>>

\* emitMergedEvent
FollowReads ==
    LET ev   == log[pos + 1]
        step == MergeEventForStreaming(joinState, ev, query.ends)
    IN  /\ follower = "following"
        /\ pos < Len(log)
        /\ pos' = pos + 1
        /\ IF ev = Torn THEN UNCHANGED <<joinState, printed>>
           ELSE /\ joinState' = step.pending
                /\ printed' = printed \o Matching(step.rows, query)
        /\ UNCHANGED <<log, daemon, follower, query, limit, opened, missed>>

Next ==
    \/ \E c \in Commands : WriteStart(c) \/ WriteOther(c)
    \/ \E id \in alive, r \in Results : WriteEnd(id, r)
    \/ Restart
    \/ FollowLists \/ FollowOpens \/ FollowReads

Spec == Init /\ [][Next]_vars

-----------------------------------------------------------------------------
(* What the views should show.                                             *)

\* The commands of a log, by id: where each has its first start, the record
\* that decided its row (the first end behind the last start of the id, or
\* that start), and the row.
StartsOf(records, id) ==
    {i \in DOMAIN records : records[i].type = "proc_start" /\ records[i].id = id}

Least(S)    == CHOOSE x \in S : \A y \in S : x <= y
Greatest(S) == CHOOSE x \in S : \A y \in S : y <= x

Command(records, id) ==
    LET start == Greatest(StartsOf(records, id))
        ends  == {i \in start + 1 .. Len(records) :
                     records[i].type = "proc_end" /\ records[i].id = id}
        row   == [type |-> "proc", id |-> id, cmd |-> records[start].cmd,
                  result |-> IF ends = {} THEN NoResult ELSE records[Least(ends)].result]
    IN  [first |-> Least(StartsOf(records, id)),
         last  |-> IF ends = {} THEN start ELSE Least(ends), row |-> row]

CommandsOf(records) ==
    {Command(records, id) : id \in {i \in Ids \ {NoId} : StartsOf(records, i) # {}}}

Others(records) ==
    {[first |-> i, last |-> i, row |-> records[i]] :
        i \in {j \in DOMAIN records : records[j].type = "other"}}

List(records) == MergeEventsForList(Parsed(records), <<>>).rows

LastN(rows, n) ==
    IF n = 0 \/ n >= Len(rows) THEN rows ELSE SubSeq(rows, Len(rows) - n + 1, Len(rows))

\* Every start has an id of its own.
DistinctIds(records) ==
    StartsOf(records, NoId) = {} /\ \A id \in Ids : Cardinality(StartsOf(records, id)) <= 1

-----------------------------------------------------------------------------
(* Properties.  Those of a view of the log alone are looked at before      *)
(* somebody follows it.                                                    *)

Unfollowed == follower = "none"

\* The joined list has exactly one row for every command and every other
\* record, in the order they began, each command with the end of its last
\* start: the one-pass, in-place merge of mergeEventsForList loses, repeats
\* and reorders nothing, even when ids come twice.
ListIsOneRowPerCommand ==
    Unfollowed =>
    LET list == List(log)
        all  == CommandsOf(log) \cup Others(log)
    IN  /\ Len(list) = Cardinality(all)
        /\ \A e \in all :
              list[Cardinality({f \in all : f.first <= e.first})] = e.row

\* The last rows of a view are the last rows of the whole view: in the ring of
\* eventWindow, and read backwards from a compressed log with whatever windows;
\* behind a torn frame, which a full scan cannot pass, they are those of the
\* readable rest.
LastRowsAgree ==
    Unfollowed => \A n \in Limits, q \in Queries :
        /\ CollectFilteredEvents(log, n, q, <<>>).rows =
               LastN(CollectFilteredEvents(log, 0, q, <<>>).rows, n)
        /\ n > 0 =>
               \A i \in DOMAIN CollectTail(log, n, q) :
                   CollectTail(log, n, q)[i] =
                       LastN(CollectFilteredEventsStreaming(Decoded(log, 1), 0, q), n)

\* A query shows the same commands with and without their ends, as long as every
\* start has an id of its own: asking for an end column changes no rows.
SameCommands ==
    Unfollowed /\ DistinctIds(log) =>
        \A q \in Queries :
            q.results = Results \cup {NoResult} =>
                LET shown(ends) ==
                        LET rows == CollectFilteredEvents(log, 0,
                                        [q EXCEPT !.ends = ends], <<>>).rows
                        IN  [i \in DOMAIN rows |-> <<rows[i].id, rows[i].cmd>>]
                IN  shown(TRUE) = shown(FALSE)

\* All views show the same: list, fast paths and start-only view.
ViewsAgree == LastRowsAgree /\ SameCommands

Followed ==
    follower = "following" /\ pos = Len(log) /\ missed = 0 /\ limit > 0 /\ query.ends

\* A follower that has caught up has printed, as its last row for every
\* command that changed while it followed, the very row a list would show now:
\* the ends of commands that were listed before are joined too (runTail hands
\* the join state of the list over to the stream).  It keeps the commands that
\* have not ended and nothing else ("remove it from pending to keep memory
\* usage stable").
FollowerShowsList ==
    Followed =>
        /\ \A c \in CommandsOf(log) :
              c.last > opened /\ Matches(c.row, query) =>
                LET mine == {i \in DOMAIN printed : printed[i].id = c.row.id}
                IN  mine # {} /\ printed[Greatest(mine)] = c.row
        /\ DOMAIN joinState =
              {c.row.id : c \in {d \in CommandsOf(log) : d.row.result = NoResult}}
=============================================================================
