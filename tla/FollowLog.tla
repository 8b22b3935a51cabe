------------------------------ MODULE FollowLog ------------------------------
(***************************************************************************)
(* prec --follow on a log that is written, rotated and truncated under it: *)
(* runTailPlain and runTailCompressed of tail.go with the compressed tail  *)
(* reader of log_reader.go.  What the rows are is the subject of JoinView; *)
(* here a row is the number of its record.                                 *)
(*                                                                         *)
(* A record is a line of the plain log and a frame of the compressed one.  *)
(* Both are written by one write(2), of which a reader may see a part: a   *)
(* record is two cells, the second of which ends it.                       *)
(*                                                                         *)
(* Around the follower (DaemonLog has the details): precd appends through  *)
(* its own descriptor; logrotate renames the log, creates a new one and    *)
(* has precd reopen it; something else truncates the log in place          *)
(* (copytruncate); precd dies, maybe within a record, and is restarted.    *)
(***************************************************************************)
EXTENDS Integers, Sequences, FiniteSets

CONSTANTS
    Modes,       \* "plain", "compressed"
    MaxRecords,  \* records written (bound)
    MaxFiles,    \* log files (bound)
    MaxTruncs,   \* truncations (bound)
    MaxRestarts  \* deaths of precd (bound)

ASSUME FollowAssumption ==
    /\ Modes \subseteq {"plain", "compressed"}
    /\ {MaxRecords, MaxFiles, MaxTruncs, MaxRestarts} \subseteq Nat
    /\ MaxFiles > 0

VARIABLES
    files,    \* the cells of every file ever made
    name,     \* the file the log path names, or NoFile
    out,      \* the file precd has open
    cells,    \* number of the last cell written
    rotating, \* what logrotate does next
    truncs, restarts, \* so far (bounds)
    gens,     \* the generation of every record begun (history)
    torn,     \* a record was left unfinished (history)
    mode,     \* compressionMode
    pc,       \* where runTailPlain or runTailCompressed is
    fd,       \* the file the follower has open
    off,      \* its offset in it
    size,     \* runTailCompressed: the size it saw
    pending,  \* runTailPlain: the cells of an unfinished line
    decoders, \* runTailCompressed: its decoder goroutines, the current one last
    printed,  \* records shown, in order
    garbled,  \* a row was shown that is no record (history)
    why,      \* what ended prec (history)
    began,    \* last cell written when the follower opened the log (history)
    woke,     \* last cell written when it last woke up (history)
    cut,      \* the open file was truncated, and the follower has not seen it (history)
    spoilt    \* a cell it read was not the next one of the file (history)

writer   == <<files, name, out, cells, rotating, truncs, restarts, gens, torn>>
shown    == <<printed, garbled>>
history  == <<began, woke, cut, spoilt>>
follower == <<mode, pc, fd, off, size, pending, decoders, shown, why>>
vars     == <<writer, follower, history>>

NoFile == 0

\* Record r is cells 2 * r - 1 and 2 * r.
Starts(c)   == c % 2 = 1
RecordOf(c) == (c + 1) \div 2
Midway      == Starts(cells)

Decoder == [fed : Seq(Nat), failed : BOOLEAN]

TypeOK ==
    /\ files \in Seq(Seq(1 .. cells))
    /\ name \in DOMAIN files \cup {NoFile}
    /\ out \in DOMAIN files
    /\ rotating \in {"no", "create", "signal"}
    /\ gens \in Seq(Nat)
    /\ torn \in BOOLEAN
    /\ mode \in Modes
    /\ pc \in {"start", "read", "check", "open", "detect", "shrunk", "poll", "stat", "feed",
               "sleep", "exit"}
    /\ fd \in DOMAIN files \cup {NoFile}
    /\ off \in Nat /\ size \in Nat
    /\ pending \in Seq(1 .. cells)
    /\ decoders \in Seq(Decoder)
    /\ printed \in Seq(DOMAIN gens)
    /\ garbled \in BOOLEAN
    /\ why \in {"", "name", "decode", "race"}
    /\ {began, woke} \subseteq 0 .. cells
    /\ cut \in BOOLEAN /\ spoilt \in BOOLEAN

Init ==
    /\ files = << <<>> >>
    /\ name = 1
    /\ out = 1
    /\ cells = 0
    /\ rotating = "no"
    /\ truncs = 0
    /\ restarts = 0
    /\ gens = <<>>
    /\ torn = FALSE
    /\ mode \in Modes
    /\ pc = "start"
    /\ fd = NoFile
    /\ off = 0
    /\ size = 0
    /\ pending = <<>>
    /\ decoders = <<>>
    /\ printed = <<>>
    /\ garbled = FALSE
    /\ why = ""
    /\ began = 0
    /\ woke = 0
    /\ cut = FALSE
    /\ spoilt = FALSE

-----------------------------------------------------------------------------
(* The writer, logrotate and whoever truncates the log.                    *)

\* WriteEvent: the first cell begins a record, the second ends it.
WriteCell ==
    /\ RecordOf(cells + 1) <= MaxRecords
    /\ cells' = cells + 1
    /\ files' = [files EXCEPT ![out] = Append(@, cells + 1)]
    /\ gens' = IF Midway THEN gens ELSE Append(gens, out + truncs)
    /\ UNCHANGED <<name, out, rotating, truncs, restarts, torn, follower, history>>

\* precd opens the log path, which makes the file if there is none.
OpenOut ==
    IF name # NoFile THEN out' = name /\ UNCHANGED <<files, name>>
    ELSE /\ files' = Append(files, <<>>)
         /\ name' = Len(files) + 1
         /\ out' = name'

Rename ==
    /\ rotating = "no"
    /\ name # NoFile
    /\ Len(files) < MaxFiles
    /\ rotating' = "create"
    /\ name' = NoFile
    /\ UNCHANGED <<files, out, cells, truncs, restarts, gens, torn, follower, history>>

Create ==
    /\ rotating = "create"
    /\ rotating' = "signal"
    /\ IF name = NoFile THEN files' = Append(files, <<>>) /\ name' = Len(files) + 1
       ELSE UNCHANGED <<files, name>>
    /\ UNCHANGED <<out, cells, truncs, restarts, gens, torn, follower, history>>

\* The SIGHUP and Reopen, between two records.
Reopen ==
    /\ rotating = "signal"
    /\ ~Midway
    /\ rotating' = "no"
    /\ OpenOut
    /\ UNCHANGED <<cells, truncs, restarts, gens, torn, follower, history>>

\* A truncation waits for a write under way.
Truncate ==
    /\ truncs < MaxTruncs
    /\ name # NoFile
    /\ files[name] # <<>>
    /\ ~(Midway /\ out = name)
    /\ truncs' = truncs + 1
    /\ files' = [files EXCEPT ![name] = <<>>]
    /\ cut' = (cut \/ (fd = name /\ off > 0))
    /\ UNCHANGED <<name, out, cells, rotating, restarts, gens, torn, follower, began, woke, spoilt>>

\* precd dies and is started again; the rest of a record is never written.
Restart ==
    /\ restarts < MaxRestarts
    /\ restarts' = restarts + 1
    /\ cells' = IF Midway THEN cells + 1 ELSE cells
    /\ torn' = (torn \/ Midway)
    /\ OpenOut
    /\ UNCHANGED <<rotating, truncs, gens, follower, history>>

WriterNext ==
    WriteCell \/ Rename \/ Create \/ Reopen \/ Truncate \/ Restart

-----------------------------------------------------------------------------
(* Both followers.                                                         *)

Goto(where) == pc' = where

Exit(reason) == Goto("exit") /\ why' = reason

File == files[fd]

\* The open file's descriptor and the path, compared.
ReplacedByName == name \notin {NoFile, fd}

\* compressedTailReader.Reset: the old goroutine is not waited for.
NewDecoder == [fed |-> <<>>, failed |-> FALSE]

Reset == decoders' = Append(decoders, NewDecoder)

\* Open and Seek to the end, behind the rows printLastN listed.
Open ==
    /\ pc = "start"
    /\ IF name = NoFile
       THEN /\ Exit("name")
            /\ UNCHANGED <<fd, off, decoders, history>>
       ELSE /\ fd' = name
            /\ off' = Len(files[name])
            /\ spoilt' = (off' > 0 /\ Starts(files[name][off']))
            /\ began' = cells
            /\ woke' = cells
            /\ IF mode = "plain" THEN Goto("read") /\ UNCHANGED decoders
               ELSE Goto("check") /\ Reset
            /\ UNCHANGED <<why, cut>>
    /\ UNCHANGED <<writer, mode, size, pending, shown>>

\* followPollInterval
Wake ==
    /\ pc = "sleep"
    /\ Goto(IF mode = "plain" THEN "read" ELSE "check")
    /\ woke' = cells
    /\ UNCHANGED <<writer, mode, fd, off, size, pending, decoders, shown, why, began, cut, spoilt>>

-----------------------------------------------------------------------------
(* runTailPlain.                                                           *)

\* emitMergedEvent: a line that is no JSON shows nothing.  The first part of
\* one record with the second part of another may be JSON.
Emit(line) ==
    LET parts == Len(line) = 2 /\ Starts(line[1])
        same  == parts /\ RecordOf(line[1]) = RecordOf(line[2])
    IN  /\ printed' = IF same THEN Append(printed, RecordOf(line[2])) ELSE printed
        /\ \E mixed \in {FALSE, parts /\ ~same} : garbled' = (garbled \/ mixed)

\* readBoundedLogLine
ReadLine ==
    /\ mode = "plain"
    /\ pc = "read"
    /\ off < Len(File)
    /\ off' = off + 1
    /\ LET line == Append(pending, File[off + 1]) IN
       IF Starts(File[off + 1]) THEN pending' = line /\ UNCHANGED shown
       ELSE pending' = <<>> /\ Emit(line)
    /\ spoilt' = (spoilt \/ cut)
    /\ UNCHANGED <<writer, mode, pc, fd, size, decoders, why, began, woke, cut>>

ReadEOF_Early ==
    /\ mode = "plain"
    /\ pc = "read"
    /\ Goto("check")
    /\ UNCHANGED <<writer, mode, fd, off, size, pending, decoders, shown, why, history>>

ReadEOF ==
    /\ mode = "plain"
    /\ pc = "read"
    /\ off >= Len(File)
    /\ Goto("check")
    /\ UNCHANGED <<writer, mode, fd, off, size, pending, decoders, shown, why, history>>

\* isReplacedByName
Check ==
    /\ mode = "plain"
    /\ pc = "check"
    /\ Goto(IF ReplacedByName THEN "open" ELSE "shrunk")
    /\ UNCHANGED <<writer, mode, fd, off, size, pending, decoders, shown, why, history>>

\* reopenFollowFileByName: without a file by that name it goes on with its own.
Switch_KeepsOffset ==
    /\ mode = "plain"
    /\ pc = "open"
    /\ IF name = NoFile THEN Goto("shrunk") /\ UNCHANGED <<fd, off, pending, cut>>
       ELSE /\ Goto("read")
            /\ fd' = name /\ UNCHANGED off
            /\ pending' = <<>>
            /\ cut' = FALSE
    /\ UNCHANGED <<writer, mode, size, decoders, shown, why, began, woke, spoilt>>

Switch ==
    /\ mode = "plain"
    /\ pc = "open"
    /\ IF name = NoFile THEN Goto("shrunk") /\ UNCHANGED <<fd, off, pending, cut>>
       ELSE /\ Goto("read")
            /\ fd' = name /\ off' = 0
            /\ pending' = <<>>
            /\ cut' = FALSE
    /\ UNCHANGED <<writer, mode, size, decoders, shown, why, began, woke, spoilt>>

\* rewindIfShrunk
RewindIfShrunk_Always ==
    /\ mode = "plain"
    /\ pc = "shrunk"
    /\ IF Len(File) > off THEN Goto("sleep") /\ UNCHANGED <<off, pending, cut>>
       ELSE Goto("read") /\ off' = 0 /\ pending' = <<>> /\ cut' = FALSE
    /\ UNCHANGED <<writer, mode, fd, size, decoders, shown, why, began, woke, spoilt>>

RewindIfShrunk ==
    /\ mode = "plain"
    /\ pc = "shrunk"
    /\ IF Len(File) >= off THEN Goto("sleep") /\ UNCHANGED <<off, pending, cut>>
       ELSE Goto("read") /\ off' = 0 /\ pending' = <<>> /\ cut' = FALSE
    /\ UNCHANGED <<writer, mode, fd, size, decoders, shown, why, began, woke, spoilt>>

-----------------------------------------------------------------------------
(* runTailCompressed: its loop, and its decoder goroutines.                *)

CheckFirst ==
    /\ mode = "compressed"
    /\ pc = "check"
    /\ Goto(IF ReplacedByName THEN "open" ELSE "poll")
    /\ UNCHANGED <<writer, mode, fd, off, size, pending, decoders, shown, why, history>>

SwitchStream ==
    /\ mode = "compressed"
    /\ pc = "open"
    /\ IF name = NoFile THEN Goto("poll") /\ UNCHANGED <<fd, off, cut>>
       ELSE Goto("detect") /\ fd' = name /\ off' = 0 /\ cut' = FALSE
    /\ UNCHANGED <<writer, mode, size, pending, decoders, shown, why, began, woke, spoilt>>

\* detectLogCompression opens the path once more.
Detect_SameDecoder ==
    /\ mode = "compressed"
    /\ pc = "detect"
    /\ IF name = NoFile THEN Exit("name") ELSE Goto("check") /\ UNCHANGED why
    /\ UNCHANGED <<writer, mode, fd, off, size, pending, decoders, shown, history>>

Detect ==
    /\ mode = "compressed"
    /\ pc = "detect"
    /\ IF name = NoFile THEN Exit("name") /\ UNCHANGED decoders
       ELSE Goto("check") /\ Reset /\ UNCHANGED why
    /\ UNCHANGED <<writer, mode, fd, off, size, pending, shown, history>>

Current == decoders[Len(decoders)]

PollError ==
    /\ mode = "compressed"
    /\ pc = "poll"
    /\ IF Current.failed THEN Exit("decode") ELSE Goto("stat") /\ UNCHANGED why
    /\ UNCHANGED <<writer, mode, fd, off, size, pending, decoders, shown, history>>

\* The size is looked at; a smaller one begins a new stream.
Stat ==
    /\ mode = "compressed"
    /\ pc = "stat"
    /\ size' = Len(File)
    /\ IF Len(File) < off THEN Reset /\ off' = 0 /\ cut' = FALSE
       ELSE UNCHANGED <<decoders, off, cut>>
    /\ Goto(IF Len(File) = off' THEN "sleep" ELSE "feed")
    /\ UNCHANGED <<writer, mode, fd, pending, shown, why, began, woke, spoilt>>

\* ReadAt and Feed, until the size or the end of the file.
Feed ==
    /\ mode = "compressed"
    /\ pc = "feed"
    /\ IF off = size \/ off >= Len(File)
       THEN Goto("check") /\ UNCHANGED <<off, decoders, why, spoilt>>
       ELSE IF Current.failed
       THEN Exit("decode") /\ UNCHANGED <<off, decoders, spoilt>>
       ELSE /\ decoders' = [decoders EXCEPT ![Len(decoders)].fed = Append(@, File[off + 1])]
            /\ off' = off + 1
            /\ spoilt' = (spoilt \/ cut)
            /\ UNCHANGED <<pc, why>>
    /\ UNCHANGED <<writer, mode, fd, size, pending, shown, began, woke, cut>>

\* decodeCompressedTailStream of goroutine i: a frame is decoded and shown, or
\* what was fed is no frame.
Whole(fed) == Len(fed) >= 2 /\ Starts(fed[1]) /\ fed[2] = fed[1] + 1
Broken(fed) == Len(fed) >= 1 /\ (~Starts(fed[1]) \/ (Len(fed) >= 2 /\ ~Whole(fed)))

Decode(i) ==
    LET fed == decoders[i].fed IN
    /\ pc # "exit"
    /\ ~decoders[i].failed
    /\ IF Whole(fed)
       THEN /\ printed' = Append(printed, RecordOf(fed[1]))
            /\ decoders' = [decoders EXCEPT
                               ![i] = [fed |-> SubSeq(fed, 3, Len(fed)), failed |-> FALSE]]
       ELSE /\ Broken(fed)
            /\ decoders' = [decoders EXCEPT ![i] = [fed |-> <<>>, failed |-> TRUE]]
            /\ UNCHANGED printed
    /\ UNCHANGED <<writer, mode, pc, fd, off, size, pending, garbled, why, history>>

\* Two goroutines in emitMergedEvent at once use the map of the join state
\* unguarded: the Go runtime may notice and end the program.
Race ==
    /\ pc # "exit"
    /\ \E i, j \in DOMAIN decoders :
          i < j /\ Whole(decoders[i].fed) /\ Whole(decoders[j].fed)
    /\ Exit("race")
    /\ UNCHANGED <<writer, mode, fd, off, size, pending, decoders, shown, history>>

FollowerStep ==
    \/ ReadLine \/ ReadEOF \/ Check \/ Switch \/ RewindIfShrunk
    \/ CheckFirst \/ SwitchStream \/ Detect \/ PollError \/ Stat \/ Feed
    \/ Wake

Next ==
    \/ WriterNext
    \/ Open
    \/ FollowerStep
    \/ \E i \in DOMAIN decoders : Decode(i)
    \/ Race

Spec == Init /\ [][Next]_vars

\* The loop is never blocked for good, and the decoder goroutine it waits for
\* in Feed is scheduled.
FairSpec ==
    /\ Spec
    /\ WF_vars(FollowerStep)
    /\ \A i \in 1 .. MaxFiles + MaxTruncs + 1 : WF_vars(i \in DOMAIN decoders /\ Decode(i))

-----------------------------------------------------------------------------
(* Properties.                                                             *)

\* The follower is a reader as LogStream promises it: whatever is renamed,
\* created, truncated and reopened under it, it shows every record at most once
\* and in order; only where a decoder goroutine of an old file or of the time
\* before a truncation is still at work are its rows overtaken.
Stream == INSTANCE LogStream WITH
              Generations <- 1 .. MaxFiles + MaxTruncs,
              shown       <- printed,
              overtake    <- mode = "compressed"

ImplementsLogStream == Stream!Spec

\* Records whole in the file, not on the line of an unfinished one.
Standing ==
    {r \in DOMAIN gens :
        /\ 2 * r - 1 > began
        /\ \E i \in 1 .. Len(File) - 1 :
              /\ File[i] = 2 * r - 1 /\ File[i + 1] = 2 * r
              /\ i = 1 \/ ~Starts(File[i - 1])}

Printed == {printed[i] : i \in DOMAIN printed}

\* README: "follows rotation like `tail -F`".  A file is left only when every record
\* written into it after the follower began and before it last woke up has been
\* shown, unless the follower has missed a truncation: a file that has grown to the
\* offset again is left with what stands before the offset unread.
Leaves == fd # NoFile /\ fd' # fd
Drained == \A r \in Standing : 2 * r <= woke => r \in Printed

PlainIsDrained == [][mode = "plain" /\ Leaves /\ ~cut => Drained]_vars

\* A row that is no record comes only of a file that was truncated and had grown
\* past the follower's offset when it looked again; data that does not decode
\* comes only of such a file, of a follower that began within a record, or of a
\* record that a dying precd left unfinished.
OnlySpoiltStreamsFail ==
    /\ garbled => spoilt
    /\ why = "decode" => spoilt \/ torn

\* A follower whose file has a name comes to its end again and again (the writer
\* pauses, for its records are bounded), and has then shown every record of it
\* behind where it began, unless that file was truncated unseen or prec ended:
\* no rotation leaves it on a file that nobody writes, or behind unread records.
CaughtUp ==
    fd = name /\ off >= Len(File) /\ \A i \in DOMAIN decoders : ~Whole(decoders[i].fed)

CatchesUp ==
    []<>(pc \in {"start", "exit"} \/ name = NoFile
         \/ (CaughtUp /\ (cut \/ Standing \subseteq Printed)))
=============================================================================
