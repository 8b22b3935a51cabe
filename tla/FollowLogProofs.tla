--------------------------- MODULE FollowLogProofs ---------------------------
(***************************************************************************)
(* prec --follow implements LogStream: for every number of records, files, *)
(* truncations and restarts, and however the follower's steps fall between *)
(* theirs, records are shown in order and none twice, except that the rows *)
(* of a decoder goroutine of an older generation may come late.  A plain   *)
(* follower that has missed no truncation of its file leaves it only when  *)
(* it has shown the records that were there when it last woke up, and only *)
(* streams that were cut unseen, or that begin or break off within a       *)
(* record, make wrong rows or do not decode.                               *)
(***************************************************************************)
EXTENDS FollowLog, SequenceTheorems, TLAPS

Gen(c) == gens[RecordOf(c)]

\* Generation of a record that begins now.
Newest == out + truncs

WriterTypes ==
    /\ files \in Seq(Seq(Nat))
    /\ cells \in Nat
    /\ out \in 1 .. Len(files)
    /\ truncs \in 0 .. MaxTruncs
    /\ gens \in Seq(Nat)
    /\ name \in {NoFile, Len(files)}
    /\ Len(files) <= MaxFiles
    /\ name = NoFile => Len(files) < MaxFiles

Numbered ==
    /\ Len(gens) = RecordOf(cells)
    /\ \A r \in DOMAIN gens : gens[r] \in 1 .. Newest
    /\ \A r, q \in DOMAIN gens : r <= q => gens[r] <= gens[q]
    /\ Midway => Gen(cells) = Newest

\* The cells of a file are in order, those of a later file are of a later
\* generation, and nobody writes to a file behind precd's.
Ordered ==
    /\ \A f \in DOMAIN files : \A i \in DOMAIN files[f] :
          /\ files[f][i] \in 1 .. cells
          /\ f <= out
          /\ f < out => Gen(files[f][i]) < Newest
          /\ \A j \in DOMAIN files[f] : i < j => files[f][i] < files[f][j]
          /\ \A g \in DOMAIN files : \A j \in DOMAIN files[g] :
                f < g => Gen(files[f][i]) < Gen(files[g][j])

WriterInv == WriterTypes /\ Numbered /\ Ordered

\* What the follower can still read of its file, and of the files behind it.
Shrunk == off > Len(files[fd])

Unread(c) == \E i \in DOMAIN files[fd] : files[fd][i] = c /\ (i > off \/ Shrunk)
Behind(c) == \E g \in DOMAIN files : g > fd /\ \E i \in DOMAIN files[g] : files[g][i] = c

\* A cell is of an older generation than all that can still be read.
Passed(c) ==
    /\ c \in 1 .. cells
    /\ \A a \in 1 .. cells : Unread(a) \/ Behind(a) => Gen(c) < Gen(a)
    /\ out >= fd => Gen(c) < Newest

\* A cell that was read of the open file.
Seen(c) ==
    /\ c \in 1 .. cells
    /\ \A a \in 1 .. cells : Unread(a) => c < a
    /\ \A a \in 1 .. cells : Behind(a) => Gen(c) < Gen(a)
    /\ out > fd => Gen(c) < Newest

FollowerTypes ==
    /\ mode \in {"plain", "compressed"}
    /\ fd \in 0 .. Len(files)
    /\ off \in Nat
    /\ decoders \in Seq(Decoder)
    /\ printed \in Seq(Nat)
    /\ pending \in Seq(Nat)
    /\ pc = "start" => fd = NoFile
    /\ fd = NoFile => decoders = <<>> /\ printed = <<>>
    /\ pc \in {"read", "check", "open", "detect", "shrunk", "poll", "stat", "feed", "sleep"} =>
          fd # NoFile
    /\ mode = "plain" => decoders = <<>>
    /\ mode = "compressed" /\ fd # NoFile => decoders # <<>>
    /\ pc = "open" => name # fd

\* A decoder that is no longer fed, or will not be, has older cells only.
Left(i) == i < Len(decoders) \/ pc = "detect" \/ Shrunk

FedInv ==
    /\ \A i \in DOMAIN decoders : \A k \in DOMAIN decoders[i].fed :
          /\ Seen(decoders[i].fed[k])
          /\ Left(i) => Passed(decoders[i].fed[k])
          /\ \A l \in DOMAIN decoders[i].fed : k < l => decoders[i].fed[k] < decoders[i].fed[l]
          /\ \A j \in DOMAIN decoders : \A l \in DOMAIN decoders[j].fed :
                i < j => Gen(decoders[i].fed[k]) < Gen(decoders[j].fed[l])

\* Nothing of record r or before it is to come, but for decoders left behind.
Done(r) ==
    /\ r \in DOMAIN gens /\ 2 * r <= cells
    /\ \A a \in 1 .. cells : Unread(a) \/ Behind(a) => 2 * r < a
    /\ \A i \in DOMAIN decoders : \A k \in DOMAIN decoders[i].fed :
          2 * r < decoders[i].fed[k] \/ Gen(decoders[i].fed[k]) < gens[r]

PrintedInv == \A n \in DOMAIN printed : Done(printed[n])

FollowInv ==
    /\ WriterInv /\ FollowerTypes
    /\ fd # NoFile => FedInv /\ PrintedInv

-----------------------------------------------------------------------------
(* Records, cells and generations.                                         *)

LEMMA RecordOfCell ==
    \A c \in Nat : /\ RecordOf(c) \in Nat
                   /\ Starts(c) => 2 * RecordOf(c) = c + 1
                   /\ ~Starts(c) => 2 * RecordOf(c) = c
                   /\ c <= 2 * RecordOf(c) /\ 2 * RecordOf(c) <= c + 1
BY DEF RecordOf, Starts

\* A cell that was written has a record, and that a generation.
\* What the types say in terms of intervals.
LEMMA WriterNumbers ==
    ASSUME WriterInv
    PROVE  /\ cells \in Nat /\ out \in Nat /\ truncs \in Nat /\ Newest \in Nat
           /\ Len(files) \in Nat /\ DOMAIN files = 1 .. Len(files) /\ out <= Len(files)
           /\ Len(gens) \in Nat /\ DOMAIN gens = 1 .. Len(gens) /\ Len(gens) = RecordOf(cells)
<1>1. cells \in Nat /\ out \in 1 .. Len(files) /\ truncs \in Nat
  BY FollowAssumption DEF WriterInv, WriterTypes
<1>2. Len(files) \in Nat /\ DOMAIN files = 1 .. Len(files)
  BY LenProperties DEF WriterInv, WriterTypes
<1>3. Len(gens) \in Nat /\ DOMAIN gens = 1 .. Len(gens) /\ Len(gens) = RecordOf(cells)
  BY LenProperties DEF WriterInv, WriterTypes, Numbered
<1>4. QED BY <1>1, <1>2, <1>3 DEF Newest

\* A file is a sequence of numbers.
LEMMA FileNumbers ==
    ASSUME WriterInv, NEW f \in 1 .. Len(files)
    PROVE  /\ files[f] \in Seq(Nat) /\ Len(files[f]) \in Nat
           /\ DOMAIN files[f] = 1 .. Len(files[f])
<1>1. files[f] \in Seq(Nat)
  BY ElementOfSeq DEF WriterInv, WriterTypes
<1>2. QED BY <1>1, LenProperties

\* A cell that was written has a record, and that a generation.
LEMMA CellKnown ==
    ASSUME WriterInv, NEW c \in 1 .. cells
    PROVE  /\ c \in Nat
           /\ RecordOf(c) \in DOMAIN gens /\ RecordOf(c) \in Nat
           /\ Gen(c) \in Nat /\ Gen(c) <= Newest
<1>1. cells \in Nat /\ Len(gens) = RecordOf(cells) /\ Newest \in Nat /\ DOMAIN gens = 1 .. Len(gens)
  BY WriterNumbers
<1>2. RecordOf(c) \in 1 .. RecordOf(cells)
  BY <1>1 DEF RecordOf
<1>3. gens[RecordOf(c)] \in 1 .. Newest
  BY <1>1, <1>2 DEF WriterInv, Numbered
<1>4. QED BY <1>1, <1>2, <1>3 DEF Gen

\* A cell of a later generation comes later, and so does its record.
LEMMA LaterGeneration ==
    ASSUME WriterInv, NEW c \in 1 .. cells, NEW d \in 1 .. cells, Gen(c) < Gen(d)
    PROVE  c < d /\ 2 * RecordOf(c) < d
<1>1. /\ RecordOf(c) \in DOMAIN gens /\ RecordOf(d) \in DOMAIN gens
      /\ RecordOf(c) \in Nat /\ RecordOf(d) \in Nat /\ Gen(c) \in Nat /\ Gen(d) \in Nat
  BY CellKnown
<1>2. ~(RecordOf(d) <= RecordOf(c))
  <2>1. SUFFICES ASSUME RecordOf(d) <= RecordOf(c) PROVE FALSE
    OBVIOUS
  <2>2. gens[RecordOf(d)] <= gens[RecordOf(c)]
    BY <1>1, <2>1 DEF WriterInv, Numbered
  <2>3. QED BY <1>1, <2>2 DEF Gen
<1>3. RecordOf(c) + 1 <= RecordOf(d) /\ c \in Nat /\ d \in Nat
  BY <1>1, <1>2
<1>4. c <= 2 * RecordOf(c) /\ 2 * RecordOf(d) <= d + 1
  BY <1>3, RecordOfCell
<1>5. QED BY <1>1, <1>3, <1>4

\* What is in the files has been written.
LEMMA ReadableKnown ==
    ASSUME WriterInv, fd \in 1 .. Len(files), NEW a, Unread(a) \/ Behind(a)
    PROVE  a \in 1 .. cells
<1>1. DOMAIN files = 1 .. Len(files)
  BY WriterNumbers
<1>2. QED BY <1>1 DEF WriterInv, Ordered, Unread, Behind

\* An older cell is before a younger one.
LEMMA PassedIsSeen ==
    ASSUME WriterInv, fd \in Nat, NEW c, Passed(c)
    PROVE  Seen(c)
<1>1. c \in 1 .. cells /\ out \in Nat
  BY WriterNumbers DEF Passed
<1>2. ASSUME NEW a \in 1 .. cells, Unread(a) PROVE c < a
  BY <1>1, <1>2, LaterGeneration DEF Passed
<1>3. QED BY <1>1, <1>2 DEF Passed, Seen

-----------------------------------------------------------------------------
(* Steps of the writer and of those who move its files.                    *)

\* The files are what they were, or empty.
OnlyEmptied ==
    /\ WriterTypes'
    /\ Len(files') >= Len(files)
    /\ \A f \in DOMAIN files' : files'[f] = <<>> \/ (f \in DOMAIN files /\ files'[f] = files[f])
    /\ gens' = gens
    /\ cells' \in {cells, cells + 1} /\ RecordOf(cells') = RecordOf(cells)
    /\ out' >= out
    /\ Newest' >= Newest
    /\ out' > out => Newest' > Newest
    /\ Midway' => Midway /\ cells' = cells /\ Newest' = Newest

LEMMA EmptiedNumbers ==
    ASSUME WriterInv, OnlyEmptied
    PROVE  /\ cells' \in Nat /\ out' \in Nat /\ Newest' \in Nat /\ cells' >= cells
           /\ Len(files') \in Nat /\ DOMAIN files' = 1 .. Len(files')
           /\ \A c : Gen(c)' = Gen(c)
<1>1. cells' \in Nat /\ out' \in 1 .. Len(files') /\ truncs' \in Nat
  BY FollowAssumption DEF OnlyEmptied, WriterTypes
<1>2. Len(files') \in Nat /\ DOMAIN files' = 1 .. Len(files')
  BY LenProperties DEF OnlyEmptied, WriterTypes
<1>3. \A c : Gen(c)' = Gen(c)
  BY DEF Gen, OnlyEmptied
<1>4. cells' >= cells
  BY WriterNumbers DEF OnlyEmptied
<1>5. Newest' \in Nat
  <2>1. out' \in Nat
    BY <1>1, <1>2
  <2>2. truncs' \in Nat
    BY <1>1
  <2>3. \A a, b \in Nat : a + b \in Nat
    OBVIOUS
  <2>4. QED BY <2>1, <2>2, <2>3 DEF Newest
<1>6. QED BY <1>1, <1>2, <1>3, <1>4, <1>5

\* Such a step keeps the cells of the files in order.
LEMMA EmptiedWriter ==
    ASSUME WriterInv, OnlyEmptied
    PROVE  WriterInv'
<1>1. WriterTypes'
  BY DEF OnlyEmptied
<1>2. Numbered'
  <2>1. Len(gens') = RecordOf(cells')
    BY WriterNumbers DEF OnlyEmptied
  <2>2. \A r \in DOMAIN gens' : gens'[r] \in 1 .. Newest'
    BY WriterNumbers, EmptiedNumbers DEF WriterInv, Numbered, OnlyEmptied
  <2>3. \A r, q \in DOMAIN gens' : r <= q => gens'[r] <= gens'[q]
    BY DEF WriterInv, Numbered, OnlyEmptied
  <2>4. Midway' => Gen(cells)' = Newest'
    BY DEF WriterInv, Numbered, OnlyEmptied, Gen
  <2>5. QED BY <2>1, <2>2, <2>3, <2>4 DEF Numbered
<1>3. Ordered'
  <2>1. SUFFICES ASSUME NEW f \in DOMAIN files', NEW i \in DOMAIN (files'[f])
                 PROVE  (/\ files[f][i] \in 1 .. cells
                         /\ f <= out
                         /\ f < out => Gen(files[f][i]) < Newest
                         /\ \A j \in DOMAIN files[f] : i < j => files[f][i] < files[f][j]
                         /\ \A g \in DOMAIN files : \A j \in DOMAIN files[g] :
                               f < g => Gen(files[f][i]) < Gen(files[g][j]))'
    BY DEF Ordered
  <2>2. /\ f \in DOMAIN files /\ files'[f] = files[f] /\ i \in DOMAIN files[f]
    BY <2>1 DEF OnlyEmptied
  <2>3. PICK c : c = files[f][i]
    OBVIOUS
  <2>4. /\ c \in 1 .. cells
        /\ f <= out
        /\ f < out => Gen(c) < Newest
        /\ \A j \in DOMAIN files[f] : i < j => c < files[f][j]
        /\ \A g \in DOMAIN files : \A j \in DOMAIN files[g] :
              f < g => Gen(c) < Gen(files[g][j])
    BY <2>2, <2>3 DEF WriterInv, Ordered
  <2>5. Gen(c) \in Nat /\ Gen(c) <= Newest /\ Gen(c)' = Gen(c)
    BY <2>4, CellKnown, EmptiedNumbers
  <2>6. c \in 1 .. cells' /\ f <= out'
    <3>1. f <= out'
      BY <2>2, <2>4, WriterNumbers, EmptiedNumbers DEF OnlyEmptied
    <3>2. cells \in Nat /\ cells' \in Nat /\ cells <= cells'
      BY WriterNumbers, EmptiedNumbers DEF OnlyEmptied
    <3>3. QED BY <2>4, <3>1, <3>2
  <2>7. f < out' => Gen(c)' < Newest'
    BY <2>2, <2>4, <2>5, WriterNumbers, EmptiedNumbers DEF OnlyEmptied
  <2>8. ASSUME NEW g \in DOMAIN files', NEW j \in DOMAIN (files'[g]), f < g
        PROVE  Gen(c)' < Gen(files[g][j])'
    <3>1. PICK d : d = files[g][j]
      OBVIOUS
    <3>2. g \in DOMAIN files /\ files'[g] = files[g] /\ j \in DOMAIN files[g]
      BY <2>8 DEF OnlyEmptied
    <3>3. Gen(c)' < Gen(d)'
      BY <2>4, <2>5, <2>8, <3>1, <3>2, EmptiedNumbers
    <3>4. QED BY <3>1, <3>2, <3>3 DEF Gen
  <2>9. QED BY <2>2, <2>3, <2>4, <2>6, <2>7, <2>8 DEF Gen
<1>4. QED BY <1>1, <1>2, <1>3 DEF WriterInv

\* Nothing becomes readable, and nothing older.
LEMMA EmptiedKeeps ==
    ASSUME WriterInv, fd \in 1 .. Len(files), fd' = fd, off' = off, OnlyEmptied
    PROVE  \A c : /\ Seen(c) => Seen(c)'
                  /\ Passed(c) => Passed(c)'
                  /\ Unread(c)' => Unread(c)
                  /\ Behind(c)' => Behind(c)
<1>1. /\ DOMAIN files = 1 .. Len(files) /\ DOMAIN files' = 1 .. Len(files')
      /\ Len(files) \in Nat /\ Len(files') \in Nat /\ cells \in Nat /\ cells' \in Nat
      /\ cells' >= cells /\ out \in Nat /\ out' \in Nat /\ Newest \in Nat /\ Newest' \in Nat
      /\ fd \in Nat /\ fd \in DOMAIN files'
  BY WriterNumbers, EmptiedNumbers DEF OnlyEmptied
<1>2. ASSUME NEW a, Unread(a)' PROVE Unread(a)
  <2>1. files'[fd] = files[fd]
    BY <1>1, <1>2 DEF Unread, OnlyEmptied
  <2>2. QED BY <1>2, <2>1 DEF Unread, Shrunk
<1>3. ASSUME NEW a, Behind(a)' PROVE Behind(a)
  BY <1>3 DEF Behind, OnlyEmptied
<1>4. \A c : Gen(c)' = Gen(c)
  BY EmptiedNumbers
<1>5. ASSUME NEW c \in 1 .. cells, out' > out PROVE Gen(c) < Newest'
  BY <1>1, <1>5, CellKnown DEF OnlyEmptied
<1>6. ASSUME NEW c, Seen(c) PROVE Seen(c)'
  <2>1. c \in 1 .. cells /\ c \in 1 .. cells'
    BY <1>1, <1>6 DEF Seen
  <2>2. ASSUME NEW a \in 1 .. cells', Unread(a)' PROVE c < a
    BY <1>2, <1>6, <2>2, ReadableKnown DEF Seen
  <2>3. ASSUME NEW a \in 1 .. cells', Behind(a)' PROVE Gen(c)' < Gen(a)'
    <3>1. Gen(c) < Gen(a)
      BY <1>3, <1>6, <2>3, ReadableKnown DEF Seen
    <3>2. QED BY <1>4, <3>1
  <2>4. out' > fd => Gen(c) < Newest'
    <3>1. out' = out \/ out' > out
      BY <1>1 DEF OnlyEmptied
    <3>2. Gen(c) \in Nat
      BY <2>1, CellKnown
    <3>3. QED BY <1>1, <1>5, <1>6, <2>1, <3>1, <3>2 DEF Seen, OnlyEmptied
  <2>5. QED BY <1>4, <2>1, <2>2, <2>3, <2>4 DEF Seen
<1>7. ASSUME NEW c, Passed(c) PROVE Passed(c)'
  <2>1. c \in 1 .. cells /\ c \in 1 .. cells'
    BY <1>1, <1>7 DEF Passed
  <2>2. ASSUME NEW a \in 1 .. cells', Unread(a)' \/ Behind(a)' PROVE Gen(c)' < Gen(a)'
    <3>1. Gen(c) < Gen(a)
      BY <1>2, <1>3, <1>7, <2>2, ReadableKnown DEF Passed
    <3>2. QED BY <1>4, <3>1
  <2>3. out' >= fd => Gen(c) < Newest'
    <3>1. out' = out \/ out' > out
      BY <1>1 DEF OnlyEmptied
    <3>2. Gen(c) \in Nat
      BY <2>1, CellKnown
    <3>3. QED BY <1>1, <1>5, <1>7, <2>1, <3>1, <3>2 DEF Passed, OnlyEmptied
  <2>4. QED BY <1>4, <2>1, <2>2, <2>3 DEF Passed
<1>8. QED BY <1>2, <1>3, <1>6, <1>7

\* A new file is empty, and the last.
LEMMA NewFile ==
    ASSUME WriterInv, files' = Append(files, <<>>)
    PROVE  /\ files' \in Seq(Seq(Nat)) /\ Len(files') = Len(files) + 1
           /\ \A f \in DOMAIN files' :
                 files'[f] = <<>> \/ (f \in DOMAIN files /\ files'[f] = files[f])
<1>1. files \in Seq(Seq(Nat)) /\ << >> \in Seq(Nat)
  BY DEF WriterInv, WriterTypes
<1>2. /\ files' \in Seq(Seq(Nat)) /\ Len(files') = Len(files) + 1
      /\ \A f \in 1 .. Len(files) : files'[f] = files[f]
      /\ files'[Len(files) + 1] = <<>>
  BY <1>1, AppendProperties
<1>3. DOMAIN files' = 1 .. Len(files) + 1 /\ DOMAIN files = 1 .. Len(files) /\ Len(files) \in Nat
  BY <1>1, <1>2, LenProperties
<1>4. QED BY <1>2, <1>3

\* precd opening the log path.
LEMMA OpenOutEmpties ==
    ASSUME WriterInv, OpenOut, UNCHANGED <<truncs, gens>>,
           cells' \in {cells, cells + 1}, RecordOf(cells') = RecordOf(cells), ~Midway'
    PROVE  OnlyEmptied
<1>1. WriterTypes
  BY DEF WriterInv
<1>2. /\ files' \in Seq(Seq(Nat)) /\ Len(files') >= Len(files) /\ Len(files') <= MaxFiles
      /\ name' = Len(files') /\ out' = Len(files')
      /\ \A f \in DOMAIN files' :
            files'[f] = <<>> \/ (f \in DOMAIN files /\ files'[f] = files[f])
  <2>1. CASE name # NoFile
    BY <1>1, <2>1, WriterNumbers DEF OpenOut, WriterTypes
  <2>2. CASE name = NoFile
    <3>1. files' = Append(files, <<>>) /\ name' = Len(files) + 1 /\ out' = name'
      BY <2>2 DEF OpenOut
    <3>2. Len(files) < MaxFiles /\ MaxFiles \in Nat
      BY <1>1, <2>2, FollowAssumption DEF WriterTypes
    <3>3. QED BY <3>1, <3>2, NewFile, WriterNumbers
  <2>3. QED BY <2>1, <2>2
<1>3. /\ Len(files') \in Nat /\ Len(files') > 0 /\ cells' \in Nat /\ out' >= out
  <2>1. Len(files') \in Nat
    BY <1>2, LenProperties
  <2>2. out >= 1 /\ out <= Len(files) /\ out \in Nat /\ Len(files) \in Nat /\ cells \in Nat
    BY <1>1, WriterNumbers DEF WriterTypes
  <2>3. out' >= out
    BY <1>2, <2>1, <2>2
  <2>4. QED BY <1>2, <2>1, <2>2, <2>3
<1>4. WriterTypes'
  BY <1>1, <1>2, <1>3 DEF WriterTypes, NoFile
<1>5. Newest' >= Newest /\ (out' > out => Newest' > Newest)
  <2>1. \A a, b, n \in Nat : a >= b => a + n >= b + n /\ (a > b => a + n > b + n)
    OBVIOUS
  <2>2. out' \in Nat
    BY <1>2, <1>3
  <2>3. QED BY <1>3, <2>1, <2>2, WriterNumbers DEF Newest
<1>6. QED BY <1>2, <1>3, <1>4, <1>5 DEF OnlyEmptied

LEMMA RenameEmpties ==
    ASSUME WriterInv, Rename
    PROVE  OnlyEmptied
<1>1. WriterTypes'
  BY WriterNumbers DEF Rename, WriterInv, WriterTypes
<1>2. Newest' = Newest
  BY DEF Rename, Newest
<1>3. QED BY <1>1, <1>2, WriterNumbers DEF Rename, OnlyEmptied, Midway

LEMMA CreateEmpties ==
    ASSUME WriterInv, Create
    PROVE  OnlyEmptied
<1>1. Newest' = Newest /\ Midway' = Midway
  BY DEF Create, Newest, Midway
<1>2. CASE name # NoFile
  <2>1. WriterTypes'
    BY <1>2 DEF Create, WriterInv, WriterTypes
  <2>2. QED BY <1>1, <1>2, <2>1, WriterNumbers DEF Create, OnlyEmptied
<1>3. CASE name = NoFile
  <2>1. files' = Append(files, <<>>) /\ name' = Len(files) + 1
    BY <1>3 DEF Create
  <2>2. /\ files' \in Seq(Seq(Nat)) /\ Len(files') = Len(files) + 1
        /\ \A f \in DOMAIN files' :
              files'[f] = <<>> \/ (f \in DOMAIN files /\ files'[f] = files[f])
    BY <2>1, NewFile
  <2>3. Len(files) < MaxFiles /\ MaxFiles \in Nat
    BY <1>3, FollowAssumption DEF WriterInv, WriterTypes
  <2>4. UNCHANGED <<out, cells, truncs, gens>>
    BY DEF Create
  <2>5. WriterTypes'
    BY <2>1, <2>2, <2>3, <2>4, WriterNumbers DEF WriterInv, WriterTypes, NoFile
  <2>6. QED BY <1>1, <2>2, <2>4, <2>5, WriterNumbers DEF OnlyEmptied
<1>4. QED BY <1>2, <1>3

\* Nobody writes to a file that is not precd's and behind it.
LEMMA TruncatedIsOut ==
    ASSUME WriterInv, Truncate
    PROVE  name = out /\ name = Len(files) /\ ~Midway
<1>1. name = Len(files) /\ name \in DOMAIN files
  BY WriterNumbers DEF Truncate, WriterInv, WriterTypes
<1>2. files[name] \in Seq(Nat) /\ files[name] # <<>>
  BY <1>1, FileNumbers, WriterNumbers DEF Truncate
<1>3. 1 \in DOMAIN files[name]
  BY <1>2, EmptySeq, LenProperties
<1>4. name <= out
  BY <1>1, <1>3 DEF WriterInv, Ordered
<1>5. QED BY <1>1, <1>4, WriterNumbers DEF Truncate

LEMMA TruncateEmpties ==
    ASSUME WriterInv, Truncate
    PROVE  OnlyEmptied /\ Newest' > Newest
<1>1. /\ name = out /\ ~Midway /\ ~Midway'
  BY TruncatedIsOut DEF Truncate, Midway
<1>2. truncs' = truncs + 1 /\ truncs' \in 0 .. MaxTruncs
  BY FollowAssumption, WriterNumbers DEF Truncate, WriterInv, WriterTypes
<1>3. Newest' > Newest /\ Newest' >= Newest
  BY <1>2, WriterNumbers DEF Truncate, Newest
<1>4. /\ files' \in Seq(Seq(Nat)) /\ Len(files') = Len(files)
      /\ \A f \in DOMAIN files' :
            files'[f] = <<>> \/ (f \in DOMAIN files /\ files'[f] = files[f])
  <2>1. files' = [files EXCEPT ![name] = << >>] /\ files \in Seq(Seq(Nat)) /\ << >> \in Seq(Nat)
    BY DEF Truncate, WriterInv, WriterTypes
  <2>2. name \in 1 .. Len(files) /\ DOMAIN files = 1 .. Len(files)
    BY TruncatedIsOut, WriterNumbers DEF WriterInv, WriterTypes
  <2>3. /\ files' \in Seq(Seq(Nat)) /\ Len(files') = Len(files)
        /\ \A f \in 1 .. Len(files) : files'[f] = IF f = name THEN <<>> ELSE files[f]
    BY <2>1, <2>2, ExceptSeq
  <2>4. DOMAIN files' = 1 .. Len(files)
    BY <2>3, LenProperties
  <2>5. QED BY <2>2, <2>3, <2>4
<1>5. WriterTypes'
  BY <1>2, <1>4 DEF Truncate, WriterInv, WriterTypes
<1>6. UNCHANGED <<out, cells, gens>>
  BY DEF Truncate
<1>7. QED BY <1>1, <1>3, <1>4, <1>5, <1>6, WriterNumbers DEF OnlyEmptied

LEMMA MoversOnlyEmpty ==
    ASSUME WriterInv, Rename \/ Create \/ Reopen \/ Truncate \/ Restart
    PROVE  OnlyEmptied
<1>1. CASE Reopen
  BY <1>1, OpenOutEmpties DEF Reopen, Midway
<1>2. CASE Restart
  <2>1. /\ cells' \in {cells, cells + 1} /\ RecordOf(cells') = RecordOf(cells) /\ ~Midway'
    <3>1. cells' = IF Starts(cells) THEN cells + 1 ELSE cells
      BY <1>2 DEF Restart, Midway
    <3>2. \A c \in Nat : Starts(c) => RecordOf(c + 1) = RecordOf(c) /\ ~Starts(c + 1)
      BY DEF Starts, RecordOf
    <3>3. cells \in Nat
      BY WriterNumbers
    <3>4. CASE Starts(cells)
      BY <3>1, <3>2, <3>3, <3>4 DEF Midway
    <3>5. CASE ~Starts(cells)
      BY <3>1, <3>3, <3>5 DEF Midway
    <3>6. QED BY <3>4, <3>5
  <2>2. QED BY <1>2, <2>1, OpenOutEmpties DEF Restart
<1>3. QED BY <1>1, <1>2, RenameEmpties, CreateEmpties, TruncateEmpties

-----------------------------------------------------------------------------
(* The writer appends a cell.                                              *)

LEMMA WriteCellFiles ==
    ASSUME WriterInv, WriteCell
    PROVE  /\ files' \in Seq(Seq(Nat)) /\ DOMAIN files' = DOMAIN files /\ Len(files') = Len(files)
           /\ \A f \in DOMAIN files : f # out => files'[f] = files[f]
           /\ Len(files'[out]) = Len(files[out]) + 1
           /\ \A i \in 1 .. Len(files[out]) : files'[out][i] = files[out][i]
           /\ files'[out][Len(files[out]) + 1] = cells + 1
           /\ DOMAIN files'[out] = 1 .. Len(files[out]) + 1
<1>1. /\ files \in Seq(Seq(Nat)) /\ out \in 1 .. Len(files) /\ files[out] \in Seq(Nat)
      /\ cells + 1 \in Nat /\ DOMAIN files = 1 .. Len(files)
  BY WriterNumbers, FileNumbers DEF WriterInv, WriterTypes
<1> DEFINE more == Append(files[out], cells + 1)
<1>2. /\ more \in Seq(Nat) /\ Len(more) = Len(files[out]) + 1
      /\ \A i \in 1 .. Len(files[out]) : more[i] = files[out][i]
      /\ more[Len(files[out]) + 1] = cells + 1
  BY <1>1, AppendProperties
<1>3. DOMAIN more = 1 .. Len(files[out]) + 1
  BY <1>2, LenProperties
<1>4. files' = [files EXCEPT ![out] = more]
  BY DEF WriteCell
<1> HIDE DEF more
<1>5. /\ files' \in Seq(Seq(Nat)) /\ Len(files') = Len(files)
      /\ \A f \in 1 .. Len(files) : files'[f] = IF f = out THEN more ELSE files[f]
  BY <1>1, <1>2, <1>4, ExceptSeq
<1>6. DOMAIN files' = 1 .. Len(files)
  BY <1>5, LenProperties
<1>7. files'[out] = more
  BY <1>1, <1>5
<1>8. QED BY <1>1, <1>2, <1>3, <1>5, <1>6, <1>7

LEMMA WriteCellGens ==
    ASSUME WriterInv, WriteCell
    PROVE  /\ cells' = cells + 1 /\ Newest' = Newest /\ out' = out
           /\ gens' \in Seq(Nat) /\ Len(gens') = RecordOf(cells + 1)
           /\ DOMAIN gens' = 1 .. Len(gens')
           /\ \A r \in DOMAIN gens : r \in DOMAIN gens' /\ gens'[r] = gens[r]
           /\ \A r \in DOMAIN gens' \ DOMAIN gens : gens'[r] = Newest /\ r = Len(gens')
           /\ gens'[RecordOf(cells + 1)] = Newest
           /\ \A c \in 1 .. cells : Gen(c)' = Gen(c)
<1>1. cells' = cells + 1 /\ Newest' = Newest /\ out' = out /\ cells \in Nat
  BY WriterNumbers DEF WriteCell, Newest
<1>2. gens \in Seq(Nat) /\ Newest \in Nat /\ DOMAIN gens = 1 .. RecordOf(cells)
      /\ Len(gens) = RecordOf(cells) /\ RecordOf(cells) \in Nat
  BY WriterNumbers DEF WriterInv, WriterTypes
<1>3. CASE Midway
  <2>1. RecordOf(cells + 1) = RecordOf(cells) /\ gens' = gens
    BY <1>1, <1>3 DEF WriteCell, RecordOf, Midway, Starts
  <2>2. gens[RecordOf(cells)] = Newest
    BY <1>3 DEF WriterInv, Numbered, Gen
  <2>3. \A c \in 1 .. cells : Gen(c)' = Gen(c)
    BY <2>1 DEF Gen
  <2>4. QED BY <1>1, <1>2, <2>1, <2>2, <2>3
<1>4. CASE ~Midway
  <2>1. RecordOf(cells + 1) = RecordOf(cells) + 1 /\ gens' = Append(gens, Newest)
    BY <1>1, <1>4 DEF WriteCell, RecordOf, Midway, Starts, Newest
  <2>2. /\ gens' \in Seq(Nat) /\ Len(gens') = RecordOf(cells) + 1
        /\ \A r \in 1 .. RecordOf(cells) : gens'[r] = gens[r]
        /\ gens'[RecordOf(cells) + 1] = Newest
    BY <1>2, <2>1, AppendProperties
  <2>3. DOMAIN gens' = 1 .. RecordOf(cells) + 1
    BY <2>2, LenProperties
  <2>4. \A c \in 1 .. cells : Gen(c)' = Gen(c)
    BY <1>2, <2>2, CellKnown DEF Gen
  <2>5. QED BY <1>1, <1>2, <2>1, <2>2, <2>3, <2>4
<1>5. QED BY <1>3, <1>4

\* A cell of a file is where it was, or is the new one.
LEMMA WrittenCell ==
    ASSUME WriterInv, WriteCell, NEW f \in DOMAIN files', NEW i \in DOMAIN (files'[f])
    PROVE  /\ f \in DOMAIN files
           /\ \/ i \in DOMAIN files[f] /\ files'[f][i] = files[f][i]
              \/ f = out /\ i = Len(files[out]) + 1 /\ files'[f][i] = cells + 1
<1>1. f \in DOMAIN files /\ f \in 1 .. Len(files)
  BY WriteCellFiles, WriterNumbers
<1>2. CASE f # out
  BY <1>1, <1>2, WriteCellFiles
<1>3. CASE f = out
  <2>1. /\ Len(files[out]) \in Nat /\ DOMAIN files[out] = 1 .. Len(files[out])
        /\ i \in 1 .. Len(files[out]) + 1
    BY <1>1, <1>3, FileNumbers, WriteCellFiles
  <2>2. QED BY <1>1, <1>3, <2>1, WriteCellFiles
<1>4. QED BY <1>2, <1>3

\* The new cell is the last, and of the newest generation.
LEMMA WriteCellWriter ==
    ASSUME WriterInv, WriteCell
    PROVE  WriterInv'
<1>1. /\ cells \in Nat /\ out \in Nat /\ Newest \in Nat /\ DOMAIN files = 1 .. Len(files)
      /\ Len(files) \in Nat /\ out \in DOMAIN files
  BY WriterNumbers DEF WriterInv, WriterTypes
<1>2. WriterTypes'
  BY <1>1, WriteCellFiles, WriteCellGens DEF WriteCell, WriterInv, WriterTypes
<1>3. Numbered'
  <2>1. Newest >= 1
    BY <1>1, WriterNumbers DEF Newest
  <2>2. ASSUME NEW r \in DOMAIN gens' PROVE gens'[r] \in 1 .. Newest
    <3>1. CASE r \in DOMAIN gens
      BY <3>1, WriteCellGens DEF WriterInv, Numbered
    <3>2. CASE r \notin DOMAIN gens
      BY <1>1, <2>1, <3>2, WriteCellGens
    <3>3. QED BY <3>1, <3>2
  <2>3. ASSUME NEW r \in DOMAIN gens', NEW q \in DOMAIN gens', r <= q PROVE gens'[r] <= gens'[q]
    <3>1. CASE r \in DOMAIN gens /\ q \in DOMAIN gens
      BY <2>3, <3>1, WriteCellGens DEF WriterInv, Numbered
    <3>2. CASE q \notin DOMAIN gens
      <4>1. gens'[q] = Newest /\ gens'[r] \in 1 .. Newest
        BY <2>2, <3>2, WriteCellGens
      <4>2. QED BY <1>1, <4>1
    <3>3. CASE r \notin DOMAIN gens
      <4>1. r = Len(gens') /\ q \in 1 .. Len(gens') /\ Len(gens') \in Nat
        BY <3>3, WriteCellGens, LenProperties
      <4>2. QED BY <2>2, <2>3, <4>1, <1>1
    <3>4. QED BY <3>1, <3>2, <3>3
  <2>4. gens'[RecordOf(cells')] = Newest
    BY WriteCellGens
  <2>5. QED BY <2>2, <2>3, <2>4, WriteCellGens DEF Numbered, Gen
<1>4. Ordered'
  <2>1. SUFFICES ASSUME NEW f \in DOMAIN files', NEW i \in DOMAIN (files'[f])
                 PROVE  (/\ files[f][i] \in 1 .. cells
                         /\ f <= out
                         /\ f < out => Gen(files[f][i]) < Newest
                         /\ \A j \in DOMAIN files[f] : i < j => files[f][i] < files[f][j]
                         /\ \A g \in DOMAIN files : \A j \in DOMAIN files[g] :
                               f < g => Gen(files[f][i]) < Gen(files[g][j]))'
    BY DEF Ordered
  <2>2. /\ f \in 1 .. Len(files) /\ DOMAIN files' = DOMAIN files
        /\ Len(files[out]) \in Nat /\ DOMAIN files[out] = 1 .. Len(files[out])
    BY <1>1, WriteCellFiles, FileNumbers
  <2>3. PICK c : c = files'[f][i]
    OBVIOUS
  <2>4. CASE i \in DOMAIN files[f] /\ files'[f][i] = files[f][i]
    <3>1. /\ c \in 1 .. cells
          /\ f <= out
          /\ f < out => Gen(c) < Newest
          /\ \A j \in DOMAIN files[f] : i < j => c < files[f][j]
          /\ \A g \in DOMAIN files : \A j \in DOMAIN files[g] :
                f < g => Gen(c) < Gen(files[g][j])
      BY <2>2, <2>3, <2>4, <1>1 DEF WriterInv, Ordered
    <3>2. Gen(c)' = Gen(c)
      BY <3>1, WriteCellGens
    <3>3. c \in 1 .. cells' /\ f <= out' /\ (f < out' => Gen(c)' < Newest')
      BY <1>1, <3>1, <3>2, WriteCellGens
    <3>4. ASSUME NEW j \in DOMAIN (files'[f]), i < j PROVE c < files'[f][j]
      <4>1. CASE j \in DOMAIN files[f] /\ files'[f][j] = files[f][j]
        BY <3>1, <3>4, <4>1
      <4>2. CASE f = out /\ j = Len(files[out]) + 1
        BY <1>1, <3>1, <4>2, WriteCellFiles
      <4>3. QED BY <4>1, <4>2, WrittenCell
    <3>5. ASSUME NEW g \in DOMAIN files', NEW j \in DOMAIN (files'[g]), f < g
          PROVE  Gen(c)' < Gen(files[g][j])'
      <4>1. PICK d : d = files'[g][j]
        OBVIOUS
      <4>2. CASE j \in DOMAIN files[g] /\ files'[g][j] = files[g][j]
        <5>1. g \in DOMAIN files /\ d \in 1 .. cells
          BY <2>2, <4>1, <4>2 DEF WriterInv, Ordered
        <5>2. Gen(c) < Gen(d) /\ Gen(d)' = Gen(d)
          BY <3>1, <3>5, <4>1, <4>2, <5>1, WriteCellGens
        <5>3. QED BY <3>2, <4>1, <5>2 DEF Gen
      <4>3. CASE g = out /\ j = Len(files[out]) + 1
        <5>1. d = cells + 1 /\ Gen(d)' = Newest
          BY <4>1, <4>3, WriteCellFiles, WriteCellGens DEF Gen
        <5>2. Gen(c) < Newest
          BY <3>1, <3>5, <4>3
        <5>3. QED BY <3>2, <4>1, <5>1, <5>2 DEF Gen
      <4>4. QED BY <4>2, <4>3, WrittenCell
    <3>6. QED BY <2>3, <3>3, <3>4, <3>5 DEF Gen
  <2>5. CASE f = out /\ i = Len(files[out]) + 1
    <3>1. c = cells + 1
      BY <2>3, <2>5, WriteCellFiles
    <3>2. c \in 1 .. cells' /\ f <= out' /\ ~(f < out')
      BY <1>1, <2>5, <3>1, WriteCellGens
    <3>3. \A j \in DOMAIN files'[f] : ~(i < j)
      BY <2>2, <2>5, WriteCellFiles
    <3>4. ASSUME NEW g \in DOMAIN files', NEW j \in DOMAIN (files'[g]), f < g
          PROVE  FALSE
      <4>1. g \in DOMAIN files /\ j \in DOMAIN files[g] /\ g > out
        <5>1. g \in 1 .. Len(files) /\ g > out
          BY <1>1, <2>5, <3>4, WriteCellFiles
        <5>2. QED BY <1>1, <5>1, WrittenCell
      <4>2. g <= out
        BY <4>1 DEF WriterInv, Ordered
      <4>3. QED BY <1>1, <4>1, <4>2
    <3>5. QED BY <2>3, <3>2, <3>3, <3>4
  <2>6. QED BY <2>4, <2>5, WrittenCell
<1>5. QED BY <1>2, <1>3, <1>4 DEF WriterInv

\* Of what the follower can read, only the new cell is new.
LEMMA WriteCellKeeps ==
    ASSUME WriterInv, WriteCell, fd \in 1 .. Len(files), off \in Nat, fd' = fd, off' = off
    PROVE  /\ \A c : /\ Seen(c) => Seen(c)'
                     /\ Passed(c) => Passed(c)'
                     /\ Unread(c)' => Unread(c) \/ (c = cells + 1 /\ fd = out)
                     /\ Behind(c)' => Behind(c) \/ (c = cells + 1 /\ fd < out)
           /\ Shrunk' => Shrunk
<1>1. /\ cells \in Nat /\ out \in Nat /\ Newest \in Nat /\ DOMAIN files = 1 .. Len(files)
      /\ Len(files) \in Nat /\ out \in DOMAIN files /\ fd \in Nat /\ fd \in DOMAIN files
      /\ Len(files[fd]) \in Nat /\ DOMAIN files[fd] = 1 .. Len(files[fd])
      /\ Len(files[out]) \in Nat /\ DOMAIN files[out] = 1 .. Len(files[out])
  <2>1. /\ cells \in Nat /\ out \in Nat /\ Newest \in Nat /\ DOMAIN files = 1 .. Len(files)
        /\ Len(files) \in Nat
    BY WriterNumbers
  <2>2. out \in 1 .. Len(files) /\ fd \in Nat
    BY <2>1 DEF WriterInv, WriterTypes
  <2>3. QED BY <2>1, <2>2, FileNumbers
<1>2. Shrunk' => Shrunk
  <2>1. Len(files'[fd]) = Len(files[fd]) \/ Len(files'[fd]) = Len(files[fd]) + 1
    BY <1>1, WriteCellFiles
  <2>2. QED BY <1>1, <2>1 DEF Shrunk
<1>3. ASSUME NEW c, Unread(c)', ~(c = cells + 1 /\ fd = out) PROVE Unread(c)
  <2>1. PICK i \in DOMAIN (files'[fd]) : files'[fd][i] = c /\ (i > off \/ Shrunk')
    BY <1>3 DEF Unread
  <2>2. fd \in DOMAIN files'
    BY <1>1, WriteCellFiles
  <2>3. i \in DOMAIN files[fd] /\ files[fd][i] = c
    BY <1>3, <2>1, <2>2, WrittenCell
  <2>4. QED BY <1>2, <2>1, <2>3 DEF Unread
<1>4. ASSUME NEW c, Behind(c)', ~(c = cells + 1 /\ fd < out) PROVE Behind(c)
  <2>1. PICK g \in DOMAIN files' : g > fd /\ \E i \in DOMAIN files'[g] : files'[g][i] = c
    BY <1>4 DEF Behind
  <2>2. PICK i \in DOMAIN (files'[g]) : files'[g][i] = c
    BY <2>1
  <2>3. g \in DOMAIN files /\ i \in DOMAIN files[g] /\ files[g][i] = c
    <3>1. g > out => g # out
      BY <1>1
    <3>2. ~(g = out /\ c = cells + 1)
      BY <1>4, <2>1
    <3>3. QED BY <2>2, <3>2, WrittenCell
  <2>4. QED BY <2>1, <2>3 DEF Behind
<1>5. \A c \in 1 .. cells : Gen(c)' = Gen(c)
  BY WriteCellGens
<1>6. (\A a : a = cells + 1 => Gen(a)' = Newest) /\ cells' = cells + 1
  BY WriteCellGens DEF Gen
<1>7. ASSUME NEW c, Seen(c) PROVE Seen(c)'
  <2>1. c \in 1 .. cells /\ c \in 1 .. cells'
    BY <1>1, <1>6, <1>7 DEF Seen
  <2>2. ASSUME NEW a \in 1 .. cells', Unread(a)' PROVE c < a
    <3>1. CASE a = cells + 1
      BY <1>1, <2>1, <3>1
    <3>2. CASE a # cells + 1
      BY <1>3, <1>7, <2>2, <3>2, ReadableKnown DEF Seen
    <3>3. QED BY <3>1, <3>2
  <2>3. ASSUME NEW a \in 1 .. cells', Behind(a)' PROVE Gen(c)' < Gen(a)'
    <3>1. CASE a = cells + 1 /\ fd < out
      <4>1. Gen(c) < Newest
        BY <1>1, <1>7, <3>1 DEF Seen
      <4>2. QED BY <1>5, <1>6, <2>1, <3>1, <4>1
    <3>2. CASE ~(a = cells + 1 /\ fd < out)
      <4>1. a \in 1 .. cells /\ Behind(a)
        BY <1>4, <2>3, <3>2, ReadableKnown
      <4>2. Gen(c) < Gen(a)
        BY <1>7, <4>1 DEF Seen
      <4>3. QED BY <1>5, <2>1, <4>1, <4>2
    <3>3. QED BY <3>1, <3>2
  <2>4. out' > fd => Gen(c)' < Newest'
    BY <1>5, <1>7, <2>1, WriteCellGens DEF Seen
  <2>5. QED BY <2>1, <2>2, <2>3, <2>4 DEF Seen
<1>8. ASSUME NEW c, Passed(c) PROVE Passed(c)'
  <2>1. c \in 1 .. cells /\ c \in 1 .. cells'
    BY <1>1, <1>6, <1>8 DEF Passed
  <2>2. ASSUME NEW a \in 1 .. cells', Unread(a)' \/ Behind(a)' PROVE Gen(c)' < Gen(a)'
    <3>1. CASE a = cells + 1 /\ fd <= out
      <4>1. Gen(c) < Newest
        BY <1>1, <1>8, <3>1 DEF Passed
      <4>2. QED BY <1>5, <1>6, <2>1, <3>1, <4>1
    <3>2. CASE ~(a = cells + 1 /\ fd <= out)
      <4>1. a \in 1 .. cells /\ (Unread(a) \/ Behind(a))
        BY <1>1, <1>3, <1>4, <2>2, <3>2, ReadableKnown
      <4>2. Gen(c) < Gen(a)
        BY <1>8, <4>1 DEF Passed
      <4>3. QED BY <1>5, <2>1, <4>1, <4>2
    <3>3. QED BY <3>1, <3>2
  <2>3. out' >= fd => Gen(c)' < Newest'
    BY <1>5, <1>8, <2>1, WriteCellGens DEF Passed
  <2>4. QED BY <2>1, <2>2, <2>3 DEF Passed
<1>9. QED BY <1>2, <1>3, <1>4, <1>7, <1>8

-----------------------------------------------------------------------------
(* What the follower has and can still get, after such a step.             *)

\* Only a truncation changes what is in a file.
LEMMA FilesKept ==
    ASSUME WriterInv, Rename \/ Create \/ Reopen \/ Restart
    PROVE  \A f \in DOMAIN files : files'[f] = files[f]
<1>1. files \in Seq(Seq(Nat)) /\ DOMAIN files = 1 .. Len(files) /\ << >> \in Seq(Nat)
  BY WriterNumbers DEF WriterInv, WriterTypes
<1>2. files' = files \/ files' = Append(files, <<>>)
  BY DEF Rename, Create, Reopen, Restart, OpenOut
<1>3. QED BY <1>1, <1>2, AppendProperties

\* After a truncation of its file the follower has read all there was.
LEMMA TruncatedPasses ==
    ASSUME WriterInv, Truncate, fd = name, fd' = fd, off' = off
    PROVE  \A c : Seen(c) => Passed(c)'
<1>1. /\ OnlyEmptied /\ Newest' > Newest /\ name = Len(files) /\ name \in 1 .. Len(files)
      /\ Len(files') = Len(files) /\ files'[fd] = <<>>
  <2>1. files' = [files EXCEPT ![name] = << >>] /\ name = Len(files)
    BY TruncatedIsOut DEF Truncate
  <2>2. files \in Seq(Seq(Nat)) /\ name \in 1 .. Len(files) /\ << >> \in Seq(Nat)
    BY <2>1, WriterNumbers DEF WriterInv, WriterTypes, NoFile
  <2>3. QED BY <2>1, <2>2, TruncateEmpties, ExceptSeq
<1>2. SUFFICES ASSUME NEW c, Seen(c) PROVE Passed(c)'
  OBVIOUS
<1>3. ASSUME NEW a, Unread(a)' \/ Behind(a)' PROVE FALSE
  <2>1. ~Unread(a)'
    BY <1>1 DEF Unread
  <2>2. DOMAIN files' = 1 .. Len(files) /\ Len(files) \in Nat
    BY <1>1, EmptiedNumbers, WriterNumbers
  <2>3. ~Behind(a)'
    BY <1>1, <2>2 DEF Behind
  <2>4. QED BY <1>3, <2>1, <2>3
<1>4. c \in 1 .. cells /\ c \in 1 .. cells'
  BY <1>1, <1>2, EmptiedNumbers, WriterNumbers DEF Seen
<1>5. Gen(c)' < Newest'
  BY <1>1, <1>4, CellKnown, EmptiedNumbers, WriterNumbers
<1>6. QED BY <1>3, <1>4, <1>5 DEF Passed

\* What all steps of the writer have in common.
WriterKeeps ==
    /\ WriterInv'
    /\ UNCHANGED <<mode, pc, fd, off, pending, decoders, printed>>
    /\ cells' \in Nat /\ cells' >= cells
    /\ Len(files') \in Nat /\ Len(files') >= Len(files)
    /\ name' \in {NoFile, name, Len(files) + 1}
    /\ \A c \in 1 .. cells : Gen(c)' = Gen(c)
    /\ \A r \in DOMAIN gens : r \in DOMAIN gens' /\ gens'[r] = gens[r]

ReaderKeeps ==
    /\ \A c : Seen(c) => Seen(c)'
    /\ \A c : Passed(c) => Passed(c)'
    /\ \A c : Unread(c)' \/ Behind(c)' => Unread(c) \/ Behind(c) \/ c = cells + 1
    /\ Shrunk' => Shrunk \/ \A c : Seen(c) => Passed(c)'

LEMMA WriterStepKeeps ==
    ASSUME WriterInv, WriterNext
    PROVE  WriterKeeps
<1>1. UNCHANGED <<mode, pc, fd, off, pending, decoders, printed>>
  BY DEF WriterNext, WriteCell, Rename, Create, Reopen, Truncate, Restart, follower, shown
<1>2. CASE WriteCell
  <2>1. name' = name
    BY <1>2 DEF WriteCell
  <2>2. /\ cells' = cells + 1 /\ cells \in Nat /\ Len(files') = Len(files) /\ Len(files) \in Nat
        /\ \A c \in 1 .. cells : Gen(c)' = Gen(c)
        /\ \A r \in DOMAIN gens : r \in DOMAIN gens' /\ gens'[r] = gens[r]
    BY <1>2, WriteCellFiles, WriteCellGens, WriterNumbers
  <2>3. cells' \in Nat /\ cells' >= cells
    BY <2>2
  <2>4. QED BY <1>1, <1>2, <2>1, <2>2, <2>3, WriteCellWriter DEF WriterKeeps
<1>3. CASE Rename \/ Create \/ Reopen \/ Truncate \/ Restart
  <2>1. OnlyEmptied
    BY <1>3, MoversOnlyEmpty
  <2>2. name' \in {NoFile, name, Len(files) + 1}
    BY <1>3 DEF Rename, Create, Reopen, Truncate, Restart, OpenOut
  <2>3. gens' = gens /\ Len(files') >= Len(files)
    BY <2>1 DEF OnlyEmptied
  <2>4. QED BY <1>1, <2>1, <2>2, <2>3, EmptiedWriter, EmptiedNumbers DEF WriterKeeps
<1>4. QED BY <1>2, <1>3 DEF WriterNext

LEMMA WriterStepReader ==
    ASSUME WriterInv, WriterNext, fd \in 1 .. Len(files), off \in Nat, fd' = fd, off' = off
    PROVE  ReaderKeeps
<1>1. CASE WriteCell
  BY <1>1, WriteCellKeeps DEF ReaderKeeps
<1>2. CASE Rename \/ Create \/ Reopen \/ Restart
  <2>1. Shrunk' => Shrunk
    BY <1>2, FilesKept, WriterNumbers DEF Shrunk
  <2>2. QED BY <1>2, <2>1, MoversOnlyEmpty, EmptiedKeeps DEF ReaderKeeps
<1>3. CASE Truncate
  <2>1. CASE fd = name
    BY <1>3, <2>1, TruncatedPasses, MoversOnlyEmpty, EmptiedKeeps DEF ReaderKeeps
  <2>2. CASE fd # name
    <3>1. files'[fd] = files[fd]
      BY <1>3, <2>2, WriterNumbers DEF Truncate
    <3>2. Shrunk' => Shrunk
      BY <3>1 DEF Shrunk
    <3>3. QED BY <1>3, <3>2, MoversOnlyEmpty, EmptiedKeeps DEF ReaderKeeps
  <2>3. QED BY <2>1, <2>2
<1>4. QED BY <1>1, <1>2, <1>3 DEF WriterNext

\* A cell in a decoder is in its sequence, and was written.
LEMMA FedKnown ==
    ASSUME FollowInv, fd # NoFile, NEW i \in DOMAIN decoders, NEW k \in DOMAIN decoders[i].fed
    PROVE  Seen(decoders[i].fed[k]) /\ decoders[i].fed[k] \in 1 .. cells
BY DEF FollowInv, FedInv, Seen

\* The writer's steps keep the follower's invariant.
LEMMA WriterStep ==
    ASSUME FollowInv, WriterNext
    PROVE  FollowInv'
<1>1. WriterInv /\ FollowerTypes /\ Len(files) \in Nat /\ cells \in Nat
  BY WriterNumbers DEF FollowInv
<1>2. WriterKeeps
  BY <1>1, WriterStepKeeps
<1>3. UNCHANGED <<mode, pc, fd, off, pending, decoders, printed>>
  BY <1>2 DEF WriterKeeps
<1>4. FollowerTypes'
  <2>1. fd \in 0 .. Len(files')
    BY <1>1, <1>2 DEF FollowerTypes, WriterKeeps
  <2>2. pc = "open" => name' # fd
    BY <1>1, <1>2 DEF FollowerTypes, WriterKeeps, NoFile
  <2>3. QED BY <1>1, <1>3, <2>1, <2>2 DEF FollowerTypes
<1>5. SUFFICES ASSUME fd # NoFile PROVE FedInv' /\ PrintedInv'
  BY <1>2, <1>3, <1>4 DEF FollowInv, WriterKeeps
<1>6. fd \in 1 .. Len(files) /\ off \in Nat
  BY <1>1, <1>5 DEF FollowerTypes, NoFile
<1>7. ReaderKeeps
  BY <1>1, <1>3, <1>6, WriterStepReader
<1>8. FedInv'
  <2>1. SUFFICES ASSUME NEW i \in DOMAIN decoders, NEW k \in DOMAIN decoders[i].fed
                 PROVE  (/\ Seen(decoders[i].fed[k])
                         /\ Left(i) => Passed(decoders[i].fed[k])
                         /\ \A l \in DOMAIN decoders[i].fed :
                               k < l => decoders[i].fed[k] < decoders[i].fed[l]
                         /\ \A j \in DOMAIN decoders : \A l \in DOMAIN decoders[j].fed :
                               i < j => Gen(decoders[i].fed[k]) < Gen(decoders[j].fed[l]))'
    BY <1>3 DEF FedInv
  <2>2. PICK c : c = decoders[i].fed[k]
    OBVIOUS
  <2>3. /\ Seen(c) /\ c \in 1 .. cells
        /\ Left(i) => Passed(c)
        /\ \A l \in DOMAIN decoders[i].fed : k < l => c < decoders[i].fed[l]
        /\ \A j \in DOMAIN decoders : \A l \in DOMAIN decoders[j].fed :
              i < j => Gen(c) < Gen(decoders[j].fed[l])
    BY <1>5, <2>2, FedKnown DEF FollowInv, FedInv
  <2>4. Seen(c)' /\ (Left(i)' => Passed(c)')
    BY <1>3, <1>7, <2>3 DEF Left, ReaderKeeps
  <2>5. ASSUME NEW j \in DOMAIN decoders, NEW l \in DOMAIN decoders[j].fed, i < j
        PROVE  Gen(c)' < Gen(decoders[j].fed[l])'
    <3>1. PICK d : d = decoders[j].fed[l]
      OBVIOUS
    <3>2. d \in 1 .. cells /\ Gen(c) < Gen(d)
      BY <1>5, <2>3, <2>5, <3>1, FedKnown
    <3>3. Gen(c)' < Gen(d)'
      BY <1>2, <2>3, <3>2 DEF WriterKeeps
    <3>4. QED BY <1>3, <3>1, <3>3 DEF Gen
  <2>6. QED BY <1>3, <2>2, <2>3, <2>4, <2>5 DEF Gen, Seen, Passed, Unread, Behind
<1>9. ASSUME NEW r, Done(r) PROVE Done(r)'
  <2>1. r \in DOMAIN gens' /\ gens'[r] = gens[r] /\ 2 * r <= cells' /\ r \in Nat
    BY <1>1, <1>2, <1>9, WriterNumbers DEF WriterKeeps, Done
  <2>2. ASSUME NEW a \in 1 .. cells', Unread(a)' \/ Behind(a)' PROVE 2 * r < a
    <3>1. CASE a = cells + 1
      BY <1>1, <1>9, <2>1, <3>1 DEF Done
    <3>2. CASE Unread(a) \/ Behind(a)
      BY <1>1, <1>6, <1>9, <3>2, ReadableKnown DEF Done
    <3>3. QED BY <1>7, <2>2, <3>1, <3>2 DEF ReaderKeeps
  <2>3. ASSUME NEW i \in DOMAIN decoders, NEW k \in DOMAIN decoders[i].fed
        PROVE  2 * r < decoders[i].fed[k] \/ Gen(decoders[i].fed[k])' < gens'[r]
    <3>1. PICK c : c = decoders[i].fed[k]
      OBVIOUS
    <3>2. c \in 1 .. cells /\ (2 * r < c \/ Gen(c)' < gens'[r])
      BY <1>2, <1>5, <1>9, <2>1, <3>1, FedKnown DEF WriterKeeps, Done
    <3>3. QED BY <1>3, <3>1, <3>2 DEF Gen
  <2>4. QED BY <1>3, <2>1, <2>2, <2>3 DEF Done
<1>10. PrintedInv'
  <2>1. ASSUME NEW n \in DOMAIN printed PROVE Done(printed[n])'
    <3>1. PICK r : r = printed[n]
      OBVIOUS
    <3>2. Done(r)'
      BY <1>5, <1>9, <3>1 DEF FollowInv, PrintedInv
    <3>3. QED BY <1>3, <3>1, <3>2 DEF Done
  <2>2. QED BY <1>3, <2>1 DEF PrintedInv
<1>11. QED BY <1>8, <1>10

-----------------------------------------------------------------------------
(* The follower's own moves, which leave the log alone.                    *)

LEMMA WriterIdle ==
    ASSUME WriterInv, UNCHANGED writer
    PROVE  /\ WriterInv' /\ cells' = cells /\ files' = files /\ out' = out /\ gens' = gens
           /\ name' = name /\ Newest' = Newest
           /\ \A c : Gen(c)' = Gen(c)
<1>1. UNCHANGED <<files, name, out, cells, truncs, gens>>
  BY DEF writer
<1>2. WriterInv'
  BY <1>1 DEF WriterInv, WriterTypes, Numbered, Ordered, Midway, Newest, Gen
<1>3. QED BY <1>1, <1>2 DEF Newest, Gen

FewerToRead ==
    /\ \A c : Seen(c) => Seen(c)'
    /\ \A c : Passed(c) => Passed(c)'
    /\ \A a : Unread(a)' \/ Behind(a)' => Unread(a) \/ Behind(a)

\* A decoder has what it had, or the end of it, or nothing.
Suffixes ==
    \A i \in DOMAIN decoders' :
        \/ decoders'[i].fed = <<>>
        \/ /\ i \in DOMAIN decoders
           /\ \E n \in Nat : \A k \in DOMAIN decoders'[i].fed :
                 /\ k \in Nat /\ k + n \in DOMAIN decoders[i].fed
                 /\ decoders'[i].fed[k] = decoders[i].fed[k + n]

LeftBefore == \A i \in DOMAIN decoders : Left(i)' => Left(i) \/ \A c : Seen(c) => Passed(c)'

LEMMA SuffixKnown ==
    ASSUME Suffixes, NEW i \in DOMAIN decoders', NEW k \in DOMAIN (decoders'[i].fed)
    PROVE  /\ i \in DOMAIN decoders
           /\ \E l \in DOMAIN decoders[i].fed : decoders'[i].fed[k] = decoders[i].fed[l]
BY DEF Suffixes

LEMMA FedStep ==
    ASSUME FollowInv, fd # NoFile, UNCHANGED writer, FewerToRead, Suffixes, LeftBefore
    PROVE  FedInv'
<1>1. \A c : Gen(c)' = Gen(c)
  BY WriterIdle DEF FollowInv
<1>2. SUFFICES ASSUME NEW i \in DOMAIN decoders', NEW k \in DOMAIN (decoders'[i].fed)
               PROVE  (/\ Seen(decoders[i].fed[k])
                       /\ Left(i) => Passed(decoders[i].fed[k])
                       /\ \A l \in DOMAIN decoders[i].fed :
                             k < l => decoders[i].fed[k] < decoders[i].fed[l]
                       /\ \A j \in DOMAIN decoders : \A l \in DOMAIN decoders[j].fed :
                             i < j => Gen(decoders[i].fed[k]) < Gen(decoders[j].fed[l]))'
  BY DEF FedInv
<1>3. i \in DOMAIN decoders
  BY SuffixKnown
<1>4. PICK n \in Nat : \A l \in DOMAIN decoders'[i].fed :
          /\ l \in Nat /\ l + n \in DOMAIN decoders[i].fed
          /\ decoders'[i].fed[l] = decoders[i].fed[l + n]
  <2>1. decoders'[i].fed # <<>>
    OBVIOUS
  <2>2. QED BY <2>1 DEF Suffixes
<1>5. PICK c : c = decoders[i].fed[k + n]
  OBVIOUS
<1>6. /\ Seen(c)
      /\ Left(i) => Passed(c)
      /\ \A l \in DOMAIN decoders[i].fed : k + n < l => c < decoders[i].fed[l]
      /\ \A j \in DOMAIN decoders : \A l \in DOMAIN decoders[j].fed :
            i < j => Gen(c) < Gen(decoders[j].fed[l])
  BY <1>3, <1>4, <1>5 DEF FollowInv, FedInv
<1>7. Seen(c)' /\ (Left(i)' => Passed(c)')
  BY <1>3, <1>6 DEF LeftBefore, FewerToRead
<1>8. ASSUME NEW l \in DOMAIN (decoders'[i].fed), k < l PROVE c < decoders'[i].fed[l]
  BY <1>4, <1>6, <1>8
<1>9. ASSUME NEW j \in DOMAIN decoders', NEW l \in DOMAIN (decoders'[j].fed), i < j
      PROVE  Gen(c)' < Gen(decoders[j].fed[l])'
  <2>1. PICK d : d = decoders'[j].fed[l]
    OBVIOUS
  <2>2. Gen(c)' < Gen(d)'
    BY <1>1, <1>6, <1>9, <2>1, SuffixKnown
  <2>3. QED BY <2>1, <2>2 DEF Gen
<1>10. QED BY <1>4, <1>5, <1>7, <1>8, <1>9 DEF Gen, Seen, Passed, Unread, Behind

LEMMA DoneStep ==
    ASSUME FollowInv, UNCHANGED writer, FewerToRead, Suffixes, NEW r, Done(r)
    PROVE  Done(r)'
<1>1. cells' = cells /\ gens' = gens /\ \A c : Gen(c)' = Gen(c)
  BY WriterIdle DEF FollowInv
<1>2. \A a \in 1 .. cells' : Unread(a)' \/ Behind(a)' => 2 * r < a
  BY <1>1 DEF FewerToRead, Done
<1>3. ASSUME NEW i \in DOMAIN decoders', NEW k \in DOMAIN (decoders'[i].fed)
      PROVE  (2 * r < decoders[i].fed[k] \/ Gen(decoders[i].fed[k]) < gens[r])'
  <2>1. PICK c : c = decoders'[i].fed[k]
    OBVIOUS
  <2>2. 2 * r < c \/ Gen(c)' < gens'[r]
    BY <1>1, <2>1, SuffixKnown DEF Done
  <2>3. QED BY <2>1, <2>2 DEF Gen
<1>4. QED BY <1>1, <1>2, <1>3 DEF Done

\* What was shown before is still done with.
LEMMA PrintedStep ==
    ASSUME FollowInv, fd # NoFile, UNCHANGED writer, FewerToRead, Suffixes,
           printed' = printed \/ \E r : printed' = Append(printed, r) /\ Done(r)'
    PROVE  PrintedInv'
<1>1. SUFFICES ASSUME NEW n \in DOMAIN printed' PROVE Done(printed[n])'
  BY DEF PrintedInv
<1>2. PICK q : q = printed'[n]
  OBVIOUS
<1>3. ASSUME n \in DOMAIN printed, q = printed[n] PROVE Done(q)'
  BY <1>3, DoneStep DEF FollowInv, PrintedInv
<1>4. (n \in DOMAIN printed /\ q = printed[n]) \/ Done(q)'
  <2>1. CASE printed' = printed
    BY <1>2, <2>1
  <2>2. ASSUME NEW r, printed' = Append(printed, r), Done(r)'
        PROVE  (n \in DOMAIN printed /\ q = printed[n]) \/ Done(q)'
    <3>1. printed \in Seq(Nat)
      BY DEF FollowInv, FollowerTypes
    <3>2. Len(printed') = Len(printed) + 1 /\ Len(printed) \in Nat
          /\ DOMAIN printed' = 1 .. Len(printed) + 1 /\ DOMAIN printed = 1 .. Len(printed)
          /\ (\A m \in 1 .. Len(printed) : printed'[m] = printed[m])
          /\ printed'[Len(printed) + 1] = r
      BY <2>2, <3>1
    <3>3. CASE n = Len(printed) + 1
      BY <1>2, <2>2, <3>2, <3>3
    <3>4. CASE n \in 1 .. Len(printed)
      BY <1>2, <3>2, <3>4
    <3>5. QED BY <3>2, <3>3, <3>4
  <2>3. QED BY <2>1, <2>2
<1>5. Done(q)'
  BY <1>3, <1>4
<1>6. QED BY <1>2, <1>5 DEF Done

\* The follower goes to another place without reading.
Moves ==
    /\ UNCHANGED <<writer, mode, printed>>
    /\ fd # NoFile /\ fd' \in 1 .. Len(files) /\ off' \in Nat
    /\ pending' \in Seq(Nat)
    /\ decoders' \in Seq(Decoder)
    /\ mode = "plain" => decoders' = <<>>
    /\ mode = "compressed" => decoders' # <<>>
    /\ pc' # "start"
    /\ pc' = "open" => name # fd'
    /\ FewerToRead
    /\ Suffixes
    /\ LeftBefore

LEMMA MoveStep ==
    ASSUME FollowInv, Moves
    PROVE  FollowInv'
<1>1. /\ WriterInv /\ FollowerTypes /\ UNCHANGED <<mode, printed>> /\ UNCHANGED writer
      /\ fd # NoFile
  BY DEF FollowInv, Moves
<1>2. WriterInv' /\ files' = files /\ name' = name
  BY <1>1, WriterIdle
<1>3. fd' # NoFile /\ fd' \in 0 .. Len(files)
  BY <1>1, WriterNumbers DEF Moves, NoFile
<1>4. FollowerTypes'
  BY <1>1, <1>2, <1>3 DEF FollowerTypes, Moves
<1>5. FedInv' /\ PrintedInv'
  BY <1>1, FedStep, PrintedStep DEF Moves
<1>6. QED BY <1>2, <1>4, <1>5 DEF FollowInv

\* Decoders that have what they had.
LEMMA SameSuffixes ==
    ASSUME decoders \in Seq(Decoder),
           \A i \in DOMAIN decoders' :
              decoders'[i].fed = <<>> \/ (i \in DOMAIN decoders /\ decoders'[i] = decoders[i])
    PROVE  Suffixes
<1>1. ASSUME NEW i \in DOMAIN decoders, NEW k \in DOMAIN decoders[i].fed
      PROVE  k \in Nat /\ k + 0 = k
  <2>1. decoders \in Seq(Decoder) /\ i \in 1 .. Len(decoders)
    BY LenProperties
  <2>2. decoders[i] \in Decoder
    BY <2>1, ElementOfSeq
  <2>3. decoders[i].fed \in Seq(Nat)
    BY <2>2 DEF Decoder
  <2>4. k \in 1 .. Len(decoders[i].fed) /\ Len(decoders[i].fed) \in Nat
    BY <2>3, LenProperties
  <2>5. QED BY <2>4
<1>2. QED BY <1>1 DEF Suffixes

\* Where it stays there is nothing new for it.
LEMMA StaysFewer ==
    ASSUME WriterInv, UNCHANGED <<writer, fd, off>>
    PROVE  FewerToRead /\ Shrunk' = Shrunk
<1>1. UNCHANGED <<files, cells, out, gens, truncs, fd, off>>
  BY DEF writer
<1>2. Shrunk' = Shrunk
  BY <1>1 DEF Shrunk
<1>3. \A c : Unread(c)' = Unread(c) /\ Behind(c)' = Behind(c) /\ Gen(c)' = Gen(c)
  BY <1>1, <1>2 DEF Unread, Behind, Gen
<1>4. \A c : Seen(c)' = Seen(c) /\ Passed(c)' = Passed(c)
  BY <1>1, <1>3 DEF Seen, Passed, Newest
<1>5. QED BY <1>2, <1>3, <1>4 DEF FewerToRead

LEMMA QuietStep ==
    ASSUME FollowInv, fd # NoFile, UNCHANGED <<writer, mode, fd, off, decoders, printed>>,
           pending' \in Seq(Nat),
           pc' # "start", pc' = "open" => name # fd, pc' = "detect" => pc = "detect"
    PROVE  FollowInv'
<1>1. fd \in 1 .. Len(files) /\ FollowerTypes
  BY WriterNumbers DEF FollowInv, FollowerTypes, NoFile
<1>2. FewerToRead /\ LeftBefore
  BY StaysFewer DEF FollowInv, Left, LeftBefore
<1>3. Moves
  BY <1>1, <1>2, SameSuffixes DEF Moves, FollowerTypes
<1>4. QED BY <1>3, MoveStep

\* From the end of a file that became shorter to its beginning.
LEMMA RewindFewer ==
    ASSUME WriterInv, Shrunk, off \in Nat, UNCHANGED <<writer, fd>>, off' = 0
    PROVE  FewerToRead
<1>1. UNCHANGED <<files, cells, out, gens, truncs, fd>>
  BY DEF writer
<1>2. \A c : (Unread(c)' => Unread(c)) /\ Behind(c)' = Behind(c) /\ Gen(c)' = Gen(c)
  BY <1>1 DEF Unread, Behind, Gen
<1>3. \A c : (Seen(c) => Seen(c)') /\ (Passed(c) => Passed(c)')
  BY <1>1, <1>2 DEF Seen, Passed, Newest
<1>4. QED BY <1>2, <1>3 DEF FewerToRead

\* To the file that the log path names now.
LEMMA SwitchFewer ==
    ASSUME WriterInv, fd \in 1 .. Len(files), name # NoFile, name # fd,
           UNCHANGED writer, fd' = name, off' = 0
    PROVE  FewerToRead /\ fd' \in 1 .. Len(files) /\ \A c : Seen(c) => Passed(c)'
<1>1. UNCHANGED <<files, cells, out, gens, truncs>>
  BY DEF writer
<1>2. /\ name = Len(files) /\ Len(files) \in Nat /\ fd < name /\ name \in 1 .. Len(files)
      /\ DOMAIN files = 1 .. Len(files) /\ out \in Nat /\ fd \in Nat
  BY WriterNumbers DEF WriterInv, WriterTypes, NoFile
<1>3. ASSUME NEW a, Unread(a)' PROVE Behind(a)
  BY <1>1, <1>2, <1>3 DEF Unread, Behind
<1>4. ASSUME NEW a PROVE ~Behind(a)'
  BY <1>1, <1>2 DEF Behind
<1>5. \A c : Gen(c)' = Gen(c)
  BY <1>1 DEF Gen
<1>6. ASSUME NEW c, Seen(c) PROVE Passed(c)'
  <2>1. c \in 1 .. cells'
    BY <1>1, <1>6 DEF Seen
  <2>2. ASSUME NEW a \in 1 .. cells', Unread(a)' \/ Behind(a)' PROVE Gen(c)' < Gen(a)'
    BY <1>1, <1>3, <1>4, <1>5, <1>6, <2>2 DEF Seen
  <2>3. out' >= fd' => Gen(c)' < Newest'
    BY <1>1, <1>2, <1>5, <1>6 DEF Seen, Newest
  <2>4. QED BY <2>1, <2>2, <2>3 DEF Passed
<1>7. WriterInv' /\ fd' \in Nat
  BY <1>2, WriterIdle
<1>8. \A c : Passed(c)' => Seen(c)'
  BY <1>1, <1>2, <1>3, <1>4, <1>5, LaterGeneration DEF Passed, Seen
<1>9. \A c : Passed(c) => Seen(c)
  BY <1>2, PassedIsSeen
<1>10. QED BY <1>2, <1>3, <1>4, <1>6, <1>8, <1>9 DEF FewerToRead

-----------------------------------------------------------------------------
(* Reading a cell.                                                         *)

LEMMA ReadCell ==
    ASSUME WriterInv, fd \in 1 .. Len(files), off \in Nat, off < Len(files[fd]),
           UNCHANGED <<writer, fd>>, off' = off + 1,
           NEW c, c = files[fd][off + 1]
    PROVE  /\ FewerToRead /\ ~Shrunk /\ ~Shrunk' /\ Unread(c) /\ c \in 1 .. cells /\ Seen(c)'
           /\ \A a : Unread(a)' \/ Behind(a)' => c < a
<1>1. UNCHANGED <<files, cells, out, gens, truncs, fd>>
  BY DEF writer
<1>2. /\ fd \in DOMAIN files /\ Len(files[fd]) \in Nat /\ off + 1 \in DOMAIN files[fd]
      /\ DOMAIN files[fd] = 1 .. Len(files[fd]) /\ out \in Nat /\ fd \in Nat
  BY WriterNumbers, FileNumbers
<1>3. ~Shrunk /\ ~Shrunk'
  BY <1>1, <1>2 DEF Shrunk
<1>4. Unread(c)
  BY <1>2 DEF Unread
<1>5. /\ c \in 1 .. cells /\ (fd < out => Gen(c) < Newest)
      /\ \A j \in DOMAIN files[fd] : off + 1 < j => c < files[fd][j]
      /\ \A g \in DOMAIN files : \A j \in DOMAIN files[g] : fd < g => Gen(c) < Gen(files[g][j])
  BY <1>2 DEF WriterInv, Ordered
<1>6. ASSUME NEW a, Unread(a)' PROVE Unread(a) /\ c < a
  <2>1. PICK i \in DOMAIN files[fd] : files[fd][i] = a /\ i > off + 1
    BY <1>1, <1>3, <1>6 DEF Unread
  <2>2. QED BY <1>2, <1>5, <2>1 DEF Unread
<1>7. ASSUME NEW a, Behind(a)' PROVE Behind(a) /\ Gen(c) < Gen(a) /\ c < a
  <2>1. Behind(a)
    BY <1>1, <1>7 DEF Behind
  <2>2. Gen(c) < Gen(a)
    BY <1>2, <1>5, <2>1, WriterNumbers DEF Behind
  <2>3. QED BY <1>5, <2>1, <2>2, ReadableKnown, LaterGeneration
<1>8. \A a : Gen(a)' = Gen(a)
  BY <1>1 DEF Gen
<1>9. Seen(c)'
  BY <1>1, <1>2, <1>5, <1>6, <1>7, <1>8 DEF Seen, Newest
<1>10. \A a : (Seen(a) => Seen(a)') /\ (Passed(a) => Passed(a)')
  BY <1>1, <1>6, <1>7, <1>8 DEF Seen, Passed, Newest
<1>11. \A a : Unread(a)' \/ Behind(a)' => (Unread(a) \/ Behind(a)) /\ c < a
  BY <1>6, <1>7
<1>12. QED BY <1>3, <1>4, <1>5, <1>9, <1>10, <1>11 DEF FewerToRead

-----------------------------------------------------------------------------
(* The follower's actions.                                                 *)

\* The follower has a file.
LEMMA HasFile ==
    ASSUME FollowInv, fd # NoFile
    PROVE  /\ WriterInv /\ FollowerTypes
           /\ fd \in 1 .. Len(files) /\ fd \in Nat /\ off \in Nat /\ Len(files[fd]) \in Nat
           /\ decoders \in Seq(Decoder) /\ pending \in Seq(Nat)
<1>1. WriterInv /\ FollowerTypes
  BY DEF FollowInv
<1>2. fd \in 1 .. Len(files) /\ fd \in Nat
  BY <1>1, WriterNumbers DEF FollowerTypes, NoFile
<1>3. QED BY <1>1, <1>2, FileNumbers DEF FollowerTypes

\* Record r may be shown next.
MayShow(r) ==
    /\ r \in DOMAIN gens
    /\ \A n \in DOMAIN printed :
          \/ printed[n] < r
          \/ mode = "compressed" /\ r < printed[n] /\ gens[r] < gens[printed[n]]

LEMMA ReadLineStep ==
    ASSUME FollowInv, ReadLine
    PROVE  /\ FollowInv'
           /\ printed' = printed \/ \E r : printed' = Append(printed, r) /\ MayShow(r)
<1>1. /\ mode = "plain" /\ pc = "read" /\ off < Len(files[fd]) /\ off' = off + 1
      /\ UNCHANGED <<writer, mode, pc, fd, decoders>>
  BY DEF ReadLine, File
<1>2. fd # NoFile
  BY <1>1 DEF FollowInv, FollowerTypes
<1>3. /\ WriterInv /\ FollowerTypes /\ decoders = <<>> /\ decoders' = <<>>
      /\ fd \in 1 .. Len(files) /\ off \in Nat /\ pending \in Seq(Nat) /\ printed \in Seq(Nat)
  BY <1>1, <1>2, HasFile DEF FollowerTypes
<1>4. PICK c : c = files[fd][off + 1]
  OBVIOUS
<1>5. /\ FewerToRead /\ Unread(c) /\ c \in 1 .. cells
      /\ \A a : Unread(a)' \/ Behind(a)' => c < a
  BY <1>1, <1>3, <1>4, ReadCell
<1>6. c \in Nat /\ RecordOf(c) \in DOMAIN gens /\ RecordOf(c) \in Nat
  BY <1>3, <1>5, CellKnown
<1>7. Suffixes /\ LeftBefore
  BY <1>3 DEF Suffixes, LeftBefore
<1>8. \/ printed' = printed /\ pending' \in Seq(Nat)
      \/ ~Starts(c) /\ printed' = Append(printed, RecordOf(c)) /\ pending' = <<>>
  <2>1. CASE Starts(c)
    <3>1. pending' = Append(pending, c) /\ printed' = printed
      BY <1>4, <2>1 DEF ReadLine, File, shown
    <3>2. QED BY <1>3, <1>6, <3>1, AppendProperties
  <2>2. CASE ~Starts(c)
    <3> DEFINE line == Append(pending, c)
    <3>1. pending' = <<>> /\ Emit(line)
      BY <1>4, <2>2 DEF ReadLine, File
    <3>2. Len(line) = Len(pending) + 1 /\ line[Len(pending) + 1] = c /\ Len(pending) \in Nat
      BY <1>3, <1>6, AppendProperties, LenProperties
    <3> HIDE DEF line
    <3>3. printed' = printed \/ (Len(line) = 2 /\ printed' = Append(printed, RecordOf(line[2])))
      BY <3>1 DEF Emit
    <3>4. Len(line) = 2 => line[2] = c
      BY <3>2
    <3>5. pending' \in Seq(Nat)
      BY <3>1, EmptySeq
    <3>6. QED BY <2>2, <3>1, <3>3, <3>4, <3>5
  <2>3. QED BY <2>1, <2>2
<1>9. ASSUME ~Starts(c) PROVE Done(RecordOf(c))'
  <2>1. PICK r : r = RecordOf(c)
    OBVIOUS
  <2>2. 2 * r = c /\ r \in DOMAIN gens
    BY <1>6, <1>9, <2>1, RecordOfCell
  <2>3. cells' = cells /\ gens' = gens /\ cells \in Nat
    BY <1>1, <1>3, WriterIdle, WriterNumbers
  <2>4. Done(r)'
    BY <1>3, <1>5, <2>2, <2>3 DEF Done
  <2>5. QED BY <2>1, <2>4 DEF RecordOf
<1>10. ASSUME ~Starts(c) PROVE MayShow(RecordOf(c))
  <2>1. 2 * RecordOf(c) = c
    BY <1>6, <1>10, RecordOfCell
  <2>2. ASSUME NEW n \in DOMAIN printed PROVE printed[n] < RecordOf(c)
    <3>1. 2 * printed[n] < c
      BY <1>2, <1>5, <2>2 DEF FollowInv, PrintedInv, Done
    <3>2. printed[n] \in Nat
      BY <1>3, ElementOfSeq, LenProperties
    <3>3. QED BY <1>6, <2>1, <3>1, <3>2
  <2>3. QED BY <1>6, <2>2 DEF MayShow
<1>11. FollowerTypes'
  <2>1. printed' \in Seq(Nat) /\ pending' \in Seq(Nat)
    <3>1. Append(printed, RecordOf(c)) \in Seq(Nat) /\ << >> \in Seq(Nat)
      BY <1>3, <1>6, AppendProperties
    <3>2. QED BY <1>3, <1>8, <3>1
  <2>2. files' = files /\ name' = name /\ off' \in Nat
    BY <1>1, <1>3, WriterIdle
  <2>3. QED BY <1>1, <1>2, <1>3, <2>1, <2>2 DEF FollowerTypes
<1>12. FedInv' /\ PrintedInv'
  <2>1. FedInv'
    BY <1>1, <1>2, <1>5, <1>7, FedStep
  <2>2. printed' = printed \/ \E r : printed' = Append(printed, r) /\ Done(r)'
    <3>1. \A r : r = RecordOf(c) => (Done(r)' <=> Done(RecordOf(c))')
      BY DEF RecordOf, Done
    <3>2. QED BY <1>8, <1>9, <3>1
  <2>3. QED BY <1>1, <1>2, <1>5, <1>7, <2>1, <2>2, PrintedStep
<1>13. QED BY <1>1, <1>3, <1>8, <1>10, <1>11, <1>12, WriterIdle DEF FollowInv

\* To the end of the file that has the name, with nothing shown before.
LEMMA OpenStep ==
    ASSUME FollowInv, Open
    PROVE  FollowInv' /\ printed' = printed
<1>1. /\ WriterInv /\ FollowerTypes /\ pc = "start" /\ fd = NoFile
      /\ UNCHANGED <<writer, mode, pending, printed>> /\ decoders = <<>> /\ printed = <<>>
  BY DEF Open, FollowInv, FollowerTypes, shown
<1>2. WriterInv' /\ files' = files /\ name' = name
  BY <1>1, WriterIdle
<1>3. CASE name = NoFile
  <2>1. pc' = "exit" /\ UNCHANGED <<fd, off, decoders>>
    BY <1>3 DEF Open, Exit, Goto, history
  <2>2. FollowerTypes'
    BY <1>1, <1>2, <2>1 DEF FollowerTypes
  <2>3. QED BY <1>1, <1>2, <2>1, <2>2 DEF FollowInv
<1>4. CASE name # NoFile
  <2>1. /\ fd' = name /\ off' = Len(files[name])
        /\ \/ mode = "plain" /\ pc' = "read" /\ decoders' = <<>>
           \/ mode = "compressed" /\ pc' = "check" /\ decoders' = <<NewDecoder>>
    BY <1>1, <1>4 DEF Open, Goto, Reset, FollowerTypes
  <2>2. name \in 1 .. Len(files) /\ Len(files[name]) \in Nat
    BY <1>1, <1>4, WriterNumbers, FileNumbers DEF WriterInv, WriterTypes, NoFile
  <2>3. NewDecoder \in Decoder
    BY DEF NewDecoder, Decoder
  <2>4. <<NewDecoder>> \in Seq(Decoder) /\ <<NewDecoder>> # <<>> /\ << >> \in Seq(Decoder)
    BY <2>3
  <2>5. FollowerTypes'
    <3>1. fd' \in 0 .. Len(files') /\ fd' # NoFile /\ off' \in Nat
      BY <1>2, <1>4, <2>1, <2>2
    <3>2. decoders' \in Seq(Decoder)
      BY <2>1, <2>4
    <3>3. mode' = mode /\ pc' \in {"read", "check"} /\ (mode = "compressed" => decoders' # <<>>)
          /\ (mode = "plain" => decoders' = <<>>) /\ printed' = printed /\ pending' = pending
      BY <1>1, <2>1, <2>4
    <3>4. QED BY <1>1, <3>1, <3>2, <3>3 DEF FollowerTypes
  <2>6. \A i \in DOMAIN decoders' : decoders'[i].fed = <<>>
    BY <2>1 DEF NewDecoder
  <2>7. FedInv' /\ PrintedInv'
    BY <1>1, <2>6 DEF FedInv, PrintedInv
  <2>8. QED BY <1>1, <1>2, <2>5, <2>7 DEF FollowInv
<1>5. QED BY <1>3, <1>4

\* Steps that end where they began, with another thing to do.
LEMMA QuietActions ==
    ASSUME FollowInv, Wake \/ ReadEOF \/ Check \/ CheckFirst \/ PollError \/ Race
    PROVE  FollowInv' /\ printed' = printed
<1>1. fd # NoFile
  <2>1. CASE Race
    BY <2>1 DEF Race, FollowInv, FollowerTypes
  <2>2. CASE Wake \/ ReadEOF \/ Check \/ CheckFirst \/ PollError
    <3>1. pc \in {"sleep", "read", "check", "poll"}
      BY <2>2 DEF Wake, ReadEOF, Check, CheckFirst, PollError
    <3>2. QED BY <3>1 DEF FollowInv, FollowerTypes
  <2>3. QED BY <2>1, <2>2
<1>2. UNCHANGED <<writer, mode, fd, off, pending, decoders, printed>>
  BY DEF Wake, ReadEOF, Check, CheckFirst, PollError, Race, shown
<1>3. pc' # "start" /\ (pc' = "open" => name # fd) /\ pc' # "detect"
  BY DEF Wake, ReadEOF, Check, CheckFirst, PollError, Race, Goto, Exit, ReplacedByName
<1>4. QED BY <1>1, <1>2, <1>3, HasFile, QuietStep

LEMMA RewindStep ==
    ASSUME FollowInv, RewindIfShrunk
    PROVE  FollowInv' /\ printed' = printed
<1>1. /\ mode = "plain" /\ pc = "shrunk" /\ UNCHANGED <<writer, mode, fd, decoders, printed>>
  BY DEF RewindIfShrunk, shown
<1>2. fd # NoFile
  BY <1>1 DEF FollowInv, FollowerTypes
<1>3. /\ WriterInv /\ decoders = <<>> /\ decoders' = <<>> /\ off \in Nat /\ fd \in 1 .. Len(files)
      /\ pending \in Seq(Nat) /\ Len(files[fd]) \in Nat
  BY <1>1, <1>2, HasFile DEF FollowInv, FollowerTypes
<1>4. CASE Len(File) >= off
  <2>1. pc' = "sleep" /\ UNCHANGED <<off, pending>>
    BY <1>4 DEF RewindIfShrunk, Goto
  <2>2. QED BY <1>1, <1>2, <1>3, <2>1, QuietStep
<1>5. CASE ~(Len(File) >= off)
  <2>1. pc' = "read" /\ off' = 0 /\ pending' = <<>> /\ Shrunk
    BY <1>3, <1>5 DEF RewindIfShrunk, Goto, Shrunk, File
  <2>2. FewerToRead
    BY <1>1, <1>3, <2>1, RewindFewer
  <2>3. Moves
    BY <1>1, <1>2, <1>3, <2>1, <2>2 DEF Moves, Suffixes, LeftBefore
  <2>4. QED BY <1>1, <2>3, MoveStep
<1>6. QED BY <1>4, <1>5

LEMMA SwitchStep ==
    ASSUME FollowInv, Switch
    PROVE  FollowInv' /\ printed' = printed
<1>1. /\ mode = "plain" /\ pc = "open" /\ UNCHANGED <<writer, mode, decoders, printed>>
  BY DEF Switch, shown
<1>2. fd # NoFile /\ name # fd
  BY <1>1 DEF FollowInv, FollowerTypes
<1>3. /\ WriterInv /\ decoders = <<>> /\ decoders' = <<>> /\ off \in Nat /\ fd \in 1 .. Len(files)
      /\ pending \in Seq(Nat)
  BY <1>1, <1>2, HasFile DEF FollowInv, FollowerTypes
<1>4. CASE name = NoFile
  <2>1. pc' = "shrunk" /\ UNCHANGED <<fd, off, pending>>
    BY <1>4 DEF Switch, Goto
  <2>2. QED BY <1>1, <1>2, <1>3, <2>1, QuietStep
<1>5. CASE name # NoFile
  <2>1. pc' = "read" /\ fd' = name /\ off' = 0 /\ pending' = <<>>
    BY <1>5 DEF Switch, Goto
  <2>2. FewerToRead /\ fd' \in 1 .. Len(files)
    BY <1>1, <1>2, <1>3, <1>5, <2>1, SwitchFewer
  <2>3. Moves
    BY <1>1, <1>2, <1>3, <2>1, <2>2 DEF Moves, Suffixes, LeftBefore
  <2>4. QED BY <1>1, <2>3, MoveStep
<1>6. QED BY <1>4, <1>5

LEMMA SwitchStreamStep ==
    ASSUME FollowInv, SwitchStream
    PROVE  FollowInv' /\ printed' = printed
<1>1. /\ mode = "compressed" /\ pc = "open"
      /\ UNCHANGED <<writer, mode, pending, decoders, printed>>
  BY DEF SwitchStream, shown
<1>2. fd # NoFile /\ name # fd
  BY <1>1 DEF FollowInv, FollowerTypes
<1>3. /\ WriterInv /\ FollowerTypes /\ fd \in 1 .. Len(files) /\ decoders \in Seq(Decoder)
      /\ pending \in Seq(Nat)
  BY <1>2, HasFile
<1>4. CASE name = NoFile
  <2>1. pc' = "poll" /\ UNCHANGED <<fd, off>>
    BY <1>4 DEF SwitchStream, Goto
  <2>2. QED BY <1>1, <1>2, <1>3, <2>1, QuietStep
<1>5. CASE name # NoFile
  <2>1. pc' = "detect" /\ fd' = name /\ off' = 0
    BY <1>5 DEF SwitchStream, Goto
  <2>2. FewerToRead /\ fd' \in 1 .. Len(files) /\ LeftBefore
    BY <1>1, <1>2, <1>3, <1>5, <2>1, SwitchFewer DEF LeftBefore
  <2>3. Moves
    BY <1>1, <1>2, <1>3, <2>1, <2>2, SameSuffixes DEF Moves, FollowerTypes
  <2>4. QED BY <1>1, <2>3, MoveStep
<1>6. QED BY <1>4, <1>5

\* A new decoder at the end of the list: the others are left.
LEMMA ResetDecoders ==
    ASSUME decoders \in Seq(Decoder), Reset
    PROVE  /\ decoders' \in Seq(Decoder) /\ decoders' # <<>> /\ Suffixes
           /\ Len(decoders') = Len(decoders) + 1
<1>1. NewDecoder \in Decoder /\ NewDecoder.fed = <<>>
  BY DEF NewDecoder, Decoder
<1>2. /\ decoders' \in Seq(Decoder) /\ Len(decoders') = Len(decoders) + 1
      /\ \A i \in 1 .. Len(decoders) : decoders'[i] = decoders[i]
      /\ decoders'[Len(decoders) + 1] = NewDecoder
  BY <1>1, AppendProperties DEF Reset
<1>3. /\ DOMAIN decoders' = 1 .. Len(decoders) + 1 /\ DOMAIN decoders = 1 .. Len(decoders)
      /\ Len(decoders) \in Nat
  BY <1>2, LenProperties
<1>4. QED BY <1>1, <1>2, <1>3, SameSuffixes

LEMMA DetectStep ==
    ASSUME FollowInv, Detect
    PROVE  FollowInv' /\ printed' = printed
<1>1. /\ mode = "compressed" /\ pc = "detect"
      /\ UNCHANGED <<writer, mode, fd, off, pending, printed>>
  BY DEF Detect, shown
<1>2. fd # NoFile
  BY <1>1 DEF FollowInv, FollowerTypes
<1>3. /\ WriterInv /\ fd \in 1 .. Len(files) /\ decoders \in Seq(Decoder) /\ off \in Nat
      /\ pending \in Seq(Nat)
  BY <1>2, HasFile
<1>4. CASE name = NoFile
  <2>1. pc' = "exit" /\ UNCHANGED decoders
    BY <1>4 DEF Detect, Exit, Goto
  <2>2. QED BY <1>1, <1>2, <1>3, <2>1, QuietStep
<1>5. CASE name # NoFile
  <2>1. pc' = "check" /\ Reset
    BY <1>5 DEF Detect, Goto
  <2>2. LeftBefore
    BY <1>1 DEF LeftBefore, Left
  <2>3. FewerToRead
    BY <1>1, <1>3, StaysFewer
  <2>4. Moves
    BY <1>1, <1>2, <1>3, <2>1, <2>2, <2>3, ResetDecoders DEF Moves
  <2>5. QED BY <1>1, <2>4, MoveStep
<1>6. QED BY <1>4, <1>5

LEMMA StatStep ==
    ASSUME FollowInv, Stat
    PROVE  FollowInv' /\ printed' = printed
<1>1. /\ mode = "compressed" /\ pc = "stat" /\ pc' \in {"sleep", "feed"}
      /\ UNCHANGED <<writer, mode, fd, pending, printed>>
  BY DEF Stat, Goto, shown
<1>2. fd # NoFile
  BY <1>1 DEF FollowInv, FollowerTypes
<1>3. /\ WriterInv /\ fd \in 1 .. Len(files) /\ decoders \in Seq(Decoder) /\ off \in Nat
      /\ pending \in Seq(Nat) /\ Len(files[fd]) \in Nat
  BY <1>2, HasFile
<1>4. CASE ~(Len(File) < off)
  <2>1. UNCHANGED <<off, decoders>>
    BY <1>4 DEF Stat
  <2>2. QED BY <1>1, <1>2, <1>3, <2>1, QuietStep
<1>5. CASE Len(File) < off
  <2>1. Shrunk /\ off' = 0 /\ Reset
    BY <1>3, <1>5 DEF Stat, Shrunk, File
  <2>2. FewerToRead
    BY <1>1, <1>3, <2>1, RewindFewer
  <2>3. LeftBefore
    BY <2>1 DEF LeftBefore, Left
  <2>4. Moves
    BY <1>1, <1>2, <1>3, <2>1, <2>2, <2>3, ResetDecoders DEF Moves
  <2>5. QED BY <1>1, <2>4, MoveStep
<1>6. QED BY <1>4, <1>5

\* What is fed to the current decoder is behind all that was fed before.
LEMMA FeedStep ==
    ASSUME FollowInv, Feed
    PROVE  FollowInv' /\ printed' = printed
<1>1. /\ mode = "compressed" /\ pc = "feed"
      /\ UNCHANGED <<writer, mode, fd, pending, printed>>
  BY DEF Feed, shown
<1>2. fd # NoFile
  BY <1>1 DEF FollowInv, FollowerTypes
<1>3. /\ WriterInv /\ FollowerTypes /\ fd \in 1 .. Len(files) /\ decoders \in Seq(Decoder)
      /\ off \in Nat /\ pending \in Seq(Nat) /\ Len(files[fd]) \in Nat
  BY <1>2, HasFile
<1>4. CASE off = size \/ off >= Len(File) \/ Current.failed
  <2>1. pc' \in {"check", "exit"} /\ UNCHANGED <<off, decoders>>
    BY <1>4 DEF Feed, Exit, Goto
  <2>2. QED BY <1>1, <1>2, <1>3, <2>1, QuietStep
<1>5. CASE ~(off = size \/ off >= Len(File) \/ Current.failed)
  <2>1. /\ off < Len(files[fd]) /\ off' = off + 1 /\ pc' = pc
        /\ decoders' = [decoders EXCEPT ![Len(decoders)].fed = Append(@, files[fd][off + 1])]
    BY <1>3, <1>5 DEF Feed, File
  <2> DEFINE last == Len(decoders)
             old  == decoders[last].fed
  <2>2. /\ last \in DOMAIN decoders /\ DOMAIN decoders = 1 .. last /\ last \in Nat
        /\ old \in Seq(Nat) /\ Len(old) \in Nat /\ DOMAIN old = 1 .. Len(old)
    <3>1. decoders # <<>>
      BY <1>1, <1>2, <1>3 DEF FollowerTypes
    <3>2. last \in Nat /\ last > 0 /\ DOMAIN decoders = 1 .. last
      BY <1>3, <3>1, EmptySeq, LenProperties
    <3>3. decoders[last] \in Decoder
      BY <1>3, <3>2, ElementOfSeq
    <3>4. QED BY <3>2, <3>3, LenProperties DEF Decoder
  <2>3. PICK c : c = files[fd][off + 1]
    OBVIOUS
  <2>4. /\ FewerToRead /\ ~Shrunk' /\ Unread(c) /\ c \in 1 .. cells /\ Seen(c)' /\ c \in Nat
        /\ \A a : Unread(a)' \/ Behind(a)' => c < a
    BY <1>1, <1>3, <2>1, <2>3, ReadCell, CellKnown
  <2>5. /\ decoders' \in Seq(Decoder) /\ DOMAIN decoders' = 1 .. last
        /\ \A i \in 1 .. last : i # last => decoders'[i] = decoders[i]
        /\ decoders'[last].fed = Append(old, c)
    <3>1. Append(old, c) \in Seq(Nat)
      BY <2>2, <2>4, AppendProperties
    <3>2. decoders[last] \in Decoder
      BY <1>3, <2>2, ElementOfSeq
    <3> DEFINE new == [decoders[last] EXCEPT !.fed = Append(old, c)]
    <3>3. new \in Decoder /\ new.fed = Append(old, c)
      BY <3>1, <3>2 DEF Decoder
    <3>4. decoders' = [decoders EXCEPT ![last] = new]
      BY <2>1, <2>3
    <3> HIDE DEF new
    <3>5. /\ decoders' \in Seq(Decoder) /\ Len(decoders') = last
          /\ \A i \in 1 .. last : decoders'[i] = IF i = last THEN new ELSE decoders[i]
      BY <1>3, <2>2, <3>3, <3>4, ExceptSeq
    <3>6. QED BY <2>2, <3>3, <3>5, LenProperties
  <2>6. /\ DOMAIN decoders'[last].fed = 1 .. Len(old) + 1
        /\ \A k \in 1 .. Len(old) : decoders'[last].fed[k] = old[k]
        /\ decoders'[last].fed[Len(old) + 1] = c
    <3>1. /\ Append(old, c) \in Seq(Nat) /\ Len(Append(old, c)) = Len(old) + 1
          /\ \A k \in 1 .. Len(old) : Append(old, c)[k] = old[k]
          /\ Append(old, c)[Len(old) + 1] = c
      BY <2>2, <2>4, AppendProperties
    <3>2. DOMAIN Append(old, c) = 1 .. Len(old) + 1
      BY <3>1, LenProperties
    <3>3. QED BY <2>5, <3>1, <3>2
  <2> HIDE DEF last, old
  \* A cell of a decoder is an old one, or the one that was read.
  <2>7. ASSUME NEW i \in DOMAIN decoders', NEW k \in DOMAIN (decoders'[i].fed)
        PROVE  /\ i \in DOMAIN decoders
               /\ \/ k \in DOMAIN decoders[i].fed /\ decoders'[i].fed[k] = decoders[i].fed[k]
                  \/ i = last /\ k = Len(old) + 1 /\ decoders'[i].fed[k] = c
    <3>1. CASE i # last
      BY <2>2, <2>5, <2>7, <3>1
    <3>2. CASE i = last
      <4>1. k \in 1 .. Len(old) + 1 /\ i \in DOMAIN decoders
        BY <2>2, <2>6, <2>7, <3>2
      <4>2. CASE k \in 1 .. Len(old)
        BY <2>2, <2>6, <3>2, <4>1, <4>2 DEF old
      <4>3. CASE k = Len(old) + 1
        BY <2>6, <3>2, <4>1, <4>3
      <4>4. QED BY <2>2, <4>1, <4>2, <4>3
    <3>3. QED BY <3>1, <3>2
  <2>8. cells' = cells /\ gens' = gens /\ \A a : Gen(a)' = Gen(a)
    BY <1>1, <1>3, WriterIdle
  <2>9. FedInv'
    <3>1. SUFFICES ASSUME NEW i \in DOMAIN decoders', NEW k \in DOMAIN (decoders'[i].fed)
                   PROVE  (/\ Seen(decoders[i].fed[k])
                           /\ Left(i) => Passed(decoders[i].fed[k])
                           /\ \A l \in DOMAIN decoders[i].fed :
                                 k < l => decoders[i].fed[k] < decoders[i].fed[l]
                           /\ \A j \in DOMAIN decoders : \A l \in DOMAIN decoders[j].fed :
                                 i < j => Gen(decoders[i].fed[k]) < Gen(decoders[j].fed[l]))'
      BY DEF FedInv
    <3>2. PICK b : b = decoders'[i].fed[k]
      OBVIOUS
    <3>3. CASE k \in DOMAIN decoders[i].fed /\ b = decoders[i].fed[k]
      <4>1. /\ i \in DOMAIN decoders /\ Seen(b)
            /\ Left(i) => Passed(b)
            /\ \A l \in DOMAIN decoders[i].fed : k < l => b < decoders[i].fed[l]
            /\ \A j \in DOMAIN decoders : \A l \in DOMAIN decoders[j].fed :
                  i < j => Gen(b) < Gen(decoders[j].fed[l])
        BY <1>2, <2>7, <3>3 DEF FollowInv, FedInv
      <4>2. Left(i)' => Left(i)
        BY <1>1, <2>1, <2>2, <2>4, <2>5, <4>1, LenProperties DEF Left, last
      <4>3. Seen(b)' /\ (Left(i)' => Passed(b)')
        BY <2>4, <4>1, <4>2 DEF FewerToRead
      <4>4. ASSUME NEW l \in DOMAIN (decoders'[i].fed), k < l PROVE b < decoders'[i].fed[l]
        <5>1. b < c
          BY <2>4, <4>1 DEF Seen
        <5>2. QED BY <2>7, <4>1, <4>4, <5>1
      <4>5. ASSUME NEW j \in DOMAIN decoders', NEW l \in DOMAIN (decoders'[j].fed), i < j
            PROVE  Gen(b)' < Gen(decoders[j].fed[l])'
        <5>1. PICK d : d = decoders'[j].fed[l]
          OBVIOUS
        <5>2. CASE l \in DOMAIN decoders[j].fed /\ d = decoders[j].fed[l]
          <6>1. Gen(b) < Gen(d)
            BY <2>7, <4>1, <4>5, <5>2
          <6>2. QED BY <2>8, <5>1, <6>1 DEF Gen
        <5>3. CASE j = last /\ d = c
          <6>1. Passed(b)
            BY <4>1, <4>5, <5>3 DEF Left, last
          <6>2. Gen(b) < Gen(c)
            BY <2>4, <6>1 DEF Passed
          <6>3. QED BY <2>8, <5>1, <5>3, <6>2 DEF Gen
        <5>4. QED BY <2>7, <5>1, <5>2, <5>3
      <4>6. QED BY <3>2, <4>3, <4>4, <4>5 DEF Gen, Seen, Passed, Unread, Behind
    <3>4. CASE i = last /\ k = Len(old) + 1 /\ b = c
      <4>1. ~Left(i)'
        BY <1>1, <2>1, <2>2, <2>4, <2>5, <3>4, LenProperties DEF Left
      <4>2. \A l \in DOMAIN decoders'[i].fed : ~(k < l)
        BY <2>2, <2>6, <3>4
      <4>3. \A j \in DOMAIN decoders' : ~(i < j)
        BY <2>2, <2>5, <3>4
      <4>4. QED BY <2>4, <3>2, <3>4, <4>1, <4>2, <4>3 DEF Seen, Unread, Behind, Gen
    <3>5. QED BY <2>7, <3>2, <3>3, <3>4
  <2>10. PrintedInv'
    <3>1. SUFFICES ASSUME NEW n \in DOMAIN printed PROVE Done(printed[n])'
      BY <1>1 DEF PrintedInv
    <3>2. PICK r : r = printed[n]
      OBVIOUS
    <3>3. Done(r)
      BY <1>2, <3>2 DEF FollowInv, PrintedInv
    <3>4. \A a \in 1 .. cells' : Unread(a)' \/ Behind(a)' => 2 * r < a
      BY <2>4, <2>8, <3>3 DEF FewerToRead, Done
    <3>5. ASSUME NEW i \in DOMAIN decoders', NEW k \in DOMAIN (decoders'[i].fed)
          PROVE  (2 * r < decoders[i].fed[k] \/ Gen(decoders[i].fed[k]) < gens[r])'
      <4>1. PICK b : b = decoders'[i].fed[k]
        OBVIOUS
      <4>2. 2 * r < b \/ Gen(b)' < gens'[r]
        BY <2>4, <2>7, <2>8, <3>3, <4>1 DEF Done
      <4>3. QED BY <4>1, <4>2 DEF Gen
    <3>6. Done(r)'
      BY <2>8, <3>3, <3>4, <3>5 DEF Done
    <3>7. QED BY <1>1, <3>2, <3>6 DEF Done
  <2>11. FollowerTypes'
    <3>1. decoders' # <<>> /\ off' \in Nat /\ files' = files /\ name' = name
      BY <1>1, <1>3, <2>1, <2>2, <2>5, WriterIdle
    <3>2. QED BY <1>1, <1>2, <1>3, <2>1, <2>5, <3>1 DEF FollowerTypes
  <2>12. QED BY <1>1, <1>3, <2>9, <2>10, <2>11, WriterIdle DEF FollowInv
<1>6. QED BY <1>4, <1>5

\* A sequence without its first two elements.
LEMMA ThirdOn ==
    ASSUME NEW s \in Seq(Nat), Len(s) >= 3
    PROVE  /\ SubSeq(s, 3, Len(s)) \in Seq(Nat)
           /\ Len(SubSeq(s, 3, Len(s))) = Len(s) - 2
           /\ \A k \in 1 .. Len(s) - 2 : SubSeq(s, 3, Len(s))[k] = s[k + 2]
<1>1. Len(s) \in Nat /\ \A k \in 3 .. Len(s) : s[k] \in Nat
  BY LenProperties
<1>2. QED BY <1>1, SubSeqProperties

\* A decoder shows the record that its first two cells are.
LEMMA DecodeStep ==
    ASSUME FollowInv, NEW i \in DOMAIN decoders, Decode(i)
    PROVE  /\ FollowInv'
           /\ printed' = printed \/ \E r : printed' = Append(printed, r) /\ MayShow(r)
<1>1. UNCHANGED <<writer, mode, pc, fd, off, pending>>
  BY DEF Decode
<1>2. fd # NoFile /\ mode = "compressed"
  BY DEF FollowInv, FollowerTypes
<1>3. /\ WriterInv /\ FollowerTypes /\ fd \in 1 .. Len(files) /\ decoders \in Seq(Decoder)
      /\ off \in Nat /\ pending \in Seq(Nat) /\ Len(files[fd]) \in Nat /\ printed \in Seq(Nat)
  BY <1>2, HasFile DEF FollowerTypes
<1> DEFINE fed == decoders[i].fed
<1>4. /\ decoders[i] \in Decoder /\ fed \in Seq(Nat) /\ Len(fed) \in Nat
      /\ DOMAIN fed = 1 .. Len(fed) /\ i \in 1 .. Len(decoders) /\ Len(decoders) \in Nat
  <2>1. i \in 1 .. Len(decoders) /\ Len(decoders) \in Nat
    BY <1>3, LenProperties
  <2>2. decoders[i] \in Decoder
    BY <1>3, <2>1, ElementOfSeq
  <2>3. QED BY <2>1, <2>2, LenProperties DEF Decoder
<1>5. PICK rest \in Seq(Nat), failed \in BOOLEAN :
          /\ decoders' = [decoders EXCEPT ![i] = [fed |-> rest, failed |-> failed]]
          /\ \/ rest = <<>> /\ printed' = printed
             \/ Whole(fed) /\ rest = SubSeq(fed, 3, Len(fed))
                /\ printed' = Append(printed, RecordOf(fed[1]))
  <2>1. << >> \in Seq(Nat) /\ SubSeq(fed, 3, Len(fed)) \in Seq(Nat)
    <3>1. \A k \in 3 .. Len(fed) : fed[k] \in Nat
      BY <1>4
    <3>2. QED BY <1>4, <3>1, SubSeqProperties
  <2>2. CASE Whole(fed)
    BY <2>1, <2>2 DEF Decode
  <2>3. CASE ~Whole(fed)
    BY <2>1, <2>3 DEF Decode
  <2>4. QED BY <2>2, <2>3
<1> DEFINE new == [fed |-> rest, failed |-> failed]
<1>6. /\ decoders' \in Seq(Decoder) /\ Len(decoders') = Len(decoders)
      /\ \A j \in 1 .. Len(decoders) : decoders'[j] = IF j = i THEN new ELSE decoders[j]
  <2>1. new \in Decoder
    BY <1>5 DEF Decoder
  <2>2. decoders' = [decoders EXCEPT ![i] = new]
    BY <1>5
  <2> HIDE DEF new
  <2>3. QED BY <1>3, <1>4, <2>1, <2>2, ExceptSeq
<1>7. DOMAIN decoders' = 1 .. Len(decoders) /\ DOMAIN decoders = 1 .. Len(decoders)
  BY <1>3, <1>6, LenProperties
<1>8. decoders'[i].fed = rest /\ \A j \in DOMAIN decoders : j # i => decoders'[j] = decoders[j]
  BY <1>4, <1>6, <1>7
<1>9. \/ rest = <<>>
      \/ \A k \in DOMAIN rest :
            k \in Nat /\ k > 0 /\ k + 2 \in DOMAIN fed /\ rest[k] = fed[k + 2]
  <2>1. CASE rest = SubSeq(fed, 3, Len(fed)) /\ Len(fed) >= 3
    <3>1. /\ Len(rest) = Len(fed) - 2
          /\ \A k \in 1 .. Len(fed) - 2 : rest[k] = fed[k + 2]
      BY <1>4, <2>1, ThirdOn
    <3>2. DOMAIN rest = 1 .. Len(fed) - 2
      BY <3>1, LenProperties
    <3>3. ASSUME NEW k \in DOMAIN rest
          PROVE  k \in Nat /\ k > 0 /\ k + 2 \in DOMAIN fed /\ rest[k] = fed[k + 2]
      <4>1. k \in 1 .. Len(fed) - 2
        BY <3>2
      <4>2. k \in Nat /\ k > 0 /\ k + 2 \in 1 .. Len(fed)
        <5>1. \A m \in Nat : \A x \in 1 .. m - 2 : x \in Nat /\ x > 0 /\ x + 2 \in 1 .. m
          OBVIOUS
        <5>2. QED BY <1>4, <4>1, <5>1
      <4>3. QED BY <1>4, <3>1, <4>1, <4>2
    <3>4. QED BY <3>3
  <2>2. CASE rest = SubSeq(fed, 3, Len(fed)) /\ Len(fed) < 3
    BY <1>4, <2>2, SubSeqEmpty
  <2>3. CASE rest = <<>>
    BY <2>3
  <2>4. Len(fed) >= 3 \/ Len(fed) < 3
    BY <1>4
  <2>5. QED BY <1>5, <2>1, <2>2, <2>3, <2>4
<1>10. Suffixes
  <2>1. ASSUME NEW j \in DOMAIN decoders, NEW k \in DOMAIN decoders[j].fed
        PROVE  k \in Nat /\ k + 0 = k
    <3>1. decoders[j] \in Decoder
      BY <1>3, <1>7, ElementOfSeq
    <3>2. k \in 1 .. Len(decoders[j].fed) /\ Len(decoders[j].fed) \in Nat
      BY <3>1, LenProperties DEF Decoder
    <3>3. QED BY <3>2
  <2>2. \A j \in DOMAIN decoders :
           j # i => \A k \in DOMAIN decoders'[j].fed :
                       /\ k \in Nat /\ k + 0 \in DOMAIN decoders[j].fed
                       /\ decoders'[j].fed[k] = decoders[j].fed[k + 0]
    BY <1>8, <2>1
  <2>3. i \in DOMAIN decoders /\ DOMAIN decoders' = DOMAIN decoders /\ 2 \in Nat /\ 0 \in Nat
    BY <1>4, <1>7
  <2>4. ASSUME NEW j \in DOMAIN decoders', j # i
        PROVE  \E n \in Nat : \A k \in DOMAIN decoders'[j].fed :
                  /\ k \in Nat /\ k + n \in DOMAIN decoders[j].fed
                  /\ decoders'[j].fed[k] = decoders[j].fed[k + n]
    BY <2>2, <2>3, <2>4
  <2>5. CASE rest = <<>>
    BY <1>8, <2>3, <2>4, <2>5 DEF Suffixes
  <2>6. CASE \A k \in DOMAIN rest :
                k \in Nat /\ k > 0 /\ k + 2 \in DOMAIN fed /\ rest[k] = fed[k + 2]
    <3>1. \A k \in DOMAIN decoders'[i].fed :
             /\ k \in Nat /\ k + 2 \in DOMAIN decoders[i].fed
             /\ decoders'[i].fed[k] = decoders[i].fed[k + 2]
      BY <1>8, <2>6
    <3>2. QED BY <2>3, <2>4, <3>1 DEF Suffixes
  <2>7. QED BY <1>9, <2>5, <2>6
<1>11. FewerToRead /\ LeftBefore
  <2>1. FewerToRead /\ Shrunk' = Shrunk
    BY <1>1, <1>3, StaysFewer
  <2>2. QED BY <1>1, <1>6, <2>1 DEF LeftBefore, Left
<1>12. FedInv'
  BY <1>1, <1>2, <1>10, <1>11, FedStep
<1>13. CASE printed' = printed
  <2>1. PrintedInv'
    BY <1>1, <1>2, <1>10, <1>11, <1>13, PrintedStep
  <2>2. FollowerTypes'
    BY <1>1, <1>2, <1>3, <1>4, <1>6, <1>7, <1>13, WriterIdle DEF FollowerTypes
  <2>3. QED BY <1>1, <1>3, <1>12, <1>13, <2>1, <2>2, WriterIdle DEF FollowInv
<1>14. CASE /\ Whole(fed) /\ rest = SubSeq(fed, 3, Len(fed))
            /\ printed' = Append(printed, RecordOf(fed[1]))
  <2>1. PICK r : r = RecordOf(fed[1])
    OBVIOUS
  <2>2. PICK c : c = fed[2]
    OBVIOUS
  <2>3. /\ 1 \in DOMAIN fed /\ 2 \in DOMAIN fed
        /\ Seen(fed[1]) /\ fed[1] \in 1 .. cells /\ Seen(c) /\ c \in 1 .. cells
    <3>1. 1 \in DOMAIN fed /\ 2 \in DOMAIN fed
      BY <1>4, <1>14 DEF Whole
    <3>2. QED BY <1>2, <2>2, <3>1, FedKnown
  <2>4. /\ c \in Nat /\ fed[1] \in Nat /\ c = fed[1] + 1 /\ 2 * r = c /\ r \in DOMAIN gens /\ r \in Nat
        /\ Gen(fed[1]) = gens[r] /\ Gen(c) = gens[r] /\ gens[r] \in Nat
    <3>1. /\ fed[1] \in Nat /\ c \in Nat /\ Starts(fed[1]) /\ c = fed[1] + 1
          /\ RecordOf(fed[1]) \in DOMAIN gens /\ Gen(fed[1]) \in Nat /\ r \in Nat
      BY <1>3, <1>14, <2>1, <2>2, <2>3, CellKnown DEF Whole
    <3>2. 2 * r = c
      BY <2>1, <3>1, RecordOfCell
    <3>3. \A x \in Nat : Starts(x) => ~Starts(x + 1)
      BY DEF Starts
    <3>4. RecordOf(c) = r
      <4>1. 2 * RecordOf(c) = c /\ RecordOf(c) \in Nat
        BY <3>1, <3>3, RecordOfCell
      <4>2. QED BY <3>1, <3>2, <4>1
    <3>5. QED BY <2>1, <3>1, <3>2, <3>4 DEF Gen
  \* Of what is fed, all but the older decoders' is behind the record.
  <2>5. ASSUME NEW j \in DOMAIN decoders', NEW k \in DOMAIN (decoders'[j].fed)
        PROVE  2 * r < decoders'[j].fed[k] \/ Gen(decoders'[j].fed[k]) < gens[r]
    <3>1. PICK b : b = decoders'[j].fed[k]
      OBVIOUS
    <3>2. CASE j = i
      <4>1. PICK l \in DOMAIN fed : l > 2 /\ b = fed[l]
        <5>1. k \in DOMAIN rest /\ b = rest[k]
          BY <1>8, <3>1, <3>2
        <5>2. k + 2 \in DOMAIN fed /\ k + 2 > 2 /\ b = fed[k + 2]
          BY <1>9, <5>1
        <5>3. QED BY <5>2
      <4>2. c < b
        BY <1>2, <2>2, <2>3, <4>1 DEF FollowInv, FedInv
      <4>3. QED BY <2>4, <3>1, <4>2
    <3>3. CASE j # i
      <4>1. j \in DOMAIN decoders /\ k \in DOMAIN decoders[j].fed /\ b = decoders[j].fed[k]
        BY <1>6, <1>7, <1>8, <3>1, <3>3
      <4>2. b \in 1 .. cells
        BY <1>2, <4>1, FedKnown
      <4>3. CASE i < j
        <5>1. Gen(c) < Gen(b)
          BY <1>2, <2>2, <2>3, <4>1, <4>3 DEF FollowInv, FedInv
        <5>2. QED BY <1>3, <2>3, <2>4, <3>1, <4>2, <5>1, LaterGeneration
      <4>4. CASE j < i
        <5>1. Gen(b) < Gen(fed[1])
          BY <1>2, <2>3, <4>1, <4>4 DEF FollowInv, FedInv
        <5>2. QED BY <2>4, <3>1, <5>1
      <4>5. QED BY <1>4, <1>7, <3>3, <4>1, <4>3, <4>4
    <3>4. QED BY <3>2, <3>3
  <2>6. Done(r)'
    <3>1. /\ cells' = cells /\ gens' = gens /\ cells \in Nat /\ \A a : Gen(a)' = Gen(a)
      BY <1>1, <1>3, WriterIdle, WriterNumbers
    <3>2. ASSUME NEW a \in 1 .. cells', Unread(a)' \/ Behind(a)' PROVE 2 * r < a
      <4>1. a \in 1 .. cells /\ (Unread(a) \/ Behind(a))
        BY <1>11, <3>1, <3>2 DEF FewerToRead
      <4>2. c < a
        BY <1>3, <2>3, <4>1, LaterGeneration DEF Seen
      <4>3. QED BY <2>4, <4>2
    <3>3. ASSUME NEW j \in DOMAIN decoders', NEW k \in DOMAIN (decoders'[j].fed)
          PROVE  (2 * r < decoders[j].fed[k] \/ Gen(decoders[j].fed[k]) < gens[r])'
      <4>1. PICK b : b = decoders'[j].fed[k]
        OBVIOUS
      <4>2. 2 * r < b \/ Gen(b)' < gens'[r]
        BY <2>5, <3>1, <4>1
      <4>3. QED BY <4>1, <4>2 DEF Gen
    <3>4. 2 * r <= cells' /\ r \in DOMAIN gens'
      BY <2>3, <2>4, <3>1
    <3>5. QED BY <3>2, <3>3, <3>4 DEF Done
  <2>7. MayShow(r)
    <3>1. ASSUME NEW n \in DOMAIN printed
          PROVE  printed[n] < r \/ (r < printed[n] /\ gens[r] < gens[printed[n]])
      <4>1. PICK p : p = printed[n]
        OBVIOUS
      <4>2. /\ p \in DOMAIN gens /\ p \in Nat
            /\ 2 * p < fed[1] \/ Gen(fed[1]) < gens[p]
        <5>1. Done(p)
          BY <1>2, <4>1 DEF FollowInv, PrintedInv
        <5>2. p \in DOMAIN gens /\ (2 * p < fed[1] \/ Gen(fed[1]) < gens[p])
          BY <2>3, <5>1 DEF Done
        <5>3. QED BY <1>3, <5>2, WriterNumbers
      <4>3. CASE 2 * p < fed[1]
        <5>1. p < r
          <6>1. \A x, y, a \in Nat : 2 * x < a /\ 2 * y = a + 1 => x < y
            OBVIOUS
          <6>2. fed[1] \in Nat /\ r \in Nat /\ p \in Nat /\ 2 * r = fed[1] + 1
            BY <2>4, <4>2
          <6>3. QED BY <4>3, <6>1, <6>2
        <5>2. QED BY <4>1, <5>1
      <4>4. CASE gens[r] < gens[p]
        <5>1. ~(p <= r)
          <6>1. gens[p] \in Nat
            BY <1>3, <4>2, WriterNumbers DEF WriterInv, Numbered
          <6>2. p <= r => gens[p] <= gens[r]
            BY <1>3, <2>4, <4>2 DEF WriterInv, Numbered
          <6>3. QED BY <2>4, <4>4, <6>1, <6>2
        <5>2. QED BY <2>4, <4>1, <4>2, <4>4, <5>1
      <4>5. QED BY <2>4, <4>2, <4>3, <4>4
    <3>2. QED BY <1>2, <2>4, <3>1 DEF MayShow
  <2>8. printed' = Append(printed, r)
    BY <1>14, <2>1
  <2>9. PrintedInv'
    BY <1>1, <1>2, <1>10, <1>11, <2>6, <2>8, PrintedStep
  <2>10. FollowerTypes'
    <3>1. printed' \in Seq(Nat)
      BY <1>3, <2>4, <2>8, AppendProperties
    <3>2. decoders' # <<>>
      BY <1>4, <1>6, <1>7
    <3>3. QED BY <1>1, <1>2, <1>3, <1>6, <3>1, <3>2, WriterIdle DEF FollowerTypes
  <2>11. QED BY <1>1, <1>3, <1>12, <2>7, <2>8, <2>9, <2>10, WriterIdle DEF FollowInv
<1>15. QED BY <1>5, <1>13, <1>14

-----------------------------------------------------------------------------
(* The refinement.                                                         *)

LEMMA FollowInit ==
    ASSUME Init
    PROVE  FollowInv
<1>1. /\ files \in Seq(Seq(Nat)) /\ Len(files) = 1 /\ DOMAIN files = {1} /\ files[1] = <<>>
      /\ gens \in Seq(Nat) /\ Len(gens) = 0 /\ DOMAIN gens = {} /\ DOMAIN printed = {}
      /\ DOMAIN files[1] = {}
  <2>1. /\ << <<>> >> \in Seq(Seq(Nat)) /\ Len(<< <<>> >>) = 1 /\ << <<>> >>[1] = <<>>
        /\ DOMAIN << <<>> >> = {1}
    OBVIOUS
  <2>2. << >> \in Seq(Nat) /\ Len(<< >>) = 0 /\ DOMAIN << >> = {}
    OBVIOUS
  <2>3. files = << <<>> >> /\ gens = <<>> /\ printed = <<>>
    BY DEF Init
  <2>4. QED BY <2>1, <2>2, <2>3
<1>2. /\ name = 1 /\ out = 1 /\ cells = 0 /\ truncs = 0 /\ pc = "start" /\ fd = 0 /\ off = 0
      /\ mode \in {"plain", "compressed"} /\ MaxTruncs \in Nat /\ MaxFiles \in Nat /\ MaxFiles > 0
  BY FollowAssumption DEF Init, NoFile
<1>3. WriterTypes
  <2>1. 0 \in 0 .. MaxTruncs /\ 1 <= MaxFiles
    BY <1>2
  <2>2. QED BY <1>1, <1>2, <2>1 DEF WriterTypes, NoFile
<1>4. Numbered
  <2>1. RecordOf(cells) = 0 /\ ~Midway
    BY <1>2 DEF RecordOf, Starts, Midway
  <2>2. QED BY <1>1, <2>1 DEF Numbered
<1>5. Ordered
  <2>1. \A f \in DOMAIN files : DOMAIN files[f] = {}
    BY <1>1
  <2>2. QED BY <2>1 DEF Ordered
<1>6. FollowerTypes
  <2>1. decoders = <<>> /\ printed = <<>> /\ pending = <<>>
    BY DEF Init
  <2>2. decoders \in Seq(Decoder) /\ printed \in Seq(Nat) /\ pending \in Seq(Nat)
    BY <2>1
  <2>3. QED BY <1>1, <1>2, <2>1, <2>2 DEF FollowerTypes, NoFile
<1>7. QED BY <1>2, <1>3, <1>4, <1>5, <1>6 DEF FollowInv, WriterInv, NoFile

\* Every step of the follower: what it shows may be shown.
LEMMA FollowerStepKeeps ==
    ASSUME FollowInv, Open \/ FollowerStep \/ (\E i \in DOMAIN decoders : Decode(i)) \/ Race
    PROVE  /\ FollowInv' /\ UNCHANGED <<writer, mode>>
           /\ printed' = printed \/ \E r : printed' = Append(printed, r) /\ MayShow(r)
<1>1. UNCHANGED <<writer, mode>>
  BY DEF FollowerStep, Open, Decode, Race, ReadLine, ReadEOF, Check, Switch, RewindIfShrunk,
         CheckFirst, SwitchStream, Detect, PollError, Stat, Feed, Wake
<1>2. CASE Open \/ Switch \/ RewindIfShrunk \/ SwitchStream \/ Detect \/ Stat \/ Feed
  BY <1>1, <1>2, OpenStep, SwitchStep, RewindStep, SwitchStreamStep, DetectStep, StatStep,
     FeedStep
<1>3. CASE Wake \/ ReadEOF \/ Check \/ CheckFirst \/ PollError \/ Race
  BY <1>1, <1>3, QuietActions
<1>4. CASE ReadLine
  BY <1>1, <1>4, ReadLineStep
<1>5. CASE \E i \in DOMAIN decoders : Decode(i)
  BY <1>1, <1>5, DecodeStep
<1>6. QED BY <1>2, <1>3, <1>4, <1>5 DEF FollowerStep

LEMMA FollowStep ==
    ASSUME FollowInv, [Next]_vars
    PROVE  FollowInv'
<1>1. CASE UNCHANGED vars
  BY <1>1 DEF vars, writer, follower, shown, FollowInv, WriterInv, WriterTypes, Numbered,
     Ordered,
              FollowerTypes, FedInv, PrintedInv, Done, Left, Seen, Passed, Unread, Behind, Shrunk,
              Gen, Newest, Midway
<1>2. CASE Next
  BY <1>2, WriterStep, FollowerStepKeeps DEF Next
<1>3. QED BY <1>1, <1>2

\* What the follower has shown, is decoding and has yet to read are in the order
\* of the files, in every state of every instance.
THEOREM Followed == Spec => []FollowInv
<1>1. Init => FollowInv
  BY FollowInit
<1>2. FollowInv /\ [Next]_vars => FollowInv'
  BY FollowStep
<1>3. QED BY <1>1, <1>2, PTL DEF Spec

\* The writer's steps are Write of LogStream, or no step of it.
LEMMA WriterRefines ==
    ASSUME FollowInv, WriterNext
    PROVE  [Stream!Next]_Stream!stream
<1>1. WriterInv /\ UNCHANGED <<mode, printed>>
  BY WriterStepKeeps DEF FollowInv, WriterKeeps
<1>2. CASE gens' = gens
  BY <1>1, <1>2 DEF Stream!stream
<1>3. CASE gens' # gens
  <2>1. WriteCell /\ gens' = Append(gens, Newest)
    BY <1>3 DEF WriterNext, WriteCell, Rename, Create, Reopen, Truncate, Restart, Newest
  <2>2. Newest \in 1 .. MaxFiles + MaxTruncs
    <3>1. /\ out \in Nat /\ out >= 1 /\ out <= MaxFiles /\ truncs \in Nat /\ truncs <= MaxTruncs
          /\ MaxFiles \in Nat /\ MaxTruncs \in Nat
      BY <1>1, WriterNumbers, FollowAssumption DEF WriterInv, WriterTypes
    <3>2. QED BY <3>1 DEF Newest
  <2>3. \A r \in DOMAIN gens : gens[r] <= Newest
    BY <1>1, WriterNumbers DEF WriterInv, Numbered
  <2>4. Stream!Write(Newest)
    BY <1>1, <2>1, <2>3 DEF Stream!Write
  <2>5. QED BY <2>2, <2>4 DEF Stream!Next
<1>4. QED BY <1>2, <1>3

\* The follower's steps are Show of LogStream, or no step of it.
LEMMA FollowerRefines ==
    ASSUME FollowInv, Open \/ FollowerStep \/ (\E i \in DOMAIN decoders : Decode(i)) \/ Race
    PROVE  [Stream!Next]_Stream!stream
<1>1. UNCHANGED <<gens, mode>>
  BY FollowerStepKeeps DEF writer
<1>2. CASE printed' = printed
  BY <1>1, <1>2 DEF Stream!stream
<1>3. ASSUME NEW r, printed' = Append(printed, r), MayShow(r)
      PROVE  Stream!Next
  <2>1. r \in DOMAIN gens /\ Stream!Show(r)
    BY <1>1, <1>3 DEF MayShow, Stream!Show
  <2>2. QED BY <2>1 DEF Stream!Next
<1>4. QED BY <1>2, <1>3, FollowerStepKeeps

\* The loops of runTailPlain and runTailCompressed, against rotation, truncation
\* and a daemon that dies, do what LogStream promises.
THEOREM FollowImplementsLogStream == Spec => ImplementsLogStream
<1>1. Init => Stream!Init
  BY DEF Init, Stream!Init
<1>2. FollowInv /\ [Next]_vars => [Stream!Next]_Stream!stream
  <2>1. SUFFICES ASSUME FollowInv, [Next]_vars PROVE [Stream!Next]_Stream!stream
    OBVIOUS
  <2>2. CASE UNCHANGED vars
    BY <2>2 DEF vars, writer, follower, shown, Stream!stream
  <2>3. CASE Next
    BY <2>1, <2>3, WriterRefines, FollowerRefines DEF Next
  <2>4. QED BY <2>1, <2>2, <2>3
<1>3. QED BY <1>1, <1>2, Followed, PTL DEF Spec, ImplementsLogStream, Stream!Spec

-----------------------------------------------------------------------------
(* A file is left when what was there at the last wake-up has been read.   *)

AllRead == \A i \in off + 1 .. Len(File) : File[i] > woke

\* Between the end of the file and the look at its name.
DrainedInv ==
    /\ woke \in Nat /\ woke <= cells
    /\ mode = "plain" /\ pc \in {"check", "open"} => AllRead

LEMMA DrainedWriter ==
    ASSUME FollowInv, DrainedInv, WriterNext
    PROVE  DrainedInv'
<1>1. UNCHANGED <<mode, pc, fd, off, woke>>
  BY DEF WriterNext, WriteCell, Rename, Create, Reopen, Truncate, Restart, follower, history
<1>2. WriterInv /\ WriterKeeps /\ WriterInv' /\ cells \in Nat
  BY WriterStepKeeps, WriterNumbers DEF FollowInv, WriterKeeps
<1>3. woke' \in Nat /\ woke' <= cells'
  BY <1>1, <1>2 DEF DrainedInv, WriterKeeps
<1>4. ASSUME mode = "plain", pc \in {"check", "open"}, NEW i \in off + 1 .. Len(files'[fd])
      PROVE  files'[fd][i] > woke
  <2>1. /\ fd \in 1 .. Len(files) /\ off \in Nat /\ Len(files[fd]) \in Nat
        /\ DOMAIN files[fd] = 1 .. Len(files[fd])
    <3>1. fd # NoFile
      BY <1>4 DEF FollowInv, FollowerTypes
    <3>2. QED BY <3>1, HasFile, FileNumbers
  <2>2. CASE files'[fd] = files[fd]
    BY <1>4, <2>2 DEF DrainedInv, AllRead, File
  <2>3. CASE files'[fd] = <<>>
    BY <1>4, <2>1, <2>3
  <2>4. CASE WriteCell /\ fd = out
    <3>1. /\ Len(files'[fd]) = Len(files[fd]) + 1
          /\ \A j \in 1 .. Len(files[fd]) : files'[fd][j] = files[fd][j]
          /\ files'[fd][Len(files[fd]) + 1] = cells + 1
      BY <1>2, <2>4, WriteCellFiles
    <3>2. CASE i = Len(files[fd]) + 1
      BY <1>2, <3>1, <3>2 DEF DrainedInv
    <3>3. CASE i \in off + 1 .. Len(files[fd])
      BY <1>4, <2>1, <3>1, <3>3 DEF DrainedInv, AllRead, File
    <3>4. QED BY <1>4, <2>1, <3>1, <3>2, <3>3
  <2>5. files'[fd] = files[fd] \/ files'[fd] = <<>> \/ (WriteCell /\ fd = out)
    <3>1. fd \in DOMAIN files
      BY <1>2, <2>1, WriterNumbers
    <3>2. CASE WriteCell
      BY <1>2, <3>1, <3>2, WriteCellFiles
    <3>3. CASE Rename \/ Create \/ Reopen \/ Truncate \/ Restart
      <4>1. OnlyEmptied /\ fd \in DOMAIN files'
        BY <1>2, <2>1, <3>3, MoversOnlyEmpty, EmptiedNumbers, WriterNumbers DEF OnlyEmptied
      <4>2. QED BY <4>1 DEF OnlyEmptied
    <3>4. QED BY <3>2, <3>3 DEF WriterNext
  <2>6. QED BY <2>2, <2>3, <2>4, <2>5
<1>5. QED BY <1>1, <1>3, <1>4 DEF DrainedInv, AllRead, File

LEMMA DrainedFollower ==
    ASSUME FollowInv, DrainedInv,
           Open \/ FollowerStep \/ (\E i \in DOMAIN decoders : Decode(i)) \/ Race
    PROVE  DrainedInv' /\ (mode = "plain" /\ Leaves => AllRead)
<1>1. cells \in Nat /\ cells' = cells /\ files' = files /\ mode' = mode
  BY FollowerStepKeeps, WriterNumbers DEF FollowInv, writer
<1>2. woke' \in Nat /\ woke' <= cells'
  <2>1. woke' = woke \/ woke' = cells
    BY DEF FollowerStep, Open, Decode, Race, ReadLine, ReadEOF, Check, Switch, RewindIfShrunk,
           CheckFirst, SwitchStream, Detect, PollError, Stat, Feed, Wake, history
  <2>2. QED BY <1>1, <2>1 DEF DrainedInv
<1>3. ASSUME mode = "plain", pc' \in {"check", "open"} PROVE AllRead'
  <2>1. CASE ReadEOF
    <3>1. off' = off /\ fd' = fd /\ off >= Len(files[fd]) /\ pc = "read"
      BY <2>1 DEF ReadEOF, File
    <3>2. off \in Nat /\ Len(files[fd]) \in Nat
      BY <3>1, HasFile DEF FollowInv, FollowerTypes
    <3>3. \A i : i \notin off + 1 .. Len(files[fd])
      BY <3>1, <3>2
    <3>4. QED BY <1>1, <3>1, <3>3 DEF AllRead, File
  <2>2. CASE UNCHANGED <<fd, off, woke>> /\ pc \in {"check", "open"}
    BY <1>1, <1>3, <2>2 DEF DrainedInv, AllRead, File
  <2>3. ReadEOF \/ (UNCHANGED <<fd, off, woke>> /\ pc \in {"check", "open"})
    BY <1>3 DEF FollowerStep, Open, Decode, Race, ReadLine, Check, Switch, RewindIfShrunk,
           CheckFirst, SwitchStream, Detect, PollError, Stat, Feed, Wake, history, Goto, Exit,
           FollowInv, FollowerTypes
  <2>4. QED BY <2>1, <2>2, <2>3
<1>4. ASSUME mode = "plain", Leaves PROVE AllRead
  <2>1. pc = "open"
    BY <1>4 DEF Leaves, FollowerStep, Open, Decode, Race, ReadLine, ReadEOF, Check, Switch,
           RewindIfShrunk, CheckFirst, SwitchStream, Detect, PollError, Stat, Feed, Wake,
           FollowInv, FollowerTypes
  <2>2. QED BY <1>4, <2>1 DEF DrainedInv
<1>5. QED BY <1>1, <1>2, <1>3, <1>4 DEF DrainedInv

LEMMA Parity ==
    ASSUME NEW c \in Nat
    PROVE  /\ Starts(c + 1) <=> ~Starts(c)
           /\ Starts(c) => RecordOf(c + 1) = RecordOf(c)
<1>1. (c + 1) % 2 = 1 <=> c % 2 # 1
  OBVIOUS
<1>2. c % 2 = 1 => (c + 1 + 1) \div 2 = (c + 1) \div 2
  OBVIOUS
<1>3. QED BY <1>1, <1>2 DEF Starts, RecordOf

\* A record whole in the file s, from cell i on, begun behind b.
Stands(s, i, b) ==
    /\ s[i] > b /\ Starts(s[i]) /\ s[i + 1] = s[i] + 1
    /\ i = 1 \/ ~Starts(s[i - 1])

\* What a follower that has missed nothing of the file s before o has in hand, and
\* has shown.
ReadSoFar(s, o, b, line, seen) ==
    /\ o \in 0 .. Len(s)
    /\ o = 0 \/ ~Starts(s[o]) => line = <<>>
    /\ o > 0 /\ Starts(s[o]) /\ (o = 1 \/ ~Starts(s[o - 1])) /\ s[o] > b => line = <<s[o]>>
    /\ \A i \in 1 .. o - 1 : Stands(s, i, b) => RecordOf(s[i]) \in seen

ShownInv ==
    /\ fd = NoFile => pending = <<>>
    /\ mode = "plain" /\ fd # NoFile /\ ~cut =>
          ReadSoFar(files[fd], off, began, pending, Printed)

LEMMA ReadSoFarGrows ==
    ASSUME NEW s, NEW t, NEW o, NEW b, NEW line, NEW seen, NEW more,
           ReadSoFar(s, o, b, line, seen), Len(s) \in Nat, Len(t) \in Nat, Len(s) <= Len(t),
           \A i \in 1 .. Len(s) : t[i] = s[i], seen \subseteq more
    PROVE  ReadSoFar(t, o, b, line, more)
<1>1. o \in 0 .. Len(s) /\ o \in 0 .. Len(t)
  BY DEF ReadSoFar
<1>2. \A i \in 1 .. o : t[i] = s[i]
  BY <1>1
<1>3. ASSUME NEW i \in 1 .. o - 1, Stands(t, i, b) PROVE RecordOf(t[i]) \in more
  <2>1. i \in 1 .. o /\ i + 1 \in 1 .. o /\ (i # 1 => i - 1 \in 1 .. o)
    BY <1>1, <1>3
  <2>2. Stands(s, i, b) /\ t[i] = s[i]
    BY <1>2, <1>3, <2>1 DEF Stands
  <2>3. QED BY <1>3, <2>2 DEF ReadSoFar
<1>4. o > 0 => t[o] = s[o] /\ (o # 1 => t[o - 1] = s[o - 1])
  BY <1>1, <1>2
<1>5. QED BY <1>1, <1>3, <1>4 DEF ReadSoFar

\* A first cell is kept in hand, a second shows its record.
LEMMA ReadSoFarReads ==
    ASSUME NEW s \in Seq(Nat), NEW o, NEW b, NEW line \in Seq(Nat), NEW seen, NEW more, NEW next,
           ReadSoFar(s, o, b, line, seen), o < Len(s), seen \subseteq more,
           IF Starts(s[o + 1]) THEN next = Append(line, s[o + 1])
           ELSE /\ next = <<>>
                /\ o > 0 /\ line = <<s[o]>> /\ s[o + 1] = s[o] + 1 /\ Starts(s[o])
                      => RecordOf(s[o]) \in more
    PROVE  ReadSoFar(s, o + 1, b, next, more)
<1>1. o \in Nat /\ o + 1 \in 1 .. Len(s) /\ Len(s) \in Nat /\ s[o + 1] \in Nat
      /\ (o > 0 => s[o] \in Nat)
  <2>1. o \in Nat /\ Len(s) \in Nat /\ o + 1 \in 1 .. Len(s)
    BY LenProperties DEF ReadSoFar
  <2>2. o > 0 => o \in 1 .. Len(s)
    BY <2>1
  <2>3. QED BY <2>1, <2>2, ElementOfSeq
<1>2. o + 1 = 1 <=> o = 0
  BY <1>1
<1>3. Starts(s[o + 1]) /\ (o + 1 = 1 \/ ~Starts(s[o])) => next = <<s[o + 1]>>
  <2>1. SUFFICES ASSUME Starts(s[o + 1]), o = 0 \/ ~Starts(s[o]) PROVE next = <<s[o + 1]>>
    BY <1>2
  <2>2. line = <<>> /\ next = Append(line, s[o + 1])
    BY <2>1 DEF ReadSoFar
  <2>3. QED BY <2>2
<1>4. ASSUME NEW i \in 1 .. o, Stands(s, i, b) PROVE RecordOf(s[i]) \in more
  <2>1. CASE i = o
    <3>1. /\ o > 0 /\ Starts(s[o]) /\ s[o + 1] = s[o] + 1 /\ s[o] > b
          /\ o = 1 \/ ~Starts(s[o - 1])
      BY <1>1, <1>4, <2>1 DEF Stands
    <3>2. line = <<s[o]>>
      BY <3>1 DEF ReadSoFar
    <3>3. ~Starts(s[o + 1])
      BY <1>1, <3>1, Parity
    <3>4. QED BY <2>1, <3>1, <3>2, <3>3
  <2>2. CASE i # o
    <3>1. i \in 1 .. o - 1
      BY <1>1, <2>2
    <3>2. QED BY <1>4, <3>1 DEF ReadSoFar
  <2>3. QED BY <2>1, <2>2
<1>5. o + 1 - 1 = o /\ o + 1 \in 0 .. Len(s) /\ o + 1 # 0
  BY <1>1
<1>6. ~Starts(s[o + 1]) => next = <<>>
  OBVIOUS
<1>7. QED BY <1>3, <1>4, <1>5, <1>6 DEF ReadSoFar

LEMMA PrintedGrows ==
    ASSUME NEW r, printed \in Seq(Nat), r \in Nat,
           printed' = printed \/ printed' = Append(printed, r)
    PROVE  /\ Printed \subseteq Printed'
           /\ printed' = Append(printed, r) => r \in Printed'
<1>1. CASE printed' = printed /\ printed' # Append(printed, r)
  BY <1>1 DEF Printed
<1>2. CASE printed' = Append(printed, r)
  <2>1. /\ Len(printed) \in Nat /\ DOMAIN printed = 1 .. Len(printed)
        /\ Len(printed') = Len(printed) + 1 /\ printed' \in Seq(Nat)
        /\ \A i \in 1 .. Len(printed) : printed'[i] = printed[i]
        /\ printed'[Len(printed) + 1] = r
    BY <1>2, AppendProperties, LenProperties
  <2>2. DOMAIN printed' = 1 .. Len(printed) + 1
    BY <2>1, LenProperties
  <2>3. \A i \in DOMAIN printed : i \in DOMAIN printed' /\ printed'[i] = printed[i]
    BY <2>1, <2>2
  <2>4. Len(printed) + 1 \in DOMAIN printed'
    BY <2>1, <2>2
  <2>5. QED BY <2>1, <2>3, <2>4 DEF Printed
<1>3. QED BY <1>1, <1>2

LEMMA ShownWriter ==
    ASSUME FollowInv, ShownInv, WriterNext
    PROVE  ShownInv'
<1>1. UNCHANGED <<mode, fd, off, pending, printed, began>> /\ (cut => cut')
  <2>1. UNCHANGED <<mode, fd, off, pending, printed>>
    BY DEF WriterNext, WriteCell, Rename, Create, Reopen, Truncate, Restart, follower, shown
  <2>2. began' = began
    BY DEF WriterNext, WriteCell, Rename, Create, Reopen, Truncate, Restart, history
  <2>3. ASSUME Truncate PROVE cut => cut'
    BY <2>3 DEF Truncate
  <2>4. ASSUME WriteCell \/ Rename \/ Create \/ Reopen \/ Restart PROVE cut => cut'
    BY <2>4 DEF WriteCell, Rename, Create, Reopen, Restart, history
  <2>5. QED BY <2>1, <2>2, <2>3, <2>4 DEF WriterNext
<1>2. ASSUME mode = "plain", fd # NoFile, ~cut'
      PROVE  ReadSoFar(files'[fd], off, began, pending, Printed)
  <2>1. /\ WriterInv /\ fd \in 1 .. Len(files) /\ fd \in DOMAIN files /\ off \in Nat
        /\ Len(files[fd]) \in Nat /\ DOMAIN files[fd] = 1 .. Len(files[fd])
    BY <1>2, HasFile, WriterNumbers, FileNumbers
  <2>2. ReadSoFar(files[fd], off, began, pending, Printed)
    BY <1>1, <1>2 DEF ShownInv
  <2>3. CASE files'[fd] = files[fd]
    BY <2>2, <2>3
  <2>4. CASE WriteCell /\ fd = out
    <3>1. /\ Len(files'[fd]) = Len(files[fd]) + 1
          /\ \A i \in 1 .. Len(files[fd]) : files'[fd][i] = files[fd][i]
      BY <2>1, <2>4, WriteCellFiles
    <3>2. Len(files'[fd]) \in Nat /\ Len(files[fd]) <= Len(files'[fd])
      BY <2>1, <3>1
    <3>3. QED BY <2>1, <2>2, <3>1, <3>2, ReadSoFarGrows
  <2>5. CASE Truncate /\ fd = name
    <3>1. off = 0 /\ files'[fd] = <<>>
      <4>1. ~(off > 0) /\ files' = [files EXCEPT ![fd] = <<>>]
        BY <1>2, <2>5 DEF Truncate
      <4>2. QED BY <2>1, <4>1
    <3>2. Len(files'[fd]) = 0
      BY <3>1
    <3>3. QED BY <2>2, <3>1, <3>2 DEF ReadSoFar
  <2>6. files'[fd] = files[fd] \/ (WriteCell /\ fd = out) \/ (Truncate /\ fd = name)
    <3>1. CASE WriteCell
      BY <2>1, <3>1, WriteCellFiles
    <3>2. CASE Rename \/ Create \/ Reopen \/ Restart
      BY <2>1, <3>2, FilesKept
    <3>3. CASE Truncate /\ fd # name
      BY <2>1, <3>3, WriterNumbers DEF Truncate
    <3>4. QED BY <3>1, <3>2, <3>3 DEF WriterNext
  <2>7. QED BY <2>3, <2>4, <2>5, <2>6
<1>3. Printed' = Printed
  BY <1>1 DEF Printed
<1>4. QED BY <1>1, <1>2, <1>3 DEF ShownInv

LEMMA ShownReadLine ==
    ASSUME FollowInv, ShownInv, ReadLine
    PROVE  ShownInv'
<1>1. /\ mode = "plain" /\ pc = "read" /\ off < Len(files[fd]) /\ off' = off + 1
      /\ UNCHANGED <<writer, mode, fd, began, cut>>
  BY DEF ReadLine, File, history
<1>2. fd # NoFile
  BY <1>1 DEF FollowInv, FollowerTypes
<1>3. /\ WriterInv /\ fd \in 1 .. Len(files) /\ off \in Nat /\ pending \in Seq(Nat)
      /\ printed \in Seq(Nat) /\ Len(files[fd]) \in Nat /\ files' = files
  BY <1>1, <1>2, HasFile DEF FollowerTypes, writer
<1>4. PICK s : s = files[fd]
  OBVIOUS
<1>5. s \in Seq(Nat)
  BY <1>3, <1>4, FileNumbers
<1>6. PICK c : c = s[off + 1]
  OBVIOUS
<1>7. c \in Nat /\ RecordOf(c) \in Nat
  <2>1. off + 1 \in 1 .. Len(s)
    BY <1>1, <1>3, <1>4
  <2>2. QED BY <1>5, <1>6, <2>1, ElementOfSeq, RecordOfCell
<1>8. ASSUME ~cut PROVE ReadSoFar(s, off + 1, began, pending', Printed')
  <2>1. ReadSoFar(s, off, began, pending, Printed)
    BY <1>1, <1>2, <1>4, <1>8 DEF ShownInv
  <2>2. CASE Starts(c)
    <3>1. pending' = Append(pending, c) /\ printed' = printed
      BY <1>4, <1>6, <2>2 DEF ReadLine, File, shown
    <3>2. Printed' = Printed
      BY <3>1 DEF Printed
    <3>3. QED BY <1>1, <1>4, <1>5, <1>3, <1>6, <2>1, <2>2, <3>1, <3>2, ReadSoFarReads
  <2>3. CASE ~Starts(c)
    <3>1. pending' = <<>> /\ Emit(Append(pending, c))
      BY <1>4, <1>6, <2>3 DEF ReadLine, File
    <3>2. /\ Append(pending, c) \in Seq(Nat) /\ Len(Append(pending, c)) = Len(pending) + 1
          /\ Append(pending, c)[Len(pending) + 1] = c
          /\ \A i \in 1 .. Len(pending) : Append(pending, c)[i] = pending[i]
      BY <1>3, <1>7, AppendProperties
    <3>3. printed' = printed \/ printed' = Append(printed, RecordOf(c))
      <4>1. Len(pending) \in Nat
        BY <1>3, LenProperties
      <4>2. Len(Append(pending, c)) = 2 => Append(pending, c)[2] = c
        BY <3>2, <4>1
      <4>3. QED BY <3>1, <4>2 DEF Emit
    <3>4. /\ Printed \subseteq Printed'
          /\ printed' = Append(printed, RecordOf(c)) => RecordOf(c) \in Printed'
      BY <1>3, <1>7, <3>3, PrintedGrows
    <3>5. ASSUME off > 0, pending = <<s[off]>>, c = s[off] + 1, Starts(s[off])
          PROVE  RecordOf(s[off]) \in Printed'
      <4>1. s[off] \in Nat
        <5>1. off \in 1 .. Len(s)
          BY <1>1, <1>3, <1>4, <3>5
        <5>2. QED BY <1>5, <5>1, ElementOfSeq
      <4>2. RecordOf(c) = RecordOf(s[off])
        BY <3>5, <4>1, Parity
      <4>3. PICK line : line = Append(pending, c)
        OBVIOUS
      <4>4. printed' = Append(printed, RecordOf(c))
        <5>1. Len(pending) = 1 /\ pending[1] = s[off]
          BY <3>5
        <5>2. Len(line) = 2 /\ line[1] = s[off] /\ line[2] = c
          BY <3>2, <4>3, <5>1
        <5>3. Emit(line)
          BY <3>1, <4>3
        <5>4. QED BY <3>5, <4>2, <5>2, <5>3 DEF Emit
      <4>5. QED BY <3>4, <4>2, <4>4
    <3>6. QED BY <1>1, <1>3, <1>4, <1>5, <1>6, <2>1, <2>3, <3>1, <3>4, <3>5, ReadSoFarReads
  <2>4. QED BY <2>2, <2>3
<1>9. QED BY <1>1, <1>2, <1>3, <1>4, <1>8 DEF ShownInv

LEMMA ShownOpen ==
    ASSUME FollowInv, ShownInv, Open
    PROVE  ShownInv'
<1>1. /\ WriterInv /\ pc = "start" /\ fd = NoFile /\ pending' = <<>> /\ files' = files
  BY DEF Open, FollowInv, FollowerTypes, ShownInv, writer, shown
<1>2. CASE name = NoFile
  BY <1>1, <1>2 DEF Open, ShownInv
<1>3. CASE name # NoFile
  <2>1. fd' = name /\ off' = Len(files[name]) /\ began' = cells
    BY <1>3 DEF Open
  <2>2. /\ name \in 1 .. Len(files) /\ Len(files[name]) \in Nat /\ cells \in Nat
        /\ name \in DOMAIN files /\ DOMAIN files[name] = 1 .. Len(files[name])
    BY <1>1, <1>3, WriterNumbers, FileNumbers DEF WriterInv, WriterTypes, NoFile
  <2>3. \A i \in 1 .. Len(files[name]) : files[name][i] \in Nat /\ ~(files[name][i] > cells)
    <3>1. \A i \in DOMAIN files[name] : files[name][i] \in 1 .. cells
      BY <1>1, <2>2 DEF WriterInv, Ordered
    <3>2. QED BY <2>2, <3>1
  <2>4. ReadSoFar(files[name], off', began', <<>>, Printed')
    <3>1. ASSUME NEW i \in 1 .. off' - 1 PROVE ~Stands(files[name], i, began')
      <4>1. i \in 1 .. Len(files[name])
        BY <2>1, <2>2
      <4>2. QED BY <2>1, <2>3, <4>1 DEF Stands
    <3>2. off' > 0 => ~(files[name][off'] > began')
      BY <2>1, <2>2, <2>3
    <3>3. off' \in 0 .. Len(files[name])
      BY <2>1, <2>2
    <3>4. QED BY <3>1, <3>2, <3>3 DEF ReadSoFar
  <2>5. fd' # NoFile
    BY <1>3, <2>1
  <2>6. QED BY <1>1, <2>1, <2>4, <2>5 DEF ShownInv
<1>4. QED BY <1>2, <1>3

\* At the start of a file nothing is to have been read.
LEMMA ShownAnew ==
    ASSUME FollowInv, ShownInv, Switch \/ RewindIfShrunk
    PROVE  ShownInv'
<1>1. /\ WriterInv /\ UNCHANGED <<files, mode, printed, began>> /\ fd # NoFile
  BY DEF Switch, RewindIfShrunk, FollowInv, FollowerTypes, shown, writer
<1>2. CASE UNCHANGED <<fd, off, pending, cut>>
  BY <1>1, <1>2 DEF ShownInv, Printed
<1>3. CASE off' = 0 /\ pending' = <<>> /\ fd' \in {fd, name} /\ fd' # NoFile
  <2>1. fd' \in 1 .. Len(files)
    <3>1. fd \in 1 .. Len(files)
      BY <1>1, HasFile
    <3>2. name # NoFile => name \in 1 .. Len(files)
      BY <1>1, WriterNumbers DEF WriterInv, WriterTypes, NoFile
    <3>3. QED BY <1>3, <3>1, <3>2
  <2>2. Len(files'[fd']) \in Nat
    BY <1>1, <2>1, FileNumbers
  <2>3. 0 \in 0 .. Len(files'[fd']) /\ \A k \in 1 .. 0 - 1 : FALSE
    BY <2>2
  <2>4. QED BY <1>3, <2>3 DEF ShownInv, ReadSoFar
<1>4. UNCHANGED <<fd, off, pending, cut>>
      \/ (off' = 0 /\ pending' = <<>> /\ fd' \in {fd, name} /\ fd' # NoFile)
  BY <1>1 DEF Switch, RewindIfShrunk
<1>5. QED BY <1>2, <1>3, <1>4

LEMMA ShownFollower ==
    ASSUME FollowInv, ShownInv,
           Open \/ FollowerStep \/ (\E i \in DOMAIN decoders : Decode(i)) \/ Race
    PROVE  ShownInv'
<1>1. CASE Open \/ ReadLine \/ Switch \/ RewindIfShrunk
  BY <1>1, ShownOpen, ShownReadLine, ShownAnew
<1>2. CASE ReadEOF \/ Check \/ Wake \/ Race
  <2>1. UNCHANGED <<files, mode, fd, off, pending, printed, began, cut>>
    BY <1>2 DEF ReadEOF, Check, Wake, Race, Exit, Goto, writer, shown, history
  <2>2. QED BY <2>1 DEF ShownInv, Printed
<1>3. CASE \/ CheckFirst \/ SwitchStream \/ Detect \/ PollError \/ Stat \/ Feed
           \/ \E i \in DOMAIN decoders : Decode(i)
  <2>1. mode' = mode /\ mode # "plain" /\ fd' # NoFile
    <3>1. CASE CheckFirst \/ SwitchStream \/ Detect \/ PollError \/ Stat \/ Feed
      BY <3>1 DEF CheckFirst, SwitchStream, Detect, PollError, Stat, Feed, FollowInv,
         FollowerTypes
    <3>2. CASE \E i \in DOMAIN decoders : Decode(i)
      <4>1. DOMAIN decoders # {} /\ mode' = mode /\ fd' = fd
        BY <3>2 DEF Decode
      <4>2. decoders # <<>>
        BY <4>1
      <4>3. QED BY <4>1, <4>2 DEF FollowInv, FollowerTypes
    <3>3. QED BY <1>3, <3>1, <3>2
  <2>2. QED BY <2>1 DEF ShownInv
<1>4. QED BY <1>1, <1>2, <1>3 DEF FollowerStep

\* What stands in the file and is older than the rest of it has been shown.
LEMMA DrainedByReading ==
    ASSUME FollowInv, ShownInv, AllRead, mode = "plain", fd # NoFile, ~cut, woke \in Nat
    PROVE  Drained
<1>1. /\ fd \in 1 .. Len(files) /\ off \in Nat /\ Len(files[fd]) \in Nat
      /\ ReadSoFar(files[fd], off, began, pending, Printed)
      /\ DOMAIN gens = 1 .. Len(gens) /\ Len(gens) \in Nat
  BY HasFile, WriterNumbers DEF ShownInv
<1>2. SUFFICES ASSUME NEW r \in Standing, 2 * r <= woke PROVE r \in Printed
  BY DEF Drained
<1>3. r \in Nat /\ 2 * r - 1 > began
  BY <1>1, <1>2 DEF Standing
<1>4. PICK i \in 1 .. Len(files[fd]) - 1 :
         /\ files[fd][i] = 2 * r - 1 /\ files[fd][i + 1] = 2 * r
         /\ i = 1 \/ ~Starts(files[fd][i - 1])
  BY <1>2 DEF Standing, File
<1>5. i \in 1 .. off - 1
  <2>1. CASE i + 1 > off
    <3>1. i + 1 \in off + 1 .. Len(files[fd])
      BY <1>1, <1>4, <2>1
    <3>2. 2 * r > woke
      BY <1>4, <3>1 DEF AllRead, File
    <3>3. QED BY <1>2, <1>3, <3>2
  <2>2. QED BY <1>1, <1>4, <2>1
<1>6. Starts(2 * r - 1) /\ RecordOf(2 * r - 1) = r /\ 2 * r = (2 * r - 1) + 1
  BY <1>3 DEF Starts, RecordOf
<1>7. Stands(files[fd], i, began)
  BY <1>3, <1>4, <1>6 DEF Stands
<1>8. QED BY <1>1, <1>4, <1>5, <1>6, <1>7 DEF ReadSoFar

\* reopenFollowFileByName is reached only at the end of the old file, all of which
\* has been read if no truncation of it was missed: no record of it that was written
\* before the last wake-up is left behind by a switch.
THEOREM PlainFollowerDrains == Spec => PlainIsDrained
<1>1. Init => DrainedInv /\ ShownInv
  <2>1. Init => /\ woke = 0 /\ cells = 0 /\ pc = "start" /\ pending = <<>>
                /\ fd = NoFile
    BY DEF Init
  <2>2. QED BY <2>1 DEF DrainedInv, ShownInv
<1>2. FollowInv /\ DrainedInv /\ ShownInv /\ [Next]_vars
        => DrainedInv' /\ ShownInv' /\ [mode = "plain" /\ Leaves /\ ~cut => Drained]_vars
  <2>1. SUFFICES ASSUME FollowInv, DrainedInv, ShownInv, [Next]_vars
                 PROVE  /\ DrainedInv' /\ ShownInv'
                        /\ [mode = "plain" /\ Leaves /\ ~cut => Drained]_vars
    OBVIOUS
  <2>2. CASE UNCHANGED vars
    BY <2>1, <2>2 DEF vars, writer, follower, shown, history, DrainedInv, AllRead, File,
       ShownInv,
       Printed
  <2>3. CASE WriterNext
    <3>1. ~Leaves
      BY <2>3 DEF Leaves, WriterNext, WriteCell, Rename, Create, Reopen, Truncate, Restart,
         follower
    <3>2. QED BY <2>1, <2>3, <3>1, DrainedWriter, ShownWriter
  <2>4. CASE Open \/ FollowerStep \/ (\E i \in DOMAIN decoders : Decode(i)) \/ Race
    <3>1. DrainedInv' /\ ShownInv' /\ (mode = "plain" /\ Leaves => AllRead)
      BY <2>1, <2>4, DrainedFollower, ShownFollower
    <3>2. ASSUME mode = "plain", Leaves, ~cut PROVE Drained
      BY <2>1, <3>1, <3>2, DrainedByReading DEF Leaves, DrainedInv
    <3>3. QED BY <3>1, <3>2
  <2>5. QED BY <2>1, <2>2, <2>3, <2>4 DEF Next
<1>3. QED BY <1>1, <1>2, Followed, PTL DEF Spec, PlainIsDrained

-----------------------------------------------------------------------------
(* What does not decode, and what is no record.                            *)

\* The second cell of a record is behind its first; and, unless precd died
\* within a record, only that is.
Paired(s) == \A k \in DOMAIN s : ~Starts(s[k]) => k > 1 /\ s[k - 1] + 1 = s[k]
Ended(s)  == \A k \in DOMAIN s : Starts(s[k]) /\ k < Len(s) => s[k + 1] = s[k] + 1

FilesFormed ==
    /\ \A f \in DOMAIN files : Paired(files[f]) /\ (~torn => Ended(files[f]))
    /\ Midway => files[out] # <<>> /\ files[out][Len(files[out])] = cells
    /\ ~torn => \A f \in DOMAIN files :
                   files[f] # <<>> /\ Starts(files[f][Len(files[f])]) => f = out /\ Midway

\* What a decoder was fed last is what the follower read last.
Follows(fed) ==
    IF fed = <<>> THEN off = 0 \/ (off \in DOMAIN files[fd] /\ ~Starts(files[fd][off]))
    ELSE off \in DOMAIN files[fd] /\ fed[Len(fed)] = files[fd][off]

FollowerFormed ==
    /\ pc = "start" => why = "" /\ ~garbled
    /\ fd = NoFile \/ mode = "compressed" => pending = <<>>
    /\ pc = "detect" => off = 0
    /\ ~spoilt /\ ~cut /\ Len(pending) = 1 =>
          off \in DOMAIN files[fd] /\ pending[1] = files[fd][off]
    /\ ~spoilt /\ ~torn => \A i \in DOMAIN decoders :
          ~decoders[i].failed /\ Paired(decoders[i].fed) /\ Ended(decoders[i].fed)
    /\ ~spoilt /\ ~torn /\ ~cut /\ decoders # <<>> /\ pc \notin {"detect", "exit"} =>
          Follows(decoders[Len(decoders)].fed)
    /\ OnlySpoiltStreamsFail

FormedInv == FilesFormed /\ FollowerFormed

LEMMA FilesFormedStep ==
    ASSUME WriterInv, FilesFormed, WriterNext
    PROVE  FilesFormed'
<1>1. /\ cells \in Nat /\ out \in 1 .. Len(files) /\ DOMAIN files = 1 .. Len(files)
      /\ out \in Nat /\ Newest \in Nat
  BY WriterNumbers DEF WriterInv, WriterTypes
<1>2. CASE WriteCell
  <2>1. /\ torn' = torn /\ cells' = cells + 1 /\ out' = out /\ DOMAIN files' = DOMAIN files
        /\ \A f \in DOMAIN files : f # out => files'[f] = files[f]
    BY <1>2, WriteCellFiles, WriteCellGens DEF WriteCell
  <2> DEFINE s == files[out]
             t == files'[out]
  <2>2. /\ Len(s) \in Nat /\ DOMAIN s = 1 .. Len(s)
        /\ Len(t) = Len(s) + 1 /\ DOMAIN t = 1 .. Len(s) + 1
        /\ \A i \in 1 .. Len(s) : t[i] = s[i]
        /\ t[Len(s) + 1] = cells + 1
    BY <1>1, <1>2, WriteCellFiles, FileNumbers
  <2>3. Midway => Len(s) > 0 /\ s[Len(s)] = cells
    <3>1. s \in Seq(Nat)
      BY <1>1, FileNumbers
    <3>2. QED BY <2>2, <3>1, EmptySeq DEF FilesFormed
  <2>4. Paired(s) /\ (~torn => Ended(s))
    BY <1>1 DEF FilesFormed
  <2>5. ~torn /\ Len(s) > 0 /\ Starts(s[Len(s)]) => Midway
    BY <1>1, <2>2 DEF FilesFormed
  <2> HIDE DEF s, t
  <2>6. \A c \in Nat : Starts(c + 1) <=> ~Starts(c)
    BY DEF Starts
  <2>7. Paired(t)
    <3>1. SUFFICES ASSUME NEW k \in DOMAIN t, ~Starts(t[k]) PROVE k > 1 /\ t[k - 1] + 1 = t[k]
      BY DEF Paired
    <3>2. CASE k = Len(s) + 1
      <4>1. Midway
        BY <1>1, <2>2, <2>6, <3>1, <3>2 DEF Midway
      <4>2. QED BY <1>1, <2>2, <2>3, <3>2, <4>1
    <3>3. CASE k \in 1 .. Len(s)
      <4>1. k > 1 /\ s[k - 1] + 1 = s[k]
        BY <2>2, <2>4, <3>1, <3>3 DEF Paired
      <4>2. k - 1 \in 1 .. Len(s)
        BY <2>2, <3>3, <4>1
      <4>3. QED BY <2>2, <3>3, <4>1, <4>2
    <3>4. QED BY <2>2, <3>2, <3>3
  <2>8. ASSUME ~torn PROVE Ended(t)
    <3>1. SUFFICES ASSUME NEW k \in DOMAIN t, Starts(t[k]), k < Len(t) PROVE t[k + 1] = t[k] + 1
      BY DEF Ended
    <3>2. k \in 1 .. Len(s)
      BY <2>2, <3>1
    <3>3. CASE k = Len(s)
      BY <1>1, <2>2, <2>3, <2>5, <2>8, <3>1, <3>2, <3>3
    <3>4. CASE k < Len(s)
      <4>1. s[k + 1] = s[k] + 1
        BY <2>2, <2>4, <2>8, <3>1, <3>2, <3>4 DEF Ended
      <4>2. k + 1 \in 1 .. Len(s)
        BY <2>2, <3>2, <3>4
      <4>3. QED BY <2>2, <3>2, <4>1, <4>2
    <3>5. QED BY <2>2, <3>2, <3>3, <3>4
  <2>9. \A f \in DOMAIN files : Paired(files'[f]) /\ (~torn => Ended(files'[f]))
    BY <2>1, <2>7, <2>8 DEF FilesFormed, t
  <2>10. t # <<>> /\ t[Len(t)] = cells + 1
    BY <2>2
  <2>11. Starts(cells + 1) => Midway'
    BY <2>1 DEF Midway
  <2>12. ASSUME ~torn, NEW f \in DOMAIN files,
                files'[f] # <<>> /\ Starts(files'[f][Len(files'[f])])
         PROVE  f = out /\ Midway'
    BY <2>1, <2>10, <2>11, <2>12 DEF FilesFormed, t
  <2>13. QED BY <2>1, <2>9, <2>10, <2>12 DEF FilesFormed, t
<1>3. CASE Rename \/ Create \/ Reopen \/ Truncate \/ Restart
  <2>1. OnlyEmptied /\ out' \in Nat /\ DOMAIN << >> = {}
    BY <1>3, MoversOnlyEmpty, EmptiedNumbers
  <2>2. torn => torn'
    BY <1>3 DEF Rename, Create, Reopen, Truncate, Restart
  <2>3. \A f \in DOMAIN files' : Paired(files'[f]) /\ (~torn' => Ended(files'[f]))
    <3>1. Paired(<<>>) /\ Ended(<<>>)
      BY DEF Paired, Ended
    <3>2. QED BY <2>1, <2>2, <3>1 DEF OnlyEmptied, FilesFormed
  <2>4. ASSUME Midway' PROVE Midway /\ cells' = cells /\ out' = out /\ files'[out] = files[out]
    <3>1. Midway /\ cells' = cells /\ out' = out
      BY <1>1, <2>1, <2>4 DEF OnlyEmptied
    <3>2. ~Truncate
      BY <3>1, TruncatedIsOut
    <3>3. QED BY <1>1, <1>3, <3>1, <3>2, FilesKept
  <2>5. Midway' => files'[out'] # <<>> /\ files'[out'][Len(files'[out'])] = cells'
    BY <2>4 DEF FilesFormed
  <2>6. ASSUME ~torn', NEW f \in DOMAIN files',
               files'[f] # <<>> /\ Starts(files'[f][Len(files'[f])])
        PROVE  f = out' /\ Midway'
    <3>1. f = out /\ Midway
      BY <2>1, <2>2, <2>6 DEF OnlyEmptied, FilesFormed
    <3>2. Rename \/ Create
      BY <1>3, <2>6, <3>1, TruncatedIsOut DEF Reopen, Restart
    <3>3. QED BY <3>1, <3>2 DEF Rename, Create, Midway
  <2>7. QED BY <2>3, <2>5, <2>6 DEF FilesFormed
<1>4. QED BY <1>2, <1>3 DEF WriterNext

\* What the follower read last is where it was, or the file was truncated.
LEMMA LastCellStays ==
    ASSUME WriterInv, WriterNext, fd \in 1 .. Len(files), off \in DOMAIN files[fd], ~cut'
    PROVE  off \in DOMAIN files'[fd] /\ files'[fd][off] = files[fd][off]
<1>1. /\ DOMAIN files = 1 .. Len(files) /\ Len(files[fd]) \in Nat
      /\ DOMAIN files[fd] = 1 .. Len(files[fd])
  BY WriterNumbers, FileNumbers
<1>2. CASE WriteCell
  <2>1. CASE fd = out
    BY <1>1, <1>2, <2>1, WriteCellFiles
  <2>2. CASE fd # out
    BY <1>1, <1>2, <2>2, WriteCellFiles
  <2>3. QED BY <2>1, <2>2
<1>3. CASE Truncate
  <2>0. off > 0
    BY <1>1
  <2>1. fd # name
    <3>1. cut' = (cut \/ (fd = name /\ off > 0))
      BY <1>3 DEF Truncate
    <3>2. QED BY <2>0, <3>1
  <2>2. files'[fd] = files[fd]
    BY <1>1, <1>3, <2>1 DEF Truncate
  <2>3. QED BY <2>2
<1>4. CASE Rename \/ Create \/ Reopen \/ Restart
  BY <1>1, <1>4, FilesKept
<1>5. QED BY <1>2, <1>3, <1>4 DEF WriterNext

LEMMA FormedWriter ==
    ASSUME FollowInv, FormedInv, WriterNext
    PROVE  FormedInv'
<1>1. /\ UNCHANGED <<mode, pc, fd, off, pending, decoders, printed, garbled, why, spoilt>>
      /\ (cut => cut') /\ (torn => torn')
  <2>1. UNCHANGED follower /\ UNCHANGED spoilt
    BY DEF WriterNext, WriteCell, Rename, Create, Reopen, Truncate, Restart, history
  <2>2. torn' = torn \/ torn' = (torn \/ Midway)
    BY DEF WriterNext, WriteCell, Rename, Create, Reopen, Truncate, Restart
  <2>3. cut' = cut \/ cut' = (cut \/ (fd = name /\ off > 0))
    BY DEF WriterNext, WriteCell, Rename, Create, Reopen, Truncate, Restart, history
  <2>4. torn => torn'
    <3>1. CASE torn' = torn
      BY <3>1
    <3>2. CASE torn' = (torn \/ Midway)
      BY <3>2
    <3>3. QED BY <2>2, <3>1, <3>2
  <2>5. cut => cut'
    <3>1. CASE cut' = cut
      BY <3>1
    <3>2. CASE cut' = (cut \/ (fd = name /\ off > 0))
      BY <3>2
    <3>3. QED BY <2>3, <3>1, <3>2
  <2>6. QED BY <2>1, <2>4, <2>5 DEF follower, shown
<1>2. WriterInv /\ FollowerTypes /\ FilesFormed'
  BY FilesFormedStep DEF FollowInv, FormedInv
<1>3. ASSUME ~spoilt, ~cut', Len(pending) = 1
      PROVE  off \in DOMAIN files'[fd] /\ pending[1] = files'[fd][off]
  <2>1. pending # <<>>
    BY <1>3
  <2>2. fd \in 1 .. Len(files)
    BY <2>1, HasFile DEF FormedInv, FollowerFormed
  <2>3. QED BY <1>1, <1>2, <1>3, <2>2, LastCellStays DEF FormedInv, FollowerFormed
<1>4. ASSUME ~spoilt, ~torn', ~cut', decoders # <<>>, pc \notin {"detect", "exit"}
      PROVE  Follows(decoders[Len(decoders)].fed)'
  <2>1. fd \in 1 .. Len(files)
    BY <1>2, <1>4, HasFile DEF FollowerTypes
  <2>2. PICK fed : fed = decoders[Len(decoders)].fed
    OBVIOUS
  <2>3. Follows(fed)
    BY <1>1, <1>4, <2>2 DEF FormedInv, FollowerFormed
  <2>4. off \in DOMAIN files[fd] => off \in DOMAIN files'[fd] /\ files'[fd][off] = files[fd][off]
    BY <1>2, <1>4, <2>1, LastCellStays
  <2>5. QED BY <1>1, <2>2, <2>3, <2>4 DEF Follows
<1>5. QED BY <1>1, <1>2, <1>3, <1>4 DEF FormedInv, FollowerFormed, OnlySpoiltStreamsFail

LEMMA FormedIdle ==
    ASSUME FilesFormed, UNCHANGED writer
    PROVE  FilesFormed' /\ files' = files /\ torn' = torn
BY DEF writer, FilesFormed, Midway

\* A step that reads nothing, shows nothing and feeds nothing.
LEMMA FormedQuiet ==
    ASSUME FormedInv,
           UNCHANGED <<writer, mode, fd, off, pending, decoders, garbled, cut, spoilt>>,
           pc' \notin {"start", "detect"}, pc \in {"detect", "exit"} => pc' = "exit",
           why' = "decode" => why = "decode" \/ spoilt \/ torn
    PROVE  FormedInv'
<1>1. FilesFormed' /\ files' = files /\ torn' = torn
  BY FormedIdle DEF FormedInv
<1>2. \A s : Follows(s)' = Follows(s)
  BY <1>1 DEF Follows
<1>3. decoders # <<>> => (Follows(decoders[Len(decoders)].fed)' <=> Follows(decoders[Len(decoders)].fed))
  BY <1>1 DEF Follows
<1>4. QED BY <1>1, <1>3 DEF FormedInv, FollowerFormed, OnlySpoiltStreamsFail

LEMMA FormedQuietActions ==
    ASSUME FormedInv, FollowInv, Wake \/ ReadEOF \/ Check \/ CheckFirst \/ Race
    PROVE  FormedInv'
<1>1. /\ UNCHANGED <<writer, mode, fd, off, pending, decoders, garbled, cut, spoilt>>
      /\ pc' \notin {"start", "detect"} /\ (pc \in {"detect", "exit"} => pc' = "exit")
      /\ why' = why \/ why' = "race"
  BY DEF Wake, ReadEOF, Check, CheckFirst, Race, shown, history, Goto, Exit
<1>2. QED BY <1>1, FormedQuiet

\* A decoder that failed was given what is no record.
LEMMA FormedPollError ==
    ASSUME FormedInv, FollowInv, PollError
    PROVE  FormedInv'
<1>1. /\ UNCHANGED <<writer, mode, fd, off, pending, decoders, garbled, cut, spoilt>>
      /\ pc = "poll" /\ pc' \in {"exit", "stat"} /\ mode = "compressed"
      /\ why' = why \/ Current.failed
  BY DEF PollError, shown, history, Goto, Exit
<1>2. Len(decoders) \in DOMAIN decoders
  <2>1. decoders # <<>> /\ decoders \in Seq(Decoder)
    BY <1>1 DEF FollowInv, FollowerTypes
  <2>2. QED BY <2>1, EmptySeq, LenProperties
<1>3. Current.failed => spoilt \/ torn
  BY <1>2 DEF FormedInv, FollowerFormed, Current
<1>4. QED BY <1>1, <1>3, FormedQuiet

LEMMA FormedRewind ==
    ASSUME FormedInv, FollowInv, RewindIfShrunk \/ Switch
    PROVE  FormedInv'
<1>1. /\ mode = "plain" /\ pc \in {"shrunk", "open"} /\ pc' \notin {"start", "detect", "exit"}
      /\ UNCHANGED <<writer, mode, decoders, garbled, why, spoilt>> /\ decoders = <<>>
      /\ \/ UNCHANGED <<fd, off, pending, cut>>
         \/ pending' = <<>>
  BY DEF RewindIfShrunk, Switch, shown, Goto, FollowInv, FollowerTypes
<1>2. CASE UNCHANGED <<fd, off, pending, cut>>
  BY <1>1, <1>2, FormedQuiet
<1>3. CASE pending' = <<>>
  <2>1. FilesFormed' /\ files' = files /\ torn' = torn
    BY <1>1, FormedIdle DEF FormedInv
  <2>2. Len(pending') # 1 /\ DOMAIN decoders' = {}
    BY <1>1, <1>3
  <2>3. QED BY <1>1, <1>3, <2>1, <2>2 DEF FormedInv, FollowerFormed, OnlySpoiltStreamsFail
<1>4. QED BY <1>1, <1>2, <1>3

LEMMA FormedSwitchStream ==
    ASSUME FormedInv, FollowInv, SwitchStream
    PROVE  FormedInv'
<1>1. /\ mode = "compressed" /\ pc = "open"
      /\ UNCHANGED <<writer, mode, pending, decoders, garbled, why, spoilt>> /\ pending = <<>>
  BY DEF SwitchStream, shown, FormedInv, FollowerFormed
<1>2. CASE name = NoFile
  <2>1. pc' = "poll" /\ UNCHANGED <<fd, off, cut>>
    BY <1>2 DEF SwitchStream, Goto
  <2>2. QED BY <1>1, <2>1, FormedQuiet
<1>3. CASE name # NoFile
  <2>1. pc' = "detect" /\ off' = 0
    BY <1>3 DEF SwitchStream, Goto
  <2>2. FilesFormed' /\ files' = files /\ torn' = torn
    BY <1>1, FormedIdle DEF FormedInv
  <2>3. Len(pending') # 1
    BY <1>1
  <2>4. QED BY <1>1, <2>1, <2>2, <2>3 DEF FormedInv, FollowerFormed, OnlySpoiltStreamsFail
<1>4. QED BY <1>2, <1>3

\* A new decoder, at the beginning of a file.
LEMMA FormedReset ==
    ASSUME FormedInv, FollowInv, fd # NoFile, UNCHANGED <<writer, mode, pending, garbled, why, spoilt>>,
           mode = "compressed", Reset, off' = 0, pc' \notin {"start", "detect"}
    PROVE  FormedInv'
<1>1. decoders \in Seq(Decoder) /\ pending = <<>>
  BY HasFile DEF FormedInv, FollowerFormed
<1>2. NewDecoder \in Decoder /\ NewDecoder.fed = <<>> /\ NewDecoder.failed = FALSE
  BY DEF NewDecoder, Decoder
<1>3. /\ Len(decoders') = Len(decoders) + 1 /\ Len(decoders) \in Nat
      /\ DOMAIN decoders' = 1 .. Len(decoders) + 1 /\ DOMAIN decoders = 1 .. Len(decoders)
      /\ \A i \in 1 .. Len(decoders) : decoders'[i] = decoders[i]
      /\ decoders'[Len(decoders) + 1] = NewDecoder
  BY <1>1, <1>2, AppendProperties, LenProperties DEF Reset
<1>4. FilesFormed' /\ files' = files /\ torn' = torn
  BY FormedIdle DEF FormedInv
<1>5. Paired(<<>>) /\ Ended(<<>>)
  BY DEF Paired, Ended
<1>6. ~spoilt /\ ~torn => \A i \in DOMAIN decoders' :
          ~decoders'[i].failed /\ Paired(decoders'[i].fed) /\ Ended(decoders'[i].fed)
  <2>1. SUFFICES ASSUME ~spoilt, ~torn, NEW i \in DOMAIN decoders'
                 PROVE  ~decoders'[i].failed /\ Paired(decoders'[i].fed) /\ Ended(decoders'[i].fed)
    OBVIOUS
  <2>2. CASE i \in 1 .. Len(decoders)
    <3>1. decoders'[i] = decoders[i] /\ i \in DOMAIN decoders
      BY <1>3, <2>2
    <3>2. QED BY <2>1, <3>1 DEF FormedInv, FollowerFormed
  <2>3. CASE i = Len(decoders) + 1
    BY <1>2, <1>3, <1>5, <2>3
  <2>4. QED BY <1>3, <2>1, <2>2, <2>3
<1>7. Follows(decoders[Len(decoders)].fed)'
  BY <1>2, <1>3 DEF Follows
<1>8. Len(pending') # 1 /\ pending' = <<>>
  BY <1>1
<1>9. QED BY <1>4, <1>6, <1>7, <1>8 DEF FormedInv, FollowerFormed, OnlySpoiltStreamsFail,
             Paired, Ended

LEMMA FormedDetect ==
    ASSUME FormedInv, FollowInv, Detect
    PROVE  FormedInv'
<1>1. /\ mode = "compressed" /\ pc = "detect" /\ fd # NoFile /\ off = 0
      /\ UNCHANGED <<writer, mode, fd, off, pending, garbled, cut, spoilt>>
  BY DEF Detect, shown, history, FollowInv, FollowerTypes, FormedInv, FollowerFormed
<1>2. CASE name = NoFile
  <2>1. pc' = "exit" /\ why' = "name" /\ UNCHANGED decoders
    BY <1>2 DEF Detect, Exit, Goto
  <2>2. QED BY <1>1, <2>1, FormedQuiet
<1>3. CASE name # NoFile
  <2>1. pc' = "check" /\ Reset /\ UNCHANGED why
    BY <1>3 DEF Detect, Goto
  <2>2. QED BY <1>1, <2>1, FormedReset
<1>4. QED BY <1>2, <1>3

LEMMA FormedStat ==
    ASSUME FormedInv, FollowInv, Stat
    PROVE  FormedInv'
<1>1. /\ mode = "compressed" /\ pc = "stat" /\ pc' \in {"sleep", "feed"} /\ fd # NoFile
      /\ UNCHANGED <<writer, mode, fd, pending, garbled, why, spoilt>>
  BY DEF Stat, Goto, shown, FollowInv, FollowerTypes
<1>2. CASE ~(Len(File) < off)
  <2>1. UNCHANGED <<off, decoders, cut>>
    BY <1>2 DEF Stat
  <2>2. QED BY <1>1, <2>1, FormedQuiet
<1>3. CASE Len(File) < off
  <2>1. off' = 0 /\ Reset
    BY <1>3 DEF Stat
  <2>2. QED BY <1>1, <2>1, FormedReset
<1>4. QED BY <1>2, <1>3

LEMMA FormedOpen ==
    ASSUME FormedInv, FollowInv, Open
    PROVE  FormedInv'
<1>1. /\ WriterInv /\ FollowerTypes /\ pc = "start" /\ fd = NoFile /\ decoders = <<>>
      /\ pending = <<>> /\ ~garbled /\ why = ""
      /\ UNCHANGED <<writer, mode, pending, garbled>>
  BY DEF Open, shown, FollowInv, FollowerTypes, FormedInv, FollowerFormed
<1>2. FilesFormed' /\ files' = files /\ torn' = torn /\ Len(pending') # 1
  <2>1. pending' = <<>>
    BY <1>1
  <2>2. Len(pending') # 1
    BY <2>1
  <2>3. QED BY <1>1, <2>2, FormedIdle DEF FormedInv
<1>3. CASE name = NoFile
  <2>1. pc' = "exit" /\ why' = "name" /\ UNCHANGED <<fd, off, decoders, cut, spoilt>>
    BY <1>3 DEF Open, Exit, Goto, history
  <2>2. QED BY <1>1, <2>1, FormedQuiet
<1>4. CASE name # NoFile
  <2>1. /\ fd' = name /\ off' = Len(files[name]) /\ why' = why /\ pc' \in {"read", "check"}
        /\ spoilt' = (off' > 0 /\ Starts(files[name][off']))
        /\ decoders' = <<>> \/ decoders' = <<NewDecoder>>
    <3>1. /\ fd' = name /\ off' = Len(files[name]) /\ why' = why
          /\ spoilt' = (off' > 0 /\ Starts(files[name][off']))
      BY <1>1, <1>4 DEF Open
    <3>2. CASE mode = "plain"
      BY <1>1, <1>4, <3>1, <3>2 DEF Open, Goto
    <3>3. CASE mode = "compressed"
      <4>1. pc' = "check" /\ decoders' = Append(<<>>, NewDecoder)
        BY <1>1, <1>4, <3>3 DEF Open, Goto, Reset
      <4>2. QED BY <3>1, <4>1
    <3>4. QED BY <1>1, <3>2, <3>3 DEF FollowerTypes
  <2>2. Len(files[name]) \in Nat /\ DOMAIN files[name] = 1 .. Len(files[name])
    <3>1. name = Len(files)
      BY <1>1, <1>4 DEF WriterInv, WriterTypes
    <3>2. Len(files) \in 1 .. Len(files)
      <4>1. out \in 1 .. Len(files) /\ Len(files) \in Nat
        BY <1>1, WriterNumbers DEF WriterInv, WriterTypes
      <4>2. QED BY <4>1
    <3>3. QED BY <1>1, <3>1, <3>2, FileNumbers
  <2>3. \A i \in DOMAIN decoders' : decoders'[i].fed = <<>> /\ ~decoders'[i].failed
    BY <2>1 DEF NewDecoder
  <2>4. Paired(<<>>) /\ Ended(<<>>)
    BY DEF Paired, Ended
  <2>5. ASSUME ~spoilt', decoders' # <<>> PROVE Follows(decoders[Len(decoders)].fed)'
    <3>1. decoders'[Len(decoders')].fed = <<>>
      BY <2>1, <2>5 DEF NewDecoder
    <3>2. off' = 0 \/ (off' \in DOMAIN files[name] /\ ~Starts(files[name][off']))
      <4>1. ~(off' > 0 /\ Starts(files[name][off']))
        BY <2>1, <2>5
      <4>2. off' = 0 \/ (off' > 0 /\ off' \in DOMAIN files[name])
        BY <2>1, <2>2
      <4>3. QED BY <4>1, <4>2
    <3>3. QED BY <1>2, <2>1, <3>1, <3>2 DEF Follows
  <2>6. \A i \in DOMAIN decoders' : Paired(decoders'[i].fed) /\ Ended(decoders'[i].fed)
    BY <2>3, <2>4
  <2>7. QED BY <1>1, <1>2, <2>1, <2>3, <2>5, <2>6
            DEF FormedInv, FollowerFormed, OnlySpoiltStreamsFail, Paired, Ended
<1>5. QED BY <1>3, <1>4

\* The cell the follower reads next, and the one before it.
LEMMA NextCell ==
    ASSUME FollowInv, FilesFormed, fd # NoFile, off < Len(files[fd])
    PROVE  /\ off + 1 \in DOMAIN files[fd] /\ files[fd][off + 1] \in Nat
           /\ ~Starts(files[fd][off + 1]) =>
                 /\ off \in DOMAIN files[fd] /\ files[fd][off] \in Nat
                 /\ files[fd][off + 1] = files[fd][off] + 1
           /\ ~torn /\ off \in DOMAIN files[fd] /\ Starts(files[fd][off]) =>
                 files[fd][off + 1] = files[fd][off] + 1
<1>1. /\ WriterInv /\ fd \in 1 .. Len(files) /\ fd \in DOMAIN files /\ off \in Nat
      /\ Len(files[fd]) \in Nat
  BY HasFile, WriterNumbers
<1>2. PICK s : s = files[fd]
  OBVIOUS
<1>3. s \in Seq(Nat) /\ DOMAIN s = 1 .. Len(s) /\ Len(s) \in Nat /\ off < Len(s)
  BY <1>1, <1>2, FileNumbers
<1>4. Paired(s) /\ (~torn => Ended(s))
  BY <1>1, <1>2 DEF FilesFormed
<1>5. off + 1 \in DOMAIN s /\ s[off + 1] \in Nat
  BY <1>1, <1>3
<1>6. ASSUME ~Starts(s[off + 1])
      PROVE  off \in DOMAIN s /\ s[off] \in Nat /\ s[off + 1] = s[off] + 1
  <2>1. PICK k \in DOMAIN s : k = off + 1
    BY <1>5
  <2>2. k > 1 /\ s[k - 1] + 1 = s[k]
    BY <1>4, <1>6, <2>1 DEF Paired
  <2>3. k - 1 = off /\ off \in DOMAIN s
    BY <1>1, <1>3, <2>1, <2>2
  <2>4. QED BY <1>3, <2>1, <2>2, <2>3
<1>7. ASSUME ~torn, off \in DOMAIN s, Starts(s[off])
      PROVE  s[off + 1] = s[off] + 1
  BY <1>3, <1>4, <1>7 DEF Ended
<1>8. QED BY <1>2, <1>5, <1>6, <1>7

LEMMA AppendFormed ==
    ASSUME NEW s \in Seq(Nat), NEW c \in Nat, Paired(s), Ended(s),
           ~Starts(c) => s # <<>> /\ s[Len(s)] + 1 = c,
           s # <<>> /\ Starts(s[Len(s)]) => c = s[Len(s)] + 1
    PROVE  Paired(Append(s, c)) /\ Ended(Append(s, c))
<1> DEFINE t == Append(s, c)
<1>1. /\ Len(s) \in Nat /\ DOMAIN s = 1 .. Len(s) /\ Len(t) = Len(s) + 1
      /\ DOMAIN t = 1 .. Len(s) + 1 /\ t[Len(s) + 1] = c
      /\ \A k \in 1 .. Len(s) : t[k] = s[k]
      /\ Len(s) > 0 <=> s # <<>>
  BY AppendProperties, LenProperties, EmptySeq
<1> HIDE DEF t
<1>2. ASSUME NEW k \in DOMAIN t, ~Starts(t[k]) PROVE k > 1 /\ t[k - 1] + 1 = t[k]
  <2>1. CASE k = Len(s) + 1
    BY <1>1, <1>2, <2>1
  <2>2. CASE k \in 1 .. Len(s)
    <3>1. k > 1 /\ s[k - 1] + 1 = s[k]
      BY <1>1, <1>2, <2>2 DEF Paired
    <3>2. k - 1 \in 1 .. Len(s)
      BY <1>1, <2>2, <3>1
    <3>3. QED BY <1>1, <2>2, <3>1, <3>2
  <2>3. QED BY <1>1, <2>1, <2>2
<1>3. ASSUME NEW k \in DOMAIN t, Starts(t[k]), k < Len(t) PROVE t[k + 1] = t[k] + 1
  <2>1. CASE k = Len(s)
    BY <1>1, <1>3, <2>1
  <2>2. CASE k \in 1 .. Len(s) /\ k < Len(s)
    <3>1. s[k + 1] = s[k] + 1
      BY <1>1, <1>3, <2>2 DEF Ended
    <3>2. k + 1 \in 1 .. Len(s)
      BY <1>1, <2>2
    <3>3. QED BY <1>1, <2>2, <3>1, <3>2
  <2>3. QED BY <1>1, <1>3, <2>1, <2>2
<1>4. Paired(t) /\ Ended(t)
  BY <1>2, <1>3 DEF Paired, Ended
<1>5. QED BY <1>4 DEF t

\* Of a stream of whole records the decoder fails on none, and what is behind
\* its first record is such a stream.
LEMMA TailFormed ==
    ASSUME NEW s \in Seq(Nat), Paired(s), Ended(s)
    PROVE  /\ ~Broken(s)
           /\ Whole(s) => /\ Paired(SubSeq(s, 3, Len(s))) /\ Ended(SubSeq(s, 3, Len(s)))
                          /\ ~Starts(s[2])
<1>1. Len(s) \in Nat /\ DOMAIN s = 1 .. Len(s) /\ \A k \in 1 .. Len(s) : s[k] \in Nat
  BY LenProperties
<1>2. ~Broken(s)
  <2>1. SUFFICES ASSUME Len(s) >= 1 PROVE Starts(s[1]) /\ (Len(s) >= 2 => s[2] = s[1] + 1)
    BY <1>1 DEF Broken, Whole
  <2>2. 1 \in DOMAIN s
    BY <1>1, <2>1
  <2>3. Starts(s[1])
    BY <2>2 DEF Paired
  <2>4. Len(s) >= 2 => s[1 + 1] = s[1] + 1
    BY <1>1, <2>2, <2>3 DEF Ended
  <2>5. QED BY <2>3, <2>4
<1>3. ASSUME Whole(s)
      PROVE  /\ Paired(SubSeq(s, 3, Len(s))) /\ Ended(SubSeq(s, 3, Len(s)))
             /\ ~Starts(s[2])
  <2>1. Len(s) >= 2 /\ ~Starts(s[2])
    <3>1. Len(s) >= 2 /\ Starts(s[1]) /\ s[2] = s[1] + 1
      BY <1>3 DEF Whole
    <3>2. s[1] \in Nat
      BY <1>1, <3>1
    <3>3. QED BY <3>1, <3>2, Parity
  <2> DEFINE t == SubSeq(s, 3, Len(s))
  <2>2. /\ Len(t) = Len(s) - 2 /\ DOMAIN t = 1 .. Len(s) - 2
        /\ \A k \in 1 .. Len(s) - 2 : t[k] = s[k + 2]
    <3>1. CASE Len(s) >= 3
      <4>1. Len(SubSeq(s, 3, Len(s))) = Len(s) - 2 /\ SubSeq(s, 3, Len(s)) \in Seq(Nat)
        BY <3>1, ThirdOn
      <4>2. QED BY <3>1, <4>1, ThirdOn, LenProperties
    <3>2. CASE Len(s) = 2
      <4>1. SubSeq(s, 3, 2) = <<>>
        BY <1>1, <3>2, SubSeqProperties
      <4>2. QED BY <3>2, <4>1
    <3>3. QED BY <1>1, <2>1, <3>1, <3>2
  <2> HIDE DEF t
  <2>3. ASSUME NEW k \in DOMAIN t, ~Starts(t[k]) PROVE k > 1 /\ t[k - 1] + 1 = t[k]
    <3>1. k \in 1 .. Len(s) - 2 /\ k + 2 \in DOMAIN s /\ t[k] = s[k + 2]
      BY <1>1, <2>2, <2>3
    <3>2. s[k + 2 - 1] + 1 = s[k + 2]
      BY <2>3, <3>1 DEF Paired
    <3>3. k # 1
      <4>1. SUFFICES ASSUME k = 1 PROVE FALSE
        OBVIOUS
      <4>2. s[3] = s[2] + 1 /\ ~Starts(s[3]) /\ s[2] \in Nat
        BY <1>1, <2>1, <2>3, <3>1, <3>2, <4>1
      <4>3. QED BY <2>1, <4>2, Parity
    <3>4. k - 1 \in 1 .. Len(s) - 2 /\ k - 1 + 2 = k + 2 - 1
      <4>1. Len(s) \in Nat /\ k \in 1 .. Len(s) - 2
        BY <1>1, <3>1
      <4>2. QED BY <3>3, <4>1
    <3>5. t[k - 1] = s[k + 2 - 1]
      BY <2>2, <3>4
    <3>6. QED BY <3>1, <3>2, <3>4, <3>5
  <2>4. ASSUME NEW k \in DOMAIN t, Starts(t[k]), k < Len(t) PROVE t[k + 1] = t[k] + 1
    <3>1. /\ k \in 1 .. Len(s) - 2 /\ k + 2 \in DOMAIN s /\ t[k] = s[k + 2] /\ k + 2 < Len(s)
          /\ k + 1 \in 1 .. Len(s) - 2 /\ k + 1 + 2 = k + 2 + 1
      <4>1. Len(s) \in Nat /\ k \in 1 .. Len(s) - 2 /\ k < Len(s) - 2
        BY <1>1, <2>2, <2>4
      <4>2. /\ k + 2 \in 1 .. Len(s) /\ k + 2 < Len(s)
            /\ k + 1 \in 1 .. Len(s) - 2 /\ k + 1 + 2 = k + 2 + 1
        <5>1. \A n \in Nat : \A m \in 1 .. n - 2 : m < n - 2 =>
                 /\ m + 2 \in 1 .. n /\ m + 2 < n /\ m + 1 \in 1 .. n - 2 /\ m + 1 + 2 = m + 2 + 1
          OBVIOUS
        <5>2. QED BY <4>1, <5>1, Zenon
      <4>3. QED BY <1>1, <2>2, <4>1, <4>2
    <3>2. s[k + 2 + 1] = s[k + 2] + 1
      BY <2>4, <3>1 DEF Ended
    <3>3. t[k + 1] = s[k + 2 + 1]
      <4>1. t[k + 1] = s[k + 1 + 2]
        BY <2>2, <3>1
      <4>2. QED BY <3>1, <4>1
    <3>4. QED BY <3>1, <3>2, <3>3
  <2>5. Paired(t) /\ Ended(t)
    BY <2>3, <2>4 DEF Paired, Ended
  <2>6. QED BY <2>1, <2>5 DEF t
<1>4. QED BY <1>2, <1>3

\* readBoundedLogLine and emitMergedEvent: the parts of different records meet
\* on a line only if the file was truncated between them.
LEMMA FormedReadLine ==
    ASSUME FormedInv, FollowInv, ReadLine
    PROVE  FormedInv'
<1>1. /\ mode = "plain" /\ pc = "read" /\ decoders = <<>> /\ fd # NoFile
      /\ off < Len(files[fd]) /\ off' = off + 1
      /\ UNCHANGED <<writer, mode, pc, fd, decoders, why, cut>>
  BY DEF ReadLine, File, FollowInv, FollowerTypes
<1>2. /\ mode' = "plain" /\ pc' = "read" /\ fd' # NoFile /\ decoders' = <<>>
      /\ DOMAIN decoders' = {}
  <2>1. DOMAIN << >> = {}
    OBVIOUS
  <2>2. QED BY <1>1, <2>1
<1>3. FilesFormed' /\ files' = files /\ torn' = torn
  BY <1>1, FormedIdle DEF FormedInv
<1>4. PICK c : c = files[fd][off + 1]
  OBVIOUS
<1>5. /\ c \in Nat /\ off + 1 \in DOMAIN files[fd] /\ pending \in Seq(Nat)
      /\ ~Starts(c) => /\ off \in DOMAIN files[fd] /\ files[fd][off] \in Nat
                       /\ c = files[fd][off] + 1
  BY <1>1, <1>4, NextCell, HasFile DEF FormedInv
<1>6. spoilt' = (spoilt \/ cut)
  BY DEF ReadLine
<1>7. why' = "decode" => spoilt' \/ torn'
  <2>1. why = "decode" => spoilt \/ torn
    BY DEF FormedInv, FollowerFormed, OnlySpoiltStreamsFail
  <2>2. spoilt => spoilt'
    BY <1>6
  <2>3. QED BY <1>1, <1>3, <2>1, <2>2
<1>8. CASE Starts(c)
  <2>1. pending' = Append(pending, c) /\ garbled' = garbled
    BY <1>4, <1>8 DEF ReadLine, File, shown
  <2>2. Len(pending') = 1 => pending'[1] = c
    BY <1>5, <2>1
  <2>3. garbled' => spoilt'
    BY <1>6, <2>1 DEF FormedInv, FollowerFormed, OnlySpoiltStreamsFail
  <2>4. Len(pending') = 1 => off' \in DOMAIN files'[fd'] /\ pending'[1] = files'[fd'][off']
    BY <1>1, <1>3, <1>4, <1>5, <2>2
  <2>5. QED BY <1>2, <1>1, <1>3, <1>7, <2>3, <2>4 DEF FormedInv, FollowerFormed,
               OnlySpoiltStreamsFail
<1>9. CASE ~Starts(c)
  <2> DEFINE line  == Append(pending, c)
             parts == Len(line) = 2 /\ Starts(line[1])
             same  == parts /\ RecordOf(line[1]) = RecordOf(line[2])
  <2>1. pending' = <<>> /\ Emit(line)
    BY <1>4, <1>9 DEF ReadLine, File
  <2>2. \E mixed \in {FALSE, parts /\ ~same} : garbled' = (garbled \/ mixed)
    BY <2>1 DEF Emit
  <2>3. ASSUME ~spoilt', parts PROVE same
    <3>1. ~spoilt /\ ~cut
      BY <1>6, <2>3
    <3>2. Len(pending) = 1 /\ line[1] = pending[1] /\ line[2] = c
      <4>1. Len(line) = Len(pending) + 1 /\ Len(pending) \in Nat
        BY <1>5, AppendProperties, LenProperties
      <4>2. Len(line) = 2
        BY <2>3
      <4>3. Len(pending) = 1
        <5>1. \A n \in Nat : n + 1 = 2 => n = 1
          OBVIOUS
        <5>2. Len(pending) + 1 = 2
          BY <4>1, <4>2, Zenon
        <5>3. QED BY <4>1, <5>1, <5>2, Zenon
      <4>4. 1 \in 1 .. Len(pending)
        BY <4>3
      <4>5. line[1] = pending[1] /\ line[Len(pending) + 1] = c
        BY <1>5, <4>4, AppendProperties
      <4>6. Len(pending) + 1 = 2
        BY <4>3
      <4>7. QED BY <4>3, <4>5, <4>6
    <3>3. line[1] = files[fd][off]
      BY <3>1, <3>2 DEF FormedInv, FollowerFormed
    <3>4. RecordOf(files[fd][off] + 1) = RecordOf(files[fd][off])
      BY <1>5, <1>9, <2>3, <3>3, Parity
    <3>5. QED BY <1>5, <1>9, <2>3, <3>2, <3>3, <3>4
  <2> HIDE DEF same, parts, line
  <2>4. garbled' => spoilt'
    <3>1. garbled => spoilt
      BY DEF FormedInv, FollowerFormed, OnlySpoiltStreamsFail
    <3>2. CASE garbled' = (garbled \/ FALSE)
      BY <1>6, <3>1, <3>2
    <3>3. CASE garbled' = (garbled \/ (parts /\ ~same))
      BY <1>6, <2>3, <3>1, <3>3
    <3>4. QED BY <2>2, <3>2, <3>3
  <2>5. Len(pending') # 1
    BY <2>1
  <2>6. QED BY <1>2, <1>1, <1>3, <1>7, <2>1, <2>4, <2>5
            DEF FormedInv, FollowerFormed, OnlySpoiltStreamsFail
<1>10. QED BY <1>8, <1>9

LEMMA FormedFeed ==
    ASSUME FormedInv, FollowInv, Feed
    PROVE  FormedInv'
<1>1. /\ mode = "compressed" /\ pc = "feed" /\ fd # NoFile
      /\ UNCHANGED <<writer, mode, fd, pending, garbled, cut>>
  BY DEF Feed, shown, FollowInv, FollowerTypes
<1> DEFINE last == Len(decoders)
           old  == decoders[last].fed
<1>2. /\ decoders \in Seq(Decoder) /\ last \in Nat /\ DOMAIN decoders = 1 .. last
      /\ last \in DOMAIN decoders /\ decoders[last] \in Decoder /\ old \in Seq(Nat)
      /\ decoders # <<>>
  <2>1. decoders # <<>> /\ decoders \in Seq(Decoder)
    BY <1>1, HasFile DEF FollowerTypes
  <2>2. last \in Nat /\ DOMAIN decoders = 1 .. last /\ last > 0
    BY <2>1, EmptySeq, LenProperties
  <2>3. decoders[last] \in Decoder
    BY <2>1, <2>2, ElementOfSeq
  <2>4. QED BY <2>1, <2>2, <2>3 DEF Decoder
<1>3. CASE off = size \/ off >= Len(File)
  <2>1. pc' = "check" /\ UNCHANGED <<off, decoders, why, spoilt>>
    BY <1>3 DEF Feed, Goto
  <2>2. QED BY <1>1, <2>1, FormedQuiet
<1>4. CASE ~(off = size \/ off >= Len(File)) /\ Current.failed
  <2>1. pc' = "exit" /\ why' = "decode" /\ UNCHANGED <<off, decoders, spoilt>>
    BY <1>4 DEF Feed, Exit, Goto
  <2>2. spoilt \/ torn
    BY <1>2, <1>4 DEF FormedInv, FollowerFormed, Current
  <2>3. QED BY <1>1, <2>1, <2>2, FormedQuiet
<1>5. CASE ~(off = size \/ off >= Len(File)) /\ ~Current.failed
  <2>1. /\ off < Len(files[fd]) /\ off' = off + 1 /\ pc' = pc /\ why' = why
        /\ decoders' = [decoders EXCEPT ![last].fed = Append(@, files[fd][off + 1])]
        /\ spoilt' = (spoilt \/ cut)
    BY <1>1, <1>5, HasFile DEF Feed, File
  <2>2. PICK c : c = files[fd][off + 1]
    OBVIOUS
  <2>3. /\ c \in Nat /\ off + 1 \in DOMAIN files[fd]
        /\ ~Starts(c) => /\ off \in DOMAIN files[fd] /\ files[fd][off] \in Nat
                         /\ c = files[fd][off] + 1
        /\ ~torn /\ off \in DOMAIN files[fd] /\ Starts(files[fd][off]) => c = files[fd][off] + 1
    BY <1>1, <2>1, <2>2, NextCell DEF FormedInv
  <2>4. FilesFormed' /\ files' = files /\ torn' = torn
    BY <1>1, FormedIdle DEF FormedInv
  <2>5. /\ DOMAIN decoders' = 1 .. last /\ Len(decoders') = last
        /\ \A i \in 1 .. last : i # last => decoders'[i] = decoders[i]
        /\ decoders'[last].fed = Append(old, c) /\ decoders'[last].failed = decoders[last].failed
    <3> DEFINE new == [decoders[last] EXCEPT !.fed = Append(old, c)]
    <3>1. new.fed = Append(old, c) /\ new.failed = decoders[last].failed /\ new \in Decoder
      BY <1>2, <2>3, AppendProperties DEF Decoder
    <3>2. decoders' = [decoders EXCEPT ![last] = new]
      BY <1>2, <2>1, <2>2
    <3> HIDE DEF new
    <3>3. decoders' \in Seq(Decoder) /\ Len(decoders') = last
      BY <1>2, <3>1, <3>2, ExceptSeq
    <3>4. QED BY <1>2, <3>1, <3>2, <3>3, LenProperties
  <2> HIDE DEF last, old
  <2>6. ASSUME ~spoilt', ~torn'
        PROVE  /\ \A i \in DOMAIN decoders' :
                     ~decoders'[i].failed /\ Paired(decoders'[i].fed) /\ Ended(decoders'[i].fed)
               /\ Append(old, c) # <<>> /\ Append(old, c)[Len(Append(old, c))] = c
    <3>1. ~spoilt /\ ~cut /\ ~torn
      BY <2>1, <2>4, <2>6
    <3>2. /\ \A i \in 1 .. last :
                ~decoders[i].failed /\ Paired(decoders[i].fed) /\ Ended(decoders[i].fed)
          /\ Follows(old)
      BY <1>1, <1>2, <3>1 DEF FormedInv, FollowerFormed, last, old
    <3>3. Paired(old) /\ Ended(old)
      BY <1>2, <3>2 DEF old
    <3>4. ~Starts(c) => old # <<>> /\ old[Len(old)] + 1 = c
      <4>1. SUFFICES ASSUME ~Starts(c) PROVE old # <<>> /\ old[Len(old)] + 1 = c
        OBVIOUS
      <4>2. Starts(files[fd][off])
        BY <2>3, <4>1, Parity
      <4>3. off # 0
        BY <1>1, <2>3, <4>1, HasFile, FileNumbers
      <4>4. QED BY <2>3, <3>2, <4>1, <4>2, <4>3 DEF Follows
    <3>5. old # <<>> /\ Starts(old[Len(old)]) => c = old[Len(old)] + 1
      BY <2>3, <3>1, <3>2 DEF Follows
    <3>6. Paired(Append(old, c)) /\ Ended(Append(old, c))
      BY <1>2, <2>3, <3>3, <3>4, <3>5, AppendFormed
    <3>7. Append(old, c) # <<>> /\ Append(old, c)[Len(Append(old, c))] = c
      BY <1>2, <2>3, AppendProperties, LenProperties
    <3>8. QED BY <1>2, <2>5, <3>2, <3>6, <3>7
  <2>7. ASSUME ~spoilt', ~torn' PROVE Follows(decoders[Len(decoders)].fed)'
    <3>1. decoders'[Len(decoders')].fed = Append(old, c)
      BY <2>5
    <3>2. off' \in DOMAIN files'[fd'] /\ files'[fd'][off'] = c
      BY <1>1, <2>1, <2>2, <2>3, <2>4
    <3>3. QED BY <2>6, <2>7, <3>1, <3>2 DEF Follows
  <2>8. pending' = <<>> /\ Len(pending') # 1 /\ pc' = "feed"
    BY <1>1, <2>1 DEF FormedInv, FollowerFormed
  <2>9. OnlySpoiltStreamsFail'
    BY <1>1, <2>1, <2>4 DEF FormedInv, FollowerFormed, OnlySpoiltStreamsFail
  <2>10. QED BY <2>4, <2>6, <2>7, <2>8, <2>9 DEF FormedInv, FollowerFormed, Paired, Ended
<1>6. QED BY <1>3, <1>4, <1>5

LEMMA FormedDecode ==
    ASSUME FormedInv, FollowInv, NEW i \in DOMAIN decoders, Decode(i)
    PROVE  FormedInv'
<1>1. /\ UNCHANGED <<writer, mode, pc, fd, off, pending, garbled, why, cut, spoilt>>
      /\ mode = "compressed" /\ fd # NoFile /\ pc # "start"
  BY DEF Decode, history, FollowInv, FollowerTypes
<1> DEFINE last == Len(decoders)
           fed  == decoders[i].fed
<1>2. /\ decoders \in Seq(Decoder) /\ last \in Nat /\ DOMAIN decoders = 1 .. last
      /\ decoders[i] \in Decoder /\ fed \in Seq(Nat) /\ i \in 1 .. last
  <2>1. decoders \in Seq(Decoder)
    BY <1>1, HasFile
  <2>2. last \in Nat /\ DOMAIN decoders = 1 .. last
    BY <2>1, LenProperties
  <2>3. decoders[i] \in Decoder
    BY <2>1, <2>2, ElementOfSeq
  <2>4. QED BY <2>1, <2>2, <2>3 DEF Decoder
<1>3. FilesFormed' /\ files' = files /\ torn' = torn
  BY <1>1, FormedIdle DEF FormedInv
<1> DEFINE rest == SubSeq(fed, 3, Len(fed))
<1>4. /\ Whole(fed) => decoders' = [decoders EXCEPT ![i] = [fed |-> rest, failed |-> FALSE]]
      /\ ~Whole(fed) => Broken(fed)
  BY DEF Decode
<1>5. pending' = <<>> /\ Len(pending') # 1
  <2>1. pending' = <<>>
    BY <1>1 DEF FormedInv, FollowerFormed
  <2>2. QED BY <2>1
<1>6. OnlySpoiltStreamsFail'
  BY <1>1, <1>3 DEF FormedInv, FollowerFormed, OnlySpoiltStreamsFail
<1>7. CASE spoilt \/ torn
  BY <1>1, <1>3, <1>5, <1>6, <1>7 DEF FormedInv, FollowerFormed
<1>8. CASE ~spoilt /\ ~torn
  <2>1. \A j \in DOMAIN decoders :
            ~decoders[j].failed /\ Paired(decoders[j].fed) /\ Ended(decoders[j].fed)
    BY <1>8 DEF FormedInv, FollowerFormed
  <2>2. Paired(fed) /\ Ended(fed)
    BY <2>1
  <2> HIDE DEF rest, fed, last
  <2>3. Whole(fed) /\ Paired(rest) /\ Ended(rest) /\ ~Starts(fed[2])
    BY <1>2, <1>4, <2>2, TailFormed DEF rest
  <2>4. rest \in Seq(Nat) /\ Len(fed) \in Nat /\ Len(fed) >= 2
    <3>1. Len(fed) >= 2 /\ Len(fed) \in Nat /\ \A k \in 3 .. Len(fed) : fed[k] \in Nat
      BY <1>2, <2>3, LenProperties DEF Whole
    <3>2. QED BY <1>2, <3>1, SubSeqProperties DEF rest
  <2> DEFINE new == [fed |-> rest, failed |-> FALSE]
  <2>5. new \in Decoder /\ new.fed = rest /\ new.failed = FALSE
    BY <2>4 DEF Decoder
  <2>6. decoders' = [decoders EXCEPT ![i] = new]
    BY <1>4, <2>3
  <2> HIDE DEF new
  <2>7. /\ DOMAIN decoders' = 1 .. last /\ Len(decoders') = last
        /\ \A j \in 1 .. last : decoders'[j] = IF j = i THEN new ELSE decoders[j]
    <3>1. decoders' \in Seq(Decoder) /\ Len(decoders') = last
      BY <1>2, <2>5, <2>6, ExceptSeq DEF last
    <3>2. QED BY <1>2, <2>6, <3>1, LenProperties
  <2>8. \A j \in DOMAIN decoders' :
            ~decoders'[j].failed /\ Paired(decoders'[j].fed) /\ Ended(decoders'[j].fed)
    <3>1. SUFFICES ASSUME NEW j \in DOMAIN decoders'
                   PROVE  ~decoders'[j].failed /\ Paired(decoders'[j].fed) /\ Ended(decoders'[j].fed)
      OBVIOUS
    <3>2. CASE j = i
      BY <1>2, <2>3, <2>5, <2>7, <3>2
    <3>3. CASE j # i
      BY <1>2, <2>1, <2>7, <3>1, <3>3
    <3>4. QED BY <3>2, <3>3
  <2>9. ASSUME ~cut, pc \notin {"detect", "exit"}
        PROVE  Follows(decoders[Len(decoders)].fed)'
    <3>1. last \in 1 .. last /\ decoders # <<>>
      <4>1. last \in 1 .. last
        BY <1>2
      <4>2. QED BY <1>2, <4>1, EmptySeq DEF last
    <3>2. Follows(decoders[last].fed)
      BY <1>8, <2>9, <3>1 DEF FormedInv, FollowerFormed, last
    <3>3. CASE i # last
      <4>1. decoders'[Len(decoders')].fed = decoders[last].fed
        BY <2>7, <3>1, <3>3
      <4>2. QED BY <1>1, <1>3, <3>2, <4>1 DEF Follows
    <3>4. CASE i = last
      <4>1. decoders'[Len(decoders')].fed = rest
        BY <2>5, <2>7, <3>1, <3>4
      <4>2. fed # <<>>
        BY <1>2, <2>4, EmptySeq
      <4>3. off \in DOMAIN files[fd] /\ fed[Len(fed)] = files[fd][off]
        BY <3>2, <3>4, <4>2 DEF Follows, fed
      <4>4. CASE Len(fed) = 2
        <5>1. ~Starts(files[fd][off]) /\ rest = <<>>
          <6>1. rest = <<>>
            BY <1>2, <4>4, SubSeqProperties DEF rest
          <6>2. QED BY <2>3, <4>3, <4>4, <6>1
        <5>2. QED BY <1>1, <1>3, <4>1, <4>3, <5>1 DEF Follows
      <4>5. CASE Len(fed) >= 3
        <5>1. /\ Len(rest) = Len(fed) - 2 /\ rest # <<>>
              /\ rest[Len(rest)] = fed[Len(fed)]
          <6>1. /\ Len(rest) = Len(fed) - 2
                /\ \A k \in 1 .. Len(fed) - 2 : rest[k] = fed[k + 2]
            BY <1>2, <4>5, ThirdOn DEF rest
          <6>2. Len(rest) \in 1 .. Len(fed) - 2 /\ Len(rest) + 2 = Len(fed)
            BY <2>4, <4>5, <6>1
          <6>3. rest # <<>>
            BY <2>4, <6>2, EmptySeq
          <6>4. QED BY <6>1, <6>2, <6>3
        <5>2. QED BY <1>1, <1>3, <4>1, <4>3, <5>1 DEF Follows
      <4>6. Len(fed) = 2 \/ Len(fed) >= 3
        <5>1. \A n \in Nat : n >= 2 => n = 2 \/ n >= 3
          OBVIOUS
        <5>2. QED BY <2>4, <5>1
      <4>7. QED BY <4>4, <4>5, <4>6
    <3>5. QED BY <3>3, <3>4
  <2>10. QED BY <1>1, <1>3, <1>5, <1>6, <2>8, <2>9 DEF FormedInv, FollowerFormed, Paired, Ended
<1>9. QED BY <1>7, <1>8

LEMMA FormedInit ==
    ASSUME Init
    PROVE  FormedInv
<1>1. /\ DOMAIN files = {1} /\ files[1] = <<>> /\ DOMAIN files[1] = {}
  <2>1. files = << <<>> >>
    BY DEF Init
  <2>2. QED BY <2>1
<1>2. /\ cells = 0 /\ pc = "start" /\ why = "" /\ ~garbled /\ off = 0 /\ pending = <<>>
      /\ decoders = <<>> /\ DOMAIN decoders = {} /\ Len(pending) # 1
  <2>1. DOMAIN << >> = {} /\ Len(<<>>) # 1
    OBVIOUS
  <2>2. /\ cells = 0 /\ pc = "start" /\ why = "" /\ ~garbled /\ off = 0 /\ pending = <<>>
        /\ decoders = <<>>
    BY DEF Init
  <2>3. QED BY <2>1, <2>2
<1>3. ~Midway /\ Paired(<<>>) /\ Ended(<<>>)
  <2>1. 0 % 2 # 1
    OBVIOUS
  <2>2. QED BY <1>2, <2>1 DEF Midway, Starts, Paired, Ended
<1>4. FilesFormed
  BY <1>1, <1>3 DEF FilesFormed
<1>5. FollowerFormed
  BY <1>2 DEF FollowerFormed, OnlySpoiltStreamsFail
<1>6. QED BY <1>4, <1>5 DEF FormedInv

LEMMA FormedStep ==
    ASSUME FormedInv, FollowInv, [Next]_vars
    PROVE  FormedInv'
<1>1. CASE UNCHANGED vars
  <2>1. UNCHANGED <<writer, pc, mode, fd, off, pending, decoders, garbled, why, cut, spoilt>>
    BY <1>1 DEF vars, follower, shown, history
  <2>2. FilesFormed' /\ files' = files /\ torn' = torn
    BY <2>1, FormedIdle DEF FormedInv
  <2>3. QED BY <2>1, <2>2 DEF FormedInv, FollowerFormed, Follows, OnlySpoiltStreamsFail
<1>2. CASE WriterNext
  BY <1>2, FormedWriter
<1>3. CASE Open \/ (\E i \in DOMAIN decoders : Decode(i)) \/ Race
  BY <1>3, FormedOpen, FormedDecode, FormedQuietActions
<1>4. CASE FollowerStep
  BY <1>4, FormedQuietActions, FormedReadLine, FormedRewind, FormedSwitchStream, FormedDetect,
     FormedPollError, FormedStat, FormedFeed DEF FollowerStep
<1>5. QED BY <1>1, <1>2, <1>3, <1>4 DEF Next

\* A row that is no record comes only of a file truncated unseen, and a decoding
\* error that ends prec of nothing but that, a start within a record and a
\* record that a dying precd left unfinished.
THEOREM OnlySpoiltFail == Spec => []OnlySpoiltStreamsFail
<1>1. Init => FormedInv
  BY FormedInit
<1>2. FollowInv /\ FormedInv /\ [Next]_vars => FormedInv'
  BY FormedStep
<1>3. FormedInv => OnlySpoiltStreamsFail
  BY DEF FormedInv, FollowerFormed
<1>4. QED BY <1>1, <1>2, <1>3, Followed, PTL DEF Spec
=============================================================================
