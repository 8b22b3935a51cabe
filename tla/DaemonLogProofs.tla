--------------------------- MODULE DaemonLogProofs ---------------------------
(***************************************************************************)
(* For every number of daemons, records, files, signals, starts and        *)
(* failures: one daemon at a time has the log open, the files hold the     *)
(* records in the order they were written, what was acknowledged is kept   *)
(* but for what a torn write spoils in the format of the log, and what a   *)
(* power failure could take is at the end of an open file.                 *)
(***************************************************************************)
EXTENDS DaemonLog, SequenceTheorems, FiniteSetTheorems, TLAPS

\* Where run has the lock, and where its writer may have a file.
Locked  == {"open", "notify", "running", "close", "unlock"}
Writing == {"notify", "running", "close"}
Places  == {"off", "lock", "exit"} \cup Locked

\* OneWriter is not inductive: that a file is open says nothing of the lock
\* without the place that run has reached.  Reopen, which may run at any time
\* of a daemon's life, is harmless because it leaves a closed writer closed.
LockInv ==
    /\ pc \in [Daemons -> Places]
    /\ DOMAIN fd = Daemons
    /\ \A d \in Daemons : pc[d] \in Locked => holder = d
    /\ \A d \in Daemons : fd[d] # NoFile => pc[d] \in Writing

\* Steps that touch none of run's place, the lock and the files a writer has.
LEMMA SameLock ==
    ASSUME LockInv, UNCHANGED <<pc, holder, fd>>
    PROVE  LockInv'
BY DEF LockInv

\* run goes on within the part that the lock protects, its writer as it was.
LEMMA MovesOn ==
    ASSUME LockInv, NEW d \in Daemons, NEW q \in Locked,
           pc[d] \in Locked, pc' = [pc EXCEPT ![d] = q],
           UNCHANGED <<holder, fd>>,
           fd[d] # NoFile => q \in Writing
    PROVE  LockInv'
BY DEF LockInv, Locked, Writing, Places

\* The end of a process frees its own lock only.
LEMMA DieInv ==
    ASSUME LockInv, NEW d \in Daemons, Die(d)
    PROVE  LockInv'
<1>1. /\ pc' = [pc EXCEPT ![d] = "off"] /\ fd' = [fd EXCEPT ![d] = NoFile]
      /\ holder' = IF holder = d THEN Nobody ELSE holder
  BY DEF Die, Goto
<1>2. pc' \in [Daemons -> Places] /\ DOMAIN fd' = Daemons
  BY <1>1 DEF LockInv, Places
<1>3. ASSUME NEW e \in Daemons
      PROVE  /\ pc'[e] \in Locked => holder' = e
             /\ fd'[e] # NoFile => pc'[e] \in Writing
  <2>1. CASE e = d
    BY <1>1, <2>1 DEF LockInv, Locked, Writing
  <2>2. CASE e # d
    <3>1. pc'[e] = pc[e] /\ fd'[e] = fd[e]
      BY <1>1, <2>2 DEF LockInv
    <3>2. pc[e] \in Locked => holder' = e
      BY <1>1, <2>2 DEF LockInv
    <3>3. QED BY <3>1, <3>2 DEF LockInv
  <2>3. QED BY <2>1, <2>2
<1>4. QED BY <1>2, <1>3 DEF LockInv

\* A signal ends the process or is only remembered.
LEMMA DeliverInv ==
    ASSUME LockInv, NEW d \in Daemons, NEW sig, Deliver(d, sig)
    PROVE  LockInv'
<1>1. CASE pc[d] = "running"
  BY <1>1, SameLock DEF Deliver
<1>2. CASE pc[d] \in {"lock", "open", "notify", "close", "unlock", "exit"}
  BY <1>2, DieInv DEF Deliver
<1>3. CASE pc[d] \notin {"running", "lock", "open", "notify", "close", "unlock", "exit"}
  <2>1. UNCHANGED <<daemon, fd, recent, holder>>
    BY <1>3 DEF Deliver
  <2>2. QED BY <2>1, SameLock DEF daemon
<1>4. QED BY <1>1, <1>2, <1>3

LEMMA StartInv ==
    ASSUME LockInv, NEW d \in Daemons, Start(d)
    PROVE  LockInv'
BY DEF LockInv, Start, Goto, writer, Locked, Writing, Places

\* Nobody has the lock, so nobody else is within.
LEMMA AcquireInv ==
    ASSUME LockInv, NEW d \in Daemons, Acquire(d)
    PROVE  LockInv'
<1>1. pc[d] = "lock" /\ fd' = fd /\ fd[d] = NoFile
  BY DEF Acquire, writer, LockInv, Writing
<1>2. CASE holder = Nobody
  <2>1. holder' = d /\ pc' = [pc EXCEPT ![d] = "open"]
    BY <1>2 DEF Acquire, Goto
  <2>2. \A e \in Daemons : pc[e] \notin Locked
    BY <1>2, DaemonAssumption DEF LockInv, DaemonAssumption
  <2>3. QED BY <1>1, <2>1, <2>2 DEF LockInv, Locked, Writing, Places
<1>3. CASE holder # Nobody
  <2>1. holder' = holder /\ pc' = [pc EXCEPT ![d] = "off"]
    BY <1>3 DEF Acquire, Goto
  <2>2. QED BY <1>1, <2>1 DEF LockInv, Locked, Writing, Places
<1>4. QED BY <1>2, <1>3

LEMMA OpenLogInv ==
    ASSUME LockInv, NEW d \in Daemons, OpenLog(d)
    PROVE  LockInv'
<1>1. pc[d] = "open" /\ holder' = holder /\ fd[d] = NoFile
  BY DEF OpenLog, LockInv, Writing
<1>2. CASE OpenAppend(d) /\ Goto(d, "notify")
  <2>1. PICK f : fd' = [fd EXCEPT ![d] = f]
    BY <1>2 DEF OpenAppend
  <2>2. QED BY <1>1, <1>2, <2>1 DEF LockInv, Goto, Locked, Writing, Places
<1>3. CASE Goto(d, "unlock") /\ UNCHANGED fd
  BY <1>1, <1>3, MovesOn DEF Goto, Locked
<1>4. QED BY <1>2, <1>3 DEF OpenLog

\* A writer that is closed stays closed.
LEMMA HandleHupInv ==
    ASSUME LockInv, NEW d \in Daemons, HandleHup(d)
    PROVE  LockInv'
<1>1. pc' = pc /\ holder' = holder
  BY DEF HandleHup
<1>2. CASE UNCHANGED fd
  BY <1>1, <1>2, SameLock
<1>3. CASE fd[d] # NoFile /\ OpenAppend(d)
  <2>1. PICK f : fd' = [fd EXCEPT ![d] = f]
    BY <1>3 DEF OpenAppend
  <2>2. QED BY <1>1, <1>3, <2>1 DEF LockInv
<1>4. QED BY <1>2, <1>3 DEF HandleHup, Reopen, writer

LEMMA CloseLogInv ==
    ASSUME LockInv, NEW d \in Daemons, CloseLog(d)
    PROVE  LockInv'
BY DEF LockInv, CloseLog, Goto, Locked, Writing, Places

LEMMA UnlockInv ==
    ASSUME LockInv, NEW d \in Daemons, Unlock(d)
    PROVE  LockInv'
<1>1. /\ pc[d] = "unlock" /\ pc' = [pc EXCEPT ![d] = "exit"]
      /\ holder = d /\ fd' = fd /\ fd[d] = NoFile
  BY DEF Unlock, Goto, writer, LockInv, Locked, Writing
<1>2. QED BY <1>1 DEF LockInv, Locked, Writing, Places

LEMMA InitLock == Init => LockInv
BY DEF Init, LockInv, Locked, Writing, Places

\* Every step keeps the invariant.
LEMMA NextLock == LockInv /\ [Next]_vars => LockInv'
<1> SUFFICES ASSUME LockInv, [Next]_vars PROVE LockInv'
  OBVIOUS
<1>1. CASE UNCHANGED vars
  BY <1>1, SameLock DEF vars, daemon, writer
<1>2. CASE Rename \/ Create
  BY <1>2, SameLock DEF Rename, Create, daemon, writer
<1>3. CASE PostRotate
  BY <1>3, DeliverInv, DaemonAssumption DEF PostRotate, DaemonAssumption
<1>4. ASSUME NEW d \in Daemons, NEW sig, Signal(d, sig)
      PROVE  LockInv'
  BY <1>4, DeliverInv DEF Signal
<1>5. ASSUME NEW d \in Daemons, IntervalPasses(d) \/ WriteEvent(d) \/ Take(d) \/ HandlerReturns(d)
      PROVE  LockInv'
  BY <1>5, SameLock DEF IntervalPasses, WriteEvent, Take, HandlerReturns, daemon, writer
<1>6. ASSUME NEW d \in Daemons, Crash(d) \/ Exit(d)
      PROVE  LockInv'
  BY <1>6, DieInv DEF Crash, Exit
<1>7. ASSUME NEW d \in Daemons, Notify(d) \/ WriteEventFails(d) \/ RunReturns(d)
      PROVE  LockInv'
  <2>1. PICK q \in Writing : pc' = [pc EXCEPT ![d] = q]
    BY <1>7 DEF Notify, WriteEventFails, RunReturns, Goto, Writing
  <2>2. pc[d] \in Locked /\ holder' = holder /\ fd' = fd
    BY <1>7 DEF Notify, WriteEventFails, RunReturns, writer, Locked
  <2>3. QED BY <2>1, <2>2, MovesOn DEF Locked, Writing
<1>8. QED
  BY <1>1, <1>2, <1>3, <1>4, <1>5, <1>6, <1>7, StartInv, AcquireInv, OpenLogInv, HandleHupInv,
     CloseLogInv, UnlockInv DEF Next

\* README: "precd takes an exclusive flock": whoever has the log open holds the
\* lock, for any number of daemons, signals, rotations and crashes.
THEOREM OneWriterAtATime == Spec => []OneWriter
<1>1. Init => LockInv
  BY InitLock
<1>2. LockInv /\ [Next]_vars => LockInv'
  BY NextLock
<1>3. LockInv => OneWriter
  BY DEF LockInv, OneWriter, Locked, Writing
<1>4. QED BY <1>1, <1>2, <1>3, PTL DEF Spec

-----------------------------------------------------------------------------
(* The files.                                                              *)

LogFiles == [data : Seq(Nat), synced : Nat]

FileTypes ==
    /\ files \in Seq(LogFiles)
    /\ written \in Nat
    /\ name \in {NoFile, Len(files)}
    /\ \A d \in Daemons : fd[d] \in 0 .. Len(files)
    /\ \A d \in Daemons : pc[d] \in Writing => fd[d] # NoFile

\* A daemon may still write to a file that logrotate has renamed; the files
\* behind it are empty until it has left it, as nobody else may write.
LaterEmpty ==
    \A d \in Daemons, g \in DOMAIN files :
        fd[d] # NoFile /\ fd[d] < g => files[g].data = <<>>

Past == \A f \in DOMAIN files : \A i \in DOMAIN files[f].data : files[f].data[i] <= written

Stored(r) == \E f \in DOMAIN files : \E i \in DOMAIN files[f].data : files[f].data[i] = r
AckedStored == \A r \in acked : Stored(r)

\* What is not synced is in the open file of a daemon whose loop runs or has
\* just returned, and while it runs and its interval lasts it has synced there.
SyncInv ==
    /\ \A d \in Daemons : d \in recent =>
          /\ pc[d] \in {"running", "close", "unlock", "exit"}
          /\ fd[d] # NoFile => files[fd[d]].synced > 0
    /\ \A f \in DOMAIN files \ dirty :
          files[f].synced < Len(files[f].data) =>
              \E d \in Daemons :
                  /\ fd[d] = f
                  /\ pc[d] \in {"running", "close"}
                  /\ pc[d] = "running" => files[f].synced > 0

OrderInv == FileTypes /\ LaterEmpty /\ Past /\ LogInOrder /\ AckedStored
FilesInv == LockInv /\ OrderInv /\ SyncInv

-----------------------------------------------------------------------------
(* What a step does to the files.                                          *)

\* The data are what they were, behind them there may be a new empty file.
NoData ==
    /\ files' \in Seq(LogFiles)
    /\ Len(files') >= Len(files)
    /\ \A g \in 1 .. Len(files) : files'[g].data = files[g].data
    /\ \A g \in 1 .. Len(files') : g > Len(files) => files'[g].data = <<>>

\* Entry e is appended to file f, behind which all are empty.
OneEntry(f, e) ==
    /\ files' \in Seq(LogFiles)
    /\ Len(files') = Len(files)
    /\ f \in 1 .. Len(files)
    /\ files'[f].data = Append(files[f].data, e)
    /\ \A g \in 1 .. Len(files) : g # f => files'[g].data = files[g].data
    /\ \A g \in 1 .. Len(files) : g > f => files[g].data = <<>>

\* Without a new entry, what is in the files stays there and in order.
LEMMA NoDataOrder ==
    ASSUME OrderInv, NoData, written' \in Nat, written' >= written
    PROVE  /\ Past' /\ LogInOrder'
           /\ \A r : Stored(r) => Stored(r)'
<1>1. DOMAIN files = 1 .. Len(files) /\ DOMAIN files' = 1 .. Len(files') /\ written \in Nat
      /\ Len(files) \in Nat /\ Len(files') \in Nat
  BY DEF OrderInv, FileTypes, NoData
<1>2. \A g \in DOMAIN files' : \A i \in DOMAIN files'[g].data :
          g \in DOMAIN files /\ files'[g].data = files[g].data
  BY <1>1 DEF NoData
<1>3. \A g \in DOMAIN files : g \in DOMAIN files' /\ files'[g].data = files[g].data
  BY <1>1 DEF NoData
<1>4. \A f \in DOMAIN files : files[f].data \in Seq(Nat)
  <2>1. \A g \in 1 .. Len(files) : files[g] \in LogFiles
    BY ElementOfSeq DEF OrderInv, FileTypes
  <2>2. QED BY <1>1, <2>1 DEF LogFiles
<1>5. Past'
  BY <1>1, <1>2, <1>4 DEF OrderInv, Past
<1>6. LogInOrder'
  BY <1>2 DEF OrderInv, LogInOrder
<1>7. \A r : Stored(r) => Stored(r)'
  BY <1>3 DEF Stored
<1>8. QED BY <1>5, <1>6, <1>7

\* A new entry behind all others keeps the order, if it is a fragment or younger.
LEMMA OneEntryOrder ==
    ASSUME OrderInv, NEW f, NEW e \in Nat, OneEntry(f, e), written' \in Nat, written' >= written,
           e = Fragment \/ (e = written' /\ written' > written)
    PROVE  /\ Past' /\ LogInOrder'
           /\ \A r : Stored(r) => Stored(r)'
           /\ Stored(e)'
<1>1. /\ DOMAIN files = 1 .. Len(files) /\ DOMAIN files' = DOMAIN files /\ written \in Nat
      /\ f \in DOMAIN files /\ Len(files) \in Nat
  BY DEF OrderInv, FileTypes, OneEntry
<1>2. \A g \in DOMAIN files : files[g].data \in Seq(Nat)
  <2>1. \A g \in 1 .. Len(files) : files[g] \in LogFiles
    BY ElementOfSeq DEF OrderInv, FileTypes
  <2>2. QED BY <1>1, <2>1 DEF LogFiles
<1> DEFINE n == Len(files[f].data)
<1>3. /\ n \in Nat /\ DOMAIN files[f].data = 1 .. n /\ DOMAIN files'[f].data = 1 .. n + 1
      /\ files'[f].data[n + 1] = e
      /\ \A i \in 1 .. n : files'[f].data[i] = files[f].data[i]
  BY <1>1, <1>2, AppendProperties DEF OneEntry
<1> HIDE DEF n
<1>4. \A g \in DOMAIN files' : \A i \in DOMAIN files'[g].data :
          \/ g = f /\ i = n + 1
          \/ i \in DOMAIN files[g].data /\ files'[g].data[i] = files[g].data[i]
  <2>1. ASSUME NEW g \in DOMAIN files', g # f
        PROVE  files'[g].data = files[g].data
    BY <1>1, <2>1 DEF OneEntry
  <2>2. ASSUME NEW i \in DOMAIN files'[f].data, i # n + 1
        PROVE  i \in DOMAIN files[f].data /\ files'[f].data[i] = files[f].data[i]
    BY <1>3, <2>2
  <2>3. QED BY <1>3, <2>1, <2>2
<1>5. \A g \in DOMAIN files : \A i \in DOMAIN files[g].data :
          /\ i \in DOMAIN files'[g].data /\ files'[g].data[i] = files[g].data[i]
          /\ files[g].data[i] \in Nat /\ files[g].data[i] <= written
          /\ g \in Nat /\ i \in Nat /\ g <= f /\ (g = f => i <= n)
  <2>1. ASSUME NEW g \in DOMAIN files, NEW i \in DOMAIN files[g].data
        PROVE  /\ files[g].data[i] \in Nat /\ files[g].data[i] <= written
               /\ g \in Nat /\ i \in Nat /\ g <= f
    <3>1. files[g].data[i] \in Nat /\ g \in Nat /\ i \in Nat /\ f \in Nat
      BY <1>1, <1>2
    <3>2. files[g].data[i] <= written
      BY DEF OrderInv, Past
    <3>3. files[g].data # <<>>
      BY <1>1, <1>2
    <3>4. QED BY <1>1, <3>1, <3>2, <3>3 DEF OneEntry
  <2>2. ASSUME NEW g \in DOMAIN files, NEW i \in DOMAIN files[g].data
        PROVE  i \in DOMAIN files'[g].data /\ files'[g].data[i] = files[g].data[i]
    <3>1. CASE g = f
      BY <1>3, <3>1
    <3>2. CASE g # f
      BY <1>1, <3>2 DEF OneEntry
    <3>3. QED BY <3>1, <3>2
  <2>3. QED BY <2>1, <2>2, <1>3
<1>6. Past'
  <2>1. ASSUME NEW g \in DOMAIN files', NEW i \in DOMAIN files'[g].data
        PROVE  files'[g].data[i] <= written'
    <3>1. CASE g = f /\ i = n + 1
      BY <1>1, <1>3, <3>1 DEF Fragment
    <3>2. CASE i \in DOMAIN files[g].data /\ files'[g].data[i] = files[g].data[i]
      BY <1>1, <1>5, <3>2
    <3>3. QED BY <1>4, <3>1, <3>2
  <2>2. QED BY <2>1 DEF Past
<1>7. LogInOrder'
  <2>1. SUFFICES ASSUME NEW g \in DOMAIN files', NEW h \in DOMAIN files',
                        NEW i \in DOMAIN files'[g].data, NEW j \in DOMAIN files'[h].data,
                        g < h \/ (g = h /\ i < j),
                        files'[g].data[i] # Fragment, files'[h].data[j] # Fragment
                 PROVE  files'[g].data[i] < files'[h].data[j]
    BY DEF LogInOrder
  <2>2. CASE h = f /\ j = n + 1
    <3>1. ~(g = f /\ i = n + 1)
      BY <2>1, <2>2, <1>1, <1>3
    <3>2. files'[g].data[i] \in Nat /\ files'[g].data[i] <= written
      BY <3>1, <1>1, <1>4, <1>5
    <3>3. QED BY <2>1, <2>2, <3>2, <1>1, <1>3
  <2>3. CASE ~(h = f /\ j = n + 1)
    <3>1. h \in DOMAIN files /\ j \in DOMAIN files[h].data /\ files'[h].data[j] = files[h].data[j]
      BY <2>3, <1>1, <1>4
    <3>2. ~(g = f /\ i = n + 1)
      BY <2>1, <3>1, <1>1, <1>3, <1>5
    <3>3. g \in DOMAIN files /\ i \in DOMAIN files[g].data /\ files'[g].data[i] = files[g].data[i]
      BY <3>2, <1>1, <1>4
    <3>4. QED BY <2>1, <3>1, <3>3 DEF OrderInv, LogInOrder
  <2>4. QED BY <2>2, <2>3
<1>8. \A r : Stored(r) => Stored(r)'
  BY <1>1, <1>5 DEF Stored
<1>9. Stored(e)'
  BY <1>1, <1>3 DEF Stored
<1>10. QED BY <1>6, <1>7, <1>8, <1>9

-----------------------------------------------------------------------------
(* Changes of files.                                                       *)

\* Every file is a record of data and of how much of them is synced.
LEMMA FileRecords ==
    ASSUME FileTypes
    PROVE  /\ Len(files) \in Nat /\ DOMAIN files = 1 .. Len(files)
           /\ \A g \in 1 .. Len(files) :
                 files[g] \in LogFiles /\ files[g].data \in Seq(Nat) /\ files[g].synced \in Nat
<1>1. \A g \in 1 .. Len(files) : files[g] \in LogFiles
  BY ElementOfSeq DEF FileTypes
<1>2. QED BY <1>1 DEF FileTypes, LogFiles

\* One file is replaced.
LEMMA Replaced ==
    ASSUME NEW s \in Seq(LogFiles), NEW f \in 1 .. Len(s), NEW r \in LogFiles
    PROVE  LET t == [s EXCEPT ![f] = r]
           IN  /\ t \in Seq(LogFiles) /\ Len(t) = Len(s)
               /\ t[f] = r
               /\ \A g \in 1 .. Len(s) : g # f => t[g] = s[g]
BY ExceptSeq

WithEntry(file, e) == [file EXCEPT !.data = Append(@, e)]
WithSync(file)     == [file EXCEPT !.synced = Len(file.data)]

\* An entry is appended, the file is not synced.
LEMMA Appended ==
    ASSUME NEW s \in Seq(LogFiles), NEW f \in 1 .. Len(s), NEW e \in Nat,
           NEW t, t = [s EXCEPT ![f] = WithEntry(s[f], e)]
    PROVE  /\ t \in Seq(LogFiles) /\ Len(t) = Len(s)
           /\ t[f].data = Append(s[f].data, e)
           /\ t[f].synced = s[f].synced
           /\ \A g \in 1 .. Len(s) : g # f => t[g] = s[g]
<1>1. s[f] \in LogFiles
  BY ElementOfSeq
<1>2. Append(s[f].data, e) \in Seq(Nat)
  BY <1>1, AppendProperties DEF LogFiles
<1>3. /\ WithEntry(s[f], e) \in LogFiles
      /\ WithEntry(s[f], e).data = Append(s[f].data, e)
      /\ WithEntry(s[f], e).synced = s[f].synced
  BY <1>1, <1>2 DEF LogFiles, WithEntry
<1>4. QED BY <1>3, Replaced

\* A file is synced.
LEMMA SyncedFile ==
    ASSUME NEW s \in Seq(LogFiles), NEW f \in 1 .. Len(s),
           NEW t, t = [s EXCEPT ![f] = WithSync(s[f])]
    PROVE  /\ t \in Seq(LogFiles) /\ Len(t) = Len(s)
           /\ t[f].data = s[f].data
           /\ t[f].synced = Len(s[f].data)
           /\ \A g \in 1 .. Len(s) : g # f => t[g] = s[g]
<1>1. s[f] \in LogFiles
  BY ElementOfSeq
<1>2. s[f].data \in Seq(Nat) /\ Len(s[f].data) \in Nat
  BY <1>1 DEF LogFiles
<1>3. /\ WithSync(s[f]) \in LogFiles
      /\ WithSync(s[f]).data = s[f].data
      /\ WithSync(s[f]).synced = Len(s[f].data)
  BY <1>1, <1>2 DEF LogFiles, WithSync
<1>4. QED BY <1>3, Replaced

\* A new file is empty.
LEMMA NewFile ==
    ASSUME NEW s \in Seq(LogFiles), files' = Append(s, EmptyFile)
    PROVE  /\ files' \in Seq(LogFiles) /\ Len(files') = Len(s) + 1
           /\ \A g \in 1 .. Len(s) : files'[g] = s[g]
           /\ files'[Len(s) + 1].data = <<>> /\ files'[Len(s) + 1].synced = 0
<1>1. EmptyFile \in LogFiles /\ EmptyFile.data = <<>> /\ EmptyFile.synced = 0
  BY DEF EmptyFile, LogFiles
<1>2. QED BY <1>1, AppendProperties

\* Only the daemon that has the lock has a file.
LEMMA Alone ==
    ASSUME LockInv, NEW d \in Daemons, pc[d] \in Locked
    PROVE  \A e \in Daemons : e # d => fd[e] = NoFile
BY DEF LockInv, Locked, Writing

-----------------------------------------------------------------------------
(* The steps.                                                              *)

\* Where run may go while its writer keeps its file.
Moves == {<<"off", "lock">>, <<"lock", "open">>, <<"lock", "off">>, <<"open", "unlock">>,
          <<"notify", "running">>, <<"notify", "close">>, <<"running", "close">>,
          <<"unlock", "exit">>}

\* Writers keep their files or give them up.
Leaving ==
    \A c \in Daemons :
        /\ fd'[c] \in {NoFile, fd[c]}
        /\ pc'[c] \in Writing => pc[c] \in Writing /\ fd'[c] = fd[c]

\* Steps that add neither data nor files.
LEMMA OrderKept ==
    ASSUME OrderInv, NoData, Len(files') = Len(files), acked' = acked, name' \in {NoFile, name},
           written' \in Nat, written' >= written, Leaving
    PROVE  OrderInv'
<1>1. FileTypes'
  BY DEF OrderInv, FileTypes, Leaving, NoData, NoFile
<1>2. LaterEmpty'
  <2>1. DOMAIN files = 1 .. Len(files) /\ DOMAIN files' = 1 .. Len(files)
    BY FileRecords DEF OrderInv, NoData
  <2>2. QED BY <2>1 DEF OrderInv, LaterEmpty, Leaving, NoData
<1>3. Past' /\ LogInOrder' /\ \A r : Stored(r) => Stored(r)'
  BY NoDataOrder
<1>4. AckedStored'
  BY <1>3 DEF OrderInv, AckedStored
<1>5. QED BY <1>1, <1>2, <1>3, <1>4 DEF OrderInv

\* Untouched files have the data they had.
LEMMA SameData ==
    ASSUME FileTypes, files' = files
    PROVE  NoData /\ Len(files') = Len(files)
BY FileRecords DEF FileTypes, NoData

\* Steps that leave the files alone.
LEMMA Idle ==
    ASSUME OrderInv, SyncInv,
           UNCHANGED <<files, fd, acked, dirty>>,
           recent' \subseteq recent, name' \in {NoFile, name},
           written' \in Nat, written' >= written,
           \A d \in Daemons : pc'[d] = pc[d] \/ <<pc[d], pc'[d]>> \in Moves
    PROVE  OrderInv' /\ SyncInv'
<1>1. Leaving
  BY DEF Leaving, Moves, Writing
<1>2. OrderInv'
  BY <1>1, SameData, OrderKept DEF OrderInv
<1>3. SyncInv'
  BY DEF SyncInv, Moves
<1>4. QED BY <1>2, <1>3

\* A daemon writes an entry to its file: WriteEvent in whole or in part, or a
\* crash in the middle of it.
LEMMA EntryInv ==
    ASSUME OrderInv, LockInv, NEW d \in Daemons, pc[d] \in Writing, name' = name,
           NEW e \in Nat,
           files' \in Seq(LogFiles), Len(files') = Len(files),
           files'[fd[d]].data = Append(files[fd[d]].data, e),
           \A g \in 1 .. Len(files) : g # fd[d] => files'[g] = files[g],
           written' \in Nat, written' >= written,
           e = Fragment \/ (e = written' /\ written' > written),
           Leaving
    PROVE  /\ FileTypes' /\ LaterEmpty' /\ Past' /\ LogInOrder'
           /\ \A r : Stored(r) => Stored(r)'
           /\ Stored(e)'
<1>1. /\ fd[d] \in 1 .. Len(files) /\ Len(files) \in Nat
      /\ DOMAIN files = 1 .. Len(files) /\ DOMAIN files' = 1 .. Len(files)
  BY FileRecords DEF OrderInv, FileTypes, NoFile
<1>2. \A g \in 1 .. Len(files) : g > fd[d] => files[g].data = <<>>
  BY <1>1 DEF OrderInv, LaterEmpty, NoFile
<1>3. OneEntry(fd[d], e)
  BY <1>1, <1>2 DEF OneEntry
<1>4. FileTypes'
  <2>1. \A c \in Daemons : fd'[c] \in 0 .. Len(files') /\ (pc'[c] \in Writing => fd'[c] # NoFile)
    <3>1. \A c \in Daemons : fd[c] \in 0 .. Len(files') /\ (pc[c] \in Writing => fd[c] # NoFile)
      BY DEF OrderInv, FileTypes
    <3>2. NoFile \in 0 .. Len(files')
      BY <1>1 DEF NoFile
    <3>3. QED BY <3>1, <3>2 DEF Leaving
  <2>2. name' \in {NoFile, Len(files')}
    BY DEF OrderInv, FileTypes
  <2>3. QED BY <2>1, <2>2 DEF FileTypes
<1>5. LaterEmpty'
  <2>1. \A c \in Daemons : fd[c] # NoFile => c = d
    BY Alone DEF Writing, Locked
  <2>2. QED BY <1>1, <1>2, <2>1 DEF LaterEmpty, Leaving
<1>6. QED BY <1>3, <1>4, <1>5, OneEntryOrder

\* A record is written whole and acknowledged, and synced if that is due.
LEMMA WriteEventFilesInv ==
    ASSUME FilesInv, NEW d \in Daemons, WriteEvent(d)
    PROVE  OrderInv' /\ SyncInv'
<1> DEFINE f == fd[d]
           more == [files EXCEPT ![f].data = Append(@, written + 1)]
<1>1. /\ pc[d] = "running" /\ UNCHANGED <<pc, fd, name, dirty>> /\ written' = written + 1
      /\ written \in Nat /\ recent' = recent \cup {d} /\ acked' = acked \cup {written + 1}
      /\ files' = IF Due(d) THEN [more EXCEPT ![f].synced = Len(more[f].data)] ELSE more
  BY DEF WriteEvent, daemon, FilesInv, OrderInv, FileTypes
<1>2. f \in 1 .. Len(files) /\ FileTypes
  BY <1>1, FileRecords DEF FilesInv, OrderInv, FileTypes, Writing, NoFile
<1>3. /\ files' \in Seq(LogFiles) /\ Len(files') = Len(files)
      /\ files'[f].data = Append(files[f].data, written + 1)
      /\ \A g \in 1 .. Len(files) : g # f => files'[g] = files[g]
      /\ files'[f].synced = IF Due(d) THEN Len(files'[f].data) ELSE files[f].synced
  <2>1. /\ more \in Seq(LogFiles) /\ Len(more) = Len(files)
        /\ more[f].data = Append(files[f].data, written + 1)
        /\ more[f].synced = files[f].synced
        /\ \A g \in 1 .. Len(files) : g # f => more[g] = files[g]
    <3>1. written + 1 \in Nat
      BY <1>1
    <3>2. more = [files EXCEPT ![f] = WithEntry(files[f], written + 1)]
      BY DEF WithEntry
    <3> HIDE DEF more, f
    <3>3. QED BY <1>2, <3>1, <3>2, Appended DEF FileTypes
  <2> HIDE DEF more
  <2>2. CASE ~Due(d)
    BY <1>1, <2>1, <2>2
  <2>3. CASE Due(d)
    <3>1. files' = [more EXCEPT ![f] = WithSync(more[f])] /\ f \in 1 .. Len(more)
      BY <1>1, <1>2, <2>1, <2>3 DEF WithSync
    <3> HIDE DEF f
    <3>2. /\ files' \in Seq(LogFiles) /\ Len(files') = Len(more)
          /\ files'[f].data = more[f].data
          /\ files'[f].synced = Len(more[f].data)
          /\ \A g \in 1 .. Len(more) : g # f => files'[g] = more[g]
      BY <2>1, <3>1, SyncedFile
    <3>3. QED BY <2>1, <2>3, <3>2
  <2>4. QED BY <2>2, <2>3
<1> HIDE DEF more
<1>4. PICK e \in Nat : e = written + 1
  BY <1>1
<1>5. /\ FileTypes' /\ LaterEmpty' /\ Past' /\ LogInOrder'
      /\ \A r : Stored(r) => Stored(r)'
      /\ Stored(e)'
  <2>1. /\ e = written' /\ written' > written /\ written' >= written /\ written' \in Nat
        /\ pc[d] \in Writing /\ name' = name /\ Leaving
    BY <1>1, <1>4 DEF Writing, Leaving
  <2>2. QED BY <1>3, <1>4, <2>1, EntryInv DEF FilesInv
<1>6. AckedStored'
  BY <1>1, <1>4, <1>5 DEF FilesInv, OrderInv, AckedStored
<1>7. SyncInv'
  <2>1. \A g \in DOMAIN files : g # f => files'[g] = files[g]
    BY <1>2, <1>3, FileRecords
  <2>2. /\ files[f].synced \in Nat /\ DOMAIN files' = DOMAIN files /\ f \in DOMAIN files
        /\ Len(files'[f].data) \in Nat \ {0}
    <3>1. files[f].data \in Seq(Nat) /\ files[f].synced \in Nat /\ written + 1 \in Nat
      BY <1>1, <1>2, FileRecords
    <3>2. Len(files'[f].data) = Len(files[f].data) + 1 /\ Len(files[f].data) \in Nat
      BY <1>3, <3>1, AppendProperties
    <3>3. DOMAIN files' = 1 .. Len(files') /\ DOMAIN files = 1 .. Len(files)
      BY <1>2, <1>3, FileRecords
    <3>4. QED BY <1>2, <1>3, <3>1, <3>2, <3>3
  <2>3. files'[f].synced > 0
    BY <1>1, <1>3, <2>2 DEF Due, FilesInv, SyncInv, NoFile
  <2>4. \A c \in Daemons : c # d => fd[c] = NoFile
    BY <1>1, Alone DEF FilesInv, Locked
  <2>5. QED BY <1>1, <2>1, <2>2, <2>3, <2>4 DEF FilesInv, SyncInv, NoFile
<1>8. QED BY <1>5, <1>6, <1>7 DEF OrderInv

\* WriteEvent fails before, in the middle of, or behind its entry.
LEMMA WriteEventFailsFilesInv ==
    ASSUME FilesInv, NEW d \in Daemons, WriteEventFails(d)
    PROVE  OrderInv' /\ SyncInv'
<1>1. /\ pc[d] = "running" /\ pc' = [pc EXCEPT ![d] = "close"]
      /\ UNCHANGED <<fd, name, recent, dirty, acked>> /\ written' = written + 1
      /\ written \in Nat
  BY DEF WriteEventFails, Goto, FilesInv, OrderInv, FileTypes, history
<1>2. \A c \in Daemons : pc'[c] = IF c = d THEN "close" ELSE pc[c]
  BY <1>1 DEF FilesInv, LockInv
<1>3. CASE files' = files
  <2>1. \A c \in Daemons : pc'[c] = pc[c] \/ <<pc[c], pc'[c]>> \in Moves
    BY <1>1, <1>2 DEF Moves
  <2>2. QED BY <1>1, <1>3, <2>1, Idle DEF FilesInv
<1>4. ASSUME NEW e \in Nat, e = Fragment \/ e = written + 1,
             files' = [files EXCEPT ![fd[d]].data = Append(@, e)]
      PROVE  OrderInv' /\ SyncInv'
  <2>1. fd[d] \in 1 .. Len(files) /\ FileTypes /\ files \in Seq(LogFiles)
    BY <1>1, FileRecords DEF FilesInv, OrderInv, FileTypes, Writing, NoFile
  <2>2. files' = [files EXCEPT ![fd[d]] = WithEntry(files[fd[d]], e)]
    BY <1>4 DEF WithEntry
  <2>3. /\ files' \in Seq(LogFiles) /\ Len(files') = Len(files)
        /\ files'[fd[d]].data = Append(files[fd[d]].data, e)
        /\ files'[fd[d]].synced = files[fd[d]].synced
        /\ \A g \in 1 .. Len(files) : g # fd[d] => files'[g] = files[g]
    <3> DEFINE f == fd[d]
    <3>1. f \in 1 .. Len(files) /\ files' = [files EXCEPT ![f] = WithEntry(files[f], e)]
      BY <2>1, <2>2
    <3> HIDE DEF f
    <3>2. /\ files' \in Seq(LogFiles) /\ Len(files') = Len(files)
          /\ files'[f].data = Append(files[f].data, e)
          /\ files'[f].synced = files[f].synced
          /\ \A g \in 1 .. Len(files) : g # f => files'[g] = files[g]
      BY <2>1, <3>1, Appended
    <3>3. QED BY <3>2 DEF f
  <2>4. /\ e = Fragment \/ (e = written' /\ written' > written)
        /\ written' >= written /\ written' \in Nat /\ pc[d] \in Writing /\ name' = name
        /\ Leaving
    BY <1>1, <1>2, <1>4 DEF Writing, Leaving
  <2>5. /\ FileTypes' /\ LaterEmpty' /\ Past' /\ LogInOrder'
        /\ \A r : Stored(r) => Stored(r)'
    BY <2>3, <2>4, EntryInv DEF FilesInv
  <2>6. AckedStored'
    BY <1>1, <2>5 DEF FilesInv, OrderInv, AckedStored
  <2>7. SyncInv'
    <3>1. /\ \A g \in DOMAIN files : g # fd[d] => files'[g] = files[g]
          /\ DOMAIN files' = DOMAIN files
      BY <2>1, <2>3, FileRecords
    <3>2. \A c \in Daemons : c # d => fd[c] = NoFile
      BY <1>1, Alone DEF FilesInv, Locked
    <3>3. QED BY <1>1, <1>2, <2>3, <3>1, <3>2 DEF FilesInv, SyncInv
  <2>8. QED BY <2>5, <2>6, <2>7 DEF OrderInv
<1>5. QED
  <2>1. written + 1 \in Nat /\ Fragment \in Nat
    BY <1>1 DEF Fragment
  <2>2. \/ files' = files
        \/ files' = [files EXCEPT ![fd[d]].data = Append(@, Fragment)]
        \/ files' = [files EXCEPT ![fd[d]].data = Append(@, written + 1)]
    BY DEF WriteEventFails
  <2>3. PICK e \in Nat : e = written + 1
    BY <2>1
  <2>4. CASE files' = [files EXCEPT ![fd[d]].data = Append(@, written + 1)]
    <3>1. files' = [files EXCEPT ![fd[d]].data = Append(@, e)]
      BY <2>3, <2>4
    <3>2. QED BY <1>4, <2>3, <3>1
  <2>5. CASE files' = [files EXCEPT ![fd[d]].data = Append(@, Fragment)]
    BY <1>4, <2>1, <2>5
  <2>6. QED BY <1>3, <2>2, <2>4, <2>5

\* A daemon dies; in the middle of a write it leaves a fragment.
LEMMA DieFilesInv ==
    ASSUME FilesInv, NEW d \in Daemons, Die(d), dirty' = dirty \cup Abandoned(d),
           UNCHANGED <<name, written, acked>>,
           \/ files' = files
           \/ /\ pc[d] = "running"
              /\ files' = [files EXCEPT ![fd[d]].data = Append(@, Fragment)]
    PROVE  OrderInv' /\ SyncInv'
<1>1. /\ pc'[d] = "off" /\ fd'[d] = NoFile
      /\ \A c \in Daemons : c # d => pc'[c] = pc[c] /\ fd'[c] = fd[c]
      /\ recent' = recent \ {d} /\ written \in Nat
  <2>1. pc \in [Daemons -> Places] /\ DOMAIN fd = Daemons
    BY DEF FilesInv, LockInv
  <2>2. pc' = [pc EXCEPT ![d] = "off"] /\ fd' = [fd EXCEPT ![d] = NoFile]
    BY DEF Die, Goto
  <2>3. recent' = recent \ {d} /\ written \in Nat
    BY DEF Die, FilesInv, OrderInv, FileTypes
  <2>4. QED BY <2>1, <2>2, <2>3
<1>2. Leaving
  <2>1. pc'[d] \notin Writing
    BY <1>1 DEF Writing
  <2>2. QED BY <1>1, <2>1 DEF Leaving
<1>3. ASSUME DOMAIN files' = DOMAIN files,
             \A g \in DOMAIN files : g # fd[d] => files'[g] = files[g]
      PROVE  SyncInv'
  <2>1. \A g \in DOMAIN files' \ dirty' : g \notin dirty /\ g \in DOMAIN files /\ g # fd[d]
    BY <1>3, FileRecords DEF Abandoned, NoFile, FilesInv, OrderInv
  <2>2. \A c \in Daemons : c # d /\ fd[c] # NoFile =>
            fd[c] # fd[d] /\ fd[c] \in DOMAIN files
    BY FileRecords DEF FilesInv, LockInv, OrderInv, FileTypes, Writing, Locked, NoFile
  <2>3. ASSUME NEW c \in Daemons, c \in recent'
        PROVE  /\ pc'[c] \in {"running", "close", "unlock", "exit"}
               /\ fd'[c] # NoFile => files'[fd'[c]].synced > 0
    BY <1>1, <1>3, <2>2, <2>3 DEF FilesInv, SyncInv
  <2>4. ASSUME NEW g \in DOMAIN files' \ dirty', files'[g].synced < Len(files'[g].data)
        PROVE  \E c \in Daemons :
                   /\ fd'[c] = g
                   /\ pc'[c] \in {"running", "close"}
                   /\ pc'[c] = "running" => files'[g].synced > 0
    <3>1. files'[g] = files[g] /\ g \in DOMAIN files \ dirty /\ g # fd[d]
      BY <1>3, <2>1
    <3>2. PICK c \in Daemons :
              /\ fd[c] = g
              /\ pc[c] \in {"running", "close"}
              /\ pc[c] = "running" => files[g].synced > 0
      BY <2>4, <3>1 DEF FilesInv, SyncInv
    <3>3. c # d
      BY <3>1, <3>2
    <3>4. QED BY <1>1, <3>1, <3>2, <3>3
  <2>5. QED BY <2>3, <2>4 DEF SyncInv
<1>4. CASE files' = files
  BY <1>1, <1>2, <1>3, <1>4, SameData, OrderKept DEF FilesInv, OrderInv
<1>5. CASE /\ pc[d] = "running"
           /\ files' = [files EXCEPT ![fd[d]].data = Append(@, Fragment)]
  <2>1. /\ fd[d] \in 1 .. Len(files) /\ FileTypes /\ files \in Seq(LogFiles)
        /\ Fragment \in Nat /\ pc[d] \in Writing
    BY <1>5, FileRecords DEF FilesInv, OrderInv, FileTypes, Writing, NoFile, Fragment
  <2>2. files' = [files EXCEPT ![fd[d]] = WithEntry(files[fd[d]], Fragment)]
    BY <1>5 DEF WithEntry
  <2>3. /\ files' \in Seq(LogFiles) /\ Len(files') = Len(files)
        /\ files'[fd[d]].data = Append(files[fd[d]].data, Fragment)
        /\ \A g \in 1 .. Len(files) : g # fd[d] => files'[g] = files[g]
    BY <2>1, <2>2, Appended
  <2>4. /\ FileTypes' /\ LaterEmpty' /\ Past' /\ LogInOrder'
        /\ \A r : Stored(r) => Stored(r)'
    <3>1. /\ name' = name /\ written' \in Nat /\ written' >= written
          /\ OrderInv /\ LockInv
      BY <1>1 DEF FilesInv
    <3>2. QED BY <1>2, <2>1, <2>3, <3>1, EntryInv
  <2>5. AckedStored'
    BY <2>4 DEF FilesInv, OrderInv, AckedStored
  <2>6. SyncInv'
    BY <1>3, <2>1, <2>3, FileRecords
  <2>7. QED BY <2>4, <2>5, <2>6 DEF OrderInv
<1>6. QED BY <1>4, <1>5

\* Synced, or closed with an error.
LEMMA CloseLogFilesInv ==
    ASSUME FilesInv, NEW d \in Daemons, CloseLog(d)
    PROVE  OrderInv' /\ SyncInv'
<1>1. /\ pc[d] = "close" /\ pc'[d] = "unlock" /\ fd'[d] = NoFile
      /\ \A c \in Daemons : c # d => pc'[c] = pc[c] /\ fd'[c] = fd[c]
      /\ UNCHANGED <<recent, name, written, acked>> /\ written \in Nat
  <2>1. pc \in [Daemons -> Places] /\ DOMAIN fd = Daemons
    BY DEF FilesInv, LockInv
  <2>2. /\ pc[d] = "close" /\ pc' = [pc EXCEPT ![d] = "unlock"]
        /\ fd' = [fd EXCEPT ![d] = NoFile]
    BY DEF CloseLog, Goto
  <2>3. UNCHANGED <<recent, name, written, acked>> /\ written \in Nat
    BY DEF CloseLog, FilesInv, OrderInv, FileTypes
  <2>4. QED BY <2>1, <2>2, <2>3
<1>2. /\ fd[d] \in 1 .. Len(files) /\ files \in Seq(LogFiles) /\ FileTypes
      /\ \A c \in Daemons : c # d => fd[c] = NoFile
  BY <1>1, FileRecords, Alone DEF FilesInv, OrderInv, FileTypes, Writing, Locked, NoFile
<1>3. Leaving
  <2>1. pc'[d] \notin Writing
    BY <1>1 DEF Writing
  <2>2. QED BY <1>1, <2>1 DEF Leaving
<1>4. \/ files' = Synced(fd[d]) /\ dirty' = dirty
      \/ files' = files /\ dirty' = dirty \cup {fd[d]}
  BY DEF CloseLog
<1>5. /\ files' \in Seq(LogFiles) /\ Len(files') = Len(files)
      /\ files'[fd[d]].data = files[fd[d]].data
      /\ \A g \in 1 .. Len(files) : g # fd[d] => files'[g] = files[g]
      /\ fd[d] \in dirty' \/ files'[fd[d]].synced = Len(files'[fd[d]].data)
      /\ dirty \subseteq dirty'
  <2>1. CASE files' = Synced(fd[d]) /\ dirty' = dirty
    <3>1. files' = [files EXCEPT ![fd[d]] = WithSync(files[fd[d]])]
      BY <2>1 DEF Synced, WithSync
    <3>2. QED BY <1>2, <2>1, <3>1, SyncedFile
  <2>2. CASE files' = files /\ dirty' = dirty \cup {fd[d]}
    BY <1>2, <2>2
  <2>3. QED BY <1>4, <2>1, <2>2
<1>6. DOMAIN files = 1 .. Len(files) /\ DOMAIN files' = 1 .. Len(files) /\ Len(files) \in Nat
  BY <1>2, <1>5, FileRecords
<1>7. NoData
  BY <1>5, <1>6 DEF NoData
<1>8. OrderInv'
  <2>1. written' \in Nat /\ written' >= written /\ name' \in {NoFile, name} /\ acked' = acked
    BY <1>1
  <2>2. QED BY <1>3, <1>5, <1>7, <2>1, OrderKept DEF FilesInv
<1>9. SyncInv'
  <2>1. ASSUME NEW c \in Daemons, c \in recent'
        PROVE  /\ pc'[c] \in {"running", "close", "unlock", "exit"}
               /\ fd'[c] # NoFile => files'[fd'[c]].synced > 0
    BY <1>1, <1>2, <2>1 DEF FilesInv, SyncInv
  <2>2. ASSUME NEW g \in DOMAIN files' \ dirty', files'[g].synced < Len(files'[g].data)
        PROVE  FALSE
    <3>1. g # fd[d]
      <4>1. files'[fd[d]].data \in Seq(Nat)
        BY <1>2, <1>5, FileRecords
      <4>2. QED BY <1>5, <2>2, <4>1
    <3>2. files'[g] = files[g] /\ g \in DOMAIN files \ dirty /\ g # NoFile
      BY <1>5, <1>6, <2>2, <3>1 DEF NoFile
    <3>3. QED BY <1>2, <2>2, <3>1, <3>2 DEF FilesInv, SyncInv
  <2>3. QED BY <2>1, <2>2 DEF SyncInv
<1>10. QED BY <1>8, <1>9

\* The log is opened, or a new one created, by the daemon that has the lock.
LEMMA OpenAppendOrder ==
    ASSUME OrderInv, LockInv, NEW d \in Daemons, pc[d] \in Locked, OpenAppend(d),
           NEW s \in Seq(LogFiles), Len(s) = Len(files),
           \A g \in 1 .. Len(files) : s[g].data = files[g].data,
           files' = IF name = NoFile THEN Append(s, EmptyFile) ELSE s,
           UNCHANGED <<acked, written>>,
           \A c \in Daemons : c # d /\ pc'[c] \in Writing => pc[c] \in Writing
    PROVE  /\ OrderInv'
           /\ \A g \in 1 .. Len(files) : files'[g] = s[g]
           /\ \A g \in DOMAIN files' : g \notin 1 .. Len(files) =>
                 files'[g].synced = 0 /\ files'[g].data = <<>>
           /\ fd'[d] # NoFile /\ \A c \in Daemons : c # d => fd'[c] = fd[c]
<1>1. /\ Len(files) \in Nat /\ name \in {NoFile, Len(files)} /\ DOMAIN fd = Daemons
      /\ \A c \in Daemons : c # d => fd[c] = NoFile
      /\ written \in Nat
  BY FileRecords, Alone DEF OrderInv, FileTypes, LockInv
<1>2. /\ fd'[d] = (IF name = NoFile THEN Len(files) + 1 ELSE name) /\ name' = fd'[d]
      /\ \A c \in Daemons : c # d => fd'[c] = fd[c]
  BY <1>1 DEF OpenAppend
<1>3. /\ files' \in Seq(LogFiles)
      /\ Len(files') = (IF name = NoFile THEN Len(files) + 1 ELSE Len(files))
      /\ \A g \in 1 .. Len(files) : files'[g] = s[g]
      /\ name = NoFile => /\ files'[Len(files) + 1].data = <<>>
                           /\ files'[Len(files) + 1].synced = 0
  BY <1>1, NewFile
<1>4. DOMAIN files' = 1 .. Len(files') /\ DOMAIN files = 1 .. Len(files)
  BY <1>3, FileRecords DEF OrderInv
<1>5. NoData
  BY <1>1, <1>3 DEF NoData
<1>6. fd'[d] = Len(files') /\ fd'[d] # NoFile
  BY <1>1, <1>2, <1>3 DEF NoFile
<1>7. FileTypes'
  <2>1. ASSUME NEW c \in Daemons, c # d
        PROVE  fd'[c] \in 0 .. Len(files') /\ pc'[c] \notin Writing
    BY <1>1, <1>2, <1>3, <2>1 DEF OrderInv, FileTypes, NoFile
  <2>2. fd'[d] \in 0 .. Len(files') /\ name' \in {NoFile, Len(files')} /\ written' \in Nat
    BY <1>1, <1>2, <1>3, <1>6
  <2>3. QED BY <1>3, <1>6, <2>1, <2>2 DEF FileTypes
<1>8. LaterEmpty'
  BY <1>1, <1>2, <1>3, <1>4, <1>6 DEF LaterEmpty
<1>9. Past' /\ LogInOrder' /\ \A r : Stored(r) => Stored(r)'
  <2>1. written' \in Nat /\ written' >= written
    BY <1>1
  <2>2. QED BY <1>5, <2>1, NoDataOrder
<1>10. AckedStored'
  BY <1>9 DEF OrderInv, AckedStored
<1>11. \A g \in DOMAIN files' : g \notin 1 .. Len(files) =>
          files'[g].synced = 0 /\ files'[g].data = <<>>
  BY <1>1, <1>3, <1>4
<1>12. QED BY <1>2, <1>3, <1>6, <1>7, <1>8, <1>9, <1>10, <1>11 DEF OrderInv

\* Nobody has the log open before.
LEMMA OpenLogFilesInv ==
    ASSUME FilesInv, NEW d \in Daemons, OpenLog(d)
    PROVE  OrderInv' /\ SyncInv'
<1>1. /\ pc[d] = "open" /\ UNCHANGED <<recent, written, acked, dirty>> /\ written \in Nat
      /\ pc \in [Daemons -> Places] /\ files \in Seq(LogFiles)
  BY DEF OpenLog, history, FilesInv, LockInv, OrderInv, FileTypes
<1>2. CASE /\ OpenAppend(d) /\ Goto(d, "notify")
           /\ files' = IF name = NoFile THEN Append(files, EmptyFile) ELSE files
  <2>1. \A c \in Daemons : pc'[c] = IF c = d THEN "notify" ELSE pc[c]
    BY <1>1, <1>2 DEF Goto
  <2>2. /\ OrderInv'
        /\ \A g \in 1 .. Len(files) : files'[g] = files[g]
        /\ \A g \in DOMAIN files' : g \notin 1 .. Len(files) =>
              files'[g].synced = 0 /\ files'[g].data = <<>>
        /\ fd'[d] # NoFile /\ \A c \in Daemons : c # d => fd'[c] = fd[c]
    BY <1>1, <1>2, <2>1, OpenAppendOrder DEF FilesInv, Locked
  <2>3. \A c \in Daemons : fd[c] = NoFile
    BY <1>1, Alone DEF FilesInv, LockInv, Locked, Writing
  <2>4. SyncInv'
    <3>1. ASSUME NEW c \in Daemons, c \in recent'
          PROVE  /\ pc'[c] \in {"running", "close", "unlock", "exit"}
                 /\ fd'[c] # NoFile => files'[fd'[c]].synced > 0
      BY <1>1, <2>1, <2>2, <2>3, <3>1 DEF FilesInv, SyncInv
    <3>2. ASSUME NEW g \in DOMAIN files' \ dirty', files'[g].synced < Len(files'[g].data)
          PROVE  FALSE
      <4>1. g \in 1 .. Len(files)
        BY <2>2, <3>2
      <4>2. files'[g] = files[g] /\ g \in DOMAIN files \ dirty /\ g # NoFile
        BY <1>1, <2>2, <3>2, <4>1, FileRecords DEF FilesInv, OrderInv, NoFile
      <4>3. QED BY <2>3, <3>2, <4>2 DEF FilesInv, SyncInv
    <3>3. QED BY <3>1, <3>2 DEF SyncInv
  <2>5. QED BY <2>2, <2>4
<1>3. CASE Goto(d, "unlock") /\ UNCHANGED <<fd, name, files>>
  <2>1. \A c \in Daemons : pc'[c] = pc[c] \/ <<pc[c], pc'[c]>> \in Moves
    BY <1>1, <1>3 DEF Goto, Moves
  <2>2. QED BY <1>1, <1>3, <2>1, Idle DEF FilesInv
<1>4. QED BY <1>2, <1>3 DEF OpenLog

\* The file that is left is synced, or its sync has failed.
LEMMA HandleHupFilesInv ==
    ASSUME FilesInv, NEW d \in Daemons, HandleHup(d)
    PROVE  OrderInv' /\ SyncInv'
<1>1. /\ UNCHANGED <<pc, written, acked>> /\ written \in Nat
      /\ files \in Seq(LogFiles) /\ FileTypes
  BY DEF HandleHup, FilesInv, OrderInv, FileTypes
<1>2. CASE UNCHANGED <<writer, name, dirty>>
  BY <1>1, <1>2, Idle DEF writer, FilesInv
<1>3. ASSUME fd[d] # NoFile, OpenAppend(d), recent' = recent \ {d},
             NEW s \in Seq(LogFiles), Len(s) = Len(files), s[fd[d]].data = files[fd[d]].data,
             \A g \in 1 .. Len(files) : g # fd[d] => s[g] = files[g],
             files' = IF name = NoFile THEN Append(s, EmptyFile) ELSE s,
             dirty \subseteq dirty',
             fd[d] \in dirty' \/ s[fd[d]].synced = Len(s[fd[d]].data)
      PROVE  OrderInv' /\ SyncInv'
  <2>1. pc[d] \in Writing /\ pc[d] \in Locked /\ fd[d] \in 1 .. Len(files)
    BY <1>3, FileRecords DEF FilesInv, LockInv, OrderInv, FileTypes, Writing, Locked, NoFile
  <2>2. \A g \in 1 .. Len(files) : s[g].data = files[g].data
    BY <1>3
  <2>3. /\ OrderInv'
        /\ \A g \in 1 .. Len(files) : files'[g] = s[g]
        /\ \A g \in DOMAIN files' : g \notin 1 .. Len(files) =>
              files'[g].synced = 0 /\ files'[g].data = <<>>
        /\ fd'[d] # NoFile /\ \A c \in Daemons : c # d => fd'[c] = fd[c]
    BY <1>1, <1>3, <2>1, <2>2, OpenAppendOrder DEF FilesInv
  <2>4. \A c \in Daemons : c # d => fd[c] = NoFile
    BY <2>1, Alone DEF FilesInv
  <2>5. SyncInv'
    <3>1. ASSUME NEW c \in Daemons, c \in recent'
          PROVE  /\ pc'[c] \in {"running", "close", "unlock", "exit"}
                 /\ fd'[c] # NoFile => files'[fd'[c]].synced > 0
      BY <1>1, <1>3, <2>3, <2>4, <3>1 DEF FilesInv, SyncInv
    <3>2. ASSUME NEW g \in DOMAIN files' \ dirty', files'[g].synced < Len(files'[g].data)
          PROVE  FALSE
      <4>1. g \in 1 .. Len(files)
        BY <2>3, <3>2
      <4>2. g # fd[d]
        <5>1. files'[fd[d]] = s[fd[d]] /\ s[fd[d]].data \in Seq(Nat)
          BY <1>1, <1>3, <2>1, <2>3, FileRecords
        <5>2. QED BY <1>3, <3>2, <5>1
      <4>3. files'[g] = files[g] /\ g \in DOMAIN files \ dirty /\ g # NoFile
        BY <1>1, <1>3, <2>3, <3>2, <4>1, <4>2, FileRecords DEF NoFile
      <4>4. QED BY <2>4, <3>2, <4>2, <4>3 DEF FilesInv, SyncInv
    <3>3. QED BY <3>1, <3>2 DEF SyncInv
  <2>6. QED BY <2>3, <2>5
<1>4. CASE /\ fd[d] # NoFile /\ OpenAppend(d) /\ recent' = recent \ {d}
           /\ files' = (IF name = NoFile THEN Append(Synced(fd[d]), EmptyFile) ELSE Synced(fd[d]))
           /\ dirty' = dirty
  <2>1. fd[d] \in 1 .. Len(files)
    BY <1>4, FileRecords DEF FilesInv, OrderInv, FileTypes, NoFile
  <2> DEFINE s == Synced(fd[d])
  <2>2. s = [files EXCEPT ![fd[d]] = WithSync(files[fd[d]])]
    BY DEF Synced, WithSync
  <2>3. files' = IF name = NoFile THEN Append(s, EmptyFile) ELSE s
    BY <1>4
  <2> HIDE DEF s
  <2>4. /\ s \in Seq(LogFiles) /\ Len(s) = Len(files) /\ s[fd[d]].data = files[fd[d]].data
        /\ s[fd[d]].synced = Len(files[fd[d]].data)
        /\ \A g \in 1 .. Len(files) : g # fd[d] => s[g] = files[g]
    BY <1>1, <2>1, <2>2, SyncedFile
  <2>5. QED BY <1>3, <1>4, <2>3, <2>4
<1>5. CASE /\ fd[d] # NoFile /\ OpenAppend(d) /\ recent' = recent \ {d}
           /\ files' = (IF name = NoFile THEN Append(files, EmptyFile) ELSE files)
           /\ dirty' = dirty \cup {fd[d]}
  BY <1>1, <1>3, <1>5
<1>6. QED BY <1>2, <1>4, <1>5 DEF HandleHup, Reopen, writer

\* logrotate makes an empty file.
LEMMA CreateFilesInv ==
    ASSUME FilesInv, Create
    PROVE  OrderInv' /\ SyncInv'
<1>1. /\ UNCHANGED <<pc, fd, recent, written, acked, dirty>> /\ written \in Nat
      /\ files \in Seq(LogFiles) /\ FileTypes
  BY DEF Create, daemon, history, FilesInv, OrderInv, FileTypes
<1>2. CASE UNCHANGED <<files, name>>
  BY <1>1, <1>2, Idle DEF FilesInv
<1>3. CASE files' = Append(files, EmptyFile) /\ name' = Len(files) + 1
  <2>1. /\ files' \in Seq(LogFiles) /\ Len(files') = Len(files) + 1
        /\ \A g \in 1 .. Len(files) : files'[g] = files[g]
        /\ files'[Len(files) + 1].data = <<>> /\ files'[Len(files) + 1].synced = 0
    BY <1>1, <1>3, NewFile
  <2>2. /\ Len(files) \in Nat /\ DOMAIN files = 1 .. Len(files)
        /\ DOMAIN files' = 1 .. Len(files) + 1
    BY <1>1, <2>1, FileRecords
  <2>3. NoData
    BY <2>1, <2>2 DEF NoData
  <2>4. Past' /\ LogInOrder' /\ \A r : Stored(r) => Stored(r)'
    <3>1. written' \in Nat /\ written' >= written
      BY <1>1
    <3>2. QED BY <2>3, <3>1, NoDataOrder DEF FilesInv
  <2>5. AckedStored'
    BY <1>1, <2>4 DEF FilesInv, OrderInv, AckedStored
  <2>6. FileTypes'
    BY <1>1, <1>3, <2>1, <2>2 DEF FileTypes
  <2>7. LaterEmpty'
    BY <1>1, <2>1, <2>2 DEF FilesInv, OrderInv, LaterEmpty
  <2>8. SyncInv'
    <3>1. \A c \in Daemons : fd[c] # NoFile => fd[c] \in 1 .. Len(files)
      <4>1. \A c \in Daemons : fd[c] \in 0 .. Len(files)
        BY <1>1 DEF FileTypes
      <4>2. QED BY <2>2, <4>1 DEF NoFile
    <3>2. QED BY <1>1, <2>1, <2>2, <3>1 DEF FilesInv, SyncInv
  <2>9. QED BY <2>4, <2>5, <2>6, <2>7, <2>8 DEF OrderInv
<1>4. QED BY <1>2, <1>3 DEF Create

\* The invariant holds in every reachable state.
LEMMA FilesInvariant == Spec => []FilesInv
<1>1. Init => FilesInv
  <2> SUFFICES ASSUME Init PROVE FilesInv
    OBVIOUS
  <2>2. files = <<>> /\ files \in Seq(LogFiles) /\ Len(files) = 0 /\ DOMAIN files = {}
    BY DEF Init
  <2>3. OrderInv
    BY <2>2 DEF Init, OrderInv, FileTypes, LaterEmpty, Past, LogInOrder, AckedStored, NoFile,
                Writing
  <2>4. SyncInv
    BY <2>2 DEF Init, SyncInv
  <2>5. QED BY <2>3, <2>4, InitLock DEF FilesInv
<1>2. FilesInv /\ [Next]_vars => FilesInv'
  <2> SUFFICES ASSUME FilesInv, [Next]_vars PROVE FilesInv'
    OBVIOUS
  <2> USE DEF FilesInv
  <2>1. LockInv'
    BY NextLock
  <2>2. pc \in [Daemons -> Places] /\ written \in Nat
    BY DEF LockInv, OrderInv, FileTypes
  <2>3. CASE UNCHANGED vars
    BY <2>1, <2>2, <2>3, Idle DEF vars, daemon, writer, history
  <2>4. CASE Rename
    BY <2>1, <2>2, <2>4, Idle DEF Rename, daemon, writer, history
  <2>5. CASE Create
    BY <2>1, <2>5, CreateFilesInv
  <2>6. ASSUME NEW d \in Daemons, NEW sig, Deliver(d, sig),
               UNCHANGED <<files, name, written, acked>>,
               dirty' = IF pc'[d] = "off" THEN dirty \cup Abandoned(d) ELSE dirty
        PROVE  OrderInv' /\ SyncInv'
    <3>1. CASE pc[d] \in {"lock", "open", "notify", "close", "unlock", "exit"}
      <4>1. Die(d) /\ pc'[d] = "off"
        BY <2>2, <2>6, <3>1 DEF Deliver, Die, Goto
      <4>2. QED BY <2>6, <4>1, DieFilesInv
    <3>2. CASE pc[d] = "running"
      <4>1. UNCHANGED <<pc, fd, recent>> /\ pc'[d] # "off"
        BY <2>6, <3>2 DEF Deliver
      <4>2. QED BY <2>2, <2>6, <4>1, Idle
    <3>3. CASE pc[d] = "off"
      <4>1. UNCHANGED <<pc, fd, recent>> /\ Abandoned(d) = {}
        BY <2>6, <3>3 DEF Deliver, daemon, Abandoned, LockInv, Writing
      <4>2. QED BY <2>2, <2>6, <4>1, Idle
    <3>4. QED BY <2>2, <3>1, <3>2, <3>3 DEF Places, Locked
  <2>7. CASE PostRotate
    BY <2>1, <2>6, <2>7, DaemonAssumption DEF PostRotate, DaemonAssumption
  <2>8. ASSUME NEW d \in Daemons, NEW sig, Signal(d, sig)
        PROVE  OrderInv' /\ SyncInv'
    BY <2>6, <2>8 DEF Signal
  <2>9. ASSUME NEW d \in Daemons, IntervalPasses(d) \/ Take(d) \/ HandlerReturns(d)
        PROVE  OrderInv' /\ SyncInv'
    <3>1. /\ UNCHANGED <<pc, fd, files, name, written, acked, dirty>>
          /\ recent' \subseteq recent
      BY <2>9 DEF IntervalPasses, Take, HandlerReturns, daemon, writer, history
    <3>2. QED BY <2>2, <3>1, Idle
  <2>10. ASSUME NEW d \in Daemons,
                Start(d) \/ Acquire(d) \/ Notify(d) \/ RunReturns(d) \/ Unlock(d)
         PROVE  OrderInv' /\ SyncInv'
    <3>1. UNCHANGED <<fd, files, recent, name, written, acked, dirty>>
      BY <2>10 DEF Start, Acquire, Notify, RunReturns, Unlock, writer, history
    <3>2. PICK q : pc' = [pc EXCEPT ![d] = q] /\ <<pc[d], q>> \in Moves
      BY <2>10 DEF Start, Acquire, Notify, RunReturns, Unlock, Goto, Moves
    <3>3. \A c \in Daemons : pc'[c] = pc[c] \/ <<pc[c], pc'[c]>> \in Moves
      BY <2>2, <3>2
    <3>4. QED BY <2>2, <3>1, <3>3, Idle
  <2>11. ASSUME NEW d \in Daemons, Crash(d)
         PROVE  OrderInv' /\ SyncInv'
    <3>1. Die(d) /\ dirty' = dirty \cup Abandoned(d) /\ UNCHANGED <<name, written, acked>>
      BY <2>11 DEF Crash
    <3>2. \/ files' = files
          \/ /\ pc[d] = "running"
             /\ files' = [files EXCEPT ![fd[d]].data = Append(@, Fragment)]
      BY <2>11 DEF Crash
    <3>3. QED BY <3>1, <3>2, DieFilesInv
  <2>12. ASSUME NEW d \in Daemons, Exit(d)
         PROVE  OrderInv' /\ SyncInv'
    <3>1. Abandoned(d) = {}
      BY <2>12 DEF Exit, Abandoned, LockInv, Writing
    <3>2. QED BY <2>12, <3>1, DieFilesInv DEF Exit, history
  <2>13. OrderInv' /\ SyncInv'
    BY <2>3, <2>4, <2>5, <2>7, <2>8, <2>9, <2>10, <2>11, <2>12, OpenLogFilesInv,
       WriteEventFilesInv, WriteEventFailsFilesInv, HandleHupFilesInv, CloseLogFilesInv DEF Next
  <2>14. QED BY <2>1, <2>13
<1>3. QED BY <1>1, <1>2, PTL DEF Spec

\* Across rotations, restarts, crashes and daemons started at the same time the
\* files hold the records in the order they were written, none of them twice.
THEOREM RecordsStayInOrder == Spec => []LogInOrder
<1>1. FilesInv => LogInOrder
  BY DEF FilesInv, OrderInv
<1>2. QED BY <1>1, FilesInvariant, PTL

\* Records are numbered from one.
LEMMA AckedAreRecords == Spec => [](Fragment \notin acked)
<1>1. Init => Fragment \notin acked
  BY DEF Init
<1>2. ASSUME FilesInv, Fragment \notin acked, [Next]_vars PROVE (Fragment \notin acked)'
  <2>1. written \in Nat
    BY <1>2 DEF FilesInv, OrderInv, FileTypes
  <2>2. acked' = acked \/ acked' = acked \cup {written + 1}
    <3>1. CASE UNCHANGED vars
      BY <3>1 DEF vars, history
    <3>2. CASE Rename \/ Create \/ PostRotate
      BY <3>2 DEF Rename, Create, PostRotate, history
    <3>3. ASSUME NEW d \in Daemons,
                 \/ \E sig \in {"HUP", "TERM"} : Signal(d, sig)
                 \/ IntervalPasses(d) \/ Crash(d) \/ Start(d) \/ Acquire(d) \/ OpenLog(d)
                 \/ Notify(d) \/ WriteEvent(d) \/ WriteEventFails(d)
                 \/ Take(d) \/ HandleHup(d) \/ HandlerReturns(d)
                 \/ RunReturns(d) \/ CloseLog(d) \/ Unlock(d) \/ Exit(d)
          PROVE  acked' = acked \/ acked' = acked \cup {written + 1}
      BY <3>3 DEF Signal, IntervalPasses, Crash, Start, Acquire, OpenLog, Notify, WriteEvent,
                  WriteEventFails, Take, HandleHup, HandlerReturns, RunReturns, CloseLog, Unlock,
                  Exit, history
    <3>4. QED BY <1>2, <3>1, <3>2, <3>3 DEF Next
  <2>3. QED BY <1>2, <2>1, <2>2 DEF Fragment
<1>3. QED BY <1>1, <1>2, FilesInvariant, PTL DEF Spec

\* There are finitely many fragments.
LEMMA FinitelyTorn ==
    ASSUME FileTypes
    PROVE  IsFiniteSet(UNION {{f} \X TornIn(f) : f \in DOMAIN files})
<1> DEFINE Family == {{f} \X TornIn(f) : f \in DOMAIN files}
           Named  == [f \in DOMAIN files |-> {f} \X TornIn(f)]
<1>1. DOMAIN files = 1 .. Len(files) /\ Len(files) \in Nat
  BY LenProperties DEF FileTypes
<1>2. IsFiniteSet(DOMAIN files)
  BY <1>1, FS_Interval
<1>3. Named \in Surjection(DOMAIN files, Family)
  BY DEF Surjection
<1>4. IsFiniteSet(Family)
  BY <1>2, <1>3, FS_Surjection
<1>5. ASSUME NEW f \in DOMAIN files PROVE IsFiniteSet({f} \X TornIn(f))
  <2>1. files[f].data \in Seq(Nat)
    <3>1. files \in Seq(LogFiles) /\ f \in 1 .. Len(files)
      BY <1>1, <1>5 DEF FileTypes
    <3>2. files[f] \in LogFiles
      BY <3>1, ElementOfSeq
    <3>3. QED BY <3>2 DEF LogFiles
  <2>2. DOMAIN files[f].data = 1 .. Len(files[f].data) /\ Len(files[f].data) \in Nat
    BY <2>1, LenProperties
  <2>3. IsFiniteSet(TornIn(f))
    <3>1. IsFiniteSet(1 .. Len(files[f].data))
      <4>1. \A n \in Nat : IsFiniteSet(1 .. n)
        BY FS_Interval
      <4>2. QED BY <2>2, <4>1
    <3>2. TornIn(f) \in SUBSET (1 .. Len(files[f].data))
      BY <2>2 DEF TornIn
    <3>3. QED BY <3>1, <3>2, FS_Subset
  <2>4. QED BY <2>3, FS_Singleton, FS_Product
<1>6. \A T \in Family : IsFiniteSet(T)
  BY <1>5
<1>7. QED BY <1>4, <1>6, FS_UNION

\* A record that cannot be read among the lines of its file has a fragment
\* before it, and no two have the same.
LEMMA StoredLines ==
    ASSUME FileTypes, AckedStored, Fragment \notin acked
    PROVE  LET torn == UNION {{f} \X TornIn(f) : f \in DOMAIN files}
               lost == acked \ UNION {ReadableLines(f) : f \in DOMAIN files}
           IN  Cardinality(lost) <= Cardinality(torn)
<1> DEFINE readable == UNION {ReadableLines(f) : f \in DOMAIN files}
           torn     == UNION {{f} \X TornIn(f) : f \in DOMAIN files}
           lost     == acked \ readable
           Before(r, p) == p[1] \in DOMAIN files /\ files[p[1]].data[p[2] + 1] = r
           Choice(r) == CHOOSE p \in torn : Before(r, p)
           place    == [r \in lost |-> Choice(r)]
<1>1. IsFiniteSet(torn)
  BY FinitelyTorn
<1>2. ASSUME NEW r \in lost PROVE \E p \in torn : Before(r, p)
  <2>1. PICK f \in DOMAIN files : \E i \in DOMAIN files[f].data : files[f].data[i] = r
    BY <1>2 DEF AckedStored, Stored
  <2>2. PICK i \in DOMAIN files[f].data : files[f].data[i] = r
    BY <2>1
  <2>3. files[f].data \in Seq(Nat)
    <3>1. files \in Seq(LogFiles) /\ f \in 1 .. Len(files)
      BY LenProperties DEF FileTypes
    <3>2. files[f] \in LogFiles
      BY <3>1, ElementOfSeq
    <3>3. QED BY <3>2 DEF LogFiles
  <2>4. i > 1 /\ files[f].data[i - 1] = Fragment
    <3>1. r \notin ReadableLines(f) /\ r # Fragment
      BY <1>2
    <3>2. i - 1 \in TornIn(f)
      BY <2>2, <3>1 DEF ReadableLines, TornIn
    <3>3. i - 1 \in Nat \ {0} /\ i \in Nat
      BY <2>2, <2>3, <3>2, LenProperties DEF TornIn
    <3>4. QED BY <3>2, <3>3 DEF TornIn
  <2>5. i \in Nat /\ i - 1 \in DOMAIN files[f].data /\ (i - 1) + 1 = i
    BY <2>3, <2>4, LenProperties
  <2>6. i - 1 \in TornIn(f)
    BY <2>4, <2>5 DEF TornIn
  <2>7. <<f, i - 1>> \in torn /\ Before(r, <<f, i - 1>>)
    BY <2>2, <2>5, <2>6
  <2>8. QED BY <2>7
<1>3. \A r \in lost : Choice(r) \in torn /\ Before(r, Choice(r))
  BY <1>2
<1>4. place \in Injection(lost, torn)
  <2> HIDE DEF lost, torn, Choice, Before
  <2>1. place \in [lost -> torn]
    BY <1>3
  <2>2. ASSUME NEW r \in lost, NEW q \in lost, place[r] = place[q] PROVE r = q
    <3>1. Choice(r) = Choice(q)
      BY <2>2
    <3>2. Before(r, Choice(r)) /\ Before(q, Choice(r))
      BY <1>3, <3>1
    <3>3. QED BY <3>2 DEF Before
  <2>3. QED BY <2>1, <2>2 DEF Injection, IsInjective
<1>5. Cardinality(lost) <= Cardinality(torn)
  <2> HIDE DEF lost, torn, place
  <2>1. QED BY <1>1, <1>4, FS_Injection
<1>6. QED BY <1>5

\* Where no fragment is in a file, all its frames can be read.
LEMMA StoredFrames ==
    ASSUME AckedStored, NEW r \in acked \ UNION {ReadableFrames(f) : f \in DOMAIN files}
    PROVE  \E f \in DOMAIN files :
              TornIn(f) # {} /\ \E i \in DOMAIN files[f].data : files[f].data[i] = r
<1>1. PICK f \in DOMAIN files : \E i \in DOMAIN files[f].data : files[f].data[i] = r
  BY DEF AckedStored, Stored
<1>2. r \notin ReadableFrames(f)
  OBVIOUS
<1>3. TornIn(f) # {}
  BY <1>1, <1>2 DEF ReadableFrames
<1>4. QED BY <1>1, <1>3

LEMMA StoredIsKept ==
    ASSUME FileTypes, AckedStored, Fragment \notin acked
    PROVE  AckedKept
BY StoredLines, StoredFrames DEF AckedKept

\* No record that WriteEvent has acknowledged is lost to a list but for a
\* fragment: one record for each in an uncompressed log, and in the gz and zstd
\* formats those of the file it is in, whose scan fails.
THEOREM AcknowledgedAreKept == Spec => []AckedKept
<1>1. FilesInv /\ Fragment \notin acked => AckedKept
  BY StoredIsKept DEF FilesInv, OrderInv
<1>2. QED BY <1>1, FilesInvariant, AckedAreRecords, PTL

\* What a power failure could take is at the end of an open file, behind the
\* first record written there.
THEOREM OnlyTheEndIsAtRisk == Spec => []LossBounded
<1>1. FilesInv => LossBounded
  BY DEF FilesInv, SyncInv, LossBounded
<1>2. QED BY <1>1, FilesInvariant, PTL
=============================================================================
