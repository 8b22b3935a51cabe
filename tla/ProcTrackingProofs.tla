------------------------- MODULE ProcTrackingProofs -------------------------
(***************************************************************************)
(* Proofs about ProcTracking, for every number of processes, threads, CPUs *)
(* and ring slots.  Whatever samples are lost or come out of order, the    *)
(* maps and the log of precd are well typed, no event id is given out      *)
(* twice, and every proc_end row joins exactly one earlier proc_start row  *)
(* of its pid, which no other proc_end row joins.                          *)
(*                                                                         *)
(* With one CPU and no loss, proc_end rows are moreover for the process    *)
(* their start recorded, with its duration and its status, and the maps    *)
(* are empty when nothing runs.                                            *)
(*                                                                         *)
(* The first part is about the kernel side alone: its invariant, and what  *)
(* a step of it may do to a process.                                       *)
(***************************************************************************)
EXTENDS ProcTracking, FiniteSetTheorems, SequenceTheorems, TLAPS

-----------------------------------------------------------------------------
(* The kernel side.                                                        *)

\* A thread in use belongs to a process whose leader's id is in use too, and
\* only a leader stays as a zombie.
GroupsOK ==
    /\ \A t \in Tids : phase[t] = "free" <=> group[t] = NoTid
    /\ \A t \in Tids : group[t] # NoTid => group[group[t]] = group[t]
    /\ \A t \in Tids : phase[t] = "zombie" => group[t] = t

KernelInv == KernelTypeOK /\ GroupsOK

\* The fields of a sample are those of the thread that emits it.
LEMMA SampleType ==
    ASSUME KernelTypeOK, NEW type \in SampleTypes, NEW p \in Pids,
           NEW t \in Tids, NEW s \in Int, NEW x \in Int
    PROVE  Sample(type, p, t, s, x) \in Samples
BY DEF Sample, Samples, KernelTypeOK

\* A sample that is output ends up in the ring or in the lost count.
LEMMA OutputType ==
    ASSUME KernelTypeOK, NEW c \in CPUs, NEW x \in Samples, Output(c, x)
    PROVE  /\ clock' \in Nat
           /\ ring' \in [CPUs -> Seq(Record)]
           /\ lost' \in [CPUs -> Nat]
           /\ dropped' \in Nat
<1> DEFINE records == IF lost[c] > 0 THEN <<LostRecord(lost[c]), x>> ELSE <<x>>
<1>1. LostRecord(lost[c]) \in LostRecords
  BY DEF LostRecord, LostRecords, KernelTypeOK
<1>2. records \in Seq(Record)
  <2>1. CASE lost[c] > 0
    <3>1. LostRecord(lost[c]) \in Record /\ x \in Record
      BY <1>1 DEF Record
    <3> HIDE DEF records
    <3>2. records = <<LostRecord(lost[c]), x>>
      BY <2>1 DEF records
    <3>3. QED BY <3>1, <3>2
  <2>2. CASE ~(lost[c] > 0)
    BY <2>2 DEF Record
  <2>3. QED BY <2>1, <2>2
<1> HIDE DEF records
<1>3. ring[c] \o records \in Seq(Record)
  BY <1>2 DEF KernelTypeOK
<1>4. /\ clock' = clock + 1
      /\ \/ /\ ring' = [ring EXCEPT ![c] = @ \o records]
            /\ lost' = [lost EXCEPT ![c] = 0]
            /\ dropped' = dropped
         \/ /\ ring' = ring
            /\ lost' = [lost EXCEPT ![c] = @ + 1]
            /\ dropped' = dropped + 1
  BY DEF Output, records
<1>5. clock' \in Nat /\ dropped' \in Nat
  BY <1>4 DEF KernelTypeOK
<1>6. ring' \in [CPUs -> Seq(Record)]
  <2> DEFINE S == Seq(Record)
  <2>1. ring \in [CPUs -> S] /\ ring[c] \o records \in S
    BY <1>3 DEF KernelTypeOK
  <2> HIDE DEF S
  <2>2. ring' \in [CPUs -> S]
    BY <1>4, <2>1
  <2>3. QED BY <2>2 DEF S
<1>7. lost' \in [CPUs -> Nat]
  BY <1>4 DEF KernelTypeOK
<1>8. QED
  BY <1>5, <1>6, <1>7

LEMMA DoomType ==
    ASSUME KernelTypeOK, NEW ts \in SUBSET Tids, NEW s \in Int, Doom(ts, s)
    PROVE  doomed' \subseteq Tids /\ code' \in [Tids -> Int]
BY DEF Doom, KernelTypeOK

LEMMA GroupInPids ==
    ASSUME KernelInv, NEW t \in Tids, phase[t] # "free"
    PROVE  group[t] \in Pids
BY DEF KernelInv, KernelTypeOK, GroupsOK

\* Initially no thread exists.
LEMMA KernelInitInv == KernelInit => KernelInv
BY KernelAssumption
   DEF KernelInit, KernelInv, KernelTypeOK, GroupsOK, Phases, NoTid, NoStatus

LEMMA RingsUnchanged ==
    ASSUME KernelTypeOK, UNCHANGED rings
    PROVE  /\ clock' \in Nat
           /\ ring' \in [CPUs -> Seq(Record)]
           /\ lost' \in [CPUs -> Nat]
           /\ dropped' \in Nat
BY DEF KernelTypeOK, rings

\* Every step of the kernel keeps its invariant.
LEMMA KernelNextInv == KernelInv /\ KernelNext => KernelInv'
<1> SUFFICES ASSUME KernelInv, KernelNext PROVE KernelInv'
  OBVIOUS
<1> USE KernelAssumption
<1>0. KernelTypeOK /\ GroupsOK
  BY DEF KernelInv
<1>1. ASSUME NEW p \in Pids, Fork(p) PROVE KernelInv'
  <2>4. /\ clock' \in Nat
        /\ ring' \in [CPUs -> Seq(Record)]
        /\ lost' \in [CPUs -> Nat]
        /\ dropped' \in Nat
    BY <1>0, <1>1, RingsUnchanged DEF Fork
  <2>5. /\ phase' \in [Tids -> Phases]
        /\ group' \in [Tids -> Pids \cup {NoTid}]
        /\ code' \in [Tids -> Int]
        /\ doomed' \subseteq Tids
        /\ born' \in [Pids -> Nat]
    BY <1>0, <1>1 DEF Fork, KernelTypeOK, Phases, NoStatus, NoTid, Running, rings
  <2>6. GroupsOK'
    BY <1>0, <1>1 DEF Fork, KernelTypeOK, GroupsOK, NoTid, Running, rings, Living, Members
  <2>7. QED BY <2>4, <2>5, <2>6 DEF KernelInv, KernelTypeOK
<1>2. ASSUME NEW p \in Pids, Kill(p) PROVE KernelInv'
  <2>4. /\ clock' \in Nat
        /\ ring' \in [CPUs -> Seq(Record)]
        /\ lost' \in [CPUs -> Nat]
        /\ dropped' \in Nat
    BY <1>0, <1>2, RingsUnchanged DEF Kill
  <2>3. doomed' \subseteq Tids /\ code' \in [Tids -> Int]
    <3>1. Doom(Living(p) \ doomed, NoStatus)
      BY <1>2 DEF Kill
    <3>2. Living(p) \ doomed \in SUBSET Tids
      BY DEF Living, Members
    <3>3. NoStatus \in Int
      BY DEF NoStatus
    <3>4. QED BY <1>0, <3>1, <3>2, <3>3, DoomType
  <2>5. /\ phase' \in [Tids -> Phases]
        /\ group' \in [Tids -> Pids \cup {NoTid}]
        /\ code' \in [Tids -> Int]
        /\ doomed' \subseteq Tids
        /\ born' \in [Pids -> Nat]
    BY <1>0, <1>2, <2>3 DEF Kill, KernelTypeOK, Phases, NoStatus, NoTid, Running, rings
  <2>6. GroupsOK'
    BY <1>0, <1>2 DEF Kill, KernelTypeOK, GroupsOK, NoTid, Running, rings, Living, Members
  <2>7. QED BY <2>4, <2>5, <2>6 DEF KernelInv, KernelTypeOK
<1>3. ASSUME NEW p \in Pids, Reap(p) PROVE KernelInv'
  <2>4. /\ clock' \in Nat
        /\ ring' \in [CPUs -> Seq(Record)]
        /\ lost' \in [CPUs -> Nat]
        /\ dropped' \in Nat
    BY <1>0, <1>3, RingsUnchanged DEF Reap
  <2>5. /\ phase' \in [Tids -> Phases]
        /\ group' \in [Tids -> Pids \cup {NoTid}]
        /\ code' \in [Tids -> Int]
        /\ doomed' \subseteq Tids
        /\ born' \in [Pids -> Nat]
    BY <1>0, <1>3 DEF Reap, KernelTypeOK, Phases, NoStatus, NoTid, Running, rings
  <2>6. GroupsOK'
    BY <1>0, <1>3 DEF Reap, KernelTypeOK, GroupsOK, NoTid, Running, rings, Living, Members
  <2>7. QED BY <2>4, <2>5, <2>6 DEF KernelInv, KernelTypeOK
<1>4. ASSUME NEW t \in Tids, NEW w \in Tids, Clone(t, w) PROVE KernelInv'
  <2>4. /\ clock' \in Nat
        /\ ring' \in [CPUs -> Seq(Record)]
        /\ lost' \in [CPUs -> Nat]
        /\ dropped' \in Nat
    BY <1>0, <1>4, RingsUnchanged DEF Clone
  <2>5. /\ phase' \in [Tids -> Phases]
        /\ group' \in [Tids -> Pids \cup {NoTid}]
        /\ code' \in [Tids -> Int]
        /\ doomed' \subseteq Tids
        /\ born' \in [Pids -> Nat]
    BY <1>0, <1>4 DEF Clone, KernelTypeOK, Phases, NoStatus, NoTid, Running, rings
  <2>6. GroupsOK'
    BY <1>0, <1>4 DEF Clone, KernelTypeOK, GroupsOK, NoTid, Running, rings, Living, Members
  <2>7. QED BY <2>4, <2>5, <2>6 DEF KernelInv, KernelTypeOK
<1>5. ASSUME NEW t \in Tids, DeThread(t) PROVE KernelInv'
  <2>4. /\ clock' \in Nat
        /\ ring' \in [CPUs -> Seq(Record)]
        /\ lost' \in [CPUs -> Nat]
        /\ dropped' \in Nat
    BY <1>0, <1>5, RingsUnchanged DEF DeThread
  <2>3. doomed' \subseteq Tids /\ code' \in [Tids -> Int]
    <3>1. Doom(Living(group[t]) \ {t}, NoStatus)
      BY <1>5 DEF DeThread
    <3>2. QED BY <1>0, <3>1, DoomType DEF Living, Members, NoStatus, KernelTypeOK
  <2>5. /\ phase' \in [Tids -> Phases]
        /\ group' \in [Tids -> Pids \cup {NoTid}]
        /\ code' \in [Tids -> Int]
        /\ doomed' \subseteq Tids
        /\ born' \in [Pids -> Nat]
    BY <1>0, <1>5, <2>3 DEF DeThread, KernelTypeOK, Phases, NoStatus, NoTid, Running, rings
  <2>6. GroupsOK'
    BY <1>0, <1>5 DEF DeThread, KernelTypeOK, GroupsOK, NoTid, Running, rings, Living, Members
  <2>7. QED BY <2>4, <2>5, <2>6 DEF KernelInv, KernelTypeOK
<1>6. ASSUME NEW t \in Tids, DoExitGroup(t) PROVE KernelInv'
  <2>4. /\ clock' \in Nat
        /\ ring' \in [CPUs -> Seq(Record)]
        /\ lost' \in [CPUs -> Nat]
        /\ dropped' \in Nat
    BY <1>0, <1>6, RingsUnchanged DEF DoExitGroup
  <2>3. doomed' \subseteq Tids /\ code' \in [Tids -> Int]
    <3>1. Doom(Living(group[t]), code[t])
      BY <1>6 DEF DoExitGroup
    <3>2. QED BY <1>0, <3>1, DoomType DEF Living, Members, NoStatus, KernelTypeOK
  <2>5. /\ phase' \in [Tids -> Phases]
        /\ group' \in [Tids -> Pids \cup {NoTid}]
        /\ code' \in [Tids -> Int]
        /\ doomed' \subseteq Tids
        /\ born' \in [Pids -> Nat]
    BY <1>0, <1>6, <2>3 DEF DoExitGroup, KernelTypeOK, Phases, NoStatus, NoTid, Running, rings
  <2>6. GroupsOK'
    BY <1>0, <1>6 DEF DoExitGroup, KernelTypeOK, GroupsOK, NoTid, Running, rings, Living,
       Members
  <2>7. QED BY <2>4, <2>5, <2>6 DEF KernelInv, KernelTypeOK
<1>7. ASSUME NEW t \in Tids, NEW c \in CPUs, EnterExecve(t, c) PROVE KernelInv'
  <2>1. group[t] \in Pids
    BY <1>7, GroupInPids DEF EnterExecve, Running
  <2>2. Sample("ExecEnter", group[t], t, 0, NoStatus) \in Samples
    <3>1. "ExecEnter" \in SampleTypes
      BY DEF SampleTypes
    <3>2. t \in Tids /\ 0 \in Int /\ NoStatus \in Int
      BY <1>0, <2>1, KernelAssumption DEF NoStatus, KernelTypeOK
    <3>3. QED BY <1>0, <2>1, <3>1, <3>2, SampleType
  <2>3. Output(c, Sample("ExecEnter", group[t], t, 0, NoStatus))
    BY <1>7 DEF EnterExecve
  <2>4. /\ clock' \in Nat
        /\ ring' \in [CPUs -> Seq(Record)]
        /\ lost' \in [CPUs -> Nat]
        /\ dropped' \in Nat
    BY <1>0, <2>2, <2>3, OutputType
  <2>5. /\ phase' \in [Tids -> Phases]
        /\ group' \in [Tids -> Pids \cup {NoTid}]
        /\ code' \in [Tids -> Int]
        /\ doomed' \subseteq Tids
        /\ born' \in [Pids -> Nat]
    BY <1>0, <1>7, <2>1 DEF EnterExecve, KernelTypeOK, Phases, NoStatus, NoTid, Running, rings
  <2>6. GroupsOK'
    BY <1>0, <1>7, <2>1 DEF EnterExecve, KernelTypeOK, GroupsOK, NoTid, Running, rings,
       Living, Members
  <2>7. QED BY <2>4, <2>5, <2>6 DEF KernelInv, KernelTypeOK
<1>8. ASSUME NEW t \in Tids, NEW c \in CPUs, ExecveFails(t, c) PROVE KernelInv'
  <2>1. group[t] \in Pids
    BY <1>8, GroupInPids DEF ExecveFails
  <2>2. Sample("ExecResult", group[t], t, -2, NoStatus) \in Samples
    <3>1. "ExecResult" \in SampleTypes
      BY DEF SampleTypes
    <3>2. t \in Tids /\ -2 \in Int /\ NoStatus \in Int
      BY <1>0, <2>1, KernelAssumption DEF NoStatus, KernelTypeOK
    <3>3. QED BY <1>0, <2>1, <3>1, <3>2, SampleType
  <2>3. Output(c, Sample("ExecResult", group[t], t, -2, NoStatus))
    BY <1>8 DEF ExecveFails
  <2>4. /\ clock' \in Nat
        /\ ring' \in [CPUs -> Seq(Record)]
        /\ lost' \in [CPUs -> Nat]
        /\ dropped' \in Nat
    BY <1>0, <2>2, <2>3, OutputType
  <2>5. /\ phase' \in [Tids -> Phases]
        /\ group' \in [Tids -> Pids \cup {NoTid}]
        /\ code' \in [Tids -> Int]
        /\ doomed' \subseteq Tids
        /\ born' \in [Pids -> Nat]
    BY <1>0, <1>8, <2>1 DEF ExecveFails, KernelTypeOK, Phases, NoStatus, NoTid, Running, rings
  <2>6. GroupsOK'
    BY <1>0, <1>8, <2>1 DEF ExecveFails, KernelTypeOK, GroupsOK, NoTid, Running, rings,
       Living, Members
  <2>7. QED BY <2>4, <2>5, <2>6 DEF KernelInv, KernelTypeOK
<1>9. ASSUME NEW t \in Tids, NEW c \in CPUs, ExecveCommits(t, c) PROVE KernelInv'
  <2>1. group[t] \in Pids
    BY <1>9, GroupInPids DEF ExecveCommits
  <2>2. Sample("Exec", group[t], group[t], 0, NoStatus) \in Samples
    <3>1. "Exec" \in SampleTypes
      BY DEF SampleTypes
    <3>2. group[t] \in Tids
      BY <2>1, KernelAssumption
    <3>3. 0 \in Int /\ NoStatus \in Int
      BY DEF NoStatus
    <3>4. QED BY <1>0, <2>1, <3>1, <3>2, <3>3, SampleType
  <2>3. Output(c, Sample("Exec", group[t], group[t], 0, NoStatus))
    BY <1>9 DEF ExecveCommits
  <2>4. /\ clock' \in Nat
        /\ ring' \in [CPUs -> Seq(Record)]
        /\ lost' \in [CPUs -> Nat]
        /\ dropped' \in Nat
    BY <1>0, <2>2, <2>3, OutputType
  <2>5. /\ phase' \in [Tids -> Phases]
        /\ group' \in [Tids -> Pids \cup {NoTid}]
        /\ code' \in [Tids -> Int]
        /\ doomed' \subseteq Tids
        /\ born' \in [Pids -> Nat]
    BY <1>0, <1>9, <2>1 DEF ExecveCommits, KernelTypeOK, Phases, NoStatus, NoTid, Running, rings
  <2>6. GroupsOK'
    BY <1>0, <1>9, <2>1 DEF ExecveCommits, KernelTypeOK, GroupsOK, NoTid, Running, rings,
       Living, Members
  <2>7. QED BY <2>4, <2>5, <2>6 DEF KernelInv, KernelTypeOK
<1>10. ASSUME NEW t \in Tids, NEW c \in CPUs, ExecveReturns(t, c) PROVE KernelInv'
  <2>1. group[t] \in Pids
    BY <1>10, GroupInPids DEF ExecveReturns
  <2>2. Sample("ExecResult", group[t], t, 0, NoStatus) \in Samples
    <3>1. "ExecResult" \in SampleTypes
      BY DEF SampleTypes
    <3>2. t \in Tids /\ 0 \in Int /\ NoStatus \in Int
      BY <1>0, <2>1, KernelAssumption DEF NoStatus, KernelTypeOK
    <3>3. QED BY <1>0, <2>1, <3>1, <3>2, SampleType
  <2>3. Output(c, Sample("ExecResult", group[t], t, 0, NoStatus))
    BY <1>10 DEF ExecveReturns
  <2>4. /\ clock' \in Nat
        /\ ring' \in [CPUs -> Seq(Record)]
        /\ lost' \in [CPUs -> Nat]
        /\ dropped' \in Nat
    BY <1>0, <2>2, <2>3, OutputType
  <2>5. /\ phase' \in [Tids -> Phases]
        /\ group' \in [Tids -> Pids \cup {NoTid}]
        /\ code' \in [Tids -> Int]
        /\ doomed' \subseteq Tids
        /\ born' \in [Pids -> Nat]
    BY <1>0, <1>10, <2>1 DEF ExecveReturns, KernelTypeOK, Phases, NoStatus, NoTid, Running,
       rings
  <2>6. GroupsOK'
    BY <1>0, <1>10, <2>1 DEF ExecveReturns, KernelTypeOK, GroupsOK, NoTid, Running, rings,
       Living, Members
  <2>7. QED BY <2>4, <2>5, <2>6 DEF KernelInv, KernelTypeOK
<1>11. ASSUME NEW t \in Tids, NEW c \in CPUs, Exited(t, c) PROVE KernelInv'
  <2>1. group[t] \in Pids
    BY <1>11, GroupInPids DEF Exited
  <2>2. Sample("ProcessExit", group[t], t, 0, code[t]) \in Samples
    <3>1. "ProcessExit" \in SampleTypes
      BY DEF SampleTypes
    <3>2. t \in Tids /\ 0 \in Int /\ code[t] \in Int
      BY <1>0, <2>1, KernelAssumption DEF NoStatus, KernelTypeOK
    <3>3. QED BY <1>0, <2>1, <3>1, <3>2, SampleType
  <2>3. Output(c, Sample("ProcessExit", group[t], t, 0, code[t]))
    BY <1>11 DEF Exited
  <2>4. /\ clock' \in Nat
        /\ ring' \in [CPUs -> Seq(Record)]
        /\ lost' \in [CPUs -> Nat]
        /\ dropped' \in Nat
    BY <1>0, <2>2, <2>3, OutputType
  <2>5. /\ phase' \in [Tids -> Phases]
        /\ group' \in [Tids -> Pids \cup {NoTid}]
        /\ code' \in [Tids -> Int]
        /\ doomed' \subseteq Tids
        /\ born' \in [Pids -> Nat]
    BY <1>0, <1>11, <2>1 DEF Exited, KernelTypeOK, Phases, NoStatus, NoTid, Running, rings
  <2>6. GroupsOK'
    BY <1>0, <1>11, <2>1 DEF Exited, KernelTypeOK, GroupsOK, NoTid, Running, rings, Living,
       Members
  <2>7. QED BY <2>4, <2>5, <2>6 DEF KernelInv, KernelTypeOK
<1>12. ASSUME NEW t \in Tids, NEW s \in Statuses, NEW c \in CPUs, Exit(t, s, c) PROVE KernelInv'
  <2>1. group[t] \in Pids
    BY <1>12, GroupInPids DEF Exit, Running
  <2>2. Sample("ExitStatus", group[t], t, s, s) \in Samples
    <3>1. "ExitStatus" \in SampleTypes
      BY DEF SampleTypes
    <3>2. t \in Tids /\ s \in Int /\ s \in Int
      BY <1>0, <2>1, KernelAssumption DEF NoStatus, KernelTypeOK
    <3>3. QED BY <1>0, <2>1, <3>1, <3>2, SampleType
  <2>3. Output(c, Sample("ExitStatus", group[t], t, s, s))
    BY <1>12 DEF Exit
  <2>4. /\ clock' \in Nat
        /\ ring' \in [CPUs -> Seq(Record)]
        /\ lost' \in [CPUs -> Nat]
        /\ dropped' \in Nat
    BY <1>0, <2>2, <2>3, OutputType
  <2>5. /\ phase' \in [Tids -> Phases]
        /\ group' \in [Tids -> Pids \cup {NoTid}]
        /\ code' \in [Tids -> Int]
        /\ doomed' \subseteq Tids
        /\ born' \in [Pids -> Nat]
    BY <1>0, <1>12, <2>1 DEF Exit, KernelTypeOK, Phases, NoStatus, NoTid, Running, rings
  <2>6. GroupsOK'
    BY <1>0, <1>12, <2>1 DEF Exit, KernelTypeOK, GroupsOK, NoTid, Running, rings, Living,
       Members
  <2>7. QED BY <2>4, <2>5, <2>6 DEF KernelInv, KernelTypeOK
<1>13. ASSUME NEW t \in Tids, NEW s \in Statuses, NEW c \in CPUs, EnterExitGroup(t, s, c)
      PROVE KernelInv'
  <2>1. group[t] \in Pids
    BY <1>13, GroupInPids DEF EnterExitGroup, Running
  <2>2. Sample("ExitGroup", group[t], t, s, s) \in Samples
    <3>1. "ExitGroup" \in SampleTypes
      BY DEF SampleTypes
    <3>2. t \in Tids /\ s \in Int /\ s \in Int
      BY <1>0, <2>1, KernelAssumption DEF NoStatus, KernelTypeOK
    <3>3. QED BY <1>0, <2>1, <3>1, <3>2, SampleType
  <2>3. Output(c, Sample("ExitGroup", group[t], t, s, s))
    BY <1>13 DEF EnterExitGroup
  <2>4. /\ clock' \in Nat
        /\ ring' \in [CPUs -> Seq(Record)]
        /\ lost' \in [CPUs -> Nat]
        /\ dropped' \in Nat
    BY <1>0, <2>2, <2>3, OutputType
  <2>5. /\ phase' \in [Tids -> Phases]
        /\ group' \in [Tids -> Pids \cup {NoTid}]
        /\ code' \in [Tids -> Int]
        /\ doomed' \subseteq Tids
        /\ born' \in [Pids -> Nat]
    BY <1>0, <1>13, <2>1 DEF EnterExitGroup, KernelTypeOK, Phases, NoStatus, NoTid, Running,
       rings
  <2>6. GroupsOK'
    BY <1>0, <1>13, <2>1 DEF EnterExitGroup, KernelTypeOK, GroupsOK, NoTid, Running, rings,
       Living, Members
  <2>7. QED BY <2>4, <2>5, <2>6 DEF KernelInv, KernelTypeOK
<1>14. QED
  BY <1>1, <1>2, <1>3, <1>4, <1>5, <1>6, <1>7, <1>8, <1>9, <1>10, <1>11, <1>12, <1>13 DEF
     KernelNext

-----------------------------------------------------------------------------
(* What a step of the kernel does to the samples and to the processes.     *)

\* Stands for the sample of a step that emits none.
NoRecord ==
    [type |-> "None", tgid |-> NoTid, tid |-> NoTid, status |-> 0,
     mono |-> 0, inc |-> 0, code |-> NoStatus]

\* Samples of the exit of a process and of the status it passes.
LeaderExit(x, p) == x.type = "ProcessExit" /\ x.tgid = p /\ x.tid = p
StatusSample(x)  == x.type \in {"ExitStatus", "ExitGroup"}

\* Process p has a leader that has not exited.
Lives(p) == group[p] = p /\ phase[p] # "zombie"

\* Thread t of process p is inside an execve that may still fail.
InExecve(t, p) == group[t] = p /\ phase[t] \in {"execve", "dethread"}

\* The leader of process p is on its way out.
Dying(p) == Lives(p) /\ phase[p] \in {"exiting", "exitgroup"}

\* A step of the kernel emits sample x, or none.
Emits(x) ==
    \/ x = NoRecord /\ UNCHANGED rings
    \/ x \in Samples /\ x.mono = clock + 1 /\ \E c \in CPUs : Output(c, x)

\* What every step of the kernel that emits x does to the processes and to the
\* threads inside execve.
LifeStep(x) ==
    /\ x # NoRecord => x.inc = born[x.tgid]
    /\ x.type = "Exec" => Lives(x.tgid)' /\ born'[x.tgid] = x.inc
    /\ x.type = "ExecEnter" => InExecve(x.tid, x.tgid)'
    /\ \A p \in Pids : Lives(p) =>
          born'[p] = born[p] /\ (Lives(p)' \/ LeaderExit(x, p))
    /\ \A p \in Pids, t \in Tids : InExecve(t, p) =>
          \/ InExecve(t, p)' \/ Lives(p)'
          \/ x.type = "ExecResult" /\ x.tid = t


\* With one thread per process, what every step that emits x does to a process
\* that is exiting and to its exit code.
SoloStep(x) ==
    \A p \in Pids :
        /\ Dying(p) => LeaderExit(x, p) \/ (Dying(p)' /\ x.tgid # p)
        /\ StatusSample(x) /\ x.tgid = p => Dying(p)'
        /\ LeaderExit(x, p) => Lives(p) /\ x.code = code[p]
        /\ Lives(p)' /\ code'[p] # NoStatus =>
              \/ Lives(p) /\ code[p] = code'[p] /\ x.tgid # p
              \/ StatusSample(x) /\ x.tgid = p /\ x.status = code'[p]

\* Every process has one thread; it holds an exit code only on its way out.
SoloThreads ==
    /\ \A t \in Tids : group[t] # NoTid => group[t] = t
    /\ \A p \in Pids : Lives(p) /\ code[p] # NoStatus => Dying(p)

\* Where processes have one thread, a step keeps it so and is a SoloStep.
Solitary(x) == MaxThreads = 1 /\ SoloThreads => SoloThreads' /\ SoloStep(x)

\* Every step of the kernel emits one sample or none and is described by
\* LifeStep and, where processes have one thread, by SoloStep.
LEMMA KernelLife ==
    ASSUME KernelInv, KernelNext
    PROVE  \E x \in Samples \cup {NoRecord} : Emits(x) /\ LifeStep(x) /\ Solitary(x)
<1> USE KernelAssumption
<1>0. KernelTypeOK /\ GroupsOK
  BY DEF KernelInv
<1>1. ASSUME NEW p \in Pids, Fork(p)
      PROVE  \E x \in Samples \cup {NoRecord} : Emits(x) /\ LifeStep(x) /\ Solitary(x)
  <2>1. Emits(NoRecord)
    BY <1>1 DEF Fork, Emits
  <2>2. LifeStep(NoRecord)
    BY <1>0, <1>1 DEF Fork, LifeStep, NoRecord, Lives, InExecve, LeaderExit, Living, Members,
       Running, GroupsOK, KernelTypeOK, NoTid, rings
  <2>3. Solitary(NoRecord)
    BY <1>0, <1>1 DEF Fork, Solitary, SoloThreads, SoloStep, StatusSample, Dying, NoRecord,
       Lives, LeaderExit, Doom, Living, Members,
       Running, GroupsOK, KernelTypeOK, NoTid, NoStatus, rings
  <2>4. QED BY <2>1, <2>2, <2>3
<1>2. ASSUME NEW p \in Pids, Kill(p)
      PROVE  \E x \in Samples \cup {NoRecord} : Emits(x) /\ LifeStep(x) /\ Solitary(x)
  <2>1. Emits(NoRecord)
    BY <1>2 DEF Kill, Emits
  <2>2. LifeStep(NoRecord)
    BY <1>0, <1>2 DEF Kill, LifeStep, NoRecord, Lives, InExecve, LeaderExit, Living, Members,
       Running, GroupsOK, KernelTypeOK, NoTid, rings
  <2>3. Solitary(NoRecord)
    BY <1>0, <1>2 DEF Kill, Solitary, SoloThreads, SoloStep, StatusSample, Dying, NoRecord,
       Lives, LeaderExit, Doom, Living, Members,
       Running, GroupsOK, KernelTypeOK, NoTid, NoStatus, rings
  <2>4. QED BY <2>1, <2>2, <2>3
<1>3. ASSUME NEW p \in Pids, Reap(p)
      PROVE  \E x \in Samples \cup {NoRecord} : Emits(x) /\ LifeStep(x) /\ Solitary(x)
  <2>1. Emits(NoRecord)
    BY <1>3 DEF Reap, Emits
  <2>2. LifeStep(NoRecord)
    BY <1>0, <1>3 DEF Reap, LifeStep, NoRecord, Lives, InExecve, LeaderExit, Living, Members,
       Running, GroupsOK, KernelTypeOK, NoTid, rings
  <2>3. Solitary(NoRecord)
    BY <1>0, <1>3 DEF Reap, Solitary, SoloThreads, SoloStep, StatusSample, Dying, NoRecord,
       Lives, LeaderExit, Doom, Living, Members,
       Running, GroupsOK, KernelTypeOK, NoTid, NoStatus, rings
  <2>4. QED BY <2>1, <2>2, <2>3
<1>4. ASSUME NEW t \in Tids, NEW w \in Tids, Clone(t, w)
      PROVE  \E x \in Samples \cup {NoRecord} : Emits(x) /\ LifeStep(x) /\ Solitary(x)
  <2>1. Emits(NoRecord)
    BY <1>4 DEF Clone, Emits
  <2>2. LifeStep(NoRecord)
    BY <1>0, <1>4 DEF Clone, LifeStep, NoRecord, Lives, InExecve, LeaderExit, Living, Members,
       Running, GroupsOK, KernelTypeOK, NoTid, rings
  <2>3. Solitary(NoRecord)
    <3>1. ASSUME MaxThreads = 1, SoloThreads PROVE FALSE
      <4>1. group[t] \in Pids /\ phase[t] # "free" /\ group[t] = t
        BY <1>0, <1>4, <3>1, GroupInPids DEF Clone, Running, SoloThreads, NoTid
      <4>2. Members(group[t]) = {t}
        BY <3>1, <4>1 DEF Members, SoloThreads, NoTid
      <4>3. Cardinality(Members(group[t])) = 1
        BY <4>2, FS_Singleton
      <4>4. QED BY <1>4, <3>1, <4>3 DEF Clone
    <3>2. QED BY <3>1 DEF Solitary
  <2>4. QED BY <2>1, <2>2, <2>3
<1>5. ASSUME NEW t \in Tids, DeThread(t)
      PROVE  \E x \in Samples \cup {NoRecord} : Emits(x) /\ LifeStep(x) /\ Solitary(x)
  <2>1. Emits(NoRecord)
    BY <1>5 DEF DeThread, Emits
  <2>2. LifeStep(NoRecord)
    BY <1>0, <1>5 DEF DeThread, LifeStep, NoRecord, Lives, InExecve, LeaderExit, Living,
       Members,
       Running, GroupsOK, KernelTypeOK, NoTid, rings
  <2>3. Solitary(NoRecord)
    BY <1>0, <1>5 DEF DeThread, Solitary, SoloThreads, SoloStep, StatusSample, Dying,
       NoRecord, Lives, LeaderExit, Doom, Living, Members,
       Running, GroupsOK, KernelTypeOK, NoTid, NoStatus, rings
  <2>4. QED BY <2>1, <2>2, <2>3
<1>6. ASSUME NEW t \in Tids, DoExitGroup(t)
      PROVE  \E x \in Samples \cup {NoRecord} : Emits(x) /\ LifeStep(x) /\ Solitary(x)
  <2>1. Emits(NoRecord)
    BY <1>6 DEF DoExitGroup, Emits
  <2>2. LifeStep(NoRecord)
    BY <1>0, <1>6 DEF DoExitGroup, LifeStep, NoRecord, Lives, InExecve, LeaderExit, Living,
       Members,
       Running, GroupsOK, KernelTypeOK, NoTid, rings
  <2>3. Solitary(NoRecord)
    BY <1>0, <1>6 DEF DoExitGroup, Solitary, SoloThreads, SoloStep, StatusSample, Dying,
       NoRecord, Lives, LeaderExit, Doom, Living, Members,
       Running, GroupsOK, KernelTypeOK, NoTid, NoStatus, rings
  <2>4. QED BY <2>1, <2>2, <2>3
<1>7. ASSUME NEW t \in Tids, NEW c \in CPUs, EnterExecve(t, c)
      PROVE  \E x \in Samples \cup {NoRecord} : Emits(x) /\ LifeStep(x) /\ Solitary(x)
  <2>1. group[t] \in Pids
    BY <1>7, GroupInPids DEF EnterExecve, Running
  <2>2. Sample("ExecEnter", group[t], t, 0, NoStatus) \in Samples
    <3>1. "ExecEnter" \in SampleTypes /\ group[t] \in Tids /\ code[t] \in Int
      BY <1>0, <2>1 DEF SampleTypes, KernelTypeOK
    <3>2. 0 \in Int /\ -2 \in Int /\ NoStatus \in Int
      BY DEF NoStatus
    <3>3. QED BY <1>0, <2>1, <3>1, <3>2, SampleType
  <2> PICK x \in Samples : x = Sample("ExecEnter", group[t], t, 0, NoStatus)
    BY <2>2
  <2>3. Emits(x)
    BY <1>7, <2>2 DEF EnterExecve, Emits, Sample
  <2>4. LifeStep(x)
    BY <1>0, <1>7, <2>1 DEF EnterExecve, LifeStep, Sample, NoRecord, Lives, InExecve,
       LeaderExit,
       Living, Members, Running, GroupsOK, KernelTypeOK, NoTid
  <2>5. Solitary(x)
    BY <1>0, <1>7, <2>1 DEF EnterExecve, Solitary, SoloThreads, SoloStep, StatusSample, Dying,
       Sample, NoRecord, Lives, LeaderExit,
       Living, Members, Running, GroupsOK, KernelTypeOK, NoTid, NoStatus
  <2>6. QED BY <2>2, <2>3, <2>4, <2>5
<1>8. ASSUME NEW t \in Tids, NEW c \in CPUs, ExecveFails(t, c)
      PROVE  \E x \in Samples \cup {NoRecord} : Emits(x) /\ LifeStep(x) /\ Solitary(x)
  <2>1. group[t] \in Pids
    BY <1>8, GroupInPids DEF ExecveFails, Running
  <2>2. Sample("ExecResult", group[t], t, -2, NoStatus) \in Samples
    <3>1. "ExecResult" \in SampleTypes /\ group[t] \in Tids /\ code[t] \in Int
      BY <1>0, <2>1 DEF SampleTypes, KernelTypeOK
    <3>2. 0 \in Int /\ -2 \in Int /\ NoStatus \in Int
      BY DEF NoStatus
    <3>3. QED BY <1>0, <2>1, <3>1, <3>2, SampleType
  <2> PICK x \in Samples : x = Sample("ExecResult", group[t], t, -2, NoStatus)
    BY <2>2
  <2>3. Emits(x)
    BY <1>8, <2>2 DEF ExecveFails, Emits, Sample
  <2>4. LifeStep(x)
    BY <1>0, <1>8, <2>1 DEF ExecveFails, LifeStep, Sample, NoRecord, Lives, InExecve,
       LeaderExit,
       Living, Members, Running, GroupsOK, KernelTypeOK, NoTid
  <2>5. Solitary(x)
    BY <1>0, <1>8, <2>1 DEF ExecveFails, Solitary, SoloThreads, SoloStep, StatusSample, Dying,
       Sample, NoRecord, Lives, LeaderExit,
       Living, Members, Running, GroupsOK, KernelTypeOK, NoTid, NoStatus
  <2>6. QED BY <2>2, <2>3, <2>4, <2>5
<1>9. ASSUME NEW t \in Tids, NEW c \in CPUs, ExecveCommits(t, c)
      PROVE  \E x \in Samples \cup {NoRecord} : Emits(x) /\ LifeStep(x) /\ Solitary(x)
  <2>1. group[t] \in Pids
    BY <1>9, GroupInPids DEF ExecveCommits, Running
  <2>2. Sample("Exec", group[t], group[t], 0, NoStatus) \in Samples
    <3>1. "Exec" \in SampleTypes /\ group[t] \in Tids /\ code[t] \in Int
      BY <1>0, <2>1 DEF SampleTypes, KernelTypeOK
    <3>2. 0 \in Int /\ -2 \in Int /\ NoStatus \in Int
      BY DEF NoStatus
    <3>3. QED BY <1>0, <2>1, <3>1, <3>2, SampleType
  <2> PICK x \in Samples : x = Sample("Exec", group[t], group[t], 0, NoStatus)
    BY <2>2
  <2>3. Emits(x)
    BY <1>9, <2>2 DEF ExecveCommits, Emits, Sample
  <2>4. LifeStep(x)
    <3> PICK q \in Pids : q = group[t]
      BY <2>1
    <3>1. /\ x.type = "Exec" /\ x.tgid = q /\ x.inc = born[q] /\ born' = born
      BY <1>9 DEF ExecveCommits, Sample
    <3>2. /\ phase' = [u \in Tids |-> IF u = q THEN "execed"
                                       ELSE IF u = t THEN "free" ELSE phase[u]]
          /\ group' = [u \in Tids |-> IF u = t /\ u # q THEN NoTid ELSE group[u]]
          /\ Living(q) = {t} /\ phase[t] = "dethread"
      BY <1>9 DEF ExecveCommits
    <3>3. q \in Tids /\ group[q] = q /\ q # NoTid
      BY <1>0, <2>1 DEF GroupsOK, NoTid
    <3>4. Lives(q)'
      BY <3>2, <3>3 DEF Lives
    <3>5. ASSUME NEW p \in Pids, Lives(p) PROVE Lives(p)'
      BY <3>2, <3>3, <3>5 DEF Lives
    <3>6. ASSUME NEW p \in Pids, NEW u \in Tids, InExecve(u, p)
          PROVE  InExecve(u, p)' \/ Lives(p)'
      <4>1. CASE p = q
        BY <3>4, <4>1
      <4>2. CASE p # q
        <5>1. u # t /\ u # q
          BY <3>3, <3>6, <4>2 DEF InExecve
        <5>2. QED BY <3>2, <3>6, <5>1 DEF InExecve
      <4>3. QED BY <4>1, <4>2
    <3>7. QED BY <3>1, <3>4, <3>5, <3>6 DEF LifeStep
  <2>5. Solitary(x)
    <3> SUFFICES ASSUME MaxThreads = 1, SoloThreads PROVE SoloThreads' /\ SoloStep(x)
      BY DEF Solitary
    <3>1. group[t] = t
      BY <2>1 DEF SoloThreads, NoTid
    <3>2. /\ phase[t] = "dethread" /\ phase' = [u \in Tids |-> IF u = t THEN "execed" ELSE phase[u]]
          /\ group' = group /\ code' = code
          /\ x.type = "Exec" /\ x.tgid = t
      BY <1>0, <1>9, <3>1 DEF ExecveCommits, Sample, KernelTypeOK
    <3>3. SoloThreads'
      BY <3>1, <3>2 DEF SoloThreads, Dying, Lives
    <3>4. SoloStep(x)
      BY <3>1, <3>2 DEF SoloStep, StatusSample, Dying, Lives, LeaderExit, SoloThreads, NoStatus
    <3>5. QED BY <3>3, <3>4
  <2>6. QED BY <2>2, <2>3, <2>4, <2>5
<1>10. ASSUME NEW t \in Tids, NEW c \in CPUs, ExecveReturns(t, c)
      PROVE  \E x \in Samples \cup {NoRecord} : Emits(x) /\ LifeStep(x) /\ Solitary(x)
  <2>1. group[t] \in Pids
    BY <1>10, GroupInPids DEF ExecveReturns, Running
  <2>2. Sample("ExecResult", group[t], t, 0, NoStatus) \in Samples
    <3>1. "ExecResult" \in SampleTypes /\ group[t] \in Tids /\ code[t] \in Int
      BY <1>0, <2>1 DEF SampleTypes, KernelTypeOK
    <3>2. 0 \in Int /\ -2 \in Int /\ NoStatus \in Int
      BY DEF NoStatus
    <3>3. QED BY <1>0, <2>1, <3>1, <3>2, SampleType
  <2> PICK x \in Samples : x = Sample("ExecResult", group[t], t, 0, NoStatus)
    BY <2>2
  <2>3. Emits(x)
    BY <1>10, <2>2 DEF ExecveReturns, Emits, Sample
  <2>4. LifeStep(x)
    BY <1>0, <1>10, <2>1 DEF ExecveReturns, LifeStep, Sample, NoRecord, Lives, InExecve,
       LeaderExit,
       Living, Members, Running, GroupsOK, KernelTypeOK, NoTid
  <2>5. Solitary(x)
    BY <1>0, <1>10, <2>1 DEF ExecveReturns, Solitary, SoloThreads, SoloStep, StatusSample,
       Dying, Sample, NoRecord, Lives, LeaderExit,
       Living, Members, Running, GroupsOK, KernelTypeOK, NoTid, NoStatus
  <2>6. QED BY <2>2, <2>3, <2>4, <2>5
<1>11. ASSUME NEW t \in Tids, NEW c \in CPUs, Exited(t, c)
      PROVE  \E x \in Samples \cup {NoRecord} : Emits(x) /\ LifeStep(x) /\ Solitary(x)
  <2>1. group[t] \in Pids
    BY <1>11, GroupInPids DEF Exited, Running
  <2>2. Sample("ProcessExit", group[t], t, 0, code[t]) \in Samples
    <3>1. "ProcessExit" \in SampleTypes /\ group[t] \in Tids /\ code[t] \in Int
      BY <1>0, <2>1 DEF SampleTypes, KernelTypeOK
    <3>2. 0 \in Int /\ -2 \in Int /\ NoStatus \in Int
      BY DEF NoStatus
    <3>3. QED BY <1>0, <2>1, <3>1, <3>2, SampleType
  <2> PICK x \in Samples : x = Sample("ProcessExit", group[t], t, 0, code[t])
    BY <2>2
  <2>3. Emits(x)
    BY <1>11, <2>2 DEF Exited, Emits, Sample
  <2>4. LifeStep(x)
    BY <1>0, <1>11, <2>1 DEF Exited, LifeStep, Sample, NoRecord, Lives, InExecve, LeaderExit,
       Living, Members, Running, GroupsOK, KernelTypeOK, NoTid
  <2>5. Solitary(x)
    BY <1>0, <1>11, <2>1 DEF Exited, Solitary, SoloThreads, SoloStep, StatusSample, Dying,
       Sample, NoRecord, Lives, LeaderExit,
       Living, Members, Running, GroupsOK, KernelTypeOK, NoTid, NoStatus
  <2>6. QED BY <2>2, <2>3, <2>4, <2>5
<1>12. ASSUME NEW t \in Tids, NEW s \in Statuses, NEW c \in CPUs, Exit(t, s, c)
      PROVE  \E x \in Samples \cup {NoRecord} : Emits(x) /\ LifeStep(x) /\ Solitary(x)
  <2>1. group[t] \in Pids
    BY <1>12, GroupInPids DEF Exit, Running
  <2>2. Sample("ExitStatus", group[t], t, s, s) \in Samples
    <3>1. "ExitStatus" \in SampleTypes /\ group[t] \in Tids /\ code[t] \in Int
      BY <1>0, <2>1 DEF SampleTypes, KernelTypeOK
    <3>2. 0 \in Int /\ -2 \in Int /\ NoStatus \in Int
      BY DEF NoStatus
    <3>3. QED BY <1>0, <2>1, <3>1, <3>2, SampleType
  <2> PICK x \in Samples : x = Sample("ExitStatus", group[t], t, s, s)
    BY <2>2
  <2>3. Emits(x)
    BY <1>12, <2>2 DEF Exit, Emits, Sample
  <2>4. LifeStep(x)
    BY <1>0, <1>12, <2>1 DEF Exit, LifeStep, Sample, NoRecord, Lives, InExecve, LeaderExit,
       Living, Members, Running, GroupsOK, KernelTypeOK, NoTid
  <2>5. Solitary(x)
    BY <1>0, <1>12, <2>1 DEF Exit, Solitary, SoloThreads, SoloStep, StatusSample, Dying,
       Sample, NoRecord, Lives, LeaderExit,
       Living, Members, Running, GroupsOK, KernelTypeOK, NoTid, NoStatus
  <2>6. QED BY <2>2, <2>3, <2>4, <2>5
<1>13. ASSUME NEW t \in Tids, NEW s \in Statuses, NEW c \in CPUs, EnterExitGroup(t, s, c)
      PROVE  \E x \in Samples \cup {NoRecord} : Emits(x) /\ LifeStep(x) /\ Solitary(x)
  <2>1. group[t] \in Pids
    BY <1>13, GroupInPids DEF EnterExitGroup, Running
  <2>2. Sample("ExitGroup", group[t], t, s, s) \in Samples
    <3>1. "ExitGroup" \in SampleTypes /\ group[t] \in Tids /\ code[t] \in Int
      BY <1>0, <2>1 DEF SampleTypes, KernelTypeOK
    <3>2. 0 \in Int /\ -2 \in Int /\ NoStatus \in Int
      BY DEF NoStatus
    <3>3. QED BY <1>0, <2>1, <3>1, <3>2, SampleType
  <2> PICK x \in Samples : x = Sample("ExitGroup", group[t], t, s, s)
    BY <2>2
  <2>3. Emits(x)
    BY <1>13, <2>2 DEF EnterExitGroup, Emits, Sample
  <2>4. LifeStep(x)
    BY <1>0, <1>13, <2>1 DEF EnterExitGroup, LifeStep, Sample, NoRecord, Lives, InExecve,
       LeaderExit,
       Living, Members, Running, GroupsOK, KernelTypeOK, NoTid
  <2>5. Solitary(x)
    BY <1>0, <1>13, <2>1 DEF EnterExitGroup, Solitary, SoloThreads, SoloStep, StatusSample,
       Dying, Sample, NoRecord, Lives, LeaderExit,
       Living, Members, Running, GroupsOK, KernelTypeOK, NoTid, NoStatus
  <2>6. QED BY <2>2, <2>3, <2>4, <2>5
<1>14. QED
  BY <1>1, <1>2, <1>3, <1>4, <1>5, <1>6, <1>7, <1>8, <1>9, <1>10, <1>11, <1>12, <1>13 DEF
     KernelNext

-----------------------------------------------------------------------------
(* The service.                                                            *)

\* Type correctness needs to know that a thread in use belongs to a process.
TypeInv == TypeOK /\ GroupsOK

LEMMA RowType ==
    ASSUME NEW kind \in {"proc_start", "proc_end", "proc_fail", "proc_loss"},
           NEW id \in Nat, NEW pid \in Pids \cup {NoTid}, NEW inc \in Nat,
           NEW mono \in Nat, NEW r \in Record
    PROVE  NewRow(kind, [id |-> id, pid |-> pid, inc |-> inc, mono |-> mono], r)
              \in Row
BY DEF NewRow, Row, StatusSets, Record, Samples, LostRecords, NoStatus

\* The record the reader is at is a record, and the rings stay typed.
LEMMA TakeType ==
    ASSUME TypeInv, NEW c \in CPUs, NEW type, Take(c, type)
    PROVE  /\ Head(ring[c]) \in Record
           /\ Head(ring[c]).type = type
           /\ KernelInv'
           /\ unread' \in [CPUs -> Nat]
           /\ current' \in CPUs
<1>1. ring \in [CPUs -> Seq(Record)] /\ ring[c] \in Seq(Record) /\ ring[c] # <<>>
  BY DEF TypeInv, TypeOK, KernelTypeOK, Take
<1>2. Head(ring[c]) \in Record /\ Tail(ring[c]) \in Seq(Record)
  BY <1>1
<1>3. ring' \in [CPUs -> Seq(Record)]
  <2> DEFINE S == Seq(Record)
  <2>1. ring \in [CPUs -> S] /\ Tail(ring[c]) \in S /\ ring' = [ring EXCEPT ![c] = Tail(@)]
    BY <1>1, <1>2 DEF Take
  <2> HIDE DEF S
  <2>2. ring' \in [CPUs -> S]
    BY <2>1
  <2>3. QED BY <2>2 DEF S
<1>4. KernelInv'
  BY <1>3 DEF Take, KernelInv, KernelTypeOK, GroupsOK, TypeInv, TypeOK, threads
<1>5. unread' \in [CPUs -> Nat] /\ current' \in CPUs
  BY DEF Take, TypeInv, TypeOK
<1>6. QED
  BY <1>2, <1>4, <1>5 DEF Take

\* A typed row keeps the log and the state of the service typed.
LEMMA WriteType ==
    ASSUME TypeOK, NEW row \in Row, NEW ok \in BOOLEAN, Write(row, ok)
    PROVE  log' \in Seq(Row) /\ service' \in {"reading", "stopped"}
<1>1. log \in Seq(Row)
  BY DEF TypeOK
<1>2. CASE ok
  <2>1. log' = Append(log, row) /\ service' = "reading"
    BY <1>2 DEF Write
  <2>2. QED BY <1>1, <2>1
<1>3. CASE ~ok
  BY <1>1, <1>3 DEF Write
<1>4. QED BY <1>2, <1>3

LEMMA StatusType ==
    ASSUME NEW r \in Samples
    PROVE  StatusOf(r) \in StatusSets
<1>1. r.status % 256 \in 0..255
  BY DEF Samples
<1>2. QED
  BY <1>1 DEF StatusOf, Status, StatusSets, Normalize, Samples, KernelAssumption

LEMMA TakeSample ==
    ASSUME TypeInv, NEW c \in CPUs, NEW type \in SampleTypes, Take(c, type)
    PROVE  Head(ring[c]) \in Samples
BY TakeType DEF Record, LostRecords, SampleTypes

LEMMA TakeLost ==
    ASSUME TypeInv, NEW c \in CPUs, Take(c, "Lost")
    PROVE  Head(ring[c]) \in LostRecords
BY TakeType DEF Record, Samples, SampleTypes

LEMMA InitType == Init => TypeInv
<1> SUFFICES ASSUME Init PROVE TypeInv
  OBVIOUS
<1>1. KernelInv
  BY KernelInitInv DEF Init
<1>2. pendingEvents \in [Pids -> Events \cup {NoEvent}]
  BY DEF Init
<1>3. pendingExecve \in [Tids -> Attempts \cup {NoAttempt}]
  BY DEF Init
<1>4. pendingStatuses \in [Pids -> StatusSets]
  BY DEF Init, StatusSets
<1>5. log \in Seq(Row) /\ eventSeq \in Nat /\ lostTotal \in Nat
  BY DEF Init
<1>6. unread \in [CPUs -> Nat] /\ current \in CPUs /\ pendingStartMono \in [Pids -> Nat]
  BY DEF Init
<1>7. service = "reading" /\ work \in Works \cup {NoWork}
  BY DEF Init
<1>8. QED
  BY <1>1, <1>2, <1>3, <1>4, <1>5, <1>6, <1>7 DEF TypeInv, TypeOK, KernelInv

\* The proc_end row of a remembered start.
LEMMA EndRowType ==
    ASSUME TypeOK, NEW r \in Samples
    PROVE  EndRow(r.tgid, r) \in Row
<1> DEFINE p == r.tgid
<1>1. p \in Pids /\ r.mono \in Nat /\ r.inc \in Nat /\ r.code \in Int
  BY DEF Samples
<1>2. pendingEvents[p] \in Events \cup {NoEvent}
  BY <1>1 DEF TypeOK
<1>3. /\ pendingEvents[p].id \in Nat
      /\ pendingEvents[p].pid \in Pids \cup {NoTid}
      /\ pendingEvents[p].inc \in Nat
      /\ pendingEvents[p].mono \in Nat
  BY <1>2 DEF Events, NoEvent
<1>4. pendingStatuses[p] \in StatusSets
  BY <1>1 DEF TypeOK
<1>5. ComputeDuration(pendingStartMono[p], r.mono) \in Nat
  BY <1>1 DEF TypeOK, ComputeDuration
<1> HIDE DEF p
<1>6. EndRow(p, r) =
        [kind |-> "proc_end", id |-> pendingEvents[p].id,
         pid |-> pendingEvents[p].pid, inc |-> pendingEvents[p].inc,
         mono |-> pendingEvents[p].mono, status |-> pendingStatuses[p],
         duration |-> ComputeDuration(pendingStartMono[p], r.mono),
         by |-> r.inc, at |-> r.mono, code |-> r.code]
  <2> DEFINE new == [kind |-> "proc_end", id |-> pendingEvents[p].id,
               pid |-> pendingEvents[p].pid, inc |-> pendingEvents[p].inc,
               mono |-> pendingEvents[p].mono, status |-> {},
               duration |-> 0, by |-> r.inc, at |-> r.mono, code |-> r.code]
  <2>1. NewRow("proc_end", pendingEvents[p], r) = new
    BY DEF NewRow
  <2>2. EndRow(p, r) = [new EXCEPT !.status = pendingStatuses[p],
                          !.duration = ComputeDuration(pendingStartMono[p], r.mono)]
    BY <2>1, Zenon DEF EndRow
  <2>3. QED BY <2>2
<1>7. EndRow(p, r) \in Row
  BY <1>1, <1>3, <1>4, <1>5, <1>6 DEF Row
<1>8. QED BY <1>7 DEF p

\* Every step keeps the types.
LEMMA NextType == TypeInv /\ [Next]_vars => TypeInv'
<1> SUFFICES ASSUME TypeInv, [Next]_vars PROVE TypeInv'
  OBVIOUS
<1>0. TypeOK /\ GroupsOK /\ KernelInv
  BY DEF TypeInv, TypeOK, KernelInv
<1>1. CASE Traced
  <2>1. KernelInv'
    BY <1>0, <1>1, KernelNextInv DEF Traced
  <2>2. QED
    BY <1>0, <1>1, <2>1 DEF Traced, daemon, TypeInv, TypeOK, KernelInv
<1>2. CASE Poll
  <2>1. unread' \in [CPUs -> Nat]
    <3>1. \A c \in CPUs : Len(ring[c]) \in Nat
      BY <1>0 DEF TypeOK, KernelTypeOK
    <3>2. QED BY <1>2, <3>1 DEF Poll
  <2>2. QED
    BY <1>0, <1>2, <2>1 DEF Poll, kernel, pending, TypeInv, TypeOK, KernelTypeOK, GroupsOK
<1>3. CASE BuildFails
  <2>1. work' \in Works \cup {NoWork} /\ (service' = "building" => work' \in Works)
    <3>1. work \in Works
      BY <1>0, <1>3 DEF BuildFails, TypeOK
    <3>2. CASE work.left > 1
      <4>1. work' = [work EXCEPT !.left = @ - 1] /\ work.left - 1 \in Nat \ {0}
        BY <1>3, <3>1, <3>2 DEF BuildFails, Works
      <4>2. QED BY <3>1, <4>1 DEF Works
    <3>3. CASE ~(work.left > 1)
      BY <1>3, <3>3 DEF BuildFails
    <3>4. QED BY <3>2, <3>3
  <2>2. service' \in {"reading", "building", "stopped"}
    BY <1>0, <1>3 DEF BuildFails, TypeOK
  <2>3. QED
    BY <1>0, <1>3, <2>1, <2>2 DEF BuildFails, kernel, reader, pending, TypeInv, TypeOK,
       KernelTypeOK, GroupsOK
<1>4. CASE StartFiltered
  BY <1>0, <1>4 DEF StartFiltered, kernel, reader, pending, TypeInv, TypeOK, KernelTypeOK,
     GroupsOK
<1>5. CASE StartWritten
  <2> DEFINE r  == work.sample
             p  == r.tgid
             ev == [id |-> work.id, pid |-> p, inc |-> r.inc, mono |-> r.mono]
  <2>1. r \in Samples /\ p \in Pids /\ work.id \in Nat \ {0}
    BY <1>0, <1>5 DEF StartWritten, TypeOK, Works, Samples
  <2>2. ev \in Events
    BY <2>1 DEF Events, Samples
  <2>3. NewRow("proc_start", ev, r) \in Row
    <3>1. r \in Record /\ r.inc \in Nat /\ r.mono \in Nat
      BY <2>1 DEF Record, Samples
    <3>2. QED BY <2>1, <3>1, RowType
  <2> PICK ok \in WriteResults :
        /\ Write(NewRow("proc_start", ev, r), ok)
        /\ IF ok
           THEN /\ pendingEvents' = [pendingEvents EXCEPT ![p] = ev]
                /\ pendingStatuses' = [pendingStatuses EXCEPT ![p] = {}]
                /\ pendingStartMono' = [pendingStartMono EXCEPT ![p] = r.mono]
           ELSE UNCHANGED <<pendingEvents, pendingStatuses, pendingStartMono>>
    BY <1>5 DEF StartWritten, RememberExecEvent, BuildFromPID
  <2>4. log' \in Seq(Row) /\ service' \in {"reading", "stopped"}
    <3>1. ok \in BOOLEAN
      BY ServiceAssumption
    <3> HIDE DEF r, p, ev
    <3>2. QED BY <1>0, <2>3, <3>1, WriteType
  <2>5. /\ pendingEvents' \in [Pids -> Events \cup {NoEvent}]
        /\ pendingStatuses' \in [Pids -> StatusSets]
        /\ pendingStartMono' \in [Pids -> Nat]
    <3>1. r.mono \in Nat /\ {} \in StatusSets
      BY <2>1 DEF Samples, StatusSets
    <3> HIDE DEF r, p, ev
    <3>2. QED BY <1>0, <2>1, <2>2, <3>1 DEF TypeOK
  <2>6. work' = NoWork /\ UNCHANGED <<kernel, reader, pendingExecve, eventSeq, lostTotal>>
    BY <1>5 DEF StartWritten
  <2> HIDE DEF r, p, ev
  <2>7. QED
    BY <1>0, <2>4, <2>5, <2>6 DEF kernel, reader, TypeInv, TypeOK, KernelTypeOK, GroupsOK
<1>6. ASSUME NEW c \in CPUs, HandleExec(c) PROVE TypeInv'
  <2>1. Take(c, "Exec")
    BY <1>6 DEF HandleExec
  <2>2. Head(ring[c]) \in Samples /\ KernelInv' /\ unread' \in [CPUs -> Nat] /\ current' \in CPUs
    BY <2>1, TakeType, TakeSample DEF SampleTypes
  <2>3. work' \in Works /\ eventSeq' \in Nat /\ service' = "building"
    BY <1>0, <1>6, <2>2, ServiceAssumption DEF HandleExec, Works, TypeOK
  <2>4. QED
    BY <1>0, <1>6, <2>2, <2>3 DEF HandleExec, pending, TypeInv, TypeOK, KernelInv
<1>7. ASSUME NEW c \in CPUs, HandleExecEnter(c) PROVE TypeInv'
  <2>1. Take(c, "ExecEnter")
    BY <1>7 DEF HandleExecEnter
  <2>2. Head(ring[c]) \in Samples /\ KernelInv' /\ unread' \in [CPUs -> Nat] /\ current' \in CPUs
    BY <2>1, TakeType, TakeSample DEF SampleTypes
  <2>3. pendingExecve' \in [Tids -> Attempts \cup {NoAttempt}]
    BY <1>0, <1>7, <2>2 DEF HandleExecEnter, TypeOK, Attempts, Samples
  <2>4. QED
    BY <1>0, <1>7, <2>2, <2>3 DEF HandleExecEnter, TypeInv, TypeOK, KernelInv
<1>8. ASSUME NEW c \in CPUs, HandleExecResult(c) PROVE TypeInv'
  <2> DEFINE r       == Head(ring[c])
             attempt == pendingExecve[r.tid]
             ev      == [id |-> 0, pid |-> attempt.tgid, inc |-> attempt.inc,
                         mono |-> attempt.mono]
             row     == NewRow("proc_fail", ev, r)
  <2>1. Take(c, "ExecResult")
    BY <1>8 DEF HandleExecResult, BuildExecFailureEvent
  <2>2. r \in Samples /\ KernelInv' /\ unread' \in [CPUs -> Nat] /\ current' \in CPUs
    BY <2>1, TakeType, TakeSample DEF SampleTypes
  <2>3. pendingExecve' \in [Tids -> Attempts \cup {NoAttempt}]
    BY <1>0, <1>8, <2>2 DEF HandleExecResult, TypeOK, Samples
  <2>4. row \in Row
    <3>1. attempt \in Attempts \cup {NoAttempt}
      BY <1>0, <2>2 DEF TypeOK, Samples
    <3>2. attempt.tgid \in Pids \cup {NoTid} /\ attempt.inc \in Nat /\ attempt.mono \in Nat
      BY <3>1 DEF Attempts, NoAttempt
    <3> HIDE DEF attempt, r
    <3>3. r \in Record
      BY <2>2 DEF Record
    <3>4. QED BY <3>2, <3>3, RowType
  <2>5. log' \in Seq(Row) /\ service' \in {"reading", "stopped"}
    <3>1. CASE UNCHANGED <<log, service>>
      BY <1>0, <2>1, <3>1 DEF TypeOK, Take
    <3>2. ASSUME NEW ok \in WriteResults, Write(row, ok)
          PROVE  log' \in Seq(Row) /\ service' \in {"reading", "stopped"}
      <4> HIDE DEF row
      <4>1. QED BY <1>0, <2>4, <3>2, WriteType, ServiceAssumption
    <3>3. QED BY <1>8, <3>1, <3>2 DEF HandleExecResult, BuildExecFailureEvent
  <2>6. UNCHANGED <<work, pendingEvents, pendingStatuses, pendingStartMono, eventSeq, lostTotal>>
    BY <1>8 DEF HandleExecResult, BuildExecFailureEvent
  <2> HIDE DEF r, attempt, ev, row
  <2>7. QED
    BY <1>0, <2>2, <2>3, <2>5, <2>6 DEF TypeInv, TypeOK, KernelInv
<1>9. ASSUME NEW c \in CPUs, HandleExitGroup(c) PROVE TypeInv'
  <2>1. Take(c, "ExitGroup")
    BY <1>9 DEF HandleExitGroup
  <2>2. Head(ring[c]) \in Samples /\ KernelInv' /\ unread' \in [CPUs -> Nat] /\ current' \in CPUs
    BY <2>1, TakeType, TakeSample DEF SampleTypes
  <2>3. pendingStatuses' \in [Pids -> StatusSets]
    BY <1>0, <1>9, <2>2, StatusType DEF HandleExitGroup, TypeOK, Samples
  <2>4. QED
    BY <1>0, <1>9, <2>2, <2>3 DEF HandleExitGroup, TypeInv, TypeOK, KernelInv
<1>10. ASSUME NEW c \in CPUs, HandleExitStatus(c) PROVE TypeInv'
  <2>1. Take(c, "ExitStatus")
    BY <1>10 DEF HandleExitStatus
  <2>2. Head(ring[c]) \in Samples /\ KernelInv' /\ unread' \in [CPUs -> Nat] /\ current' \in CPUs
    BY <2>1, TakeType, TakeSample DEF SampleTypes
  <2>3. pendingStatuses' \in [Pids -> StatusSets]
    BY <1>0, <1>10, <2>2, StatusType DEF HandleExitStatus, TypeOK, Samples
  <2>4. QED
    BY <1>0, <1>10, <2>2, <2>3 DEF HandleExitStatus, TypeInv, TypeOK, KernelInv
<1>11. ASSUME NEW c \in CPUs, IgnoreThreadExit(c) PROVE TypeInv'
  <2>1. Take(c, "ProcessExit")
    BY <1>11 DEF IgnoreThreadExit
  <2>2. KernelInv' /\ unread' \in [CPUs -> Nat] /\ current' \in CPUs
    BY <2>1, TakeType
  <2>3. QED
    BY <1>0, <1>11, <2>2 DEF IgnoreThreadExit, pending, TypeInv, TypeOK, KernelInv
<1>12. ASSUME NEW c \in CPUs, HandleProcessExit(c) PROVE TypeInv'
  <2> DEFINE r   == Head(ring[c])
             p   == r.tgid
             row == EndRow(p, r)
  <2>1. Take(c, "ProcessExit")
    BY <1>12 DEF HandleProcessExit
  <2>2. r \in Samples /\ KernelInv' /\ unread' \in [CPUs -> Nat] /\ current' \in CPUs
    BY <2>1, TakeType, TakeSample DEF SampleTypes
  <2>3. p \in Pids /\ r.mono \in Nat
    BY <2>2 DEF Samples
  <2>4. /\ pendingEvents' \in [Pids -> Events \cup {NoEvent}]
        /\ pendingStatuses' \in [Pids -> StatusSets]
        /\ pendingStartMono' \in [Pids -> Nat]
        /\ pendingExecve' \in [Tids -> Attempts \cup {NoAttempt}]
    BY <1>0, <1>12, <2>3
    DEF HandleProcessExit, DropExecAttempts, FinalizeEvent, TypeOK, StatusSets
  <2>5. row \in Row
    BY <1>0, <2>2, EndRowType DEF Samples
  <2>6. log' \in Seq(Row) /\ service' \in {"reading", "stopped"}
    <3>1. CASE UNCHANGED <<log, service>>
      BY <1>0, <2>1, <3>1 DEF TypeOK, Take
    <3>2. ASSUME NEW ok \in WriteResults, Write(row, ok)
          PROVE  log' \in Seq(Row) /\ service' \in {"reading", "stopped"}
      <4> HIDE DEF row
      <4>1. QED BY <1>0, <2>5, <3>2, WriteType, ServiceAssumption
    <3>3. QED BY <1>12, <3>1, <3>2 DEF HandleProcessExit
  <2>7. UNCHANGED <<work, eventSeq, lostTotal>>
    BY <1>12 DEF HandleProcessExit
  <2> HIDE DEF r, p, row
  <2>8. QED
    BY <1>0, <2>2, <2>4, <2>6, <2>7 DEF TypeInv, TypeOK, KernelInv
<1>13. ASSUME NEW c \in CPUs, HandleLost(c) PROVE TypeInv'
  <2> DEFINE r   == Head(ring[c])
             ev  == [id |-> eventSeq + 1, pid |-> NoTid, inc |-> 0, mono |-> r.status]
             row == NewRow("proc_loss", ev, r)
  <2>1. Take(c, "Lost")
    BY <1>13 DEF HandleLost, LossEvent
  <2>2. r \in LostRecords /\ KernelInv' /\ unread' \in [CPUs -> Nat] /\ current' \in CPUs
    BY <2>1, TakeType, TakeLost
  <2>3. lostTotal' \in Nat /\ eventSeq' \in Nat
    <3>1. lostTotal' = lostTotal + r.status
      BY <1>13 DEF HandleLost, LossEvent
    <3>2. eventSeq' = eventSeq + 1 \/ eventSeq' = eventSeq
      BY <1>13 DEF HandleLost, LossEvent
    <3>3. r.status \in Nat
      BY <2>2 DEF LostRecords
    <3> HIDE DEF r
    <3>4. QED BY <1>0, <3>1, <3>2, <3>3 DEF TypeOK
  <2>4. row \in Row
    <3>1. r \in Record /\ r.status \in Nat /\ eventSeq + 1 \in Nat
      BY <1>0, <2>2 DEF LostRecords, Record, TypeOK
    <3> HIDE DEF r
    <3>2. QED BY <3>1, RowType
  <2>5. log' \in Seq(Row) /\ service' \in {"reading", "stopped"}
    <3>1. CASE UNCHANGED <<log, service>>
      BY <1>0, <2>1, <3>1 DEF TypeOK, Take
    <3>2. ASSUME NEW ok \in WriteResults, Write(row, ok)
          PROVE  log' \in Seq(Row) /\ service' \in {"reading", "stopped"}
      <4> HIDE DEF row
      <4>1. QED BY <1>0, <2>4, <3>2, WriteType, ServiceAssumption
    <3>3. CASE log' = Append(log, row) /\ service' = "stopped"
      <4> HIDE DEF row
      <4>1. QED BY <1>0, <2>4, <3>3 DEF TypeOK
    <3>4. QED BY <1>13, <3>1, <3>2, <3>3 DEF HandleLost, LossEvent
  <2>6. UNCHANGED <<work, pending>>
    BY <1>13 DEF HandleLost, LossEvent
  <2> HIDE DEF r, ev, row
  <2>7. QED
    BY <1>0, <2>2, <2>3, <2>5, <2>6 DEF TypeInv, TypeOK, KernelInv, pending
<1>14. CASE Stop
  BY <1>0, <1>14 DEF Stop, kernel, reader, pending, TypeInv, TypeOK, KernelTypeOK, GroupsOK
<1>15. CASE UNCHANGED vars
  BY <1>0, <1>15 DEF vars, kernel, daemon, TypeInv, TypeOK, KernelTypeOK, GroupsOK
<1>16. QED
  BY <1>1, <1>2, <1>3, <1>4, <1>5, <1>6, <1>7, <1>8, <1>9, <1>10, <1>11, <1>12,
     <1>13, <1>14, <1>15 DEF Next, ServiceNext

\* The maps, the rings and the log of precd are well typed at all times.
THEOREM TypeCorrect == Spec => []TypeOK
<1>1. Init => TypeInv
  BY InitType
<1>2. TypeInv /\ [Next]_vars => TypeInv'
  BY NextType
<1>3. TypeInv => TypeOK
  BY DEF TypeInv
<1>4. QED
  BY <1>1, <1>2, <1>3, PTL DEF Spec

-----------------------------------------------------------------------------
(* Pairing.                                                                *)

\* Ids are given out in increasing order, and the one of an exec that is
\* still being built is in no row yet.
IdInv ==
    /\ \A i \in DOMAIN log : log[i].id <= eventSeq
    /\ service = "building" =>
          work.id <= eventSeq /\ \A i \in DOMAIN log : log[i].id < work.id

\* A remembered start event was written and not ended yet.
PendingInv ==
    \A p \in Pids : pendingEvents[p] # NoEvent =>
        /\ pendingEvents[p].pid = p
        /\ \E i \in Starts : log[i].id = pendingEvents[p].id /\ log[i].pid = p
        /\ \A k \in Ends : log[k].id # pendingEvents[p].id

PairInv == IdInv /\ PendingInv /\ IdsDistinct /\ EndJoinsStart

LEMMA AppendFacts ==
    ASSUME log \in Seq(Row), NEW row \in Row, log' = Append(log, row)
    PROVE  /\ Len(log) \in Nat
           /\ DOMAIN log = 1..Len(log)
           /\ DOMAIN log' = 1..(Len(log) + 1)
           /\ \A i \in 1..Len(log) : log'[i] = log[i]
           /\ log'[Len(log) + 1] = row
OBVIOUS

LEMMA RowIds ==
    ASSUME log \in Seq(Row)
    PROVE  \A i \in DOMAIN log : log[i] \in Row /\ log[i].id \in Nat
<1>1. \A i \in DOMAIN log : log[i] \in Row
  OBVIOUS
<1>2. \A row \in Row : row.id \in Nat
  BY DEF Row
<1>3. QED BY <1>1, <1>2

\* A step that writes nothing and forgets at most remembered starts.
LEMMA QuietStep ==
    ASSUME TypeInv, PairInv, log' = log, eventSeq' \in Nat, eventSeq' >= eventSeq,
           \A p \in Pids : pendingEvents'[p] \in {pendingEvents[p], NoEvent},
           service' = "building" =>
               work'.id <= eventSeq' /\ \A i \in DOMAIN log : log[i].id < work'.id
    PROVE  PairInv'
<1>1. IdInv'
  BY RowIds DEF PairInv, IdInv, TypeInv, TypeOK
<1>2. PendingInv'
  BY DEF PairInv, PendingInv, Starts, Ends, Rows
<1>3. IdsDistinct' /\ EndJoinsStart'
  BY DEF PairInv, IdsDistinct, EndJoinsStart, Starts, Ends, Rows
<1>4. QED
  BY <1>1, <1>2, <1>3 DEF PairInv

\* A step that writes a row which is no proc_end row, under an id of its own
\* if it is a proc_start or proc_loss row, and remembers it if it is a start.
LEMMA WriteStep ==
    ASSUME TypeInv, PairInv, NEW row \in Row, log' = Append(log, row),
           row.kind # "proc_end", eventSeq' \in Nat, eventSeq' >= eventSeq,
           row.id <= eventSeq', service' # "building",
           row.kind # "proc_fail" => \A i \in DOMAIN log : log[i].id < row.id,
           \A p \in Pids :
              \/ pendingEvents'[p] \in {pendingEvents[p], NoEvent}
              \/ /\ row.kind = "proc_start"
                 /\ row.pid = p
                 /\ pendingEvents'[p].pid = p
                 /\ pendingEvents'[p].id = row.id
    PROVE  PairInv'
<1> DEFINE n == Len(log) + 1
<1>0. /\ n \in Nat
      /\ DOMAIN log = 1..Len(log) /\ DOMAIN log' = 1..n
      /\ \A i \in DOMAIN log : log'[i] = log[i]
      /\ log'[n] = row
  BY AppendFacts DEF TypeInv, TypeOK
<1>1. /\ \A i \in DOMAIN log' : i \in DOMAIN log \/ i = n
      /\ n \notin DOMAIN log /\ DOMAIN log \subseteq DOMAIN log' /\ n \in DOMAIN log'
      /\ \A i \in DOMAIN log : i \in Nat /\ i < n
  BY <1>0
<1>2. /\ \A i \in DOMAIN log : log[i].id \in Nat
      /\ row.id \in Nat
  BY RowIds DEF TypeInv, TypeOK, Row
<1> HIDE DEF n
<1>3. IdInv'
  BY <1>0, <1>1, <1>2 DEF PairInv, IdInv, TypeInv, TypeOK
<1>4. IdsDistinct'
  BY <1>0, <1>1, <1>2 DEF PairInv, IdsDistinct, Starts, Rows
<1>5. EndJoinsStart'
  BY <1>0, <1>1 DEF PairInv, EndJoinsStart, Starts, Ends, Rows
<1>6. PendingInv'
  <2> SUFFICES ASSUME NEW p \in Pids, pendingEvents'[p] # NoEvent
               PROVE  /\ pendingEvents'[p].pid = p
                      /\ \E i \in Starts' : log'[i].id = pendingEvents'[p].id /\ log'[i].pid = p
                      /\ \A k \in Ends' : log'[k].id # pendingEvents'[p].id
    BY DEF PendingInv
  <2>1. CASE pendingEvents'[p] = pendingEvents[p]
    BY <1>0, <1>1, <2>1 DEF PairInv, PendingInv, Starts, Ends, Rows
  <2>2. CASE /\ row.kind = "proc_start"
             /\ row.pid = p
             /\ pendingEvents'[p].pid = p
             /\ pendingEvents'[p].id = row.id
    <3>1. n \in Starts' /\ log'[n].id = pendingEvents'[p].id /\ log'[n].pid = p
      BY <1>0, <1>1, <2>2 DEF Starts, Rows
    <3>2. \A k \in Ends' : log'[k].id # pendingEvents'[p].id
      BY <1>0, <1>1, <1>2, <2>2 DEF Ends, Rows
    <3>3. QED BY <2>2, <3>1, <3>2
  <2>3. QED BY <2>1, <2>2
<1>7. QED
  BY <1>3, <1>4, <1>5, <1>6 DEF PairInv

\* A step that ends the remembered start of process p and forgets it.
LEMMA EndStep ==
    ASSUME TypeInv, PairInv, NEW p \in Pids, NEW row \in Row,
           pendingEvents[p] # NoEvent, log' = Append(log, row),
           row.kind = "proc_end", row.id = pendingEvents[p].id, row.pid = p,
           eventSeq' = eventSeq, service' # "building",
           pendingEvents' = [pendingEvents EXCEPT ![p] = NoEvent]
    PROVE  PairInv'
<1> DEFINE n == Len(log) + 1
<1>0. /\ n \in Nat
      /\ DOMAIN log = 1..Len(log) /\ DOMAIN log' = 1..n
      /\ \A i \in DOMAIN log : log'[i] = log[i]
      /\ log'[n] = row
  BY AppendFacts DEF TypeInv, TypeOK
<1>1. /\ \A i \in DOMAIN log' : i \in DOMAIN log \/ i = n
      /\ n \notin DOMAIN log /\ DOMAIN log \subseteq DOMAIN log' /\ n \in DOMAIN log'
      /\ \A i \in DOMAIN log : i \in Nat /\ i < n
  BY <1>0
<1> HIDE DEF n
<1>2. PICK s \in Starts : log[s].id = row.id /\ log[s].pid = p
  BY DEF PairInv, PendingInv
<1>3. \A k \in Ends : log[k].id # row.id
  BY DEF PairInv, PendingInv
<1>4. IdInv'
  BY <1>0, <1>1, <1>2 DEF PairInv, IdInv, Starts, Rows
<1>5. IdsDistinct'
  BY <1>0, <1>1 DEF PairInv, IdsDistinct, Starts, Rows
<1>6. EndJoinsStart'
  <2>1. \A i \in Starts : i \in Starts' /\ log'[i] = log[i] /\ i < n
    BY <1>0, <1>1 DEF Starts, Rows
  <2>2. \A j \in Ends' : j \in Ends \/ j = n
    BY <1>0, <1>1 DEF Ends, Rows
  <2>3. \A j \in Ends : log'[j] = log[j]
    BY <1>0 DEF Ends, Rows
  <2>4. ASSUME NEW j \in Ends'
        PROVE  /\ \E i \in Starts' : /\ i < j
                                     /\ log'[i].id = log'[j].id
                                     /\ log'[i].pid = log'[j].pid
               /\ \A k \in Ends' : log'[k].id = log'[j].id => k = j
    <3>1. CASE j = n
      <4>1. \A k \in Ends : log'[k].id # log'[j].id
        BY <1>0, <1>3, <2>3, <3>1
      <4>2. QED BY <1>0, <1>2, <2>1, <2>2, <3>1, <4>1
    <3>2. CASE j \in Ends
      <4>1. PICK i \in Starts : i < j /\ log[i].id = log[j].id /\ log[i].pid = log[j].pid
        BY <3>2 DEF PairInv, EndJoinsStart
      <4>2. \A k \in Ends : log[k].id = log[j].id => k = j
        BY <3>2 DEF PairInv, EndJoinsStart
      <4>3. log'[n].id # log'[j].id
        BY <1>0, <1>3, <2>3, <3>2
      <4>4. QED BY <2>1, <2>2, <2>3, <3>2, <4>1, <4>2, <4>3
    <3>3. QED BY <2>2, <2>4, <3>1, <3>2
  <2>5. QED
    BY <2>4 DEF EndJoinsStart
<1>7. PendingInv'
  <2> SUFFICES ASSUME NEW q \in Pids, pendingEvents'[q] # NoEvent
               PROVE  /\ pendingEvents'[q].pid = q
                      /\ \E i \in Starts' : log'[i].id = pendingEvents'[q].id /\ log'[i].pid = q
                      /\ \A k \in Ends' : log'[k].id # pendingEvents'[q].id
    BY DEF PendingInv
  <2>1. q # p /\ pendingEvents'[q] = pendingEvents[q]
    BY DEF TypeInv, TypeOK
  <2>2. PICK i \in Starts : log[i].id = pendingEvents[q].id /\ log[i].pid = q
    BY <2>1 DEF PairInv, PendingInv
  <2>3. pendingEvents[q].id # row.id
    BY <1>2, <2>1, <2>2 DEF PairInv, IdsDistinct
  <2>4. QED
    BY <1>0, <1>1, <2>1, <2>2, <2>3 DEF PairInv, PendingInv, Starts, Ends, Rows
<1>8. QED
  BY <1>4, <1>5, <1>6, <1>7 DEF PairInv

LEMMA InitPair == Init => PairInv
<1> SUFFICES ASSUME Init PROVE PairInv
  OBVIOUS
<1>1. log = <<>> /\ service = "reading" /\ \A p \in Pids : pendingEvents[p] = NoEvent
  BY DEF Init
<1>2. DOMAIN log = {}
  BY <1>1
<1>3. QED
  BY <1>1, <1>2 DEF PairInv, IdInv, PendingInv, IdsDistinct, EndJoinsStart, Starts, Ends, Rows

\* Every step keeps the pairing.
LEMMA NextPair == TypeInv /\ PairInv /\ [Next]_vars => PairInv'
<1> SUFFICES ASSUME TypeInv, PairInv, [Next]_vars PROVE PairInv'
  OBVIOUS
<1>0. TypeOK /\ eventSeq \in Nat /\ TypeInv'
  BY NextType DEF TypeInv, TypeOK
<1>a. ASSUME UNCHANGED <<log, eventSeq, pendingEvents>>,
             service' = "building" => service = "building" /\ work'.id = work.id
      PROVE  PairInv'
  BY <1>0, <1>a, QuietStep DEF PairInv, IdInv
<1>1. CASE Traced
  BY <1>1, <1>a DEF Traced, daemon
<1>2. CASE Poll
  BY <1>2, <1>a DEF Poll, pending
<1>3. CASE BuildFails
  <2>1. service' = "building" => work'.id = work.id
    BY <1>0, <1>3 DEF BuildFails, TypeOK, Works
  <2>2. QED BY <1>3, <1>a, <2>1 DEF BuildFails, pending
<1>4. CASE StartFiltered
  BY <1>4, <1>a DEF StartFiltered, pending
<1>5. CASE StartWritten
  <2> DEFINE r   == work.sample
             p   == r.tgid
             ev  == [id |-> work.id, pid |-> p, inc |-> r.inc, mono |-> r.mono]
             row == NewRow("proc_start", ev, r)
  <2>1. r \in Samples /\ p \in Pids /\ work.id \in Nat \ {0}
    BY <1>0, <1>5 DEF StartWritten, TypeOK, Works, Samples
  <2>2. row \in Row
    <3>1. r \in Record /\ r.inc \in Nat /\ r.mono \in Nat
      BY <2>1 DEF Record, Samples
    <3>2. QED BY <2>1, <3>1, RowType
  <2>3. row.kind = "proc_start" /\ row.id = work.id /\ row.pid = p
    BY DEF NewRow
  <2>4. ev.pid = p /\ ev.id = work.id
    OBVIOUS
  <2>5. work.id <= eventSeq /\ \A i \in DOMAIN log : log[i].id < work.id
    BY <1>5 DEF StartWritten, PairInv, IdInv
  <2>6. PICK ok \in WriteResults :
        /\ Write(row, ok)
        /\ IF ok THEN pendingEvents' = [pendingEvents EXCEPT ![p] = ev]
                 ELSE UNCHANGED pendingEvents
    BY <1>5 DEF StartWritten, RememberExecEvent, BuildFromPID
  <2>7. eventSeq' = eventSeq
    BY <1>5 DEF StartWritten
  <2>8. pendingEvents \in [Pids -> Events \cup {NoEvent}]
    BY <1>0 DEF TypeOK
  <2> HIDE DEF r, p, ev, row
  <2>9. CASE ok
    <3>1. log' = Append(log, row) /\ service' = "reading"
      BY <2>6, <2>9 DEF Write
    <3>2. \A q \in Pids : pendingEvents'[q] = pendingEvents[q] \/ (q = p /\ pendingEvents'[q] = ev)
      BY <2>6, <2>8, <2>9
    <3>3. QED
      BY <1>0, <2>2, <2>3, <2>4, <2>5, <2>7, <3>1, <3>2, WriteStep
  <2>10. CASE ~ok
    BY <1>a, <2>6, <2>7, <2>10 DEF Write
  <2>11. QED BY <2>9, <2>10
<1>6. ASSUME NEW c \in CPUs, HandleExec(c) PROVE PairInv'
  <2>1. /\ work'.id = eventSeq + 1 /\ eventSeq' = eventSeq + 1
        /\ log' = log /\ pendingEvents' = pendingEvents
    BY <1>6 DEF HandleExec, pending
  <2>2. \A i \in DOMAIN log : log[i].id < work'.id
    BY <1>0, <2>1, RowIds DEF TypeOK, PairInv, IdInv
  <2>3. eventSeq' \in Nat /\ eventSeq' >= eventSeq /\ work'.id <= eventSeq'
    BY <1>0, <2>1
  <2>4. QED
    BY <2>1, <2>2, <2>3, QuietStep
<1>7. ASSUME NEW c \in CPUs, HandleExecEnter(c) PROVE PairInv'
  BY <1>7, <1>a DEF HandleExecEnter, Take
<1>8. ASSUME NEW c \in CPUs, HandleExecResult(c) PROVE PairInv'
  <2> DEFINE r       == Head(ring[c])
             attempt == pendingExecve[r.tid]
             ev      == [id |-> 0, pid |-> attempt.tgid, inc |-> attempt.inc,
                         mono |-> attempt.mono]
             row     == NewRow("proc_fail", ev, r)
  <2>1. UNCHANGED <<pendingEvents, eventSeq>> /\ service = "reading"
    BY <1>8 DEF HandleExecResult, Take
  <2>2. row \in Row
    <3>1. r \in Samples
      BY <1>8, TakeSample DEF HandleExecResult, SampleTypes
    <3>2. attempt \in Attempts \cup {NoAttempt}
      BY <1>0, <3>1 DEF TypeOK, Samples
    <3>3. attempt.tgid \in Pids \cup {NoTid} /\ attempt.inc \in Nat /\ attempt.mono \in Nat
      BY <3>2 DEF Attempts, NoAttempt
    <3>4. r \in Record
      BY <3>1 DEF Record
    <3> HIDE DEF attempt, r
    <3>5. QED BY <3>3, <3>4, RowType
  <2>3. row.kind = "proc_fail" /\ row.id = 0
    BY DEF NewRow
  <2>4. \/ UNCHANGED <<log, service>>
        \/ \E ok \in WriteResults : Write(row, ok)
    BY <1>8 DEF HandleExecResult, BuildExecFailureEvent
  <2> HIDE DEF r, attempt, ev, row
  <2>5. CASE UNCHANGED log /\ service' # "building"
    BY <1>a, <2>1, <2>5
  <2>6. CASE log' = Append(log, row) /\ service' # "building"
    BY <1>0, <2>1, <2>2, <2>3, <2>6, WriteStep
  <2>7. QED
    BY <2>1, <2>4, <2>5, <2>6 DEF Write
<1>9. ASSUME NEW c \in CPUs, HandleExitGroup(c) PROVE PairInv'
  BY <1>9, <1>a DEF HandleExitGroup, Take
<1>10. ASSUME NEW c \in CPUs, HandleExitStatus(c) PROVE PairInv'
  BY <1>10, <1>a DEF HandleExitStatus, Take
<1>11. ASSUME NEW c \in CPUs, IgnoreThreadExit(c) PROVE PairInv'
  BY <1>11, <1>a DEF IgnoreThreadExit, Take, pending
<1>12. ASSUME NEW c \in CPUs, HandleProcessExit(c) PROVE PairInv'
  <2> DEFINE r   == Head(ring[c])
             p   == r.tgid
             row == EndRow(p, r)
  <2>1. r \in Samples /\ p \in Pids /\ service = "reading"
    BY <1>12, TakeSample DEF HandleProcessExit, SampleTypes, Samples, Take
  <2>2. /\ eventSeq' = eventSeq
        /\ pendingEvents' = [pendingEvents EXCEPT ![p] = NoEvent]
        /\ pendingEvents \in [Pids -> Events \cup {NoEvent}]
    BY <1>0, <1>12 DEF HandleProcessExit, FinalizeEvent, TypeOK
  <2>3. CASE pendingEvents[p] = NoEvent
    <3>1. log' = log /\ service' = service
      BY <1>12, <2>3 DEF HandleProcessExit
    <3>2. pendingEvents' = pendingEvents
      BY <2>1, <2>2, <2>3
    <3>3. QED BY <1>a, <2>1, <2>2, <3>1, <3>2
  <2>4. CASE pendingEvents[p] # NoEvent
    <3>1. PICK ok \in WriteResults : Write(row, ok)
      BY <1>12, <2>4 DEF HandleProcessExit
    <3>2. row.kind = "proc_end" /\ row.id = pendingEvents[p].id /\ row.pid = pendingEvents[p].pid
      BY DEF EndRow, NewRow
    <3>3. row.pid = p
      BY <2>1, <2>4, <3>2 DEF PairInv, PendingInv
    <3>4. CASE ok
      <4>1. log' = Append(log, row) /\ service' = "reading"
        BY <3>1, <3>4 DEF Write
      <4>2. row \in Row
        BY <1>0, <4>1, EndRowType, <2>1
      <4> HIDE DEF row, p, r
      <4>3. QED
        BY <2>1, <2>2, <2>4, <3>2, <3>3, <4>1, <4>2, EndStep
    <3>5. CASE ~ok
      <4>1. log' = log /\ service' = "stopped"
        BY <3>1, <3>5 DEF Write
      <4> HIDE DEF row, p, r
      <4>2. \A q \in Pids : pendingEvents'[q] \in {pendingEvents[q], NoEvent}
        BY <2>1, <2>2
      <4>3. eventSeq' \in Nat /\ eventSeq' >= eventSeq
        BY <1>0, <2>2
      <4>4. QED BY <4>1, <4>2, <4>3, QuietStep
    <3>6. QED BY <3>4, <3>5
  <2>5. QED BY <2>3, <2>4
<1>13. ASSUME NEW c \in CPUs, HandleLost(c) PROVE PairInv'
  <2> DEFINE r   == Head(ring[c])
             ev  == [id |-> eventSeq + 1, pid |-> NoTid, inc |-> 0, mono |-> r.status]
             row == NewRow("proc_loss", ev, r)
  <2>1. UNCHANGED pendingEvents /\ service = "reading"
    BY <1>13 DEF HandleLost, Take, pending
  <2>2. row \in Row
    <3>1. r \in LostRecords
      BY <1>13, TakeLost DEF HandleLost
    <3>2. r \in Record /\ r.status \in Nat /\ eventSeq + 1 \in Nat
      BY <1>0, <3>1 DEF LostRecords, Record
    <3> HIDE DEF r
    <3>3. QED BY <3>2, RowType
  <2>3. row.kind = "proc_loss" /\ row.id = eventSeq + 1
    BY DEF NewRow
  <2>4. \/ UNCHANGED <<log, service, eventSeq>>
        \/ /\ eventSeq' = eventSeq + 1
           /\ \/ log' = Append(log, row) /\ service' = "stopped"
              \/ \E ok \in WriteResults : Write(row, ok)
    BY <1>13 DEF HandleLost, LossEvent
  <2> HIDE DEF r, ev, row
  <2>5. CASE UNCHANGED <<log, service, eventSeq>>
    BY <1>a, <2>1, <2>5
  <2>6. CASE eventSeq' = eventSeq + 1 /\ UNCHANGED log /\ service' # "building"
    <3>1. eventSeq' \in Nat /\ eventSeq' >= eventSeq
      BY <1>0, <2>6
    <3>2. QED BY <2>1, <2>6, <3>1, QuietStep
  <2>7. CASE eventSeq' = eventSeq + 1 /\ log' = Append(log, row) /\ service' # "building"
    <3>1. eventSeq' \in Nat /\ eventSeq' >= eventSeq /\ row.id <= eventSeq'
      BY <1>0, <2>3, <2>7
    <3>2. \A i \in DOMAIN log : log[i].id < row.id
      BY <1>0, <2>3, RowIds DEF PairInv, IdInv, TypeOK
    <3>3. QED BY <2>1, <2>2, <2>3, <2>7, <3>1, <3>2, WriteStep
  <2>8. QED
    BY <2>4, <2>5, <2>6, <2>7 DEF Write
<1>14. CASE Stop
  BY <1>14, <1>a DEF Stop, pending
<1>15. CASE UNCHANGED vars
  BY <1>15, <1>a DEF vars, daemon
<1>16. QED
  BY <1>1, <1>2, <1>3, <1>4, <1>5, <1>6, <1>7, <1>8, <1>9, <1>10, <1>11, <1>12,
     <1>13, <1>14, <1>15 DEF Next, ServiceNext

LEMMA PairCorrect == Spec => []PairInv
<1>1. Init => TypeInv /\ PairInv
  BY InitType, InitPair
<1>2. TypeInv /\ PairInv /\ [Next]_vars => (TypeInv /\ PairInv)'
  BY NextType, NextPair
<1>3. QED
  BY <1>1, <1>2, PTL DEF Spec

\* Every proc_end row joins exactly one proc_start row of its pid, and every
\* proc_start row is ended at most once, however many CPUs, processes and
\* lost samples there are.
THEOREM EndsJoinStarts == Spec => []EndJoinsStart
<1>1. PairInv => EndJoinsStart
  BY DEF PairInv
<1>2. QED
  BY <1>1, PairCorrect, PTL

\* No two proc_start or proc_loss rows have the same event id.
THEOREM EventIdsDistinct == Spec => []IdsDistinct
<1>1. PairInv => IdsDistinct
  BY DEF PairInv
<1>2. QED
  BY <1>1, PairCorrect, PTL

-----------------------------------------------------------------------------
(* One CPU and no loss: the samples reach the event loop in the order they *)
(* were taken in, whatever is filtered and whatever writes fail.           *)
(*                                                                         *)
(* The samples on their way are a set that their times order.  What is     *)
(* remembered of a process at time m is right because of what waits after  *)
(* m: samples of the same process up to the exit of its leader, which      *)
(* either waits too or has not happened.  A step of the kernel adds the    *)
(* newest sample (Pushes), a handler takes the oldest (Pops).              *)

\* The samples that wait in the rings: their times order them.
Waiting == UNION {{ring[c][i] : i \in DOMAIN ring[c]} : c \in CPUs}

\* A ring holds the samples in the order they were taken in, none missing.
Ordered(c) ==
    /\ lost[c] = 0
    /\ \A i \in DOMAIN ring[c] : ring[c][i] \in Samples /\ ring[c][i].mono \in 1 .. clock
    /\ \A i, j \in DOMAIN ring[c] : i < j => ring[c][i].mono < ring[c][j].mono

\* Every ring does, as long as nothing is dropped.
OrderInv == InOrder => \A c \in CPUs : Ordered(c)

\* In order means one ring.
LEMMA WaitingIs ==
    ASSUME TypeInv, InOrder, NEW c \in CPUs
    PROVE  /\ Waiting = {ring[c][i] : i \in DOMAIN ring[c]}
           /\ CPUs = {c}
<1>1. CPUs = {c}
  BY DEF InOrder
<1>2. QED BY <1>1 DEF Waiting

\* A sample that is emitted is the last one waiting.
LEMMA Pushed ==
    ASSUME TypeInv, OrderInv, InOrder', NEW x \in Samples, x.mono = clock + 1,
           NEW c \in CPUs, Output(c, x)
    PROVE  /\ InOrder
           /\ OrderInv'
           /\ Waiting' = Waiting \cup {x}
           /\ \A y \in Waiting : y \in Samples /\ y.mono < x.mono
           /\ clock' = clock + 1
<1>0. /\ CPUs = {c} /\ dropped' = 0 /\ dropped \in Nat /\ clock \in Nat
      /\ ring \in [CPUs -> Seq(Record)] /\ ring[c] \in Seq(Record)
  BY DEF InOrder, TypeInv, TypeOK, KernelTypeOK
<1>1. dropped' = dropped \/ dropped' = dropped + 1
  BY DEF Output
<1>2. dropped = 0
  BY <1>0, <1>1
<1>3. InOrder
  BY <1>0, <1>2 DEF InOrder
<1>4. Ordered(c)
  BY <1>3 DEF OrderInv
<1>5. /\ ring' = [ring EXCEPT ![c] = @ \o <<x>>]
      /\ lost' = [lost EXCEPT ![c] = 0]
      /\ clock' = clock + 1
  <2>1. lost[c] = 0
    BY <1>4 DEF Ordered
  <2>2. dropped' # dropped + 1
    BY <1>0, <1>2
  <2>3. QED BY <2>1, <2>2 DEF Output
<1> DEFINE q == ring[c]
           n == Len(q) + 1
<1>6. x \in Record
  BY DEF Record
<1>7. ring'[c] = Append(q, x) /\ lost'[c] = 0
  <2>1. ring'[c] = q \o <<x>>
    BY <1>0, <1>5
  <2>2. q \o <<x>> = Append(q, x)
    BY <1>0, <1>6
  <2>3. lost'[c] = 0
    BY <1>5 DEF TypeInv, TypeOK, KernelTypeOK
  <2>4. QED BY <2>1, <2>2, <2>3
<1>8. /\ DOMAIN q = 1 .. Len(q) /\ Len(q) \in Nat
      /\ DOMAIN Append(q, x) = 1 .. n
      /\ \A i \in 1 .. Len(q) : Append(q, x)[i] = q[i]
      /\ Append(q, x)[n] = x
  BY <1>0, <1>6
<1>9. \A i \in DOMAIN ring'[c] : i \in DOMAIN q \/ i = n
  BY <1>7, <1>8
<1>10. /\ \A i \in DOMAIN q : i \in DOMAIN ring'[c] /\ ring'[c][i] = q[i] /\ i < n
       /\ n \in DOMAIN ring'[c] /\ ring'[c][n] = x
  BY <1>7, <1>8
<1>11. \A i \in DOMAIN q : q[i] \in Samples /\ q[i].mono \in 1 .. clock
  BY <1>4 DEF Ordered
<1>12. \A i, j \in DOMAIN q : i < j => q[i].mono < q[j].mono
  BY <1>4 DEF Ordered
<1>13. DOMAIN q \subseteq Nat /\ n \in Nat /\ n \notin DOMAIN q
  BY <1>8
<1>20. InOrder' /\ \A d \in CPUs : d = c
  BY <1>0
<1> HIDE DEF q, n
<1>14. Ordered(c)'
  <2>1. \A i \in DOMAIN ring'[c] : ring'[c][i] \in Samples /\ ring'[c][i].mono \in 1 .. clock'
    <3> SUFFICES ASSUME NEW i \in DOMAIN ring'[c]
                 PROVE  ring'[c][i] \in Samples /\ ring'[c][i].mono \in 1 .. clock'
      OBVIOUS
    <3>1. CASE i = n
      BY <1>0, <1>5, <1>10, <3>1
    <3>2. CASE i \in DOMAIN q
      BY <1>0, <1>5, <1>10, <1>11, <3>2
    <3>3. QED BY <1>9, <3>1, <3>2
  <2>2. \A i, j \in DOMAIN ring'[c] : i < j => ring'[c][i].mono < ring'[c][j].mono
    <3> SUFFICES ASSUME NEW i \in DOMAIN ring'[c], NEW j \in DOMAIN ring'[c], i < j
                 PROVE  ring'[c][i].mono < ring'[c][j].mono
      OBVIOUS
    <3>1. CASE i \in DOMAIN q /\ j \in DOMAIN q
      BY <1>10, <1>12, <3>1
    <3>2. CASE i \in DOMAIN q /\ j = n
      BY <1>0, <1>10, <1>11, <3>2
    <3>3. i # n
      BY <1>9, <1>10, <1>13
    <3>4. QED BY <1>9, <3>1, <3>2, <3>3
  <2>3. QED BY <1>7, <2>1, <2>2 DEF Ordered
<1>15. OrderInv'
  BY <1>14, <1>20 DEF OrderInv
<1>16. Waiting = {q[i] : i \in DOMAIN q}
  BY <1>3, WaitingIs DEF q
<1>17. Waiting' = Waiting \cup {x}
  <2>1. Waiting' = {ring'[c][i] : i \in DOMAIN ring'[c]}
    BY <1>0 DEF Waiting
  <2>2. QED BY <2>1, <1>9, <1>10, <1>16
<1>18. \A y \in Waiting : y \in Samples /\ y.mono < x.mono
  BY <1>0, <1>11, <1>16
<1>19. QED BY <1>3, <1>5, <1>15, <1>17, <1>18

\* The sample that is read is the first of those waiting.
LEMMA Popped ==
    ASSUME TypeInv, OrderInv, InOrder', NEW c \in CPUs, NEW type, Take(c, type)
    PROVE  /\ InOrder
           /\ OrderInv'
           /\ Head(ring[c]) \in Samples
           /\ Head(ring[c]) \in Waiting
           /\ Head(ring[c]).type = type
           /\ 0 < Head(ring[c]).mono
           /\ Waiting' = Waiting \ {Head(ring[c])}
           /\ \A y \in Waiting' : y \in Samples /\ Head(ring[c]).mono < y.mono
           /\ UNCHANGED <<threads, clock>>
<1>0. /\ CPUs = {c} /\ UNCHANGED <<threads, clock, lost, dropped>>
      /\ ring' = [ring EXCEPT ![c] = Tail(@)] /\ ring[c] # <<>>
      /\ ring \in [CPUs -> Seq(Record)] /\ ring[c] \in Seq(Record)
      /\ Head(ring[c]).type = type
  BY DEF InOrder, TypeInv, TypeOK, KernelTypeOK, Take
<1>1. InOrder
  BY <1>0 DEF InOrder
<1>2. Ordered(c)
  BY <1>1 DEF OrderInv
<1> DEFINE q == ring[c]
<1>3. ring'[c] = Tail(q)
  BY <1>0
<1>4. /\ Len(q) \in Nat /\ Len(q) > 0 /\ DOMAIN q = 1 .. Len(q) /\ Head(q) = q[1]
      /\ Tail(q) \in Seq(Record)
      /\ Len(Tail(q)) = Len(q) - 1
      /\ \A i \in 1 .. Len(Tail(q)) : Tail(q)[i] = q[i + 1]
  BY <1>0
<1>5. DOMAIN Tail(q) = 1 .. Len(q) - 1
  BY <1>4
<1>6. /\ 1 \in DOMAIN q /\ Head(q) = q[1]
      /\ \A i \in DOMAIN ring'[c] : /\ i \in Nat /\ i + 1 \in DOMAIN q /\ 1 < i + 1
                                    /\ ring'[c][i] = q[i + 1]
      /\ \A i \in DOMAIN q : i = 1 \/ (i - 1 \in DOMAIN ring'[c] /\ ring'[c][i - 1] = q[i])
  BY <1>3, <1>4, <1>5
<1>7. \A i \in DOMAIN q : q[i] \in Samples /\ q[i].mono \in 1 .. clock
  BY <1>2 DEF Ordered
<1>8. \A i, j \in DOMAIN q : i < j => q[i].mono < q[j].mono
  BY <1>2 DEF Ordered
<1> HIDE DEF q
<1>9. \A i, j \in DOMAIN ring'[c] : i < j => i + 1 < j + 1
  BY <1>6
<1>10. Ordered(c)'
  <2>1. lost'[c] = 0
    BY <1>0, <1>2 DEF Ordered
  <2>2. \A i \in DOMAIN ring'[c] : ring'[c][i] \in Samples /\ ring'[c][i].mono \in 1 .. clock
    BY <1>6, <1>7
  <2>3. \A i, j \in DOMAIN ring'[c] : i < j => ring'[c][i].mono < ring'[c][j].mono
    BY <1>6, <1>8, <1>9
  <2>4. clock' = clock
    BY <1>0
  <2>5. QED BY <2>1, <2>2, <2>3, <2>4 DEF Ordered
<1>11. OrderInv'
  BY <1>0, <1>10 DEF OrderInv
<1>12. Waiting = {q[i] : i \in DOMAIN q}
  BY <1>1, WaitingIs DEF q
<1>13. Waiting' = {ring'[c][i] : i \in DOMAIN ring'[c]}
  BY <1>0 DEF Waiting
<1>14. \A i \in DOMAIN ring'[c] : ring'[c][i] \in Samples /\ Head(q).mono < ring'[c][i].mono
  BY <1>6, <1>7, <1>8
<1>15. Waiting' = Waiting \ {Head(q)}
  <2>1. \A i \in DOMAIN ring'[c] : ring'[c][i] # Head(q)
    <3>1. Head(q).mono \in Nat
      BY <1>6, <1>7 DEF Samples
    <3>2. QED BY <1>14, <3>1
  <2>2. QED BY <1>6, <1>12, <1>13, <2>1
<1>16. Head(q) \in Samples /\ Head(q) \in Waiting /\ 0 < Head(q).mono
  <2>1. Head(q).mono \in 1 .. clock
    BY <1>6, <1>7
  <2>2. clock \in Nat
    BY DEF TypeInv, TypeOK, KernelTypeOK
  <2>3. QED BY <1>6, <1>7, <1>12, <2>1, <2>2
<1>17. QED BY <1>0, <1>1, <1>11, <1>13, <1>14, <1>15, <1>16 DEF q

-----------------------------------------------------------------------------
(* What is known of a remembered start.                                    *)

\* From time m to the exit of its leader, process p is the one forked at n.
Same(m, p, n) ==
    /\ \A x \in Waiting : x.tgid = p /\ m < x.mono =>
          \/ x.inc = n
          \/ \E y \in Waiting : LeaderExit(y, p) /\ m < y.mono /\ y.mono < x.mono
    /\ \/ \E y \in Waiting : LeaderExit(y, p) /\ m < y.mono
       \/ Lives(p) /\ born[p] = n

\* Nothing that waits is as old as time m.
Before(m) == m \in 1 .. clock /\ \A x \in Waiting : m < x.mono

\* From the sample of an exec to the exit of its process, whether the sample
\* still waits, is being built or is remembered, its pid has only one user;
\* the time and the statuses kept beside a remembered start are its own.
StartInv ==
    InOrder =>
    /\ \A x \in Waiting : x.type = "Exec" => Same(x.mono, x.tgid, x.inc)
    /\ service = "building" =>
          /\ Same(work.sample.mono, work.sample.tgid, work.sample.inc)
          /\ Before(work.sample.mono)
    /\ \A p \in Pids :
          /\ pendingStartMono[p] = pendingEvents[p].mono
          /\ pendingEvents[p] # NoEvent =>
                /\ Same(pendingEvents[p].mono, p, pendingEvents[p].inc)
                /\ Before(pendingEvents[p].mono)
                /\ \A s \in pendingStatuses[p] : s.inc = pendingEvents[p].inc

\* Sample x, if it is one, is added to those waiting.
Pushes(x) ==
    \/ x = NoRecord /\ Waiting' = Waiting /\ clock' = clock
    \/ /\ x \in Samples /\ x.mono = clock + 1 /\ clock' = clock + 1
       /\ Waiting' = Waiting \cup {x}
       /\ \A y \in Waiting : y.mono < x.mono

\* Sample h, the oldest, is taken from those waiting.
Pops(h) ==
    /\ h \in Samples /\ h \in Waiting /\ 0 < h.mono
    /\ Waiting' = Waiting \ {h}
    /\ \A y \in Waiting' : h.mono < y.mono
    /\ UNCHANGED <<threads, clock>>

LEMMA WaitingType ==
    ASSUME TypeInv, OrderInv, InOrder
    PROVE  clock \in Nat /\ \A x \in Waiting : x \in Samples /\ x.mono \in 1 .. clock
<1>1. PICK c \in CPUs : CPUs = {c}
  BY DEF InOrder
<1>2. QED
  BY <1>1, WaitingIs DEF OrderInv, Ordered, TypeInv, TypeOK, KernelTypeOK

\* A step of the traced processes adds at most one sample, and is one that the
\* lemma on the kernel describes.
LEMMA TracedPushes ==
    ASSUME TypeInv, OrderInv, InOrder', Traced
    PROVE  /\ InOrder /\ OrderInv'
           /\ \E x \in Samples \cup {NoRecord} : Pushes(x) /\ LifeStep(x) /\ Solitary(x)
<1>1. KernelInv
  BY DEF TypeInv, TypeOK, KernelInv
<1>2. PICK x \in Samples \cup {NoRecord} : Emits(x) /\ LifeStep(x) /\ Solitary(x)
  BY <1>1, KernelLife DEF Traced
<1>3. CASE x = NoRecord /\ UNCHANGED rings
  <2>1. InOrder /\ OrderInv'
    BY <1>3 DEF InOrder, OrderInv, Ordered, rings
  <2>2. Pushes(x)
    BY <1>3 DEF Pushes, Waiting, rings
  <2>3. QED BY <1>2, <2>1, <2>2
<1>4. CASE x \in Samples /\ x.mono = clock + 1 /\ \E c \in CPUs : Output(c, x)
  <2>1. PICK c \in CPUs : Output(c, x)
    BY <1>4
  <2>2. InOrder /\ OrderInv' /\ Pushes(x)
    BY <1>4, <2>1, Pushed DEF Pushes
  <2>3. QED BY <1>2, <2>2
<1>5. QED BY <1>2, <1>3, <1>4 DEF Emits

\* A handler takes the oldest sample.
LEMMA TakePops ==
    ASSUME TypeInv, OrderInv, InOrder', NEW c \in CPUs, NEW type, Take(c, type)
    PROVE  InOrder /\ OrderInv' /\ Pops(Head(ring[c])) /\ Head(ring[c]).type = type
BY Popped, Zenon DEF Pops

\* In order, no loss is announced.
LEMMA NoneLost ==
    ASSUME TypeInv, OrderInv, InOrder', NEW c \in CPUs
    PROVE  ~HandleLost(c)
<1> SUFFICES ASSUME HandleLost(c) PROVE FALSE
  OBVIOUS
<1>1. Take(c, "Lost")
  BY DEF HandleLost
<1>2. Head(ring[c]) \in Samples /\ Head(ring[c]).type = "Lost"
  BY <1>1, Popped, Zenon
<1>3. QED BY <1>2 DEF Samples, SampleTypes

\* One user of a pid stays one when a sample is added, and when one is taken
\* that is not the exit of its leader.
LEMMA SamePushed ==
    ASSUME NEW x, Pushes(x), LifeStep(x), NEW p \in Pids, NEW n,
           clock \in Nat, NEW m \in 0 .. clock,
           Same(m, p, n)
    PROVE  Same(m, p, n)'
<1>1. CASE \E y \in Waiting : LeaderExit(y, p) /\ m < y.mono
  BY <1>1 DEF Same, Pushes
<1>2. CASE Lives(p) /\ born[p] = n
  <2>1. \A y \in Waiting : y.tgid = p /\ m < y.mono =>
           \/ y.inc = n
           \/ \E z \in Waiting : LeaderExit(z, p) /\ m < z.mono /\ z.mono < y.mono
    BY DEF Same
  <2>2. (Lives(p)' /\ born'[p] = n) \/ LeaderExit(x, p)
    BY <1>2 DEF LifeStep
  <2>3. x # NoRecord /\ x.tgid = p => x.inc = n
    BY <1>2 DEF LifeStep
  <2>4. LeaderExit(x, p) => x # NoRecord
    BY DEF LeaderExit, NoRecord
  <2>5. x # NoRecord => m < x.mono
    BY DEF Pushes
  <2>6. (\E y \in Waiting : LeaderExit(y, p) /\ m < y.mono)' \/ (Lives(p) /\ born[p] = n)'
    BY <2>2, <2>4, <2>5 DEF Pushes
  <2>7. \A y \in Waiting' : y \in Waiting \/ (y = x /\ x # NoRecord)
    BY DEF Pushes, Samples, SampleTypes, NoRecord
  <2>8. \A y \in Waiting : y \in Waiting'
    BY DEF Pushes
  <2>9. QED BY <2>1, <2>3, <2>6, <2>7, <2>8 DEF Same
<1>3. QED BY <1>1, <1>2 DEF Same

LEMMA SamePopped ==
    ASSUME NEW h, Pops(h), NEW m \in Nat, NEW p \in Pids, NEW n,
           \A y \in Waiting : y \in Samples,
           Same(m, p, n), ~LeaderExit(h, p) \/ h.mono <= m
    PROVE  Same(m, p, n)'
<1>1. \A y \in Waiting : LeaderExit(y, p) /\ m < y.mono => y \in Waiting'
  BY DEF Pops, Samples
<1>2. QED
  BY <1>1 DEF Same, Pops, Lives, threads

LEMMA BeforePushed ==
    ASSUME NEW x, Pushes(x), clock \in Nat, NEW m, Before(m)
    PROVE  Before(m)'
BY DEF Before, Pushes

LEMMA BeforePopped ==
    ASSUME NEW h, Pops(h), NEW m, Before(m)
    PROVE  Before(m)'
BY DEF Before, Pops

\* A step of the traced processes keeps what is known of the starts.
LEMMA StartPushed ==
    ASSUME TypeInv, OrderInv, StartInv, InOrder, InOrder', NEW x, Pushes(x), LifeStep(x),
           UNCHANGED daemon
    PROVE  StartInv'
<1>0. clock \in Nat /\ \A y \in Waiting : y \in Samples /\ y.mono \in 1 .. clock
  BY WaitingType
<1>1. /\ \A y \in Waiting : y.type = "Exec" => Same(y.mono, y.tgid, y.inc)
      /\ service = "building" =>
            /\ Same(work.sample.mono, work.sample.tgid, work.sample.inc)
            /\ Before(work.sample.mono)
      /\ \A p \in Pids :
            /\ pendingStartMono[p] = pendingEvents[p].mono
            /\ pendingEvents[p] # NoEvent =>
                  /\ Same(pendingEvents[p].mono, p, pendingEvents[p].inc)
                  /\ Before(pendingEvents[p].mono)
                  /\ \A s \in pendingStatuses[p] : s.inc = pendingEvents[p].inc
  BY DEF StartInv
<1>2. UNCHANGED <<service, work, pendingEvents, pendingStartMono, pendingStatuses>>
  BY DEF daemon
<1>3. \A m \in 0 .. clock, p \in Pids : \A n : Same(m, p, n) => Same(m, p, n)'
  BY <1>0, SamePushed
<1>4. \A m : Before(m) => Before(m)' /\ m \in 0 .. clock
  BY <1>0, BeforePushed DEF Before
<1>5. \A y \in Waiting' : y.type = "Exec" => Same(y.mono, y.tgid, y.inc)'
  <2> SUFFICES ASSUME NEW y \in Waiting', y.type = "Exec"
               PROVE  Same(y.mono, y.tgid, y.inc)'
    OBVIOUS
  <2>1. CASE y \in Waiting
    <3>1. y.tgid \in Pids /\ y.mono \in 0 .. clock
      BY <1>0, <2>1 DEF Samples
    <3>2. QED BY <1>1, <1>3, <2>1, <3>1
  <2>2. CASE y = x /\ x \in Samples /\ x.mono = clock + 1 /\ \A z \in Waiting : z.mono < x.mono
    <3>1. Lives(x.tgid)' /\ born'[x.tgid] = x.inc
      BY <2>2 DEF LifeStep
    <3>2. \A z \in Waiting' : z = x \/ z.mono < x.mono
      BY <2>2 DEF Pushes
    <3>3. \A z \in Waiting' : ~(x.mono < z.mono)
      BY <1>0, <2>2, <3>2 DEF Pushes, Samples, NoRecord
    <3>4. QED BY <2>2, <3>1, <3>3 DEF Same
  <2>3. QED BY <2>1, <2>2 DEF Pushes
<1>6. service = "building" => Same(work.sample.mono, work.sample.tgid, work.sample.inc)'
  <2>1. service = "building" => work.sample \in Samples
    BY DEF TypeInv, TypeOK, Works
  <2>2. \A y \in Samples : y.tgid \in Pids
    BY DEF Samples
  <2>3. PICK y : y = work.sample
    OBVIOUS
  <2>4. y = work'.sample
    BY <1>2, <2>3
  <2>5. service = "building" => Same(y.mono, y.tgid, y.inc)'
    BY <1>1, <1>3, <1>4, <2>1, <2>2, <2>3
  <2>6. QED BY <2>3, <2>4, <2>5
<1>7. service = "building" => Before(work.sample.mono)'
  <2>1. PICK m : m = work.sample.mono
    OBVIOUS
  <2>2. QED BY <1>1, <1>2, <1>4, <2>1
<1>8. ASSUME NEW p \in Pids, pendingEvents[p] # NoEvent
      PROVE  /\ Same(pendingEvents[p].mono, p, pendingEvents[p].inc)'
             /\ Before(pendingEvents[p].mono)'
  <2>1. PICK ev : ev = pendingEvents[p]
    OBVIOUS
  <2>2. Same(ev.mono, p, ev.inc)' /\ Before(ev.mono)'
    BY <1>1, <1>3, <1>4, <1>8, <2>1
  <2>3. QED BY <1>2, <2>1, <2>2
<1>9. QED BY <1>1, <1>2, <1>5, <1>6, <1>7, <1>8 DEF StartInv

\* So does a step that handles the sample h.
LEMMA StartPopped ==
    ASSUME TypeInv, OrderInv, StartInv, InOrder, InOrder', NEW h, Pops(h),
           service' = "building" => h.type = "Exec" /\ work'.sample = h,
           \A p \in Pids :
              \/ pendingEvents'[p] = NoEvent /\ pendingStartMono'[p] = 0
              \/ /\ ~LeaderExit(h, p)
                 /\ pendingEvents'[p] = pendingEvents[p]
                 /\ pendingStartMono'[p] = pendingStartMono[p]
                 /\ \A s \in pendingStatuses'[p] :
                       s \in pendingStatuses[p] \/ (h.tgid = p /\ s.inc = h.inc)
    PROVE  StartInv'
<1>0. clock \in Nat /\ \A y \in Waiting : y \in Samples /\ y.mono \in 1 .. clock
  BY WaitingType
<1>1. /\ \A y \in Waiting : y.type = "Exec" => Same(y.mono, y.tgid, y.inc)
      /\ \A p \in Pids :
            /\ pendingStartMono[p] = pendingEvents[p].mono
            /\ pendingEvents[p] # NoEvent =>
                  /\ Same(pendingEvents[p].mono, p, pendingEvents[p].inc)
                  /\ Before(pendingEvents[p].mono)
                  /\ \A s \in pendingStatuses[p] : s.inc = pendingEvents[p].inc
  BY DEF StartInv
<1>2. /\ h \in Samples /\ h \in Waiting /\ h.mono \in 1 .. clock
      /\ \A y \in Waiting' : h.mono < y.mono /\ y \in Waiting
      /\ \A y \in Waiting : y = h \/ h.mono < y.mono
  BY <1>0 DEF Pops
<1>3. ASSUME NEW m \in 0 .. clock, NEW p \in Pids, NEW n, Same(m, p, n),
             ~LeaderExit(h, p) \/ h.mono <= m
      PROVE  Same(m, p, n)'
  BY <1>0, <1>3, SamePopped
<1>4. \A y \in Waiting' : y.type = "Exec" => Same(y.mono, y.tgid, y.inc)'
  <2> SUFFICES ASSUME NEW y \in Waiting', y.type = "Exec"
               PROVE  Same(y.mono, y.tgid, y.inc)'
    OBVIOUS
  <2>1. y \in Samples /\ y.tgid \in Pids /\ y.mono \in 0 .. clock /\ h.mono <= y.mono
    BY <1>0, <1>2 DEF Samples
  <2>2. QED BY <1>1, <1>2, <1>3, <2>1
<1>5. service' = "building" => /\ Same(work.sample.mono, work.sample.tgid, work.sample.inc)'
                               /\ Before(work.sample.mono)'
  <2> SUFFICES ASSUME service' = "building"
               PROVE  /\ Same(work.sample.mono, work.sample.tgid, work.sample.inc)'
                      /\ Before(work.sample.mono)'
    OBVIOUS
  <2>1. h.type = "Exec" /\ work'.sample = h /\ h.tgid \in Pids
    BY <1>2 DEF Samples
  <2>2. Same(h.mono, h.tgid, h.inc)
    BY <1>1, <1>2, <2>1
  <2>3. Same(h.mono, h.tgid, h.inc)'
    BY <1>2, <1>3, <2>1, <2>2
  <2>4. Before(h.mono)'
    BY <1>2 DEF Before, Pops
  <2>5. QED BY <2>1, <2>3, <2>4
<1>6. ASSUME NEW p \in Pids
      PROVE  /\ pendingStartMono'[p] = pendingEvents'[p].mono
             /\ pendingEvents'[p] # NoEvent =>
                   /\ Same(pendingEvents[p].mono, p, pendingEvents[p].inc)'
                   /\ Before(pendingEvents[p].mono)'
                   /\ \A s \in pendingStatuses'[p] : s.inc = pendingEvents'[p].inc
  <2>1. CASE pendingEvents'[p] = NoEvent /\ pendingStartMono'[p] = 0
    BY <2>1 DEF NoEvent
  <2>2. CASE /\ ~LeaderExit(h, p)
             /\ pendingEvents'[p] = pendingEvents[p]
             /\ pendingStartMono'[p] = pendingStartMono[p]
             /\ \A s \in pendingStatuses'[p] :
                   s \in pendingStatuses[p] \/ (h.tgid = p /\ s.inc = h.inc)
    <3> PICK ev : ev = pendingEvents[p]
      OBVIOUS
    <3>1. pendingStartMono'[p] = pendingEvents'[p].mono
      BY <1>1, <2>2
    <3> SUFFICES ASSUME ev # NoEvent
                 PROVE  /\ Same(ev.mono, p, ev.inc)' /\ Before(ev.mono)'
                        /\ \A s \in pendingStatuses'[p] : s.inc = ev.inc
      BY <2>2, <3>1
    <3>2. Same(ev.mono, p, ev.inc) /\ Before(ev.mono) /\ ev.mono \in 0 .. clock
      BY <1>1 DEF Before
    <3>3. Same(ev.mono, p, ev.inc)' /\ Before(ev.mono)'
      BY <1>3, <2>2, <3>2, BeforePopped
    <3>4. h.tgid = p => h.inc = ev.inc
      <4>1. ASSUME h.tgid = p, NEW y \in Waiting, y.mono < h.mono PROVE FALSE
        BY <1>0, <1>2, <4>1 DEF Samples
      <4>2. ev.mono < h.mono
        BY <1>2, <3>2 DEF Before
      <4>3. QED BY <1>2, <3>2, <4>1, <4>2 DEF Same
    <3>5. QED BY <1>1, <2>2, <3>3, <3>4
  <2>3. QED BY <2>1, <2>2
<1>7. QED BY <1>4, <1>5, <1>6 DEF StartInv

\* And a step that leaves the samples and the remembered starts alone.
LEMMA StartKept ==
    ASSUME StartInv, UNCHANGED <<kernel, pendingEvents, pendingStartMono, pendingStatuses>>,
           service' = "building" => service = "building" /\ work'.sample = work.sample
    PROVE  StartInv'
BY DEF StartInv, InOrder, Same, Before, Waiting, Lives, kernel

\* Every step keeps what is known of the starts.
LEMMA NextStart ==
    ASSUME TypeInv, OrderInv, StartInv, [Next]_vars
    PROVE  StartInv'
<1> SUFFICES ASSUME InOrder' PROVE StartInv'
  BY DEF StartInv
<1>0. TypeOK
  BY DEF TypeInv
<1>1. CASE Traced
  <2>1. InOrder
    BY <1>1, TracedPushes
  <2>2. PICK x \in Samples \cup {NoRecord} : Pushes(x) /\ LifeStep(x)
    BY <1>1, TracedPushes
  <2>3. QED BY <1>1, <2>1, <2>2, StartPushed DEF Traced
<1>2. CASE Poll
  BY <1>2, StartKept DEF Poll, pending
<1>3. CASE BuildFails
  <2>1. service' = "building" => work'.sample = work.sample
    BY <1>0, <1>3 DEF BuildFails, TypeOK, Works
  <2>2. QED BY <1>3, <2>1, StartKept DEF BuildFails, pending
<1>4. CASE StartFiltered
  BY <1>4, StartKept DEF StartFiltered, pending
<1>5. CASE StartWritten
  <2> PICK r, p : r = work.sample /\ p = r.tgid
    OBVIOUS
  <2>1. r \in Samples /\ p \in Pids /\ r.mono \in Nat
    BY <1>0, <1>5 DEF StartWritten, TypeOK, Works, Samples
  <2> PICK ev : ev = BuildFromPID(r, work.id)
    OBVIOUS
  <2>2. ev.mono = r.mono /\ ev.inc = r.inc
    BY DEF BuildFromPID
  <2>3. PICK ok \in WriteResults :
          /\ Write(NewRow("proc_start", ev, r), ok)
          /\ IF ok
             THEN /\ pendingEvents' = [pendingEvents EXCEPT ![p] = ev]
                  /\ pendingStatuses' = [pendingStatuses EXCEPT ![p] = {}]
                  /\ pendingStartMono' = [pendingStartMono EXCEPT ![p] = ev.mono]
             ELSE UNCHANGED <<pendingEvents, pendingStatuses, pendingStartMono>>
    BY <1>5 DEF StartWritten, RememberExecEvent
  <2>4. UNCHANGED kernel /\ service = "building"
    BY <1>5 DEF StartWritten
  <2>5. service' # "building"
    BY <2>3 DEF Write
  <2>6. CASE ~ok
    BY <2>3, <2>4, <2>5, <2>6, StartKept
  <2>7. CASE ok
    <3>1. InOrder /\ Waiting' = Waiting
      BY <2>4 DEF InOrder, Waiting, kernel
    <3>2. Same(r.mono, p, r.inc) /\ Before(r.mono)
      BY <2>4, <3>1 DEF StartInv
    <3>3. \A m, n, q : Same(m, q, n) => Same(m, q, n)'
      BY <2>4, <3>1 DEF Same, Lives, kernel
    <3>4. \A m : Before(m) => Before(m)'
      BY <2>4, <3>1 DEF Before, kernel
    <3>5. \A x \in Waiting : x.type = "Exec" => Same(x.mono, x.tgid, x.inc)
      BY <3>1 DEF StartInv
    <3>6. \A x \in Waiting' : x.type = "Exec" => Same(x.mono, x.tgid, x.inc)'
      BY <3>1, <3>3, <3>5
    <3>7. ASSUME NEW q \in Pids
          PROVE  /\ pendingStartMono'[q] = pendingEvents'[q].mono
                 /\ pendingEvents'[q] # NoEvent =>
                       /\ Same(pendingEvents[q].mono, q, pendingEvents[q].inc)'
                       /\ Before(pendingEvents[q].mono)'
                       /\ \A s \in pendingStatuses'[q] : s.inc = pendingEvents'[q].inc
      <4> PICK e : e = pendingEvents[q]
        OBVIOUS
      <4>1. /\ pendingStartMono[q] = e.mono
            /\ e # NoEvent => /\ Same(e.mono, q, e.inc)
                              /\ Before(e.mono)
                              /\ \A s \in pendingStatuses[q] : s.inc = e.inc
        BY <3>1 DEF StartInv
      <4>2. CASE q # p
        <5>1. /\ pendingEvents'[q] = e /\ pendingStartMono'[q] = pendingStartMono[q]
              /\ pendingStatuses'[q] = pendingStatuses[q]
          BY <1>0, <2>3, <2>7, <4>2 DEF TypeOK
        <5>2. QED BY <3>3, <3>4, <4>1, <5>1
      <4>3. CASE q = p
        <5>1. /\ pendingEvents'[q] = ev /\ pendingStartMono'[q] = ev.mono
              /\ pendingStatuses'[q] = {}
          BY <1>0, <2>3, <2>7, <4>3 DEF TypeOK
        <5>2. Same(ev.mono, q, ev.inc)' /\ Before(ev.mono)'
          BY <2>2, <3>2, <3>3, <3>4, <4>3
        <5>3. QED BY <5>1, <5>2
      <4>4. QED BY <4>2, <4>3
    <3>8. QED BY <2>5, <3>6, <3>7 DEF StartInv
  <2>8. QED BY <2>6, <2>7
<1>6. ASSUME NEW c \in CPUs, HandleExec(c) PROVE StartInv'
  <2>1. Take(c, "Exec")
    BY <1>6 DEF HandleExec
  <2> PICK h : h = Head(ring[c])
    OBVIOUS
  <2>2. InOrder /\ Pops(h) /\ h.type = "Exec"
    BY <2>1, TakePops
  <2>3. work'.sample = h /\ UNCHANGED <<pendingEvents, pendingStatuses, pendingStartMono>>
    BY <1>6 DEF HandleExec, pending
  <2>4. \A p : ~LeaderExit(h, p)
    BY <2>2 DEF LeaderExit
  <2>5. QED BY <2>2, <2>3, <2>4, StartPopped
<1>7. ASSUME NEW c \in CPUs, HandleExecEnter(c) PROVE StartInv'
  <2> PICK h : h = Head(ring[c])
    OBVIOUS
  <2>1. Take(c, "ExecEnter") /\ UNCHANGED <<service, pendingEvents, pendingStatuses, pendingStartMono>>
    BY <1>7 DEF HandleExecEnter
  <2>2. InOrder /\ Pops(h) /\ h.type = "ExecEnter" /\ service = "reading"
    BY <2>1, TakePops DEF Take
  <2>4. \A p : ~LeaderExit(h, p)
    BY <2>2 DEF LeaderExit
  <2>5. QED BY <2>1, <2>2, <2>4, StartPopped
<1>8. ASSUME NEW c \in CPUs, HandleExecResult(c) PROVE StartInv'
  <2> PICK h : h = Head(ring[c])
    OBVIOUS
  <2>1. Take(c, "ExecResult") /\ UNCHANGED <<pendingEvents, pendingStatuses, pendingStartMono>>
    BY <1>8 DEF HandleExecResult
  <2>2. InOrder /\ Pops(h) /\ h.type = "ExecResult" /\ service = "reading"
    BY <2>1, TakePops DEF Take
  <2>3. service' # "building"
    BY <1>8, <2>2 DEF HandleExecResult, Write
  <2>4. \A p : ~LeaderExit(h, p)
    BY <2>2 DEF LeaderExit
  <2>5. QED BY <2>1, <2>2, <2>3, <2>4, StartPopped
<1>9. ASSUME NEW c \in CPUs, HandleExitGroup(c) PROVE StartInv'
  <2> PICK h : h = Head(ring[c])
    OBVIOUS
  <2>1. /\ Take(c, "ExitGroup") /\ UNCHANGED <<service, pendingEvents, pendingStartMono>>
        /\ pendingStatuses' = [pendingStatuses EXCEPT ![h.tgid] = StatusOf(h)]
    BY <1>9 DEF HandleExitGroup
  <2>2. InOrder /\ Pops(h) /\ h.type = "ExitGroup" /\ service = "reading"
    BY <2>1, TakePops DEF Take
  <2>3. \A p \in Pids : \A s \in pendingStatuses'[p] :
           s \in pendingStatuses[p] \/ (h.tgid = p /\ s.inc = h.inc)
    BY <1>0, <2>1 DEF TypeOK, StatusOf
  <2>4. \A p : ~LeaderExit(h, p)
    BY <2>2 DEF LeaderExit
  <2>5. QED BY <2>1, <2>2, <2>3, <2>4, StartPopped
<1>10. ASSUME NEW c \in CPUs, HandleExitStatus(c) PROVE StartInv'
  <2> PICK h : h = Head(ring[c])
    OBVIOUS
  <2>1. /\ Take(c, "ExitStatus") /\ UNCHANGED <<service, pendingEvents, pendingStartMono>>
        /\ pendingStatuses' = [pendingStatuses EXCEPT ![h.tgid] =
                                  IF @ # {} THEN @ ELSE StatusOf(h)]
    BY <1>10 DEF HandleExitStatus
  <2>2. InOrder /\ Pops(h) /\ h.type = "ExitStatus" /\ service = "reading"
    BY <2>1, TakePops DEF Take
  <2>3. \A p \in Pids : \A s \in pendingStatuses'[p] :
           s \in pendingStatuses[p] \/ (h.tgid = p /\ s.inc = h.inc)
    BY <1>0, <2>1 DEF TypeOK, StatusOf
  <2>4. \A p : ~LeaderExit(h, p)
    BY <2>2 DEF LeaderExit
  <2>5. QED BY <2>1, <2>2, <2>3, <2>4, StartPopped
<1>11. ASSUME NEW c \in CPUs, IgnoreThreadExit(c) PROVE StartInv'
  <2> PICK h : h = Head(ring[c])
    OBVIOUS
  <2>1. /\ Take(c, "ProcessExit") /\ h.tid # h.tgid
        /\ UNCHANGED <<service, pendingEvents, pendingStatuses, pendingStartMono>>
    BY <1>11 DEF IgnoreThreadExit, pending
  <2>2. InOrder /\ Pops(h) /\ service = "reading"
    BY <2>1, TakePops DEF Take
  <2>4. \A p : ~LeaderExit(h, p)
    BY <2>1 DEF LeaderExit
  <2>5. QED BY <2>1, <2>2, <2>4, StartPopped
<1>12. ASSUME NEW c \in CPUs, HandleProcessExit(c) PROVE StartInv'
  <2> PICK h : h = Head(ring[c])
    OBVIOUS
  <2>1. /\ Take(c, "ProcessExit") /\ h.tid = h.tgid
        /\ pendingEvents' = [pendingEvents EXCEPT ![h.tgid] = NoEvent]
        /\ pendingStatuses' = [pendingStatuses EXCEPT ![h.tgid] = {}]
        /\ pendingStartMono' = [pendingStartMono EXCEPT ![h.tgid] = 0]
    BY <1>12 DEF HandleProcessExit, FinalizeEvent
  <2>2. InOrder /\ Pops(h) /\ service = "reading"
    BY <2>1, TakePops DEF Take
  <2>3. service' # "building"
    BY <1>12, <2>2 DEF HandleProcessExit, Write
  <2>4. ASSUME NEW p \in Pids
        PROVE  \/ pendingEvents'[p] = NoEvent /\ pendingStartMono'[p] = 0
               \/ /\ ~LeaderExit(h, p)
                  /\ pendingEvents'[p] = pendingEvents[p]
                  /\ pendingStartMono'[p] = pendingStartMono[p]
                  /\ pendingStatuses'[p] = pendingStatuses[p]
    <3>1. CASE p = h.tgid
      BY <1>0, <2>1, <3>1 DEF TypeOK
    <3>2. CASE p # h.tgid
      BY <1>0, <2>1, <3>2 DEF TypeOK, LeaderExit
    <3>3. QED BY <3>1, <3>2
  <2>5. QED BY <2>2, <2>3, <2>4, StartPopped
<1>13. ASSUME NEW c \in CPUs, HandleLost(c) PROVE StartInv'
  BY <1>13, NoneLost
<1>14. CASE Stop
  BY <1>14, StartKept DEF Stop, pending
<1>15. CASE UNCHANGED vars
  BY <1>15, StartKept DEF vars, daemon
<1>16. QED
  BY <1>1, <1>2, <1>3, <1>4, <1>5, <1>6, <1>7, <1>8, <1>9, <1>10, <1>11, <1>12,
     <1>13, <1>14, <1>15 DEF Next, ServiceNext

-----------------------------------------------------------------------------
(* What is known of a remembered execve attempt.                           *)

\* The execve attempt thread t of process p made at time m comes to an end.
AttemptEnds(m, t, p) ==
    \/ \E y \in Waiting : m < y.mono /\ (LeaderExit(y, p) \/ (y.type = "ExecResult" /\ y.tid = t))
    \/ Lives(p)
    \/ InExecve(t, p)

\* An attempt that waits or is remembered is one that will be forgotten.
AttemptInv ==
    InOrder =>
    /\ \A x \in Waiting : x.type = "ExecEnter" => AttemptEnds(x.mono, x.tid, x.tgid)
    /\ \A t \in Tids : pendingExecve[t] # NoAttempt =>
          /\ AttemptEnds(pendingExecve[t].mono, t, pendingExecve[t].tgid)
          /\ Before(pendingExecve[t].mono)

\* A step of the traced processes keeps it, a step that handles the sample h
\* does, and one that leaves the samples and the attempts alone.
LEMMA AttemptPushed ==
    ASSUME TypeInv, OrderInv, AttemptInv, InOrder, InOrder', NEW x, Pushes(x), LifeStep(x),
           UNCHANGED daemon
    PROVE  AttemptInv'
<1>0. clock \in Nat /\ \A y \in Waiting : y \in Samples /\ y.mono \in 1 .. clock
  BY WaitingType
<1>1. UNCHANGED pendingExecve
  BY DEF daemon
<1>2. ASSUME NEW m \in 0 .. clock, NEW t \in Tids, NEW p \in Pids, AttemptEnds(m, t, p)
      PROVE  AttemptEnds(m, t, p)'
  <2>1. \A y \in Waiting : y \in Waiting'
    BY DEF Pushes
  <2>2. x.type \in {"ExecResult", "ProcessExit"} => x \in Waiting' /\ m < x.mono
    BY <1>0 DEF Pushes, NoRecord
  <2>3. CASE Lives(p)
    BY <2>2, <2>3 DEF LifeStep, AttemptEnds, LeaderExit
  <2>4. CASE InExecve(t, p)
    BY <2>2, <2>4 DEF LifeStep, AttemptEnds
  <2>5. CASE \E y \in Waiting : m < y.mono /\ (LeaderExit(y, p) \/ (y.type = "ExecResult" /\ y.tid = t))
    BY <2>1, <2>5 DEF AttemptEnds
  <2>6. QED BY <1>2, <2>3, <2>4, <2>5 DEF AttemptEnds
<1>3. ASSUME NEW y \in Waiting', y.type = "ExecEnter"
      PROVE  AttemptEnds(y.mono, y.tid, y.tgid)'
  <2>1. CASE y \in Waiting
    <3>1. y.mono \in 0 .. clock /\ y.tid \in Tids /\ y.tgid \in Pids
      BY <1>0, <2>1 DEF Samples
    <3>2. AttemptEnds(y.mono, y.tid, y.tgid)
      BY <1>3, <2>1 DEF AttemptInv
    <3>3. QED BY <1>2, <3>1, <3>2
  <2>2. CASE y = x
    BY <1>3, <2>2 DEF LifeStep, AttemptEnds
  <2>3. QED BY <1>3, <2>1, <2>2 DEF Pushes
<1>4. ASSUME NEW t \in Tids, pendingExecve[t] # NoAttempt
      PROVE  /\ AttemptEnds(pendingExecve[t].mono, t, pendingExecve[t].tgid)'
             /\ Before(pendingExecve[t].mono)'
  <2> PICK a : a = pendingExecve[t]
    OBVIOUS
  <2>1. a.tgid \in Pids
    BY <1>4 DEF TypeInv, TypeOK, Attempts
  <2>2. AttemptEnds(a.mono, t, a.tgid) /\ Before(a.mono)
    BY <1>4 DEF AttemptInv
  <2>3. a.mono \in 0 .. clock
    BY <1>0, <2>2 DEF Before
  <2>4. AttemptEnds(a.mono, t, a.tgid)' /\ Before(a.mono)'
    BY <1>0, <1>2, <2>1, <2>2, <2>3, BeforePushed
  <2>5. QED BY <1>1, <2>4
<1>5. QED BY <1>1, <1>3, <1>4 DEF AttemptInv

LEMMA AttemptPopped ==
    ASSUME TypeInv, OrderInv, AttemptInv, InOrder, InOrder', NEW h, Pops(h),
           \A t \in Tids :
              \/ pendingExecve'[t] = NoAttempt
              \/ /\ pendingExecve'[t] = pendingExecve[t]
                 /\ ~LeaderExit(h, pendingExecve[t].tgid)
                 /\ ~(h.type = "ExecResult" /\ h.tid = t)
              \/ /\ h.type = "ExecEnter" /\ h.tid = t
                 /\ pendingExecve'[t].mono = h.mono
                 /\ pendingExecve'[t].tgid = h.tgid
    PROVE  AttemptInv'
<1>0. clock \in Nat /\ \A y \in Waiting : y \in Samples /\ y.mono \in 1 .. clock
  BY WaitingType
<1>2. /\ h \in Samples /\ h \in Waiting /\ h.mono \in 1 .. clock
      /\ \A y \in Waiting' : h.mono < y.mono /\ y \in Waiting
      /\ \A y \in Waiting : y = h \/ (h.mono < y.mono /\ y \in Waiting')
  BY <1>0 DEF Pops
<1>3. ASSUME NEW m \in 0 .. clock, NEW t \in Tids, NEW p \in Pids, AttemptEnds(m, t, p),
             h.mono <= m \/ (~LeaderExit(h, p) /\ ~(h.type = "ExecResult" /\ h.tid = t))
      PROVE  AttemptEnds(m, t, p)'
  <2>1. UNCHANGED threads
    BY DEF Pops
  <2>2. CASE \E y \in Waiting : m < y.mono /\ (LeaderExit(y, p) \/ (y.type = "ExecResult" /\ y.tid = t))
    <3>1. PICK y \in Waiting : m < y.mono /\ (LeaderExit(y, p) \/ (y.type = "ExecResult" /\ y.tid = t))
      BY <2>2
    <3>2. y \in Waiting'
      BY <1>2, <1>3, <3>1
    <3>3. QED BY <3>1, <3>2 DEF AttemptEnds
  <2>3. CASE Lives(p) \/ InExecve(t, p)
    BY <2>1, <2>3 DEF AttemptEnds, Lives, InExecve, threads
  <2>4. QED BY <1>3, <2>2, <2>3 DEF AttemptEnds
<1>4. ASSUME NEW y \in Waiting', y.type = "ExecEnter"
      PROVE  AttemptEnds(y.mono, y.tid, y.tgid)'
  <2>1. y \in Waiting /\ y.mono \in 0 .. clock /\ y.tid \in Tids /\ y.tgid \in Pids /\ h.mono <= y.mono
    BY <1>0, <1>2, <1>4 DEF Samples
  <2>2. AttemptEnds(y.mono, y.tid, y.tgid)
    BY <1>4, <2>1 DEF AttemptInv
  <2>3. QED BY <1>3, <2>1, <2>2
<1>5. ASSUME NEW t \in Tids, pendingExecve'[t] # NoAttempt
      PROVE  /\ AttemptEnds(pendingExecve[t].mono, t, pendingExecve[t].tgid)'
             /\ Before(pendingExecve[t].mono)'
  <2>1. CASE /\ pendingExecve'[t] = pendingExecve[t]
             /\ ~LeaderExit(h, pendingExecve[t].tgid)
             /\ ~(h.type = "ExecResult" /\ h.tid = t)
    <3> PICK a : a = pendingExecve[t]
      OBVIOUS
    <3>1. a.tgid \in Pids
      BY <1>5, <2>1 DEF TypeInv, TypeOK, Attempts
    <3>2. AttemptEnds(a.mono, t, a.tgid) /\ Before(a.mono) /\ a.mono \in 0 .. clock
      BY <1>0, <1>5, <2>1 DEF AttemptInv, Before
    <3>3. AttemptEnds(a.mono, t, a.tgid)' /\ Before(a.mono)'
      BY <1>3, <2>1, <3>1, <3>2, BeforePopped
    <3>4. QED BY <2>1, <3>3
  <2>2. CASE /\ h.type = "ExecEnter" /\ h.tid = t
             /\ pendingExecve'[t].mono = h.mono
             /\ pendingExecve'[t].tgid = h.tgid
    <3>1. AttemptEnds(h.mono, t, h.tgid) /\ h.tgid \in Pids
      BY <1>2, <2>2 DEF AttemptInv, Samples
    <3>2. AttemptEnds(h.mono, t, h.tgid)'
      BY <1>2, <1>3, <3>1
    <3>3. Before(h.mono)'
      BY <1>2 DEF Before, Pops
    <3>4. QED BY <2>2, <3>2, <3>3
  <2>3. QED BY <1>5, <2>1, <2>2
<1>6. QED BY <1>4, <1>5 DEF AttemptInv

LEMMA AttemptKept ==
    ASSUME AttemptInv, UNCHANGED <<kernel, pendingExecve>>
    PROVE  AttemptInv'
BY DEF AttemptInv, InOrder, AttemptEnds, Before, Waiting, Lives, InExecve, kernel

\* Every step keeps what is known of the attempts.
LEMMA NextAttempt ==
    ASSUME TypeInv, OrderInv, AttemptInv, [Next]_vars
    PROVE  AttemptInv'
<1> SUFFICES ASSUME InOrder' PROVE AttemptInv'
  BY DEF AttemptInv
<1>0. TypeOK
  BY DEF TypeInv
<1>1. CASE Traced
  <2>1. InOrder
    BY <1>1, TracedPushes
  <2>2. PICK x \in Samples \cup {NoRecord} : Pushes(x) /\ LifeStep(x)
    BY <1>1, TracedPushes
  <2>3. QED BY <1>1, <2>1, <2>2, AttemptPushed DEF Traced
<1>2. CASE Poll \/ BuildFails \/ StartFiltered \/ StartWritten \/ Stop \/ UNCHANGED vars
  BY <1>2, AttemptKept DEF Poll, BuildFails, StartFiltered, StartWritten, Stop, pending, vars,
     daemon
<1>3. ASSUME NEW c \in CPUs, NEW type \in SampleTypes \ {"ExecResult"}, Take(c, type),
             ~LeaderExit(Head(ring[c]), Head(ring[c]).tgid), UNCHANGED pendingExecve
      PROVE  AttemptInv'
  <2> PICK h : h = Head(ring[c])
    OBVIOUS
  <2>1. InOrder /\ Pops(h) /\ h.type # "ExecResult"
    BY <1>3, TakePops
  <2>2. \A p : ~LeaderExit(h, p)
    BY <1>3 DEF LeaderExit
  <2>3. QED BY <1>3, <2>1, <2>2, AttemptPopped
<1>4. ASSUME NEW c \in CPUs, HandleExec(c) PROVE AttemptInv'
  BY <1>3, <1>4 DEF HandleExec, Take, pending, LeaderExit, SampleTypes
<1>5. ASSUME NEW c \in CPUs, HandleExitGroup(c) PROVE AttemptInv'
  BY <1>3, <1>5 DEF HandleExitGroup, Take, LeaderExit, SampleTypes
<1>6. ASSUME NEW c \in CPUs, HandleExitStatus(c) PROVE AttemptInv'
  BY <1>3, <1>6 DEF HandleExitStatus, Take, LeaderExit, SampleTypes
<1>7. ASSUME NEW c \in CPUs, IgnoreThreadExit(c) PROVE AttemptInv'
  BY <1>3, <1>7 DEF IgnoreThreadExit, pending, LeaderExit, SampleTypes
<1>8. ASSUME NEW c \in CPUs, HandleExecEnter(c) PROVE AttemptInv'
  <2> PICK h : h = Head(ring[c])
    OBVIOUS
  <2>1. /\ Take(c, "ExecEnter")
        /\ pendingExecve' = [pendingExecve EXCEPT ![h.tid] =
                                [tgid |-> h.tgid, mono |-> h.mono, inc |-> h.inc]]
    BY <1>8 DEF HandleExecEnter
  <2>2. InOrder /\ Pops(h) /\ h.type = "ExecEnter"
    BY <2>1, TakePops
  <2>3. \A p : ~LeaderExit(h, p)
    BY <2>2 DEF LeaderExit
  <2>4. \A t \in Tids : \/ pendingExecve'[t] = pendingExecve[t]
                        \/ /\ h.tid = t
                           /\ pendingExecve'[t].mono = h.mono
                           /\ pendingExecve'[t].tgid = h.tgid
    BY <1>0, <2>1 DEF TypeOK
  <2>5. QED BY <2>2, <2>3, <2>4, AttemptPopped
<1>9. ASSUME NEW c \in CPUs, HandleExecResult(c) PROVE AttemptInv'
  <2> PICK h : h = Head(ring[c])
    OBVIOUS
  <2>1. /\ Take(c, "ExecResult")
        /\ pendingExecve' = [pendingExecve EXCEPT ![h.tid] = NoAttempt]
    BY <1>9 DEF HandleExecResult
  <2>2. InOrder /\ Pops(h) /\ h.type = "ExecResult"
    BY <2>1, TakePops
  <2>3. \A p : ~LeaderExit(h, p)
    BY <2>2 DEF LeaderExit
  <2>4. \A t \in Tids : \/ pendingExecve'[t] = NoAttempt
                        \/ pendingExecve'[t] = pendingExecve[t] /\ h.tid # t
    BY <1>0, <2>1 DEF TypeOK
  <2>5. QED BY <2>2, <2>3, <2>4, AttemptPopped
<1>10. ASSUME NEW c \in CPUs, HandleProcessExit(c) PROVE AttemptInv'
  <2> PICK h : h = Head(ring[c])
    OBVIOUS
  <2>1. /\ Take(c, "ProcessExit")
        /\ pendingExecve' = [t \in Tids |-> IF pendingExecve[t].tgid = h.tgid
                                            THEN NoAttempt ELSE pendingExecve[t]]
    BY <1>10 DEF HandleProcessExit, DropExecAttempts
  <2>2. InOrder /\ Pops(h) /\ h.type = "ProcessExit"
    BY <2>1, TakePops
  <2>3. \A t \in Tids : \/ pendingExecve'[t] = NoAttempt
                        \/ /\ pendingExecve'[t] = pendingExecve[t]
                           /\ ~LeaderExit(h, pendingExecve[t].tgid)
    BY <2>1 DEF LeaderExit
  <2>4. QED BY <2>2, <2>3, AttemptPopped
<1>11. ASSUME NEW c \in CPUs, HandleLost(c) PROVE AttemptInv'
  BY <1>11, NoneLost
<1>12. QED
  BY <1>1, <1>2, <1>4, <1>5, <1>6, <1>7, <1>8, <1>9, <1>10, <1>11 DEF Next, ServiceNext

-----------------------------------------------------------------------------
(* What is known of a remembered status, where processes have one thread.  *)

\* After the status passed at time m process p does nothing but exit.
Sealed(m, p) ==
    \/ \E y \in Waiting :
          /\ LeaderExit(y, p) /\ m < y.mono
          /\ \A z \in Waiting : z.tgid = p /\ m < z.mono => y.mono <= z.mono
    \/ Dying(p) /\ \A z \in Waiting : z.tgid = p => z.mono <= m

\* The last status passed by process p before time m is v: it waits, or it is
\* the one remembered.
Known(m, p, v) ==
    \/ \E x \in Waiting :
          /\ StatusSample(x) /\ x.tgid = p /\ x.mono < m /\ x.status = v
          /\ \A y \in Waiting : y.tgid = p /\ y.mono < m => y.mono <= x.mono
    \/ /\ \A y \in Waiting : y.tgid = p => m <= y.mono
       /\ ~(service = "building" /\ work.sample.tgid = p)
       /\ \E s \in pendingStatuses[p] : s.value = v % 256

\* The exit code the kernel holds, or held when the leader exited, is the last
\* status its process passed.
StatusKnown ==
    /\ \A p \in Pids : Lives(p) /\ code[p] # NoStatus => Known(clock + 1, p, code[p])
    /\ \A x \in Waiting : LeaderExit(x, x.tgid) /\ x.code # NoStatus =>
          Known(x.mono, x.tgid, x.code)

\* A process passes one status and exits.
StatusSealed ==
    /\ \A x \in Waiting : StatusSample(x) => Sealed(x.mono, x.tgid)
    /\ \A p \in Pids : pendingStatuses[p] # {} => Sealed(0, p)

SoloInv == InOrder /\ MaxThreads = 1 => SoloThreads /\ StatusKnown /\ StatusSealed

\* The last status known stays so until a sample of its process is added, and
\* when one is taken (KnownPopped below).
LEMMA KnownPushed ==
    ASSUME NEW x, Pushes(x), NEW p \in Pids, NEW v, clock \in Nat,
           \A y \in Waiting : y \in Samples /\ y.mono \in 1 .. clock,
           NEW m \in 1 .. clock + 1, NEW n \in Nat,
           n = m \/ (m = clock + 1 /\ n = clock' + 1 /\ x.tgid # p),
           Known(m, p, v), UNCHANGED <<service, work, pendingStatuses>>
    PROVE  Known(n, p, v)'
<1>1. \A y \in Waiting' : y.tgid = p /\ y.mono < n => y \in Waiting /\ y.mono < m
  BY DEF Pushes
<1>2. \A y \in Waiting : y \in Waiting' /\ (y.mono < m => y.mono < n)
  BY DEF Pushes
<1>3. (\A y \in Waiting : y.tgid = p => m <= y.mono) => \A y \in Waiting' : y.tgid = p => n <= y.mono
  BY DEF Pushes
<1>4. CASE \E y \in Waiting :
             /\ StatusSample(y) /\ y.tgid = p /\ y.mono < m /\ y.status = v
             /\ \A z \in Waiting : z.tgid = p /\ z.mono < m => z.mono <= y.mono
  BY <1>1, <1>2, <1>4 DEF Known
<1>5. CASE /\ \A y \in Waiting : y.tgid = p => m <= y.mono
           /\ ~(service = "building" /\ work.sample.tgid = p)
           /\ \E s \in pendingStatuses[p] : s.value = v % 256
  BY <1>3, <1>5 DEF Known
<1>6. QED BY <1>4, <1>5 DEF Known

LEMMA SealedPushed ==
    ASSUME NEW x, Pushes(x), SoloStep(x), NEW p \in Pids, clock \in Nat,
           \A y \in Waiting : y \in Samples /\ y.mono \in 1 .. clock,
           NEW m \in 0 .. clock, Sealed(m, p)
    PROVE  Sealed(m, p)'
<1>1. CASE \E y \in Waiting :
             /\ LeaderExit(y, p) /\ m < y.mono
             /\ \A z \in Waiting : z.tgid = p /\ m < z.mono => y.mono <= z.mono
  <2>1. PICK y \in Waiting :
             /\ LeaderExit(y, p) /\ m < y.mono
             /\ \A z \in Waiting : z.tgid = p /\ m < z.mono => y.mono <= z.mono
    BY <1>1
  <2>2. y \in Waiting' /\ \A z \in Waiting' : z.tgid = p /\ m < z.mono => y.mono <= z.mono
    BY <2>1 DEF Pushes, Samples
  <2>3. QED BY <2>1, <2>2 DEF Sealed
<1>2. CASE Dying(p) /\ \A z \in Waiting : z.tgid = p => z.mono <= m
  <2>1. CASE LeaderExit(x, p)
    <3>1. x # NoRecord
      BY <2>1 DEF LeaderExit, NoRecord
    <3>2. x \in Waiting' /\ m < x.mono /\ x.mono \in Nat
      BY <3>1 DEF Pushes
    <3>3. \A z \in Waiting' : z.tgid = p /\ m < z.mono => z = x
      BY <1>2, <3>1 DEF Pushes
    <3>4. QED BY <2>1, <3>2, <3>3 DEF Sealed
  <2>2. CASE Dying(p)' /\ x.tgid # p
    BY <1>2, <2>2 DEF Sealed, Pushes
  <2>3. QED BY <1>2, <2>1, <2>2 DEF SoloStep
<1>3. QED BY <1>1, <1>2 DEF Sealed

\* A step of the traced processes keeps what is known of the statuses.
LEMMA SoloPushed ==
    ASSUME TypeInv, OrderInv, SoloInv, InOrder, InOrder', NEW x, Pushes(x), Solitary(x),
           UNCHANGED daemon
    PROVE  SoloInv'
<1> SUFFICES ASSUME MaxThreads = 1 PROVE SoloThreads' /\ StatusKnown' /\ StatusSealed'
  BY DEF SoloInv
<1>0. clock \in Nat /\ \A y \in Waiting : y \in Samples /\ y.mono \in 1 .. clock
  BY WaitingType
<1>1. SoloThreads /\ StatusKnown /\ StatusSealed
  BY DEF SoloInv
<1>2. SoloThreads' /\ SoloStep(x)
  BY <1>1 DEF Solitary
<1>3. UNCHANGED <<service, work, pendingStatuses>>
  BY DEF daemon
<1>4. x \in Samples \/ x = NoRecord
  BY DEF Pushes
<1>5. ASSUME NEW p \in Pids, Lives(p)', code'[p] # NoStatus
      PROVE  Known(clock + 1, p, code[p])'
  <2> PICK v, n : v = code'[p] /\ n = clock' + 1
    OBVIOUS
  <2>1. CASE Lives(p) /\ code[p] = v /\ x.tgid # p
    <3>1. Known(clock + 1, p, v)
      BY <1>1, <1>5, <2>1 DEF StatusKnown
    <3>2. PICK m \in 1 .. clock + 1 : m = clock + 1
      BY <1>0
    <3>3. n \in Nat
      BY <1>0 DEF Pushes
    <3>4. Known(n, p, v)'
      BY <1>0, <1>3, <2>1, <3>1, <3>2, <3>3, KnownPushed
    <3>5. QED BY <3>4
  <2>2. CASE StatusSample(x) /\ x.tgid = p /\ x.status = v
    <3>1. x # NoRecord
      BY <2>2 DEF StatusSample, NoRecord
    <3>2. x \in Waiting' /\ x.mono < n /\ \A y \in Waiting' : y.mono <= x.mono
      BY <1>0, <3>1 DEF Pushes
    <3>3. Known(n, p, v)'
      BY <2>2, <3>2 DEF Known
    <3>4. QED BY <3>3
  <2>3. QED BY <1>2, <1>5, <2>1, <2>2 DEF SoloStep
<1>6. ASSUME NEW y \in Waiting', LeaderExit(y, y.tgid), y.code # NoStatus
      PROVE  Known(y.mono, y.tgid, y.code)'
  <2>1. CASE y \in Waiting
    <3>1. Known(y.mono, y.tgid, y.code)
      BY <1>1, <1>6, <2>1 DEF StatusKnown
    <3>2. y.mono \in 1 .. clock + 1 /\ y.mono \in Nat /\ y.tgid \in Pids
      BY <1>0, <2>1 DEF Samples
    <3>3. QED BY <1>0, <1>3, <3>1, <3>2, KnownPushed
  <2>2. CASE y = x /\ x \in Samples /\ x.mono = clock + 1
    <3>1. x.tgid \in Pids
      BY <2>2 DEF Samples
    <3>2. Lives(x.tgid) /\ x.code = code[x.tgid]
      BY <1>2, <1>6, <2>2, <3>1 DEF SoloStep
    <3>3. Known(x.mono, x.tgid, x.code)
      BY <1>1, <1>6, <2>2, <3>1, <3>2 DEF StatusKnown
    <3>4. x.mono \in 1 .. clock + 1 /\ x.mono \in Nat
      BY <1>0, <2>2
    <3>5. QED BY <1>0, <1>3, <2>2, <3>1, <3>3, <3>4, KnownPushed
  <2>3. QED BY <2>1, <2>2 DEF Pushes
<1>7. ASSUME NEW y \in Waiting', StatusSample(y)
      PROVE  Sealed(y.mono, y.tgid)'
  <2>1. CASE y \in Waiting
    <3>1. y.tgid \in Pids /\ y.mono \in 0 .. clock
      BY <1>0, <2>1 DEF Samples
    <3>2. Sealed(y.mono, y.tgid)
      BY <1>1, <1>7, <2>1 DEF StatusSealed
    <3>3. QED BY <1>0, <1>2, <3>1, <3>2, SealedPushed
  <2>2. CASE y = x /\ x \in Samples /\ x.mono = clock + 1
    <3>1. x.tgid \in Pids
      BY <2>2 DEF Samples
    <3>2. Dying(x.tgid)'
      BY <1>2, <1>7, <2>2, <3>1 DEF SoloStep
    <3>3. \A z \in Waiting' : z.mono <= x.mono
      BY <1>0, <2>2 DEF Pushes
    <3>4. QED BY <2>2, <3>2, <3>3 DEF Sealed
  <2>3. QED BY <2>1, <2>2 DEF Pushes
<1>8. ASSUME NEW p \in Pids, pendingStatuses[p] # {}
      PROVE  Sealed(0, p)'
  <2>1. Sealed(0, p) /\ 0 \in 0 .. clock
    BY <1>0, <1>1, <1>8 DEF StatusSealed
  <2>2. QED BY <1>0, <1>2, <2>1, SealedPushed
<1>9. QED BY <1>2, <1>3, <1>5, <1>6, <1>7, <1>8 DEF StatusKnown, StatusSealed

\* What handling h may do to the statuses.
StatusStep(h) ==
    /\ service' = "building" => h.type = "Exec" /\ work'.sample = h
    /\ \A p \in Pids :
          \/ LeaderExit(h, p) /\ pendingStatuses'[p] = {}
          \/ /\ h.tgid = p /\ StatusSample(h)
             /\ \/ pendingStatuses'[p] = StatusOf(h)
                \/ pendingStatuses[p] # {} /\ pendingStatuses'[p] = pendingStatuses[p]
          \/ /\ ~LeaderExit(h, p)
             /\ ~(h.tgid = p /\ StatusSample(h))
             /\ pendingStatuses'[p] = pendingStatuses[p]

LEMMA SealedPopped ==
    ASSUME NEW h, Pops(h), NEW m \in Nat, NEW p \in Pids,
           \A y \in Waiting : y \in Samples,
           Sealed(m, p), ~LeaderExit(h, p) \/ h.mono <= m
    PROVE  Sealed(m, p)'
<1>1. \A y \in Waiting : LeaderExit(y, p) /\ m < y.mono => y \in Waiting'
  BY DEF Pops, Samples
<1>2. Dying(p) => Dying(p)'
  BY DEF Dying, Lives, Pops, threads
<1>3. Waiting' \subseteq Waiting
  BY DEF Pops
<1>4. QED
  BY <1>1, <1>2, <1>3 DEF Sealed

LEMMA KnownPopped ==
    ASSUME NEW h, Pops(h), StatusStep(h), NEW p \in Pids, NEW v, NEW m \in Nat, h.mono < m,
           \A y \in Waiting : y \in Samples,
           StatusSealed, Known(m, p, v)
    PROVE  Known(m, p, v)'
<1>0. /\ h \in Samples /\ h \in Waiting /\ Waiting' \subseteq Waiting
      /\ \A y \in Waiting : y = h \/ (y \in Waiting' /\ h.mono < y.mono)
      /\ \A y \in Waiting' : h.mono < y.mono
  BY DEF Pops
<1>a. h.mono \in Nat /\ \A y \in Waiting : y.mono \in Nat
  BY <1>0 DEF Samples
<1>1. CASE \E x \in Waiting :
             /\ StatusSample(x) /\ x.tgid = p /\ x.mono < m /\ x.status = v
             /\ \A y \in Waiting : y.tgid = p /\ y.mono < m => y.mono <= x.mono
  <2>1. PICK x \in Waiting :
             /\ StatusSample(x) /\ x.tgid = p /\ x.mono < m /\ x.status = v
             /\ \A y \in Waiting : y.tgid = p /\ y.mono < m => y.mono <= x.mono
    BY <1>1
  <2>2. CASE x # h
    BY <1>0, <2>1, <2>2 DEF Known
  <2>3. CASE x = h
    <3>1. \A y \in Waiting' : y.tgid = p => m <= y.mono
      BY <1>0, <1>a, <2>1, <2>3
    <3>2. ~(service' = "building" /\ work'.sample.tgid = p)
      BY <2>1, <2>3 DEF StatusStep, StatusSample
    <3>3. ~LeaderExit(h, p) /\ h.tgid = p /\ StatusSample(h)
      BY <2>1, <2>3 DEF StatusSample, LeaderExit
    <3>4. pendingStatuses[p] = {}
      <4>1. SUFFICES ASSUME Sealed(0, p) PROVE FALSE
        BY DEF StatusSealed
      <4>2. ~Dying(p) \/ ~(\A z \in Waiting : z.tgid = p => z.mono <= 0)
        BY <1>0, <1>a, <3>3 DEF Pops
      <4>3. PICK y \in Waiting : LeaderExit(y, p) /\ y.mono <= h.mono
        BY <1>0, <3>3, <4>1, <4>2 DEF Sealed, Pops
      <4>4. QED BY <1>0, <1>a, <3>3, <4>3
    <3>5. pendingStatuses'[p] = StatusOf(h)
      BY <3>3, <3>4 DEF StatusStep
    <3>6. \E s \in pendingStatuses'[p] : s.value = v % 256
      BY <2>1, <2>3, <3>5 DEF StatusOf, Normalize
    <3>7. QED BY <3>1, <3>2, <3>6 DEF Known
  <2>4. QED BY <2>2, <2>3
<1>2. CASE /\ \A y \in Waiting : y.tgid = p => m <= y.mono
           /\ ~(service = "building" /\ work.sample.tgid = p)
           /\ \E s \in pendingStatuses[p] : s.value = v % 256
  <2>1. h.tgid # p
    BY <1>0, <1>2, <1>a
  <2>2. pendingStatuses'[p] = pendingStatuses[p]
    BY <2>1 DEF StatusStep, LeaderExit
  <2>3. ~(service' = "building" /\ work'.sample.tgid = p)
    BY <2>1 DEF StatusStep
  <2>4. QED BY <1>0, <1>2, <2>2, <2>3 DEF Known
<1>3. QED BY <1>1, <1>2 DEF Known

\* A step that handles the sample h keeps it too.
LEMMA SoloPopped ==
    ASSUME TypeInv, OrderInv, SoloInv, InOrder, InOrder', NEW h, Pops(h), StatusStep(h)
    PROVE  SoloInv'
<1> SUFFICES ASSUME MaxThreads = 1 PROVE SoloThreads' /\ StatusKnown' /\ StatusSealed'
  BY DEF SoloInv
<1>0. clock \in Nat /\ \A y \in Waiting : y \in Samples /\ y.mono \in 1 .. clock
  BY WaitingType
<1>1. SoloThreads /\ StatusKnown /\ StatusSealed
  BY DEF SoloInv
<1>2. /\ h \in Samples /\ h \in Waiting /\ Waiting' \subseteq Waiting
      /\ h.mono \in 1 .. clock /\ h.tgid \in Pids
      /\ \A y \in Waiting' : h.mono < y.mono
      /\ UNCHANGED <<threads, clock>>
  BY <1>0 DEF Pops, Samples
<1>3. SoloThreads'
  BY <1>1, <1>2 DEF SoloThreads, Lives, Dying, threads
<1>4. ASSUME NEW p \in Pids, Lives(p)', code'[p] # NoStatus
      PROVE  Known(clock + 1, p, code[p])'
  <2> PICK v, m : v = code'[p] /\ m = clock' + 1
    OBVIOUS
  <2>1. Known(m, p, v)
    BY <1>1, <1>2, <1>4 DEF StatusKnown, Lives, threads
  <2>2. m \in Nat /\ h.mono < m
    BY <1>0, <1>2
  <2>3. Known(m, p, v)'
    BY <1>0, <1>1, <2>1, <2>2, KnownPopped
  <2>4. QED BY <2>3
<1>5. ASSUME NEW y \in Waiting', LeaderExit(y, y.tgid), y.code # NoStatus
      PROVE  Known(y.mono, y.tgid, y.code)'
  <2>1. Known(y.mono, y.tgid, y.code)
    BY <1>1, <1>2, <1>5 DEF StatusKnown
  <2>2. y.mono \in Nat /\ h.mono < y.mono /\ y.tgid \in Pids
    BY <1>0, <1>2 DEF Samples
  <2>3. QED BY <1>0, <1>1, <2>1, <2>2, KnownPopped
<1>6. ASSUME NEW y \in Waiting', StatusSample(y)
      PROVE  Sealed(y.mono, y.tgid)'
  <2>1. Sealed(y.mono, y.tgid)
    BY <1>1, <1>2, <1>6 DEF StatusSealed
  <2>2. y.mono \in Nat /\ h.mono <= y.mono /\ y.tgid \in Pids
    BY <1>0, <1>2 DEF Samples
  <2>3. QED BY <1>0, <2>1, <2>2, SealedPopped
<1>7. ASSUME NEW p \in Pids, pendingStatuses'[p] # {}
      PROVE  Sealed(0, p)'
  <2>1. CASE h.tgid = p /\ StatusSample(h)
    <3>1. Sealed(h.mono, p)
      BY <1>1, <1>2, <2>1 DEF StatusSealed
    <3>2. Sealed(h.mono, p)'
      BY <1>0, <1>2, <3>1, SealedPopped
    <3>3. \A y \in Waiting' : 0 < y.mono /\ h.mono < y.mono
      BY <1>0, <1>2
    <3>4. QED
      <4>1. CASE (\E y \in Waiting :
                    /\ LeaderExit(y, p) /\ h.mono < y.mono
                    /\ \A z \in Waiting : z.tgid = p /\ h.mono < z.mono => y.mono <= z.mono)'
        BY <3>3, <4>1 DEF Sealed
      <4>2. CASE Dying(p)' /\ \A z \in Waiting' : z.tgid = p => z.mono <= h.mono
        <5>1. \A z \in Waiting' : z.tgid # p
          BY <1>0, <1>2, <3>3, <4>2
        <5>2. QED BY <4>2, <5>1 DEF Sealed
      <4>3. QED BY <3>2, <4>1, <4>2 DEF Sealed
  <2>2. CASE ~LeaderExit(h, p) /\ pendingStatuses'[p] = pendingStatuses[p]
    <3>1. Sealed(0, p)
      BY <1>1, <1>7, <2>2 DEF StatusSealed
    <3>2. QED BY <1>0, <2>2, <3>1, SealedPopped
  <2>3. QED BY <1>7, <2>1, <2>2 DEF StatusStep
<1>8. QED BY <1>3, <1>4, <1>5, <1>6, <1>7 DEF StatusKnown, StatusSealed

\* And a step that leaves the samples alone and forgets at most the status of
\* the process whose start it writes.
LEMMA SoloKept ==
    ASSUME TypeInv, OrderInv, SoloInv, UNCHANGED kernel,
           service' = "building" => service = "building" /\ work'.sample = work.sample,
           \A p \in Pids : \/ pendingStatuses'[p] = pendingStatuses[p]
                           \/ /\ pendingStatuses'[p] = {}
                              /\ service = "building" /\ work.sample.tgid = p
    PROVE  SoloInv'
<1> SUFFICES ASSUME InOrder, MaxThreads = 1 PROVE SoloThreads' /\ StatusKnown' /\ StatusSealed'
  BY DEF SoloInv, InOrder, kernel
<1>0. SoloThreads /\ StatusKnown /\ StatusSealed
  BY DEF SoloInv
<1>1. Waiting' = Waiting /\ UNCHANGED <<phase, group, code, clock>>
  BY DEF Waiting, kernel
<1>2. SoloThreads'
  BY <1>0, <1>1 DEF SoloThreads, Lives, Dying
<1>3. \A m, v : \A p \in Pids : Known(m, p, v) => Known(m, p, v)'
  BY <1>1 DEF Known
<1>4. \A m, p : Sealed(m, p) => Sealed(m, p)'
  BY <1>1 DEF Sealed, Dying, Lives
<1>5. StatusSealed'
  BY <1>0, <1>1, <1>4 DEF StatusSealed
<1>6. ASSUME NEW p \in Pids, Lives(p)', code'[p] # NoStatus
      PROVE  Known(clock + 1, p, code[p])'
  <2> PICK v, m : v = code'[p] /\ m = clock' + 1
    OBVIOUS
  <2>1. Known(m, p, v)
    BY <1>0, <1>1, <1>6 DEF StatusKnown, Lives
  <2>2. Known(m, p, v)'
    BY <1>3, <2>1
  <2>3. QED BY <2>2
<1>7. \A x \in Waiting : x.tgid \in Pids
  BY WaitingType DEF Samples
<1>8. QED BY <1>0, <1>1, <1>2, <1>3, <1>5, <1>6, <1>7 DEF StatusKnown

\* Every step keeps what is known of the statuses.
LEMMA NextSolo ==
    ASSUME TypeInv, OrderInv, SoloInv, [Next]_vars
    PROVE  SoloInv'
<1> SUFFICES ASSUME InOrder' PROVE SoloInv'
  BY DEF SoloInv
<1>0. TypeOK
  BY DEF TypeInv
<1>1. CASE Traced
  <2>1. InOrder
    BY <1>1, TracedPushes
  <2>2. PICK x \in Samples \cup {NoRecord} : Pushes(x) /\ Solitary(x)
    BY <1>1, TracedPushes
  <2>3. QED BY <1>1, <2>1, <2>2, SoloPushed DEF Traced
<1>2. CASE Poll
  BY <1>2, SoloKept DEF Poll, pending
<1>3. CASE BuildFails
  <2>1. service' = "building" => work'.sample = work.sample
    BY <1>0, <1>3 DEF BuildFails, TypeOK, Works
  <2>2. QED BY <1>3, <2>1, SoloKept DEF BuildFails, pending
<1>4. CASE StartFiltered
  BY <1>4, SoloKept DEF StartFiltered, pending
<1>5. CASE StartWritten
  <2> PICK p : p = work.sample.tgid
    OBVIOUS
  <2>1. UNCHANGED kernel /\ service = "building" /\ service' # "building"
    BY <1>5 DEF StartWritten, Write
  <2>2. \/ pendingStatuses' = [pendingStatuses EXCEPT ![p] = {}]
        \/ pendingStatuses' = pendingStatuses
    BY <1>5 DEF StartWritten, RememberExecEvent
  <2>3. \A q \in Pids : \/ pendingStatuses'[q] = pendingStatuses[q]
                        \/ pendingStatuses'[q] = {} /\ work.sample.tgid = q
    BY <1>0, <2>2 DEF TypeOK
  <2>4. QED BY <2>1, <2>3, SoloKept
<1>6. ASSUME NEW c \in CPUs, NEW type, Take(c, type), StatusStep(Head(ring[c]))
      PROVE  SoloInv'
  BY <1>6, TakePops, SoloPopped
<1>7. ASSUME NEW c \in CPUs, HandleExec(c) PROVE SoloInv'
  <2>1. Take(c, "Exec") /\ UNCHANGED pendingStatuses /\ work'.sample = Head(ring[c])
    BY <1>7 DEF HandleExec, pending
  <2>2. Head(ring[c]).type = "Exec"
    BY <2>1 DEF Take
  <2>3. StatusStep(Head(ring[c]))
    BY <2>1, <2>2 DEF StatusStep, LeaderExit, StatusSample
  <2>4. QED BY <1>6, <2>1, <2>3
<1>8. ASSUME NEW c \in CPUs, HandleExecEnter(c) PROVE SoloInv'
  <2>1. Take(c, "ExecEnter") /\ UNCHANGED <<service, pendingStatuses>>
    BY <1>8 DEF HandleExecEnter
  <2>2. Head(ring[c]).type = "ExecEnter" /\ service' # "building"
    BY <2>1 DEF Take
  <2>3. StatusStep(Head(ring[c]))
    BY <2>1, <2>2 DEF StatusStep, LeaderExit, StatusSample
  <2>4. QED BY <1>6, <2>1, <2>3
<1>9. ASSUME NEW c \in CPUs, HandleExecResult(c) PROVE SoloInv'
  <2>1. Take(c, "ExecResult") /\ UNCHANGED pendingStatuses
    BY <1>9 DEF HandleExecResult
  <2>2. Head(ring[c]).type = "ExecResult" /\ service' # "building"
    BY <1>9 DEF HandleExecResult, Take, Write
  <2>3. StatusStep(Head(ring[c]))
    BY <2>1, <2>2 DEF StatusStep, LeaderExit, StatusSample
  <2>4. QED BY <1>6, <2>1, <2>3
<1>10. ASSUME NEW c \in CPUs, HandleExitGroup(c) PROVE SoloInv'
  <2> PICK h : h = Head(ring[c])
    OBVIOUS
  <2>1. /\ Take(c, "ExitGroup") /\ UNCHANGED service
        /\ pendingStatuses' = [pendingStatuses EXCEPT ![h.tgid] = StatusOf(h)]
    BY <1>10 DEF HandleExitGroup
  <2>2. h.type = "ExitGroup" /\ service' # "building"
    BY <2>1 DEF Take
  <2>3. StatusStep(h)
    BY <1>0, <2>1, <2>2 DEF StatusStep, LeaderExit, StatusSample, TypeOK
  <2>4. QED BY <1>6, <2>1, <2>3
<1>11. ASSUME NEW c \in CPUs, HandleExitStatus(c) PROVE SoloInv'
  <2> PICK h : h = Head(ring[c])
    OBVIOUS
  <2>1. /\ Take(c, "ExitStatus") /\ UNCHANGED service
        /\ pendingStatuses' = [pendingStatuses EXCEPT ![h.tgid] =
                                  IF @ # {} THEN @ ELSE StatusOf(h)]
    BY <1>11 DEF HandleExitStatus
  <2>2. h.type = "ExitStatus" /\ service' # "building"
    BY <2>1 DEF Take
  <2>3. StatusStep(h)
    BY <1>0, <2>1, <2>2 DEF StatusStep, LeaderExit, StatusSample, TypeOK
  <2>4. QED BY <1>6, <2>1, <2>3
<1>12. ASSUME NEW c \in CPUs, IgnoreThreadExit(c) PROVE SoloInv'
  <2> PICK h : h = Head(ring[c])
    OBVIOUS
  <2>1. /\ Take(c, "ProcessExit") /\ UNCHANGED <<service, pendingStatuses>>
        /\ h.tid # h.tgid
    BY <1>12 DEF IgnoreThreadExit, pending
  <2>2. h.type = "ProcessExit" /\ service' # "building"
    BY <2>1 DEF Take
  <2>3. StatusStep(h)
    BY <2>1, <2>2 DEF StatusStep, LeaderExit, StatusSample
  <2>4. QED BY <1>6, <2>1, <2>3
<1>13. ASSUME NEW c \in CPUs, HandleProcessExit(c) PROVE SoloInv'
  <2> PICK h : h = Head(ring[c])
    OBVIOUS
  <2>1. /\ Take(c, "ProcessExit") /\ h.tid = h.tgid
        /\ pendingStatuses' = [pendingStatuses EXCEPT ![h.tgid] = {}]
    BY <1>13 DEF HandleProcessExit, FinalizeEvent
  <2>2. h.type = "ProcessExit" /\ service' # "building"
    BY <1>13 DEF HandleProcessExit, Take, Write
  <2>3. StatusStep(h)
    BY <1>0, <2>1, <2>2 DEF StatusStep, LeaderExit, StatusSample, TypeOK
  <2>4. QED BY <1>6, <2>1, <2>3
<1>14. ASSUME NEW c \in CPUs, HandleLost(c) PROVE SoloInv'
  BY <1>14, NoneLost
<1>15. CASE Stop
  BY <1>15, SoloKept DEF Stop, pending
<1>16. CASE UNCHANGED vars
  BY <1>16, SoloKept DEF vars, daemon
<1>17. QED
  BY <1>1, <1>2, <1>3, <1>4, <1>5, <1>7, <1>8, <1>9, <1>10, <1>11, <1>12,
     <1>13, <1>14, <1>15, <1>16 DEF Next, ServiceNext

-----------------------------------------------------------------------------
(* The rows.                                                               *)

\* What a proc_end row says is true of the process that exited.
EndExactFor(row) ==
    /\ row.inc = row.by
    /\ \A s \in row.status : s.inc = row.by
    /\ row.duration = row.at - row.mono
    /\ MaxThreads = 1 /\ row.code # NoStatus => \E s \in row.status : s.value = row.code % 256

EndInv == InOrder => \A j \in Ends : EndExactFor(log[j])

\* The inductive invariant.
OrderedInv == TypeInv /\ OrderInv /\ StartInv /\ AttemptInv /\ SoloInv

LEMMA InitOrdered == Init => OrderedInv /\ EndInv
<1> SUFFICES ASSUME Init PROVE OrderedInv /\ EndInv
  OBVIOUS
<1>1. TypeInv
  BY InitType
<1>2. /\ ring = [c \in CPUs |-> <<>>] /\ lost = [c \in CPUs |-> 0]
      /\ phase = [t \in Tids |-> "free"] /\ group = [t \in Tids |-> NoTid]
  BY DEF Init, KernelInit
<1>3. Waiting = {}
  BY <1>2 DEF Waiting
<1>4. OrderInv
  BY <1>2 DEF OrderInv, Ordered
<1>5. StartInv
  BY <1>3 DEF Init, StartInv, NoEvent
<1>6. AttemptInv
  BY <1>3 DEF Init, AttemptInv
<1>7. \A p \in Pids : ~Lives(p)
  BY <1>2, KernelAssumption DEF Lives, NoTid
<1>8. SoloInv
  BY <1>2, <1>3, <1>7 DEF Init, SoloInv, SoloThreads, StatusKnown, StatusSealed
<1>9. EndInv
  BY DEF Init, EndInv, Ends, Rows
<1>10. QED BY <1>1, <1>4, <1>5, <1>6, <1>8, <1>9 DEF OrderedInv

\* Every step keeps the rings in order.
LEMMA NextOrder ==
    ASSUME TypeInv, OrderInv, [Next]_vars
    PROVE  OrderInv'
<1> SUFFICES ASSUME InOrder' PROVE OrderInv'
  BY DEF OrderInv
<1>1. CASE Traced
  BY <1>1, TracedPushes
<1>2. CASE UNCHANGED kernel
  BY <1>2 DEF OrderInv, Ordered, InOrder, kernel
<1>3. ASSUME NEW c \in CPUs, NEW type, Take(c, type) PROVE OrderInv'
  BY <1>3, TakePops
<1>4. QED
  BY <1>1, <1>2, <1>3
     DEF Next, ServiceNext, Poll, BuildFails, StartFiltered, StartWritten, Stop, HandleExec,
         HandleExecEnter, HandleExecResult, HandleExitGroup, HandleExitStatus,
         IgnoreThreadExit, HandleProcessExit, HandleLost, vars

\* The row written for the exit h of a remembered start is exact.
LEMMA EndRowExact ==
    ASSUME OrderedInv, InOrder, NEW h, Pops(h), NEW p \in Pids, LeaderExit(h, p),
           pendingEvents[p] # NoEvent
    PROVE  EndExactFor(EndRow(p, h))
<1>0. /\ h \in Samples /\ h \in Waiting /\ h.mono \in Nat
      /\ \A y \in Waiting : y \in Samples /\ h.mono <= y.mono
  BY WaitingType DEF OrderedInv, Pops, Samples
<1> PICK ev : ev = pendingEvents[p]
  OBVIOUS
<1>1. /\ pendingStartMono[p] = ev.mono /\ Same(ev.mono, p, ev.inc) /\ Before(ev.mono)
      /\ \A s \in pendingStatuses[p] : s.inc = ev.inc
  BY DEF OrderedInv, StartInv
<1>2. ev.mono \in Nat /\ 0 < ev.mono /\ ev.mono < h.mono
  <2>1. clock \in Nat
    BY DEF OrderedInv, TypeInv, TypeOK, KernelTypeOK
  <2>2. QED BY <1>0, <1>1, <2>1 DEF Before
<1>3. h.inc = ev.inc
  <2>1. \A y \in Waiting : ~(y.mono < h.mono)
    BY <1>0 DEF Samples
  <2>2. QED BY <1>0, <1>1, <1>2, <2>1 DEF Same, LeaderExit
<1>4. ComputeDuration(ev.mono, h.mono) = h.mono - ev.mono
  BY <1>2, <1>0 DEF ComputeDuration
<1>5. MaxThreads = 1 /\ h.code # NoStatus => \E s \in pendingStatuses[p] : s.value = h.code % 256
  <2> SUFFICES ASSUME MaxThreads = 1, h.code # NoStatus
               PROVE  \E s \in pendingStatuses[p] : s.value = h.code % 256
    OBVIOUS
  <2>1. Known(h.mono, p, h.code)
    BY <1>0 DEF OrderedInv, SoloInv, StatusKnown, LeaderExit
  <2>2. \A y \in Waiting : ~(y.mono < h.mono)
    BY <1>0 DEF Samples
  <2>3. QED BY <2>1, <2>2 DEF Known
<1>6. EndRow(p, h) =
        [kind |-> "proc_end", id |-> ev.id, pid |-> ev.pid, inc |-> ev.inc,
         mono |-> ev.mono, status |-> pendingStatuses[p],
         duration |-> ComputeDuration(ev.mono, h.mono),
         by |-> h.inc, at |-> h.mono, code |-> h.code]
  <2> DEFINE new == [kind |-> "proc_end", id |-> ev.id, pid |-> ev.pid, inc |-> ev.inc,
               mono |-> ev.mono, status |-> {}, duration |-> 0,
               by |-> h.inc, at |-> h.mono, code |-> h.code]
  <2>1. NewRow("proc_end", pendingEvents[p], h) = new
    BY DEF NewRow
  <2>2. EndRow(p, h) = [new EXCEPT !.status = pendingStatuses[p],
                          !.duration = ComputeDuration(ev.mono, h.mono)]
    BY <1>1, <2>1, Zenon DEF EndRow
  <2>3. QED BY <2>2
<1>7. QED BY <1>1, <1>3, <1>4, <1>5, <1>6 DEF EndExactFor

\* A row is exact, or no proc_end row, and rows stay.
LEMMA NextEnd ==
    ASSUME OrderedInv, EndInv, [Next]_vars
    PROVE  EndInv'
<1> SUFFICES ASSUME InOrder' PROVE EndInv'
  BY DEF EndInv
<1>0. TypeInv /\ OrderInv /\ TypeOK
  BY DEF OrderedInv, TypeInv
<1>a. InOrder
  <2>1. CASE Traced
    BY <1>0, <2>1, TracedPushes
  <2>2. CASE UNCHANGED dropped
    BY <2>2 DEF InOrder
  <2>3. QED
    BY <2>1, <2>2
       DEF Next, ServiceNext, Poll, BuildFails, StartFiltered, StartWritten, Stop, HandleExec,
           HandleExecEnter, HandleExecResult, HandleExitGroup, HandleExitStatus,
           IgnoreThreadExit, HandleProcessExit, HandleLost, vars, Take, kernel
<1>b. CASE UNCHANGED log
  BY <1>a, <1>b DEF EndInv, Ends, Rows
<1>c. ASSUME NEW row, log' = Append(log, row), row.kind = "proc_end" => EndExactFor(row)
      PROVE  EndInv'
  <2>1. /\ DOMAIN log = 1 .. Len(log) /\ DOMAIN log' = 1 .. Len(log) + 1 /\ Len(log) \in Nat
        /\ \A i \in 1 .. Len(log) : log'[i] = log[i]
        /\ log'[Len(log) + 1] = row
    BY <1>0, <1>c DEF TypeOK
  <2>2. \A j \in DOMAIN log' : log'[j] = row \/ (j \in DOMAIN log /\ log'[j] = log[j])
    BY <2>1
  <2>3. QED BY <1>a, <1>c, <2>2 DEF EndInv, Ends, Rows
<1>1. ASSUME NEW row, NEW ok, Write(row, ok), row.kind = "proc_end" => EndExactFor(row)
      PROVE  EndInv'
  BY <1>1, <1>b, <1>c DEF Write
<1>2. CASE Traced \/ Poll \/ BuildFails \/ StartFiltered \/ Stop \/ UNCHANGED vars
  BY <1>2, <1>b DEF Traced, Poll, BuildFails, StartFiltered, Stop, vars, daemon
<1>3. CASE StartWritten
  <2>1. PICK row, ok : Write(row, ok) /\ row.kind = "proc_start"
    BY <1>3 DEF StartWritten, NewRow
  <2>2. QED BY <1>1, <2>1
<1>4. ASSUME NEW c \in CPUs,
             \/ HandleExec(c) \/ HandleExecEnter(c) \/ HandleExitGroup(c)
             \/ HandleExitStatus(c) \/ IgnoreThreadExit(c)
      PROVE  EndInv'
  BY <1>4, <1>b DEF HandleExec, HandleExecEnter, HandleExitGroup, HandleExitStatus,
     IgnoreThreadExit
<1>5. ASSUME NEW c \in CPUs, HandleExecResult(c) PROVE EndInv'
  <2>1. CASE UNCHANGED log
    BY <1>b, <2>1
  <2>2. CASE \E row, ok : Write(row, ok) /\ row.kind = "proc_fail"
    BY <1>1, <2>2
  <2> DEFINE row == NewRow("proc_fail",
                      BuildExecFailureEvent(pendingExecve[Head(ring[c]).tid]), Head(ring[c]))
  <2>3. UNCHANGED log \/ \E ok \in WriteResults : Write(row, ok)
    BY <1>5 DEF HandleExecResult
  <2>4. row.kind = "proc_fail"
    BY DEF NewRow
  <2>5. QED BY <2>1, <2>2, <2>3, <2>4
<1>6. ASSUME NEW c \in CPUs, HandleProcessExit(c) PROVE EndInv'
  <2> PICK h, p : h = Head(ring[c]) /\ p = h.tgid
    OBVIOUS
  <2>1. Take(c, "ProcessExit") /\ h.tid = p
    BY <1>6 DEF HandleProcessExit
  <2>2. Pops(h) /\ h.type = "ProcessExit"
    BY <1>0, <2>1, TakePops
  <2>3. LeaderExit(h, p) /\ p \in Pids
    BY <2>1, <2>2 DEF LeaderExit, Pops, Samples
  <2>4. CASE pendingEvents[p] = NoEvent
    BY <1>6, <1>b, <2>4 DEF HandleProcessExit
  <2>5. CASE pendingEvents[p] # NoEvent
    <3>1. EndExactFor(EndRow(p, h))
      BY <1>a, <2>2, <2>3, <2>5, EndRowExact
    <3>2. \E ok \in WriteResults : Write(EndRow(p, h), ok)
      BY <1>6, <2>5 DEF HandleProcessExit
    <3>3. QED BY <1>1, <3>1, <3>2
  <2>6. QED BY <2>4, <2>5
<1>7. ASSUME NEW c \in CPUs, HandleLost(c) PROVE EndInv'
  BY <1>0, <1>7, NoneLost
<1>8. QED
  BY <1>2, <1>3, <1>4, <1>5, <1>6, <1>7 DEF Next, ServiceNext

LEMMA OrderedCorrect == Spec => [](OrderedInv /\ EndInv)
<1>1. OrderedInv /\ EndInv /\ [Next]_vars => (OrderedInv /\ EndInv)'
  BY NextType, NextOrder, NextStart, NextAttempt, NextSolo, NextEnd DEF OrderedInv
<1>2. QED BY <1>1, InitOrdered, PTL DEF Spec

\* A proc_end row is written for the exit of the process whose exec its
\* proc_start row recorded, however often the pid is reused, as long as the
\* samples come in order and none is lost.
THEOREM EndsOfSameProcess == Spec => []EndOfSameProcess
<1>1. EndInv => EndOfSameProcess
  BY DEF EndInv, EndOfSameProcess, EndExactFor
<1>2. QED BY <1>1, OrderedCorrect, PTL

\* Nor is its status that of an earlier user of the pid.
THEOREM StatusesNotStale == Spec => []StatusNotStale
<1>1. EndInv => StatusNotStale
  BY DEF EndInv, StatusNotStale, EndExactFor
<1>2. QED BY <1>1, OrderedCorrect, PTL

\* Its duration is exact and, for a process with one thread, so is its status.
THEOREM EndsExact == Spec => []EndExact
<1>1. EndInv => EndExact
  BY DEF EndInv, EndExact, ExitStatusExact, DurationExact, EndExactFor
<1>2. QED BY <1>1, OrderedCorrect, PTL

\* With nothing to read no process lives and no attempt is under way.
LEMMA QuietEmpty ==
    ASSUME OrderedInv, InOrder, Quiet
    PROVE  Waiting = {} /\ \A p \in Pids : ~Lives(p) /\ \A t \in Tids : ~InExecve(t, p)
<1>1. Waiting = {}
  BY DEF Quiet, Waiting
<1>2. \A t \in Tids : phase[t] = "free" /\ group[t] = NoTid
  BY DEF Quiet, OrderedInv, TypeInv, GroupsOK
<1>3. QED BY <1>1, <1>2, KernelAssumption DEF Lives, InExecve, NoTid

\* The maps of starts and attempts are empty again when every process is gone
\* and its samples are handled.
THEOREM NothingIsKept == Spec => []NothingKept
<1>1. OrderedInv => NothingKept
  <2> SUFFICES ASSUME OrderedInv, InOrder, Quiet
               PROVE  /\ \A p \in Pids : pendingEvents[p] = NoEvent
                      /\ \A t \in Tids : pendingExecve[t] = NoAttempt
    BY DEF NothingKept
  <2>1. ASSUME NEW p \in Pids PROVE pendingEvents[p] = NoEvent
    BY QuietEmpty DEF OrderedInv, StartInv, Same
  <2>2. ASSUME NEW t \in Tids, pendingExecve[t] # NoAttempt PROVE FALSE
    <3>1. pendingExecve[t].tgid \in Pids
      BY <2>2 DEF OrderedInv, TypeInv, TypeOK, Attempts
    <3>2. AttemptEnds(pendingExecve[t].mono, t, pendingExecve[t].tgid)
      BY <2>2 DEF OrderedInv, AttemptInv
    <3>3. QED BY <3>1, <3>2, QuietEmpty DEF AttemptEnds
  <2>3. QED BY <2>1, <2>2
<1>2. QED BY <1>1, OrderedCorrect, PTL

\* With one thread per process, so are those of statuses and exec times.
THEOREM NoStatusIsKept == Spec => []NoStatusKept
<1>1. OrderedInv => NoStatusKept
  <2> SUFFICES ASSUME OrderedInv, InOrder, Quiet, MaxThreads = 1, NEW p \in Pids
               PROVE  pendingStatuses[p] = {} /\ pendingStartMono[p] = 0
    BY DEF NoStatusKept
  <2>1. pendingEvents[p] = NoEvent /\ pendingStartMono[p] = 0
    BY QuietEmpty DEF OrderedInv, StartInv, Same, NoEvent
  <2>2. pendingStatuses[p] # {} => Sealed(0, p)
    BY DEF OrderedInv, SoloInv, StatusSealed
  <2>3. QED BY <2>1, <2>2, QuietEmpty DEF Sealed, Dying
<1>2. QED BY <1>1, OrderedCorrect, PTL
=============================================================================
