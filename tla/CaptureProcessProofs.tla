------------------------ MODULE CaptureProcessProofs ------------------------
(***************************************************************************)
(* For every set of processes, threads and credentials and every size of   *)
(* the map: ends are notified, samples are sent of registered processes,   *)
(* nobody bypasses the filter and the map is freed.                        *)
(***************************************************************************)
EXTENDS CaptureProcess, TLAPS

\* A leader's thread id is its process's; a worker belongs to a process whose
\* leader is still there, and never takes the process out of the map.
Shape ==
    /\ \A p \in Pids : group[p] \in {p, Nobody}
    /\ \A t \in Tids : pc[t] = "free" <=> group[t] = Nobody
    /\ \A w \in Workers : group[w] # Nobody => group[group[w]] = group[w]
    /\ \A w \in Workers : pc[w] \notin {"remove", "zombie"}

Leaving == {"status", "emitStatus", "exit", "remove", "emitExit", "zombie"}

\* Where main threads end last, nobody is left who could register a process
\* whose leader has begun to end.
LastOut ==
    \A p \in Pids \ orphans : pc[p] \in Leaving => \A w \in Workers : group[w] # p

Passed == {"trace", "register", "emit", "emitStatus", "remove", "emitExit"}

\* What is in the map, or on the way to it or behind it, has matched.
MatchedOnly ==
    /\ \A p \in tracked \ orphans : p \in matched /\ pc[p] \notin {"free", "emitExit", "zombie"}
    /\ \A t \in Tids : pc[t] \in Passed /\ group[t] \notin orphans => group[t] \in matched

\* A process that was sampled stays in the map until its leader takes it out.
EarlyTracked ==
    \A p \in early : pc[p] \notin {"free", "emitExit", "zombie"} => p \in tracked

CaptureInv ==
    /\ TypeOK /\ Shape /\ LastOut /\ MatchedOnly /\ EarlyTracked
    /\ RegisteredBeforeSample /\ ExitNotified /\ NoBypass

\* A new process starts with a clean history, whoever had its pid.
LEMMA ForkInv ==
    ASSUME CaptureInv, NEW p \in Pids, Fork(p)
    PROVE  CaptureInv'
BY CaptureAssumption DEF CaptureInv, Fork, Goto, TypeOK, States, Shape, LastOut, MatchedOnly,
   Passed, EarlyTracked, RegisteredBeforeSample, ExitNotified, NoBypass, Tids, Nobody

\* A pid is free when no thread is left.
LEMMA ReapInv ==
    ASSUME CaptureInv, NEW p \in Pids, Reap(p)
    PROVE  CaptureInv'
BY CaptureAssumption DEF CaptureInv, Reap, Goto, history, TypeOK, States, Shape, LastOut,
   MatchedOnly, Passed, EarlyTracked, RegisteredBeforeSample, ExitNotified, NoBypass, Tids,
   Members

\* New credentials count at the next event.
LEMMA SetuidInv ==
    ASSUME CaptureInv, NEW p \in Pids, NEW i \in Identities, Setuid(p, i)
    PROVE  CaptureInv'
BY CaptureAssumption DEF CaptureInv, Setuid, history, TypeOK, Shape, LastOut, MatchedOnly,
   EarlyTracked, RegisteredBeforeSample, ExitNotified, NoBypass

\* New rules count at the next event.
LEMMA RefreshInv ==
    ASSUME CaptureInv, NEW ids \in SUBSET Identities, Refresh(ids)
    PROVE  CaptureInv'
BY CaptureAssumption DEF CaptureInv, Refresh, history, TypeOK, Shape, LastOut, MatchedOnly,
   EarlyTracked, RegisteredBeforeSample, ExitNotified, NoBypass

\* A new thread belongs to a process whose leader is there.
LEMMA CloneInv ==
    ASSUME CaptureInv, NEW t \in Tids, NEW w \in Workers, Clone(t, w)
    PROVE  CaptureInv'
BY CaptureAssumption DEF CaptureInv, Clone, Goto, history, TypeOK, Shape, LastOut, Leaving,
   MatchedOnly, EarlyTracked, RegisteredBeforeSample, ExitNotified, NoBypass, Tids

\* An event of a process that matches.
LEMMA TraceInv ==
    ASSUME CaptureInv, NEW t \in Tids, Trace(t)
    PROVE  CaptureInv'
BY CaptureAssumption DEF CaptureInv, Trace, Start, Goto, TypeOK, States, Shape, LastOut,
   Leaving, MatchedOnly, EarlyTracked, RegisteredBeforeSample, ExitNotified, NoBypass

\* A registered process need not be registered again.
LEMMA TraceLookupInv ==
    ASSUME CaptureInv, NEW t \in Tids, TraceLookup(t)
    PROVE  CaptureInv'
BY CaptureAssumption DEF CaptureInv, TraceLookup, Goto, history, TypeOK, States, Shape,
   LastOut, Leaving, MatchedOnly, Passed, EarlyTracked, RegisteredBeforeSample, ExitNotified,
   NoBypass

\* A process is in the map before its sample is sent.
LEMMA RegisterInv ==
    ASSUME CaptureInv, NEW t \in Tids, Register(t)
    PROVE  CaptureInv'
BY CaptureAssumption DEF CaptureInv, Register, Goto, history, TypeOK, States, Shape, LastOut,
   Leaving, MatchedOnly, Passed, EarlyTracked, RegisteredBeforeSample, ExitNotified, NoBypass,
   Tids

\* The sample of a registered process.
LEMMA EmitTraceInv ==
    ASSUME CaptureInv, NEW t \in Tids, EmitTrace(t)
    PROVE  CaptureInv'
BY CaptureAssumption DEF CaptureInv, EmitTrace, Goto, TypeOK, States, Shape, LastOut, Leaving,
   MatchedOnly, EarlyTracked, RegisteredBeforeSample, ExitNotified, NoBypass, Tids

\* A leader that ends before a worker leaves an orphan.
LEMMA ExitStatusInv ==
    ASSUME CaptureInv, NEW t \in Tids, ExitStatus(t)
    PROVE  CaptureInv'
BY CaptureAssumption DEF CaptureInv, ExitStatus, Start, Goto, TypeOK, States, Shape, LastOut,
   MatchedOnly, Passed, EarlyTracked, RegisteredBeforeSample, ExitNotified, NoBypass, Tids,
   Members

\* A status sample is sent of a process in the map.
LEMMA StatusLookupInv ==
    ASSUME CaptureInv, NEW t \in Tids, StatusLookup(t)
    PROVE  CaptureInv'
BY CaptureAssumption DEF CaptureInv, StatusLookup, Goto, history, TypeOK, States, Shape,
   LastOut, Leaving, MatchedOnly, Passed, EarlyTracked, RegisteredBeforeSample, ExitNotified,
   NoBypass

\* Whoever is in the map has matched.
LEMMA EmitStatusInv ==
    ASSUME CaptureInv, NEW t \in Tids, EmitStatus(t)
    PROVE  CaptureInv'
BY CaptureAssumption DEF CaptureInv, EmitStatus, Goto, TypeOK, States, Shape, LastOut,
   Leaving, MatchedOnly, Passed, EarlyTracked, RegisteredBeforeSample, ExitNotified, NoBypass

\* A leader that is killed before a worker leaves an orphan.
LEMMA KilledInv ==
    ASSUME CaptureInv, NEW t \in Tids, Killed(t)
    PROVE  CaptureInv'
BY CaptureAssumption DEF CaptureInv, Killed, Start, Goto, TypeOK, States, Shape, LastOut,
   MatchedOnly, Passed, EarlyTracked, RegisteredBeforeSample, ExitNotified, NoBypass, Tids,
   Members

\* An exit sample is sent of a process in the map.
LEMMA ExitLookupInv ==
    ASSUME CaptureInv, NEW t \in Tids, ExitLookup(t)
    PROVE  CaptureInv'
BY CaptureAssumption DEF CaptureInv, ExitLookup, ThreadEnds, Goto, history, TypeOK, States,
   Shape, LastOut, Leaving, MatchedOnly, Passed, EarlyTracked, RegisteredBeforeSample,
   ExitNotified, NoBypass, Tids

\* The leader takes its process out of the map.
LEMMA RemoveInv ==
    ASSUME CaptureInv, NEW t \in Tids, Remove(t)
    PROVE  CaptureInv'
BY CaptureAssumption DEF CaptureInv, Remove, Goto, history, TypeOK, States, Shape, LastOut,
   Leaving, MatchedOnly, Passed, EarlyTracked, RegisteredBeforeSample, ExitNotified, NoBypass,
   Tids

\* The end of a leader is notified.
LEMMA EmitExitInv ==
    ASSUME CaptureInv, NEW t \in Tids, EmitExit(t)
    PROVE  CaptureInv'
BY CaptureAssumption DEF CaptureInv, EmitExit, ThreadEnds, Goto, TypeOK, States, Shape,
   LastOut, Leaving, MatchedOnly, Passed, EarlyTracked, RegisteredBeforeSample, ExitNotified,
   NoBypass, Nobody

\* The invariant holds in every reachable state.
LEMMA CaptureInvariant == Spec => []CaptureInv
<1>1. Init => CaptureInv
  BY CaptureAssumption DEF Init, CaptureInv, TypeOK, States, Shape, LastOut, Leaving,
     MatchedOnly, Passed, EarlyTracked, RegisteredBeforeSample, ExitNotified, NoBypass, Tids,
     Nobody
<1>2. CaptureInv /\ [Next]_vars => CaptureInv'
  <2>1. ASSUME CaptureInv, Next PROVE CaptureInv'
    BY <2>1, ForkInv, ReapInv, SetuidInv, RefreshInv, CloneInv, TraceInv, TraceLookupInv,
       RegisterInv, EmitTraceInv, ExitStatusInv, StatusLookupInv, EmitStatusInv, KilledInv,
       ExitLookupInv, RemoveInv, EmitExitInv DEF Next
  <2>2. ASSUME CaptureInv, UNCHANGED vars PROVE CaptureInv'
    BY <2>2 DEF vars, CaptureInv, TypeOK, Shape, LastOut, MatchedOnly, EarlyTracked,
       RegisteredBeforeSample, ExitNotified, NoBypass
  <2>3. QED BY <2>1, <2>2
<1>3. QED BY <1>1, <1>2, PTL DEF Spec

\* Every process that was sampled has its end notified.
THEOREM EndsAreNotified == Spec => []ExitNotified
<1>1. CaptureInv => ExitNotified
  BY DEF CaptureInv
<1>2. QED BY <1>1, CaptureInvariant, PTL

\* A sample is sent of a registered process only.
THEOREM SamplesAreRegistered == Spec => []RegisteredBeforeSample
<1>1. CaptureInv => RegisteredBeforeSample
  BY DEF CaptureInv
<1>2. QED BY <1>1, CaptureInvariant, PTL

\* Where main threads end last, no exit sample is sent of a process that never
\* matched, whoever had its pid before.
THEOREM NobodyBypasses == Spec => []NoBypass
<1>1. CaptureInv => NoBypass
  BY DEF CaptureInv
<1>2. QED BY <1>1, CaptureInvariant, PTL

\* Where main threads end last, the map holds no process that is gone.
THEOREM MapIsFreed == Spec => []MapFreed
<1>1. CaptureInv => MapFreed
  BY DEF CaptureInv, MatchedOnly, MapFreed
<1>2. QED BY <1>1, CaptureInvariant, PTL
=============================================================================
